\* Payloads of several messages and statuses, redelivered at any time.
SPECIFICATION FairSpec
CONSTANTS
    hola = hola  holaAgain = holaAgain  saludo = saludo  agendar = agendar
    boton = boton  foto = foto  lista = lista
    entregado = entregado  bloqueado = bloqueado  leido = leido
    t1 = t1  t2 = t2  r1 = r1  r2 = r2
    None = None
    Messages = {saludo, agendar, boton, foto, lista}
    Statuses = {entregado, bloqueado, leido}
    Payloads <- MixedPayloads
    Requests = {r1}
    TypeOf <- TypeOfShape
    TextOf <- TextOfShape
    CtaOf <- CtaOfShape
    Quoting = {saludo, lista, boton}
    TimeOf <- TimeOfMessage
    LongTexts = {t2}
    Window = 1
    StatusOf <- StatusByName
    ToolRoundsMax = 2
INVARIANTS
    OneOutcomePerHandling
    CandidatesAreLeftToCapture
PROPERTIES
    ImplementsReports
    RequestsEnd
