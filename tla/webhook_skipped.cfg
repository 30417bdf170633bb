\* Two equal texts handled at once: both are taken for repeats.
SPECIFICATION Spec
CONSTANTS
    hola = hola  holaAgain = holaAgain  saludo = saludo  agendar = agendar
    boton = boton  foto = foto  lista = lista
    entregado = entregado  bloqueado = bloqueado  leido = leido
    t1 = t1  t2 = t2  r1 = r1  r2 = r2
    None = None
    Messages = {hola, holaAgain}
    Statuses = {}
    Payloads <- TwoTexts
    Requests = {r1, r2}
    TypeOf <- TypeOfShape
    TextOf <- TextOfShape
    CtaOf <- CtaOfShape
    Quoting = {}
    TimeOf <- TimeOfMessage
    LongTexts = {t1}
    Window = 1
    StatusOf <- StatusByName
    ToolRoundsMax = 1
INVARIANT OnlyRepeatsAreSkipped
