\* Two handlers overlap on one candidate's session.
SPECIFICATION Spec
CONSTANTS
    ana = ana  beto = beto  phone1 = phone1
    cv = cv  clip = clip  other = other
    None = None
    Candidates = {ana}
    Phones = {phone1}
    PhoneOf <- PhoneOfAna
    Media = {cv, clip}
    SenderOf <- SenderIsOne
    KindOf <- KindByName
    Fields = {nombre}
    Handlers = {h1, h2}
    ToolRoundsMax = 1
    ToolCallsMax = 1
    ToolsCalled = {"markDataComplete"}
SYMMETRY HandlerSymmetry
INVARIANTS
    SessionsCoherent
    CvKnownToCrm
    NothingLostWithoutFault
    RequestsWereSent
PROPERTY ImplementsReports
