\* A reply in flight brings the session of a removed candidate back.
SPECIFICATION Spec
CONSTANTS
    ana = ana  beto = beto  phone1 = phone1
    cv = cv  clip = clip  other = other
    None = None
    Candidates = {ana}
    Phones = {phone1}
    PhoneOf <- PhoneOfAna
    Media = {cv}
    SenderOf <- SenderIsOne
    KindOf <- KindByName
    Fields = {nombre}
    Handlers = {h1, h2}
    ToolRoundsMax = 1
    ToolCallsMax = 1
    ToolsCalled = {"markDataComplete"}
PROPERTY OnlyCapturesCreate
