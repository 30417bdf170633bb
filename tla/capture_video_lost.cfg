\* A session done whose video was never reported.
SPECIFICATION Spec
CONSTANTS
    ana = ana  beto = beto  phone1 = phone1
    cv = cv  clip = clip  other = other
    None = None
    Candidates = {ana}
    Phones = {phone1}
    PhoneOf <- PhoneOfAna
    Media = {cv, clip}
    SenderOf <- SenderIsOne
    KindOf <- KindByName
    Fields = {nombre}
    Handlers = {h1}
    ToolRoundsMax = 1
    ToolCallsMax = 1
    ToolsCalled = {"markDataComplete"}
INVARIANT DoneIsReported
