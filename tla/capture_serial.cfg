\* One handler at a time, two candidates with one number; it always ends.
SPECIFICATION FairSpec
CONSTANTS
    ana = ana  beto = beto  phone1 = phone1
    cv = cv  clip = clip  other = other
    None = None
    Candidates = {ana, beto}
    Phones = {phone1}
    PhoneOf <- PhoneOfBoth
    Media = {cv, clip, other}
    SenderOf <- SenderIsOne
    KindOf <- KindByName
    Fields = {nombre}
    Handlers = {h1}
    ToolRoundsMax = 3
    ToolCallsMax = 2
    ToolsCalled = {"saveCapturedField", "markDataComplete", "markInterviewAccepted"}
INVARIANTS
    OneSessionPerPhone
    CvReportedOnce
PROPERTIES
    ProgressKept
    HandlersFinish
VIEW WithoutHistory
