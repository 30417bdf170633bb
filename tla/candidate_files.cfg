\* One request at a time: candidate, store and CRM, a number on two lines.
SPECIFICATION FilesSpec
CONSTANTS
    ana = ana  cv = cv  clip = clip  reply = reply
    line1 = line1  line2 = line2  phone1 = phone1
    None = None
    Candidates = {ana}
    PhoneOf <- PhoneOfAna
    KindOf <- KindByName
    Fields = {nombre}
    ToolRoundsMax = 1
    ToolCallsMax = 1
    ToolsCalled = {"markDataComplete"}
    Inbound = {cv, clip}
    Outbound = {reply}
    WithMedia = {cv, clip}
    Lines = {line1, line2}
    Numbers = {phone1}
    LineOf <- LineOfMessage
    NumberOf <- NumberOfLine
    TimeOf <- TimeOfMessage
    Sinces = {3, 4}
    ChatIds = {i1, i2, i3}
    Handlers = {h1}
INVARIANTS
    StoreConsistent
    CvFilesAreKept
    VideoFilesAreKept
PROPERTIES
    PurgeLeavesNoFile
    OnlyEmptyChatsDeleted
    PurgedIsForgotten
VIEW WithoutHistory
ACTION_CONSTRAINTS
    FirstNewId
    OneLeftover
