\* Two calls overlap in the store: a document is received any number of times
\* from a number that is purged, and a later reply is sent to another one; or
\* a picture follows on another line, and a purge of both fails half-way.
SPECIFICATION FairSpec
CONSTANTS
    doc = doc  pic = pic  reply = reply
    line1 = line1  line2 = line2  line3 = line3  h1 = h1  h2 = h2
    phone1 = phone1  phone2 = phone2
    None = None
    Inbound = {doc, pic}
    Outbound = {reply}
    WithMedia = {doc, pic}
    Lines = {line1, line2, line3}
    Numbers = {phone1, phone2}
    LineOf <- LineOfMessage
    NumberOf <- NumberOfLine
    TimeOf <- TimeOfMessage
    Sinces = {4}
    ChatIds = {i1, i2, i3, i4}
    Handlers = {h1, h2}
INVARIANTS
    LinkedFilesExist
    RowsHangFromTheirLine
PROPERTIES
    RowsAreNotReplaced
    ReceivedIsStored
    ImplementsArchive
ACTION_CONSTRAINTS
    FirstNewId
    DocumentPurged
    ApartFromLoose
    PictureApart
    ReplyFirst
