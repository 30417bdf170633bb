\* A client lists page by page, or streams a file, while the store changes.
SPECIFICATION FairSpec
CONSTANTS
    Ids = {1, 2, 3, 4}
    Times = {1, 2}
    PageMax = 2
    Sizes = {0, 2, 3}
    RangeBounds = {0, 1, 2, 3}
    Readers = {x1}
    Empty = Empty
INVARIANTS
    OrderlyScanIsComplete
    RangeAsAsked
PROPERTIES
    ScanEnds
    ReaderAnswered
