\* Two commands for one candidate, one for nobody, and statuses at any time.
SPECIFICATION FairSpec
CONSTANTS
    ana = ana
    first = first  again = again  nobodys = nobodys
    None = None
    Candidates = {ana}
    Commands = {first, again, nobodys}
    CandidateOf <- CandidateOfCommand
    Messages = {m1, m2}
    Webhooks = {w1}
    RawStatuses = {"failed"}
INVARIANTS
    OneResult
    SentIsTracked
    StatusesAreOwn
    FailedMeansUnsent
PROPERTIES
    ResultReported
    StatusReported
