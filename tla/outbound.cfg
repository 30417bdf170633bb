\* Every request, whole or lacking a field, asked up to three times.
SPECIFICATION FairSpec
CONSTANTS
    Calls = {c1}
    Requests <- AllRequests
    AttemptsMax = 3
INVARIANTS
    ReportedIsStored
    SentIsInHistory
    ParametersArePresent
PROPERTIES
    EveryRequestEnds
    ImplementsPromises
CHECK_DEADLOCK FALSE
