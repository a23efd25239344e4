SPECIFICATION FetchSpec
CONSTANTS
    Urls = 3
    NodeErrors <- ListedAndNot
    MaxNodeChanges = 2
    Scale = 2
    MaxScale = 4
    MaxStored = 10000
    Logs <- AllLogs
    MaxBatch = 2
CHECK_DEADLOCK FALSE
INVARIANTS
    FetchTypeOK
    AmountsScaled
    FallbackConsistent
PROPERTIES
    BatchStored
    RequestAnswered
