SPECIFICATION FairSpec
CONSTANTS
    t1 = t1
    t2 = t2
    Txs <- TwoTxs
    MaxLog = 2
    TxLogs <- OneLogEach
    MaxHeight = 4
    MaxForks = 1
    MaxReorgDepth = 2
    Lag = 0
    EventFilter = "anyOf"
    RequiredConfirmations = 2
    StartBlock = 1
    BatchSize = 2
    ReorgDepth = 2
    ConflictOutcomes = {"upserted"}
    FaultPoints = {"check"}
    MaxFaults = 1
    ReorgWhile <- BetweenCycles
    MaxCrashes = 0
    MaxCursorLosses = 0
PROPERTIES
    OrphansLeave
