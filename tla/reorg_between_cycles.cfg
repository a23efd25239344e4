SPECIFICATION FairSpec
CONSTANTS
    t1 = t1
    t2 = t2
    Txs <- TwoTxs
    MaxLog = 2
    TxLogs <- OneLogEach
    MaxHeight = 4
    MaxForks = 2
    MaxReorgDepth = 2
    Lag = 0
    EventFilter = "anyOf"
    RequiredConfirmations = 4
    StartBlock = 1
    BatchSize = 2
    ReorgDepth = 2
    ConflictOutcomes <- Aborts
    FaultPoints <- NotTheCursor
    MaxFaults = 1
    ReorgWhile <- BetweenCycles
    MaxCrashes = 0
    MaxCursorLosses = 0
INVARIANTS
    MatchInv
PROPERTIES
    ImplementsIndex
    CycleLeavesMatch
    NoStalePending
    ConfirmationsNeverDecrease
    CatchesUp
    OrphansLeave
