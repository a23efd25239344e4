SPECIFICATION FairSpec
CONSTANTS
    t1 = t1
    t2 = t2
    Txs <- TwoTxs
    MaxLog = 2
    TxLogs <- OneLogEach
    MaxHeight = 3
    MaxForks = 0
    MaxReorgDepth = 2
    Lag = 0
    EventFilter = "inOrder"
    RequiredConfirmations = 2
    StartBlock = 1
    BatchSize = 2
    ReorgDepth = 2
    ConflictOutcomes <- Aborts
    FaultPoints <- Nowhere
    MaxFaults = 0
    ReorgWhile <- Nowhere
    MaxCrashes = 0
    MaxCursorLosses = 0
PROPERTIES
    CatchesUp
