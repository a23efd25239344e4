SPECIFICATION Spec
CONSTANTS
    t1 = t1
    t2 = t2
    Txs <- TwoTxs
    MaxLog = 2
    TxLogs <- TwoLogsInOne
    MaxHeight = 4
    MaxForks = 0
    MaxReorgDepth = 2
    Lag = 0
    EventFilter = "anyOf"
    RequiredConfirmations = 2
    StartBlock = 1
    BatchSize = 2
    ReorgDepth = 2
    ConflictOutcomes <- Either
    FaultPoints <- AllCalls
    MaxFaults = 2
    ReorgWhile <- Nowhere
    MaxCrashes = 2
    MaxCursorLosses = 1
PROPERTIES
    ImplementsIndex
INVARIANTS
    NoGap
    GapInv
    ClaimInv
