SPECIFICATION IndexerSpec
CONSTANTS
    t1 = t1
    t2 = t2
    r1 = r1
    r2 = r2
    Txs <- TwoTxs
    MaxLog = 2
    TxLogs <- TwoLogsInOne
    MaxHeight = 3
    MaxForks = 0
    MaxReorgDepth = 2
    Lag = 0
    EventFilter = "anyOf"
    RequiredConfirmations = 2
    StartBlock = 1
    BatchSize = 2
    ReorgDepth = 2
    ConflictOutcomes <- Either
    FaultPoints <- AtCursor
    MaxFaults = 1
    ReorgWhile <- Anywhere
    MaxCrashes = 1
    MaxCursorLosses = 0
    Requests <- TwoRequests
    DirectTxs <- OnlyFirst
    MaxRequestFaults = 1
    EarlyRequests = FALSE
PROPERTIES
    TopLeavesFirst
INVARIANTS
    RequestTypeOK
    FoundIsIndexed
    IndexerInv
    NoGap
SYMMETRY RequestSymmetry
