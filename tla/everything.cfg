SPECIFICATION Spec
CONSTANTS
    t1 = t1
    t2 = t2
    Txs <- TwoTxs
    MaxLog = 2
    TxLogs <- OneLogEach
    MaxHeight = 3
    MaxForks = 1
    MaxReorgDepth = 2
    Lag = 1
    EventFilter = "anyOf"
    RequiredConfirmations = 2
    StartBlock = 1
    BatchSize = 2
    ReorgDepth = 2
    ConflictOutcomes <- Either
    FaultPoints <- AllCalls
    MaxFaults = 1
    ReorgWhile <- Anywhere
    MaxCrashes = 1
    MaxCursorLosses = 0
PROPERTIES
    OnlyTheTopLeaves
INVARIANTS
    TypeOK
    OvercountBounded
    CountingInv
    CursorWithinChain
SYMMETRY TxSymmetry
