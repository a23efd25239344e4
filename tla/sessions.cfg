SPECIFICATION Spec
CONSTANTS
    w1 = w1
    r1 = r1
    r2 = r2
    Wallets <- OneWallet
    Requests <- TwoRequests
    MaxSessions = 2
    MaxNonces = 2
    MaxClock = 2
    MaxFaults = 1
    TokenLife = 2
    SharedSessions <- FirstOnly
SYMMETRY RequestSymmetry
CHECK_DEADLOCK FALSE
INVARIANTS
    TypeOK
    NoFalseReplay
    SessionsUsable
PROPERTIES
    NonceSpentOnce
