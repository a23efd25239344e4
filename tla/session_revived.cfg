SPECIFICATION Spec
CONSTANTS
    w1 = w1
    r1 = r1
    r2 = r2
    Wallets <- OneWallet
    Requests <- TwoRequests
    MaxSessions = 2
    MaxNonces = 1
    MaxClock = 1
    MaxFaults = 0
    TokenLife = 2
    SharedSessions <- FirstOnly
CHECK_DEADLOCK FALSE
PROPERTIES
    DeactivationSticks
