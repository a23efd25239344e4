SPECIFICATION Spec
CONSTANTS
    t1 = t1
    t2 = t2
    t3 = t3
    a1 = a1
    a2 = a2
    Txs <- ThreeTxs
    Addresses <- TwoAddresses
    AddressOf <- LastOfSecond
    Queries <- Walks
    MaxHeight = 3
    MaxLimit = 2
    MaxChanges = 1
    RequiredConfirmations = 2
CHECK_DEADLOCK FALSE
INVARIANTS
    RangeAnswered
SYMMETRY SameAddress
