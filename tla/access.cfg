SPECIFICATION TrackerSpec
CONSTANTS
    r1 = r1
    r2 = r2
    e1 = e1
    e2 = e2
    Requests <- TwoRequests
    Endpoints <- TwoEndpoints
    Threshold = 3
    Window = 2
    BlockTime = 7
    MaxFaults = 1
INVARIANTS
    TrackerTypeOK
    CounterHonest
    OvershootBounded
PROPERTIES
    FreshAfterBlock
    BlockEnds
