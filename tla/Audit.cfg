SPECIFICATION Spec
CONSTANTS
    Ids = {i1, i2}
    NoId = NoId
    LastDay = 2
    Retention = 1
    MaxLines = 3
    MaxFaults = 2
INVARIANTS
    ChainIntact
    EventOnce
    DeferredKept
