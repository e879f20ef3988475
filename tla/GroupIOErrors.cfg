SPECIFICATION Spec
CONSTANTS
    Cookies = {c1}
    Attempts = {a1, a2}
    NoAttempt = NoAttempt
    MaxOps = 2
    MaxLeases = 1
    MaxFaults = 2
    OrderlyClient = FALSE
    FreshIds = FALSE
SYMMETRY Symmetry
INVARIANTS
    CommitClassifiable
    DurableObjectKept
