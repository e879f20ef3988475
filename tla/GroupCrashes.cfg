SPECIFICATION Spec
CONSTANTS
    Cookies = {c1}
    Attempts = {a1, a2}
    NoAttempt = NoAttempt
    MaxOps = 2
    MaxLeases = 2
    MaxFaults = 0
    OrderlyClient = TRUE
    FreshIds = TRUE
SYMMETRY Symmetry
INVARIANTS
    TypeOK
    AtMostOneUnresolved
    OneOperationPerAttempt
    DurableObjectInVault
    AuthorizedObjectInVault
    ActiveHasVault
    UnresolvedNeverActive
PROPERTIES
    JournalForward
