SPECIFICATION Spec
CONSTANTS
    Window = 1
    MaxSigned = 2
    MaxFaults = 0
INVARIANTS RetryPossible
