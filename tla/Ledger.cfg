SPECIFICATION Spec
CONSTANTS
    Window = 1
    MaxSigned = 4
    MaxFaults = 2
INVARIANTS SingleUse ApprovalsDistinct ConsumedBeforeUnwrap OpenedApproved
