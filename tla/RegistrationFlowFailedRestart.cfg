SPECIFICATION Spec
CONSTANTS
    Count = 1
    MaxSlotRetry = 1
    MaxMailRetry = 2
    TabsMayBeLost = FALSE
INVARIANTS
    AddressNeverReplayed
CHECK_DEADLOCK FALSE
