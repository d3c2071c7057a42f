SPECIFICATION Spec
CONSTANTS
    Count = 1
    MaxSlotRetry = 1
    MaxMailRetry = 1
    TabsMayBeLost = TRUE
INVARIANTS
    CodeNeverReplayed
CHECK_DEADLOCK FALSE
