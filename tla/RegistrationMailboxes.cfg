SPECIFICATION BatchSpec
CONSTANTS
    Count = 2
    MaxSlotRetry = 1
    MaxMailRetry = 2
    TabsMayBeLost = TRUE
    Accounts = {a1, a2}
    NoAccount = NoAccount
    Workers = {k1, k2, k3}
    Self = k1
INVARIANTS
    CountersMatchRows
    ConfirmedNeverReplayed
    ReturnedMailboxesUnused
    OneUser
    SubmittedNotReused
    NoSessionLeft
PROPERTIES
    ReplayNeedsRestart
    BatchEnds
CHECK_DEADLOCK FALSE
