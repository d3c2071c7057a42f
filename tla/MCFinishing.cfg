SPECIFICATION Spec
CONSTANTS
    Accounts = {a, b}
    Others = {old}
    Nobody = nobody
    Pages <- CleanAndMarked
    GateEnabled = TRUE
    MaxBlind = 1
    MaxLogin = 2
INVARIANTS
    DeniedRecorded
    RejectedOnce
    PublishedOnlyIfKept
    RowsTruthful
PROPERTIES
    TokensStay
SYMMETRY Symmetry
CHECK_DEADLOCK FALSE
