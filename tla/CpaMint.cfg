SPECIFICATION FairSpec
CONSTANTS
    Workers = {w1, w2}
    Accounts = {a, b, c}
    Nobody = nobody
    RecycleEvery = 2
    Proxies = {"p"}
INVARIANTS
    OwnCredential
    NoBrowserLost
PROPERTIES
    CancelEndsMint
CHECK_DEADLOCK FALSE
