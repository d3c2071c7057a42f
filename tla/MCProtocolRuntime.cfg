SPECIFICATION Spec
CONSTANTS
    Threads <- ThreeThreads
    Nodes <- TwoNodes
    Procs <- ThreeProcs
    CacheMax = 1
    t1 = t1  t2 = t2  t3 = t3
    d1 = d1  d2 = d2
    p1 = p1  p2 = p2  p3 = p3
    NoProc = NoProc
SYMMETRY RuntimeSymmetry
INVARIANTS
    RefsMatchHolders
    LeasedNotStopped
    NoneLeftBehind
    WaitersHaveStarter
