------------------------- MODULE MCProtocolRuntime --------------------------
EXTENDS ProtocolRuntime, TLC

CONSTANTS t1, t2, t3, d1, d2, p1, p2, p3

TwoNodes     == {d1, d2}
ThreeThreads == {t1, t2, t3}
ThreeProcs   == {p1, p2, p3}

RuntimeSymmetry == Permutations(Threads) \cup Permutations(Procs) \cup Permutations(Nodes)
=============================================================================
