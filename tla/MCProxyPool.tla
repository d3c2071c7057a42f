---------------------------- MODULE MCProxyPool ----------------------------
(* Small instances of ProxyPool for TLC. *)
EXTENDS ProxyPool, TLC

CONSTANTS n1, n2, w1, w2, w3, file, subscription

OneNode      == {n1}
TwoNodes     == {n1, n2}
TwoWorkers   == {w1, w2}
ThreeWorkers == {w1, w2, w3}
NoneRotating == {}
OneRotating  == {n2}
OneSource    == {file}
TwoSources   == {file, subscription}

PoolSymmetry == Permutations(Workers) \cup Permutations(Sources)
=============================================================================
