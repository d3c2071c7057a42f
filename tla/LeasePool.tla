----------------------------- MODULE LeasePool -----------------------------
(***************************************************************************)
(* What the proxy pool promises to the registration workers, and nothing   *)
(* else: a worker holds at most one slot, a slot belongs to one node, and  *)
(* a node never has more than Capacity slots out at once.  The detailed    *)
(* manager (ProxyPool) implements this specification whatever its          *)
(* refreshes, probes, failures and timeouts do.                            *)
(***************************************************************************)
EXTENDS Naturals, FiniteSets

CONSTANTS Workers,    \* registration threads
          Nodes,      \* proxy nodes
          Capacity,   \* slots of one node (proxy_pool_max_concurrent_per_node)
          NoNode      \* the worker holds no slot

VARIABLE holder       \* holder[w]: the node whose slot worker w occupies

SlotsOf(n) == {w \in Workers : holder[w] = n}

Init == holder = [w \in Workers |-> NoNode]

Take(w, n) ==
    /\ holder[w] = NoNode
    /\ Cardinality(SlotsOf(n)) < Capacity
    /\ holder' = [holder EXCEPT ![w] = n]

Return(w) ==
    /\ holder[w] # NoNode
    /\ holder' = [holder EXCEPT ![w] = NoNode]

Next == \E w \in Workers : Return(w) \/ \E n \in Nodes : Take(w, n)

Spec == Init /\ [][Next]_holder

=============================================================================
