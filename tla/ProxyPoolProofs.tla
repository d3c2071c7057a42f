-------------------------- MODULE ProxyPoolProofs --------------------------
(***************************************************************************)
(* Proofs about ProxyPool for any nodes, workers, sources and capacity:    *)
(* its slot accounting is exact, no node exceeds its capacity, the nodes   *)
(* that take new leases are those the sources list, and it implements      *)
(* LeasePool.  PoolInv is inductive; SlotPhases is what makes it so,       *)
(* because only a worker that is known to hold no slot (or to hold one)    *)
(* changes the set of holders by exactly one element.                      *)
(***************************************************************************)
EXTENDS ProxyPool, FiniteSetTheorems, TLAPS

USE ConstantsAssumption

-----------------------------------------------------------------------------
(* What taking and giving back a slot do to the holders of each node.      *)

\* Taking a slot of n adds one holder to n and none to any other node.
LEMMA HoldersGain ==
    ASSUME NEW w \in Workers, NEW n \in Nodes,
           on \in [Workers -> Nodes \cup {NoNode}],
           on[w] = NoNode, on' = [on EXCEPT ![w] = n]
    PROVE  /\ Cardinality(Holders(n)') = Cardinality(Holders(n)) + 1
           /\ \A m \in Nodes \ {n} : Holders(m)' = Holders(m)
<1>1. IsFiniteSet(Holders(n))
  BY FS_Subset DEF Holders
<1>2. w \notin Holders(n) /\ Holders(n)' = Holders(n) \cup {w}
  BY DEF Holders
<1>3. \A m \in Nodes \ {n} : Holders(m)' = Holders(m)
  BY DEF Holders
<1>. QED
  BY <1>1, <1>2, <1>3, FS_AddElement

\* Giving back the slot w has on n takes one holder from n only.
LEMMA HoldersLose ==
    ASSUME NEW w \in Workers, NEW n \in Nodes,
           on \in [Workers -> Nodes \cup {NoNode}],
           on[w] = n, on' = [on EXCEPT ![w] = NoNode]
    PROVE  /\ Cardinality(Holders(n)') = Cardinality(Holders(n)) - 1
           /\ Cardinality(Holders(n)) \in Nat \ {0}
           /\ \A m \in Nodes \ {n} : Holders(m)' = Holders(m)
<1>1. IsFiniteSet(Holders(n))
  BY FS_Subset DEF Holders
<1>2. w \in Holders(n) /\ Holders(n)' = Holders(n) \ {w}
  BY DEF Holders
<1>3. \A m \in Nodes \ {n} : Holders(m)' = Holders(m)
  BY DEF Holders
<1>4. Cardinality(Holders(n)) \in Nat /\ Cardinality(Holders(n)) # 0
  BY <1>1, <1>2, FS_CardinalityType, FS_EmptySet
<1>5. Cardinality(Holders(n) \ {w}) = Cardinality(Holders(n)) - 1
  BY <1>1, <1>2, FS_RemoveElement
<1>. QED
  BY <1>2, <1>3, <1>4, <1>5

\* A node that has a slot out is known to the manager.
LEMMA SlotKnown ==
    ASSUME PoolInv, NEW w \in Workers, phase[w] \in {"resolving", "holding", "releasing"}
    PROVE  on[w] \in Nodes /\ on[w] \in pool
BY DEF PoolInv, TypeOK, SlotPhases, SlotsAccounted, Holders

-----------------------------------------------------------------------------
(* Type correctness.                                                       *)

\* Every variable of the manager keeps its type in every step.
LEMMA TypeStep == TypeOK /\ [Next]_vars => TypeOK'
<1>. SUFFICES ASSUME TypeOK, [Next]_vars
              PROVE  TypeOK'
  OBVIOUS
<1>. USE DEF TypeOK, nodeVars, probeVars, workerVars, LastErrors, Probes, Phases
<1>1. CASE LoadSources
  BY <1>1 DEF LoadSources
<1>2. CASE InstallNodes
  BY <1>2 DEF InstallNodes, Draining, Reset, Set, Listed
<1>3. CASE StartSweep
  BY <1>3 DEF StartSweep
<1>4. ASSUME NEW w \in Workers, BeginAcquire(w) \/ CancelWait(w)
      PROVE  TypeOK'
  BY <1>4 DEF BeginAcquire, CancelWait, Enter, Leave
<1>5. ASSUME NEW w \in Workers, Acquiring(w)
      PROVE  TypeOK'
  <2>1. ASSUME NEW n \in Nodes, Select(w, n)
        PROVE  TypeOK'
    BY <2>1 DEF Select, Enter
  <2>2. CASE GiveUp(w)
    BY <2>2 DEF GiveUp, Enter, Leave
  <2>3. CASE DeadlinePasses(w) \/ ResolveOk(w)
    BY <2>3 DEF DeadlinePasses, ResolveOk, Enter
  <2>4. ASSUME NEW permanent \in BOOLEAN, ResolveFails(w, permanent)
        PROVE  TypeOK'
    BY <2>4 DEF ResolveFails, AfterFailure, GiveBack, Set, Enter, Leave
  <2>. QED
    BY <1>5, <2>1, <2>2, <2>3, <2>4 DEF Acquiring
<1>6. ASSUME NEW w \in Workers, Ending(w)
      PROVE  TypeOK'
  <2>1. CASE ReportSuccess(w)
    BY <2>1 DEF ReportSuccess, Enter
  <2>2. CASE ReportConfiguration(w)
    BY <2>2 DEF ReportConfiguration, Set, Enter
  <2>3. CASE ReportTransport(w)
    BY <2>3 DEF ReportTransport, Penalise, ScheduleProbe, Set, Enter
  <2>4. CASE ReportSuspected(w)
    BY <2>4 DEF ReportSuspected, ScheduleProbe, Enter
  <2>5. CASE Release(w)
    BY <2>5 DEF Release, Drained, GiveBack, Reset, Set, Enter
  <2>. QED
    BY <1>6, <2>1, <2>2, <2>3, <2>4, <2>5 DEF Ending
<1>7. ASSUME NEW n \in Nodes, Probing(n)
      PROVE  TypeOK'
  <2>1. ASSUME NEW healthy \in BOOLEAN, FailureProbe(n, healthy)
        PROVE  TypeOK'
    BY <2>1 DEF FailureProbe, ProbeResult, Set
  <2>2. ASSUME NEW healthy \in BOOLEAN, SweepProbe(n, healthy)
        PROVE  TypeOK'
    BY <2>2 DEF SweepProbe, ProbeResult, Set
  <2>3. CASE ApplyPenalty(n)
    BY <2>3 DEF ApplyPenalty, Penalise, Set
  <2>. QED
    BY <1>7, <2>1, <2>2, <2>3 DEF Probing
<1>8. ASSUME NEW n \in Nodes, CooldownElapses(n)
      PROVE  TypeOK'
  BY <1>8 DEF CooldownElapses
<1>9. CASE UNCHANGED vars
  BY <1>9 DEF vars
<1>. QED
  BY <1>1, <1>2, <1>3, <1>4, <1>5, <1>6, <1>7, <1>8, <1>9 DEF Next

-----------------------------------------------------------------------------
(* The slot accounting.                                                    *)

\* What PoolInv says of the slots, as one formula.
SlotInv == SlotPhases /\ SlotsAccounted /\ CapacityRespected

\* A step that moves no slot keeps the accounting, provided no node with a
\* slot out is dropped and the phases stay in step with the slots.
LEMMA NoSlotMoves ==
    ASSUME PoolInv, on' = on, inflight' = inflight, SlotPhases',
           \A n \in pool : inflight[n] > 0 => n \in pool'
    PROVE  SlotInv'
<1>1. \A n \in Nodes : Holders(n)' = Holders(n)
  BY DEF Holders
<1>2. \A n \in Nodes : inflight[n] = 0 <=> Holders(n) = {}
  BY FS_Subset, FS_EmptySet DEF PoolInv, SlotsAccounted, Holders
<1>. QED
  BY <1>1, <1>2 DEF SlotInv, PoolInv, TypeOK, SlotsAccounted, CapacityRespected

\* Selecting a node takes one slot of it, within its capacity.
LEMMA SelectSlots ==
    ASSUME PoolInv, NEW w \in Workers, NEW n \in Nodes, Select(w, n)
    PROVE  SlotInv'
<1>1. /\ phase[w] = "waiting" /\ on[w] = NoNode
      /\ on' = [on EXCEPT ![w] = n]
      /\ inflight' = [inflight EXCEPT ![n] = @ + 1]
      /\ phase' = [phase EXCEPT ![w] = "resolving"]
      /\ pool' = pool
      /\ n \in pool /\ inflight[n] < Capacity
  BY DEF Select, Enter, Eligible, Active, PoolInv, TypeOK, SlotPhases
<1>2. /\ Cardinality(Holders(n)') = Cardinality(Holders(n)) + 1
      /\ \A m \in Nodes \ {n} : Holders(m)' = Holders(m)
  BY <1>1, HoldersGain DEF PoolInv, TypeOK
<1>3. SlotPhases'
  BY <1>1 DEF PoolInv, TypeOK, SlotPhases
<1>4. SlotsAccounted'
  <2>1. \A m \in Nodes : inflight'[m] = Cardinality(Holders(m)')
    BY <1>1, <1>2 DEF PoolInv, TypeOK, SlotsAccounted
  <2>2. \A m \in Nodes : m \notin pool' => Holders(m)' = {}
    BY <1>1, <1>2 DEF PoolInv, SlotsAccounted
  <2>. QED
    BY <2>1, <2>2 DEF SlotsAccounted
<1>5. CapacityRespected'
  BY <1>1, <1>2 DEF PoolInv, TypeOK, SlotsAccounted, CapacityRespected
<1>. QED
  BY <1>3, <1>4, <1>5 DEF SlotInv

\* Giving a slot of n back keeps the accounting, whether n stays known or
\* leaves with its last slot.
LEMMA GiveBackSlots ==
    ASSUME PoolInv, NEW w \in Workers, NEW n \in Nodes, on[w] = n, n \in pool,
           on' = [on EXCEPT ![w] = NoNode], GiveBack(n), SlotPhases',
           \A m \in pool : m \in pool' \/ (m = n /\ inflight[n] <= 1)
    PROVE  SlotInv'
<1>1. /\ Cardinality(Holders(n)') = Cardinality(Holders(n)) - 1
      /\ Cardinality(Holders(n)) \in Nat \ {0}
      /\ \A m \in Nodes \ {n} : Holders(m)' = Holders(m)
  BY HoldersLose DEF PoolInv, TypeOK
<1>2. \A m \in Nodes : inflight'[m] = Cardinality(Holders(m)')
  BY <1>1 DEF GiveBack, PoolInv, TypeOK, SlotsAccounted
<1>3. \A m \in Nodes : m \notin pool' => Holders(m)' = {}
  <2>1. ASSUME n \notin pool'
        PROVE  Holders(n)' = {}
    <3>1. Cardinality(Holders(n)') = 0
      BY <1>1, <2>1 DEF PoolInv, SlotsAccounted
    <3>2. IsFiniteSet(Holders(n)')
      BY FS_Subset DEF Holders
    <3>. QED
      BY <3>1, <3>2, FS_EmptySet
  <2>2. ASSUME NEW m \in Nodes \ {n}, m \notin pool'
        PROVE  Holders(m)' = {}
    BY <1>1, <2>2 DEF PoolInv, SlotsAccounted
  <2>. QED
    BY <2>1, <2>2
<1>4. CapacityRespected'
  BY <1>1 DEF PoolInv, CapacityRespected
<1>. QED
  BY <1>2, <1>3, <1>4 DEF SlotInv, SlotsAccounted

-----------------------------------------------------------------------------
(* The inductive invariant.                                                *)

\* The manager starts without a slot out.
LEMMA PoolInit == Init => PoolInv
<1>. SUFFICES ASSUME Init
              PROVE  PoolInv
  OBVIOUS
<1>1. TypeOK
  BY DEF Init, TypeOK, LastErrors, Probes, Phases, Listed
<1>2. \A n \in Nodes : Holders(n) = {} /\ Cardinality(Holders(n)) = 0
  BY FS_EmptySet DEF Init, Holders
<1>3. SlotPhases
  BY DEF Init, SlotPhases
<1>4. SlotsAccounted /\ CapacityRespected
  BY <1>2 DEF Init, SlotsAccounted, CapacityRespected
<1>. QED
  BY <1>1, <1>3, <1>4 DEF PoolInv

\* Every step of the manager and of its workers keeps the accounting.
LEMMA SlotStep == PoolInv /\ [Next]_vars => SlotInv'
<1>. SUFFICES ASSUME PoolInv, [Next]_vars
              PROVE  SlotInv'
  OBVIOUS
<1>. USE DEF nodeVars, probeVars, workerVars
<1>1. CASE InstallNodes
  <2>1. on' = on /\ inflight' = inflight /\ phase' = phase
    BY <1>1 DEF InstallNodes
  <2>2. \A n \in pool : inflight[n] > 0 => n \in pool'
    BY <1>1 DEF InstallNodes, Draining
  <2>3. SlotPhases'
    BY <2>1 DEF PoolInv, SlotPhases
  <2>. QED
    BY <2>1, <2>2, <2>3, NoSlotMoves
<1>2. CASE LoadSources \/ StartSweep
  <2>1. UNCHANGED <<on, inflight, phase, pool>>
    BY <1>2 DEF LoadSources, StartSweep
  <2>2. SlotPhases'
    BY <2>1 DEF PoolInv, SlotPhases
  <2>. QED
    BY <2>1, <2>2, NoSlotMoves
<1>3. ASSUME NEW w \in Workers,
             \/ BeginAcquire(w) \/ CancelWait(w) \/ GiveUp(w) \/ DeadlinePasses(w)
             \/ ResolveOk(w) \/ ReportSuccess(w) \/ ReportConfiguration(w)
             \/ ReportTransport(w) \/ ReportSuspected(w)
      PROVE  SlotInv'
  <2>1. UNCHANGED <<on, inflight, pool>>
    BY <1>3 DEF BeginAcquire, CancelWait, GiveUp, DeadlinePasses, ResolveOk,
                ReportSuccess, ReportConfiguration, ReportTransport, ReportSuspected
  <2>2. \/ phase' = phase
        \/ /\ phase[w] \in {"resolving", "holding"}
           /\ \E p \in {"holding", "releasing"} : phase' = [phase EXCEPT ![w] = p]
        \/ /\ phase[w] \in {"idle", "waiting"}
           /\ \E p \in {"idle", "waiting", "fallback"} : phase' = [phase EXCEPT ![w] = p]
    BY <1>3, Zenon
       DEF BeginAcquire, CancelWait, GiveUp, DeadlinePasses, ResolveOk, ReportSuccess,
           ReportConfiguration, ReportTransport, ReportSuspected, Enter, Leave
  <2>3. SlotPhases'
    BY <2>1, <2>2 DEF PoolInv, TypeOK, SlotPhases
  <2>. QED
    BY <2>1, <2>3, NoSlotMoves
<1>4. ASSUME NEW w \in Workers, NEW n \in Nodes, Select(w, n)
      PROVE  SlotInv'
  BY <1>4, SelectSlots
<1>5. ASSUME NEW w \in Workers, NEW permanent \in BOOLEAN, ResolveFails(w, permanent)
      PROVE  SlotInv'
  <2>1. on[w] \in Nodes /\ on[w] \in pool
    BY <1>5, SlotKnown DEF ResolveFails
  <2>2. /\ on' = [on EXCEPT ![w] = NoNode] /\ GiveBack(on[w]) /\ pool' = pool
        /\ \E p \in {"idle", "waiting"} : phase' = [phase EXCEPT ![w] = p]
    BY <1>5 DEF ResolveFails, AfterFailure, Enter, Leave
  <2>3. SlotPhases'
    BY <2>2 DEF PoolInv, TypeOK, SlotPhases
  <2>. QED
    BY <2>1, <2>2, <2>3, GiveBackSlots
<1>6. ASSUME NEW w \in Workers, Release(w)
      PROVE  SlotInv'
  <2>1. on' = [on EXCEPT ![w] = NoNode] /\ phase' = [phase EXCEPT ![w] = "idle"]
    BY <1>6 DEF Release, Enter
  <2>2. SlotPhases'
    BY <2>1 DEF PoolInv, TypeOK, SlotPhases
  <2>3. CASE phase[w] = "fallback"
    <3>1. on[w] = NoNode
      BY <2>3 DEF PoolInv, TypeOK, SlotPhases
    <3>2. on' = on /\ inflight' = inflight /\ pool' = pool
      BY <1>6, <2>1, <2>3, <3>1 DEF Release, PoolInv, TypeOK
    <3>. QED
      BY <2>2, <3>2, NoSlotMoves
  <2>4. CASE phase[w] \in {"holding", "releasing"}
    <3>1. on[w] \in Nodes /\ on[w] \in pool
      BY <2>4, SlotKnown
    <3>2. GiveBack(on[w])
      BY <1>6, <2>4 DEF Release
    <3>3. \A m \in pool : m \in pool' \/ (m = on[w] /\ inflight[m] <= 1)
      BY <1>6, <2>4 DEF Release, Drained
    <3>. QED
      BY <2>1, <2>2, <3>1, <3>2, <3>3, GiveBackSlots
  <2>. QED
    BY <1>6, <2>3, <2>4 DEF Release
<1>7. ASSUME NEW n \in Nodes, Probing(n) \/ CooldownElapses(n)
      PROVE  SlotInv'
  <2>1. UNCHANGED <<on, inflight, phase, pool>>
    BY <1>7 DEF Probing, FailureProbe, SweepProbe, ApplyPenalty, CooldownElapses
  <2>2. SlotPhases'
    BY <2>1 DEF PoolInv, SlotPhases
  <2>. QED
    BY <2>1, <2>2, NoSlotMoves
<1>8. CASE UNCHANGED vars
  <2>1. UNCHANGED <<on, inflight, phase, pool>>
    BY <1>8 DEF vars
  <2>2. SlotPhases'
    BY <2>1 DEF PoolInv, SlotPhases
  <2>. QED
    BY <2>1, <2>2, NoSlotMoves
<1>. QED
  BY <1>1, <1>2, <1>3, <1>4, <1>5, <1>6, <1>7, <1>8 DEF Next, Acquiring, Ending

\* PoolInv holds in every reachable state of the manager.
THEOREM PoolInvariant == Spec => []PoolInv
<1>1. PoolInv /\ [Next]_vars => PoolInv'
  BY TypeStep, SlotStep DEF PoolInv, SlotInv
<1>. QED
  BY PoolInit, <1>1, PTL DEF Spec

\* The manager's variables keep their types for ever.
THEOREM TypeCorrect == Spec => []TypeOK
BY PoolInvariant, PTL DEF PoolInv

\* node.inflight always equals the number of workers with a slot of the node,
\* and the manager never forgets a node that has one out.
THEOREM Accounting == Spec => []SlotsAccounted
BY PoolInvariant, PTL DEF PoolInv

\* No node ever serves more workers at once than its capacity.
THEOREM CapacityNeverExceeded == Spec => []CapacityRespected
BY PoolInvariant, PTL DEF PoolInv

-----------------------------------------------------------------------------
(* The nodes of the sources.                                               *)

\* Only an installation changes which nodes take new leases; a drained node
\* that leaves the manager was not one of them.
LEMMA ActiveKept ==
    ASSUME PoolInv, [Next]_vars, ~InstallNodes
    PROVE  pool' \ retired' = pool \ retired
<1>. USE DEF nodeVars, probeVars, workerVars
<1>1. CASE LoadSources \/ StartSweep
  BY <1>1 DEF LoadSources, StartSweep
<1>2. ASSUME NEW w \in Workers, BeginAcquire(w) \/ CancelWait(w) \/ Acquiring(w)
      PROVE  pool' \ retired' = pool \ retired
  BY <1>2 DEF BeginAcquire, CancelWait, Acquiring, Select, GiveUp, DeadlinePasses, ResolveOk, ResolveFails
<1>3. ASSUME NEW w \in Workers, Ending(w)
      PROVE  pool' \ retired' = pool \ retired
  <2>1. CASE Release(w)
    <3>1. CASE UNCHANGED <<pool, retired>>
      BY <3>1
    <3>2. CASE pool' = pool \ Drained(on[w]) /\ retired' = retired \ Drained(on[w])
      BY <3>2 DEF Drained
    <3>. QED
      BY <2>1, <3>1, <3>2 DEF Release
  <2>2. CASE ReportSuccess(w) \/ ReportConfiguration(w) \/ ReportTransport(w) \/ ReportSuspected(w)
    BY <2>2 DEF ReportSuccess, ReportConfiguration, ReportTransport, ReportSuspected
  <2>. QED
    BY <1>3, <2>1, <2>2 DEF Ending
<1>4. ASSUME NEW n \in Nodes, Probing(n) \/ CooldownElapses(n)
      PROVE  pool' \ retired' = pool \ retired
  BY <1>4 DEF Probing, FailureProbe, SweepProbe, ApplyPenalty, CooldownElapses
<1>5. CASE UNCHANGED vars
  BY <1>5 DEF vars
<1>. QED
  BY <1>1, <1>2, <1>3, <1>4, <1>5 DEF Next

\* Only a load changes what the sources list, and it leaves the manager to
\* be installed unless nothing is listed at all.
LEMMA ListedKept ==
    ASSUME [Next]_vars
    PROVE  \/ UNCHANGED <<loaded, refresh>>
           \/ LoadSources /\ (refresh' = "loaded" \/ Listed(loaded') = {})
           \/ InstallNodes /\ loaded' = loaded
<1>. USE DEF nodeVars, probeVars, workerVars
<1>1. CASE LoadSources
  BY <1>1 DEF LoadSources
<1>2. CASE InstallNodes
  BY <1>2 DEF InstallNodes
<1>3. CASE StartSweep
  BY <1>3 DEF StartSweep
<1>4. ASSUME NEW w \in Workers, BeginAcquire(w) \/ CancelWait(w) \/ Acquiring(w)
      PROVE  UNCHANGED <<loaded, refresh>>
  BY <1>4 DEF BeginAcquire, CancelWait, Acquiring, Select, GiveUp, DeadlinePasses, ResolveOk, ResolveFails
<1>5. ASSUME NEW w \in Workers, Ending(w)
      PROVE  UNCHANGED <<loaded, refresh>>
  BY <1>5 DEF Ending, ReportSuccess, ReportConfiguration, ReportTransport, ReportSuspected, Release
<1>6. ASSUME NEW n \in Nodes, Probing(n) \/ CooldownElapses(n)
      PROVE  UNCHANGED <<loaded, refresh>>
  BY <1>6 DEF Probing, FailureProbe, SweepProbe, ApplyPenalty, CooldownElapses
<1>7. CASE UNCHANGED vars
  BY <1>7 DEF vars
<1>. QED
  BY <1>1, <1>2, <1>3, <1>4, <1>5, <1>6, <1>7 DEF Next

\* Between refreshes the nodes that take new leases are exactly those the
\* sources list, if they list any (reload_sources, release and the probes of
\* proxy_pool_v3.py).
THEOREM PoolFollowsSources == Spec => []PoolMatchesSources
<1>1. Init => PoolMatchesSources
  BY DEF Init, PoolMatchesSources
<1>2. PoolInv /\ PoolMatchesSources /\ [Next]_vars => PoolMatchesSources'
  <2>. SUFFICES ASSUME PoolInv, PoolMatchesSources, [Next]_vars,
                       refresh' = "idle", Listed(loaded') # {}
                PROVE  pool' \ retired' = Listed(loaded')
    BY DEF PoolMatchesSources, Listed
  <2>1. CASE InstallNodes
    BY <2>1 DEF InstallNodes, Draining
  <2>2. CASE UNCHANGED <<loaded, refresh>> /\ ~InstallNodes
    BY <2>2, ActiveKept DEF PoolMatchesSources
  <2>. QED
    BY <2>1, <2>2, ListedKept
<1>. QED
  BY <1>1, <1>2, PoolInvariant, PTL DEF Spec

-----------------------------------------------------------------------------
(* Refinement of LeasePool.                                                *)

\* The manager starts as the abstract pool does.
LEMMA RefineInit == Init => Leases!Init
BY DEF Init, Leases!Init

\* Every step takes one free slot, gives one slot back, or moves none.
LEMMA RefineStep == PoolInv /\ [Next]_vars => [Leases!Next]_on
<1>. SUFFICES ASSUME PoolInv, [Next]_vars
              PROVE  [Leases!Next]_on
  OBVIOUS
<1>. USE DEF nodeVars, probeVars, workerVars
<1>1. ASSUME NEW w \in Workers, NEW n \in Nodes, Select(w, n)
      PROVE  Leases!Next
  <2>1. on[w] = NoNode /\ inflight[n] < Capacity /\ on' = [on EXCEPT ![w] = n]
    BY <1>1 DEF Select, Eligible, PoolInv, TypeOK, SlotPhases
  <2>2. Cardinality(Leases!SlotsOf(n)) < Capacity
    BY <2>1 DEF Leases!SlotsOf, Holders, PoolInv, SlotsAccounted
  <2>. QED
    BY <2>1, <2>2 DEF Leases!Next, Leases!Take, Leases!Cardinality, Cardinality
<1>2. ASSUME NEW w \in Workers, NEW permanent \in BOOLEAN, ResolveFails(w, permanent)
      PROVE  Leases!Next
  <2>1. on[w] # NoNode
    BY <1>2 DEF ResolveFails, PoolInv, SlotPhases
  <2>. QED
    BY <1>2, <2>1 DEF ResolveFails, Leases!Next, Leases!Return
<1>3. ASSUME NEW w \in Workers, Release(w)
      PROVE  [Leases!Next]_on
  <2>1. on' = [on EXCEPT ![w] = NoNode]
    BY <1>3 DEF Release
  <2>2. CASE on[w] = NoNode
    BY <2>1, <2>2 DEF PoolInv, TypeOK
  <2>3. CASE on[w] # NoNode
    BY <2>1, <2>3 DEF Leases!Next, Leases!Return
  <2>. QED
    BY <2>2, <2>3
<1>4. CASE LoadSources \/ InstallNodes \/ StartSweep \/ UNCHANGED vars
  BY <1>4 DEF LoadSources, InstallNodes, StartSweep, vars
<1>5. ASSUME NEW w \in Workers,
             \/ BeginAcquire(w) \/ CancelWait(w) \/ GiveUp(w) \/ DeadlinePasses(w)
             \/ ResolveOk(w) \/ ReportSuccess(w) \/ ReportConfiguration(w)
             \/ ReportTransport(w) \/ ReportSuspected(w)
      PROVE  on' = on
  BY <1>5 DEF BeginAcquire, CancelWait, GiveUp, DeadlinePasses, ResolveOk,
              ReportSuccess, ReportConfiguration, ReportTransport, ReportSuspected
<1>6. ASSUME NEW n \in Nodes, Probing(n) \/ CooldownElapses(n)
      PROVE  on' = on
  BY <1>6 DEF Probing, FailureProbe, SweepProbe, ApplyPenalty, CooldownElapses
<1>. QED
  BY <1>1, <1>2, <1>3, <1>4, <1>5, <1>6 DEF Next, Acquiring, Ending

\* The proxy pool manager implements the abstract pool of leases.
THEOREM ManagerImplementsLeases == Spec => LeasesSpec
<1>1. Spec => Leases!Init /\ [][Leases!Next]_on
  BY RefineInit, RefineStep, PoolInvariant, PTL DEF Spec
<1>. QED
  BY <1>1 DEF LeasesSpec, Leases!Spec
=============================================================================
