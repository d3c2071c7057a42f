----------------------------- MODULE ProxyPool -----------------------------
(***************************************************************************)
(* ProxyPoolManager of proxy_pool_v3.py: nodes loaded from sources, leases *)
(* handed to registration workers, feedback that disables or cools a node, *)
(* source refreshes that retire nodes, and probes that re-enable them.     *)
(* Every action is one critical section of the manager's lock, so what a   *)
(* thread does between two of them (starting a protocol runtime, probing   *)
(* the network, loading a source) interleaves with all the others.         *)
(*                                                                         *)
(* Abstractions: health numbers and the choice among eligible nodes are    *)
(* left to ProxyFeedback and ProxySelection (here any eligible node may be *)
(* chosen); cooldown_until is the set of nodes whose cooldown has not      *)
(* elapsed; persist_health is off, which is its default.                   *)
(***************************************************************************)
EXTENDS Naturals, FiniteSets

CONSTANTS Nodes,      \* node identities a source may list
          Workers,    \* registration threads
          Sources,    \* "file", "subscription"
          Rotating,   \* nodes classified as rotating gateways
          Capacity,   \* proxy_pool_max_concurrent_per_node
          Fallback,   \* proxy_fallback: "none", "direct" or "single"
          Sweeps,     \* probe_all runs, periodically or by hand
          NoNode

ASSUME ConstantsAssumption ==
    /\ IsFiniteSet(Workers)
    /\ NoNode \notin Nodes
    /\ Rotating \subseteq Nodes
    /\ Capacity \in Nat \ {0}
    /\ Fallback \in {"none", "direct", "single"}
    /\ Sweeps \in BOOLEAN

VARIABLES
    loaded,     \* loaded[s]: last good descriptors of source s
    refresh,    \* "loaded" between reading the sources and installing them
    pool,       \* nodes in manager._nodes
    retired,    \* nodes kept only because a lease is out
    enabled,    \* node.enabled
    cooling,    \* nodes whose cooldown_until is in the future
    lastError,  \* "transport", "backend" or "other" (cleared, configuration)
    inflight,   \* node.inflight
    probing,    \* background failure probe of a node
    sweep,      \* nodes that a running probe_all has still to write
    phase,      \* where each worker is in its account attempt
    on,         \* node whose slot the worker occupies
    late        \* workers whose acquire deadline has passed

nodeVars   == <<enabled, cooling, lastError>>
workerVars == <<phase, on, late>>
probeVars  == <<probing, sweep>>
vars == <<loaded, refresh, pool, retired, inflight, nodeVars, probeVars, workerVars>>

LastErrors == {"other", "transport", "backend"}
Probes     == {"off", "plain", "penalise", "penalty"}
Phases     == {"idle", "waiting", "resolving", "holding", "releasing", "fallback"}

TypeOK ==
    /\ loaded \in [Sources -> SUBSET Nodes]
    /\ refresh \in {"idle", "loaded"}
    /\ pool \subseteq Nodes
    /\ retired \subseteq pool
    /\ enabled \subseteq Nodes
    /\ cooling \subseteq Nodes
    /\ lastError \in [Nodes -> LastErrors]
    /\ inflight \in [Nodes -> Nat]
    /\ probing \in [Nodes -> Probes]
    /\ sweep \subseteq Nodes
    /\ phase \in [Workers -> Phases]
    /\ on \in [Workers -> Nodes \cup {NoNode}]
    /\ late \subseteq Workers

-----------------------------------------------------------------------------
(* Sources and refresh.                                                    *)

Set(f, S, v) == [x \in DOMAIN f |-> IF x \in S THEN v ELSE f[x]]

Listed(l) == UNION {l[s] : s \in Sources}

\* A ProxyNode that leaves manager._nodes is forgotten; the object created
\* when a source lists the node again starts with the defaults.
Reset(S) ==
    /\ enabled' = enabled \cup S
    /\ cooling' = cooling \ S
    /\ lastError' = Set(lastError, S, "other")

\* The refresh gate is held: each source is read; one that fails keeps its
\* last good descriptors.  With nothing listed at all the refresh raises and
\* the nodes stay as they are.
LoadSources ==
    /\ refresh = "idle"
    /\ \E ok \in SUBSET Sources : \E fresh \in [ok -> SUBSET Nodes] :
          loaded' = [s \in Sources |-> IF s \in ok THEN fresh[s] ELSE loaded[s]]
    /\ refresh' = IF Listed(loaded') = {} THEN "idle" ELSE "loaded"
    /\ UNCHANGED <<pool, retired, inflight, nodeVars, probeVars, workerVars>>

\* Bug: a node that is listed again stays retired.
DrainingStillRetired(listed) == {n \in (pool \ listed) \cup retired : inflight[n] > 0}

Draining(listed) == {n \in pool \ listed : inflight[n] > 0}

\* Listed nodes are kept or created and are no longer retired; an unlisted
\* one stays, retired, only while a lease is out.
InstallNodes ==
    LET listed == Listed(loaded)
    IN  /\ refresh = "loaded"
        /\ refresh' = "idle"
        /\ pool' = listed \cup Draining(listed)
        /\ retired' = Draining(listed)
        /\ Reset(Nodes \ (pool \cap pool'))
        /\ UNCHANGED <<loaded, inflight, probeVars, workerVars>>

-----------------------------------------------------------------------------
(* Acquiring a lease.                                                      *)

Active == {n \in pool \ retired : n \in enabled}

\* Bug: the capacity test is lost.
EligibleWhenFull == {n \in Active : n \in Rotating \/ n \notin cooling}

Eligible == {n \in Active : inflight[n] < Capacity /\ (n \in Rotating \/ n \notin cooling)}

Enter(w, p) == phase' = [phase EXCEPT ![w] = p]

Leave(w) == Enter(w, "idle") /\ late' = late \ {w}

BeginAcquire(w) ==
    /\ phase[w] = "idle"
    /\ Enter(w, "waiting")
    /\ UNCHANGED <<loaded, refresh, pool, retired, inflight, nodeVars, probeVars, on, late>>

Select(w, n) ==
    /\ phase[w] = "waiting"
    /\ n \in Eligible
    /\ inflight' = [inflight EXCEPT ![n] = @ + 1]
    /\ on' = [on EXCEPT ![w] = n]
    /\ Enter(w, "resolving")
    /\ UNCHANGED <<loaded, refresh, pool, retired, nodeVars, probeVars, late>>

\* Nothing is eligible and either no node is active or the deadline passed:
\* the attempt falls back (no slot is counted) or acquire raises.  The
\* runtime of a "single" fallback may fail to start, which raises as well.
GiveUp(w) ==
    /\ phase[w] = "waiting"
    /\ Eligible = {}
    /\ Active = {} \/ w \in late
    /\ \/ Fallback # "none" /\ Enter(w, "fallback") /\ late' = late \ {w}
       \/ Fallback # "direct" /\ Leave(w)
    /\ UNCHANGED <<loaded, refresh, pool, retired, inflight, nodeVars, probeVars, on>>

CancelWait(w) ==
    /\ phase[w] = "waiting"
    /\ Leave(w)
    /\ UNCHANGED <<loaded, refresh, pool, retired, inflight, nodeVars, probeVars, on>>

DeadlinePasses(w) ==
    /\ phase[w] \in {"waiting", "resolving"}
    /\ late' = late \cup {w}
    /\ UNCHANGED <<loaded, refresh, pool, retired, inflight, nodeVars, probeVars, phase, on>>

\* Outside the lock the node's protocol runtime is started.
ResolveOk(w) ==
    /\ phase[w] = "resolving"
    /\ Enter(w, "holding")
    /\ late' = late \ {w}
    /\ UNCHANGED <<loaded, refresh, pool, retired, inflight, nodeVars, probeVars, on>>

GiveBack(n) ==
    inflight' = [m \in Nodes |-> IF m = n /\ m \in pool /\ inflight[m] > 0
                                 THEN inflight[m] - 1 ELSE inflight[m]]

\* Bug: the deadline is not looked at after a runtime failure.
RetryForEver(w) == Enter(w, "waiting") /\ UNCHANGED late

AfterFailure(w) == IF w \in late THEN Leave(w) ELSE Enter(w, "waiting") /\ UNCHANGED late

\* _rollback_runtime_failure gives the slot back, sets enabled from this one
\* error and leaves a drained retired node in place; then acquire either
\* raises or goes round its loop.
ResolveFails(w, permanent) ==
    LET n    == on[w]
        here == {n} \cap pool
    IN  /\ phase[w] = "resolving"
        /\ GiveBack(n)
        /\ on' = [on EXCEPT ![w] = NoNode]
        /\ enabled' = IF permanent THEN enabled \ here ELSE enabled \cup here
        /\ cooling' = IF permanent THEN cooling ELSE cooling \cup here
        /\ lastError' = Set(lastError, here, IF permanent THEN "other" ELSE "backend")
        /\ AfterFailure(w)
        /\ UNCHANGED <<loaded, refresh, pool, retired, probeVars>>

-----------------------------------------------------------------------------
(* Feedback and release (end_registration_slot reports, then releases).    *)

\* A fixed node cools down after a transport failure; a rotating gateway
\* only records the exit.
Penalise(n) ==
    LET here == {n} \cap pool
    IN  /\ cooling' = cooling \cup (here \ Rotating)
        /\ lastError' = Set(lastError, here, IF n \in Rotating THEN "other" ELSE "transport")
        /\ UNCHANGED enabled

\* One failure probe per node: while one is running another request,
\* penalising or not, is dropped.
ScheduleProbe(n, kind) ==
    probing' = IF probing[n] = "off" THEN [probing EXCEPT ![n] = kind] ELSE probing

ReportSuccess(w) ==
    LET n    == on[w]
        here == ({n} \cap pool) \ Rotating
    IN  /\ phase[w] = "holding"
        /\ Enter(w, "releasing")
        /\ cooling' = cooling \ here
        /\ lastError' = IF n \in pool /\ (n \in Rotating \/ lastError[n] = "transport")
                        THEN [lastError EXCEPT ![n] = "other"] ELSE lastError
        /\ UNCHANGED <<loaded, refresh, pool, retired, inflight, enabled, probeVars, on, late>>

ReportConfiguration(w) ==
    LET here == {on[w]} \cap pool
    IN  /\ phase[w] = "holding"
        /\ Enter(w, "releasing")
        /\ enabled' = enabled \ here
        /\ lastError' = Set(lastError, here, "other")
        /\ UNCHANGED <<loaded, refresh, pool, retired, inflight, cooling, probeVars, on, late>>

ReportTransport(w) ==
    LET n == on[w]
    IN  /\ phase[w] = "holding"
        /\ Enter(w, "releasing")
        /\ Penalise(n)
        /\ IF n \in pool \ Rotating THEN ScheduleProbe(n, "plain") ELSE UNCHANGED probing
        /\ UNCHANGED <<loaded, refresh, pool, retired, inflight, sweep, on, late>>

\* A suspected failure is reported during the attempt or at its end.
ReportSuspected(w) ==
    /\ phase[w] = "holding"
    /\ phase' \in {phase, [phase EXCEPT ![w] = "releasing"]}
    /\ ScheduleProbe(on[w], "penalise")
    /\ UNCHANGED <<loaded, refresh, pool, retired, inflight, nodeVars, sweep, on, late>>

\* Bug: a retired node leaves with the first of its leases.
DrainedTooEarly(n) == {n} \cap retired

Drained(n) == {m \in {n} \cap retired : inflight[m] <= 1}

\* The slot goes back; the last lease of a retired node takes the node away.
\* An attempt may end without any feedback on its node, and a fallback lease
\* has no slot to give back.
Release(w) ==
    LET n    == on[w]
        gone == Drained(n)
    IN  /\ phase[w] \in {"holding", "releasing", "fallback"}
        /\ Enter(w, "idle")
        /\ on' = [on EXCEPT ![w] = NoNode]
        /\ IF phase[w] = "fallback"
           THEN UNCHANGED <<pool, retired, inflight, nodeVars>>
           ELSE /\ GiveBack(n)
                /\ pool' = pool \ gone
                /\ retired' = retired \ gone
                /\ Reset(gone)
        /\ UNCHANGED <<loaded, refresh, probeVars, late>>

-----------------------------------------------------------------------------
(* Probes and the passage of time.                                         *)

\* probe_node writes its result if the node is still known: a healthy one
\* enables the node, and lifts the cooldown only if the network caused it.
ProbeResult(n, healthy) ==
    LET here    == {n} \cap pool
        cleared == {m \in here : healthy /\ lastError[m] # "other"}
    IN  /\ enabled' = IF healthy THEN enabled \cup here ELSE enabled
        /\ cooling' = cooling \ (cleared \ Rotating)
        /\ lastError' = Set(lastError, cleared, "other")

FailureProbe(n, healthy) ==
    /\ probing[n] \in {"plain", "penalise"}
    /\ ProbeResult(n, healthy)
    /\ probing' = [probing EXCEPT ![n] = IF @ = "penalise" /\ ~healthy THEN "penalty" ELSE "off"]
    /\ UNCHANGED <<loaded, refresh, pool, retired, inflight, sweep, workerVars>>

ApplyPenalty(n) ==
    /\ probing[n] = "penalty"
    /\ Penalise(n)
    /\ probing' = [probing EXCEPT ![n] = "off"]
    /\ UNCHANGED <<loaded, refresh, pool, retired, inflight, sweep, workerVars>>

\* probe_all probes the nodes that are not retired at its start, in parallel;
\* the periodic one and those started by hand may overlap.
StartSweep ==
    /\ Sweeps
    /\ sweep' = sweep \cup (pool \ retired)
    /\ UNCHANGED <<loaded, refresh, pool, retired, inflight, nodeVars, probing, workerVars>>

SweepProbe(n, healthy) ==
    /\ n \in sweep
    /\ ProbeResult(n, healthy)
    /\ sweep' = sweep \ {n}
    /\ UNCHANGED <<loaded, refresh, pool, retired, inflight, probing, workerVars>>

CooldownElapses(n) ==
    /\ n \in cooling
    /\ cooling' = cooling \ {n}
    /\ UNCHANGED <<loaded, refresh, pool, retired, inflight, enabled, lastError, probeVars, workerVars>>

-----------------------------------------------------------------------------

\* The constructor loads the sources; with no node at all it raises.
Init ==
    /\ loaded \in [Sources -> SUBSET Nodes]
    /\ Listed(loaded) # {}
    /\ pool = Listed(loaded)
    /\ refresh = "idle"
    /\ retired = {}
    /\ enabled = Nodes
    /\ cooling = {}
    /\ lastError = [n \in Nodes |-> "other"]
    /\ inflight = [n \in Nodes |-> 0]
    /\ probing = [n \in Nodes |-> "off"]
    /\ sweep = {}
    /\ phase = [w \in Workers |-> "idle"]
    /\ on = [w \in Workers |-> NoNode]
    /\ late = {}

Acquiring(w) ==
    \/ \E n \in Nodes : Select(w, n)
    \/ GiveUp(w)
    \/ DeadlinePasses(w)
    \/ ResolveOk(w)
    \/ \E permanent \in BOOLEAN : ResolveFails(w, permanent)

Ending(w) ==
    \/ ReportSuccess(w)
    \/ ReportConfiguration(w)
    \/ ReportTransport(w)
    \/ ReportSuspected(w)
    \/ Release(w)

Probing(n) ==
    \/ \E healthy \in BOOLEAN : FailureProbe(n, healthy) \/ SweepProbe(n, healthy)
    \/ ApplyPenalty(n)

Next ==
    \/ LoadSources
    \/ InstallNodes
    \/ StartSweep
    \/ \E w \in Workers : BeginAcquire(w) \/ CancelWait(w) \/ Acquiring(w) \/ Ending(w)
    \/ \E n \in Nodes : Probing(n) \/ CooldownElapses(n)

Spec == Init /\ [][Next]_vars

\* The acquire loop of a worker always runs on (it waits at most a second at
\* a time) and its deadline is a point in time.  Nothing else is assumed: an
\* attempt may hold its lease for ever and no probe or refresh need happen.
FairSpec ==
    /\ Spec
    /\ \A w \in Workers : WF_vars(Acquiring(w)) /\ WF_vars(DeadlinePasses(w))

-----------------------------------------------------------------------------
(* Properties.                                                             *)

Holders(n) == {w \in Workers : on[w] = n}

\* node.inflight is exactly the number of workers between the selection of
\* the node and the end of their lease, and the manager never forgets a node
\* whose slots are out: the max(0, ...) in release and rollback never hides a
\* lost or a doubled decrement, whatever refreshes happen in between.
SlotsAccounted ==
    \A n \in Nodes : /\ inflight[n] = Cardinality(Holders(n))
                     /\ n \notin pool => Holders(n) = {}

\* No node ever has more leases out than proxy_pool_max_concurrent_per_node,
\* although runtimes start and fail outside the lock.
CapacityRespected == \A n \in Nodes : Cardinality(Holders(n)) <= Capacity

\* The nodes that take new leases are those of the last successful load:
\* neither a failed refresh, a drained lease nor a probe adds or loses one.
PoolMatchesSources ==
    refresh = "idle" /\ Listed(loaded) # {} => pool \ retired = Listed(loaded)

\* A worker occupies a slot exactly while its phase says so.
SlotPhases ==
    \A w \in Workers : on[w] # NoNode <=> phase[w] \in {"resolving", "holding", "releasing"}

\* The inductive invariant behind SlotsAccounted and CapacityRespected.
PoolInv == TypeOK /\ SlotPhases /\ SlotsAccounted /\ CapacityRespected

\* acquire ends: with a lease, a fallback or an error, never by going round
\* its loop of failing runtimes and elapsing cooldowns for ever.
AcquireEnds ==
    \A w \in Workers :
        phase[w] \in {"waiting", "resolving"} ~> phase[w] \notin {"waiting", "resolving"}

\* The manager implements the abstract pool of leases.
Leases == INSTANCE LeasePool WITH holder <- on

LeasesSpec == Leases!Spec
=============================================================================
