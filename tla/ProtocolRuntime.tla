-------------------------- MODULE ProtocolRuntime ---------------------------
(***************************************************************************)
(* ProtocolRuntimeManager of proxy_protocol_runtime.py: the cache of local *)
(* proxy runtimes (a LocalProxyBridge or a sing-box process) that threads  *)
(* acquiring, probing and releasing nodes share.  Processes are started    *)
(* and stopped outside the manager's condition, so every critical section  *)
(* is an action and the starts and stops are actions of their own.         *)
(*                                                                         *)
(* Abstractions: the four start attempts of one starter are one outcome;   *)
(* the least recently used idle entry is any idle entry; a process may die *)
(* and an idle time may elapse at any moment.                              *)
(***************************************************************************)
EXTENDS Naturals, FiniteSets

CONSTANTS Threads,   \* workers and probes
          Nodes,     \* descriptors that need a runtime
          Procs,     \* identities of RuntimeEntry objects
          CacheMax,  \* proxy_runtime_cache_max
          NoProc

ASSUME RuntimeAssumption ==
    /\ IsFiniteSet(Procs)
    /\ IsFiniteSet(Threads)
    /\ NoProc \notin Procs
    /\ CacheMax \in Nat \ {0}

VARIABLES
    entries,   \* manager._entries
    starting,  \* manager._starting
    refs,      \* entry.refcount
    elapsed,   \* idle entries whose idle_ttl has passed
    running,   \* entries whose process or bridge is alive
    pc, want,  \* where each thread is, and the node it acquires
    key,       \* the entry it started or holds
    stale,     \* the entries it took from the cache and has still to stop
    down,      \* shutdown was called
    noTtl      \* proxy_runtime_idle_ttl_sec is 0 (fixed at construction)

vars == <<entries, starting, refs, elapsed, running, pc, want, key, stale, down, noTtl>>
threadVars == <<pc, want, key, stale>>

Cached == {p \in Procs : \E n \in Nodes : entries[n] = p}

TypeOK ==
    /\ entries \in [Nodes -> Procs \cup {NoProc}]
    /\ starting \subseteq Nodes
    /\ refs \in [Procs -> 0..Cardinality(Threads)]
    /\ elapsed \subseteq Procs
    /\ running \subseteq Procs
    /\ pc \in [Threads -> {"idle", "waiting", "woken", "start", "install", "finish", "holding",
                           "stopping"}]
    /\ want \in [Threads -> Nodes]
    /\ key \in [Threads -> Procs \cup {NoProc}]
    /\ stale \in [Threads -> SUBSET Procs]
    /\ down \in BOOLEAN
    /\ noTtl \in BOOLEAN

-----------------------------------------------------------------------------

\* Bug: an entry is evicted although it is leased.
AnyEvictable(S) == S

Evictable(S) == {p \in S : refs[p] = 0}

\* _cleanup_locked: dead and expired entries go; then idle ones, until the
\* cache is within its limit or no idle one is left.
Spent == {p \in Cached : p \notin running \/ (refs[p] = 0 /\ (noTtl \/ p \in elapsed))}

Evictions ==
    LET rest == Cached \ Spent
        idle == Evictable(rest)
    IN  {E \in SUBSET idle :
            \/ Cardinality(rest \ E) = CacheMax
            \/ Cardinality(rest \ E) > CacheMax /\ E = idle
            \/ Cardinality(rest) < CacheMax /\ E = {}}

Without(S) == [n \in Nodes |-> IF entries[n] \in S THEN NoProc ELSE entries[n]]

Woken == [t \in Threads |-> IF pc[t] = "waiting" THEN "woken" ELSE pc[t]]

\* Bug: an evicted entry is forgotten instead of stopped.
SpentOnly(gone) == gone \cap Spent

ToStop(gone) == gone

\* Bug: nobody looks whether the node is being started.
NeverStarting(n) == FALSE

BeingStarted(n) == n \in starting

\* One round of _acquire_runtime_entry: use the entry, wait for the thread
\* that is starting it, or become that thread.
Round(t, n) ==
    \E gone \in {Spent \cup E : E \in Evictions} :
        LET kept == Without(gone)
            p    == kept[n]
        IN  /\ \/ pc[t] = "idle"
               \/ pc[t] = "woken" /\ want[t] = n /\ stale[t] = {}
            /\ want' = [want EXCEPT ![t] = n]
            /\ stale' = [stale EXCEPT ![t] = ToStop(gone)]
            /\ entries' = kept
            /\ IF p # NoProc
               THEN /\ refs' = [refs EXCEPT ![p] = @ + 1]
                    /\ elapsed' = elapsed \ {p}
                    /\ key' = [key EXCEPT ![t] = p]
                    /\ pc' = [pc EXCEPT ![t] = "holding"]
                    /\ UNCHANGED starting
               ELSE /\ pc' = [pc EXCEPT ![t] = IF BeingStarted(n) THEN "waiting" ELSE "start"]
                    /\ starting' = starting \cup {n}
                    /\ UNCHANGED <<refs, elapsed, key>>
            /\ UNCHANGED <<running, down>>

\* Outside the condition the thread stops what it took from the cache; one
\* that waits does so only after it has been woken.
StopStale(t) ==
    /\ stale[t] # {}
    /\ pc[t] # "waiting"
    /\ running' = running \ stale[t]
    /\ stale' = [stale EXCEPT ![t] = {}]
    /\ pc' = [pc EXCEPT ![t] = IF @ = "stopping" THEN "idle" ELSE @]
    /\ UNCHANGED <<entries, starting, refs, elapsed, want, key, down>>

Fresh == Procs \ (Cached \cup running \cup UNION {stale[t] \cup {key[t]} : t \in Threads})

StartOk(t) ==
    /\ pc[t] = "start"
    /\ stale[t] = {}
    /\ \E p \in Fresh :
          /\ running' = running \cup {p}
          /\ key' = [key EXCEPT ![t] = p]
          /\ refs' = [refs EXCEPT ![p] = 1]
          /\ elapsed' = elapsed \ {p}
    /\ pc' = [pc EXCEPT ![t] = "install"]
    /\ UNCHANGED <<entries, starting, want, stale, down>>

Install(t) ==
    /\ pc[t] = "install"
    /\ entries' = [entries EXCEPT ![want[t]] = key[t]]
    /\ pc' = [pc EXCEPT ![t] = "finish"]
    /\ UNCHANGED <<starting, refs, elapsed, running, want, key, stale, down>>

\* Bug: the waiters are not told.
NobodyWoken(n) == pc

WokenBy(n) == Woken

\* The finally of the starter, after success or failure.
Finish(t) ==
    /\ \/ pc[t] = "finish"
       \/ pc[t] = "start" /\ stale[t] = {}
    /\ starting' = starting \ {want[t]}
    /\ pc' = [WokenBy(want[t]) EXCEPT ![t] = IF pc[t] = "finish" THEN "holding" ELSE "idle"]
    /\ UNCHANGED <<entries, refs, elapsed, running, want, key, stale, down>>

\* Bugs: whatever entry the node has by now is released, or none is.
ReleasedAnyway(t) == {entries[want[t]]} \ {NoProc}
ReleasedNever(t) == {}

\* release looks the entry up again: one that was replaced or dropped in the
\* meantime is left alone.
Released(t) == {key[t]} \cap {entries[want[t]]}

Release(t) ==
    /\ pc[t] = "holding"
    /\ stale[t] = {}
    /\ LET mine == Released(t)
           last == {p \in mine : refs[p] <= 1}
           gone == IF noTtl THEN last ELSE {}
       IN  /\ refs' = [p \in Procs |-> IF p \in mine /\ refs[p] > 0 THEN refs[p] - 1 ELSE refs[p]]
           /\ entries' = Without(gone)
           /\ stale' = [stale EXCEPT ![t] = gone]
           /\ pc' = [(IF mine = {} THEN pc ELSE Woken)
                        EXCEPT ![t] = IF gone = {} THEN "idle" ELSE "stopping"]
    /\ key' = [key EXCEPT ![t] = NoProc]
    /\ UNCHANGED <<starting, elapsed, running, want, down>>

CleanupIdle(t) ==
    /\ pc[t] = "idle"
    /\ \E gone \in {Spent \cup E : E \in Evictions} \ {{}} :
          /\ entries' = Without(gone)
          /\ stale' = [stale EXCEPT ![t] = gone]
    /\ pc' = [pc EXCEPT ![t] = "stopping"]
    /\ UNCHANGED <<starting, refs, elapsed, running, want, key, down>>

\* The manager is replaced or reset; its runtimes are stopped, but a probe or
\* a sweep of it that is under way goes on acquiring.
Shutdown(t) ==
    /\ ~down
    /\ pc[t] = "idle"
    /\ down' = TRUE
    /\ entries' = [n \in Nodes |-> NoProc]
    /\ starting' = {}
    /\ stale' = [stale EXCEPT ![t] = Cached]
    /\ pc' = [Woken EXCEPT ![t] = IF Cached = {} THEN "idle" ELSE "stopping"]
    /\ UNCHANGED <<refs, elapsed, running, want, key>>

Dies(p) ==
    /\ p \in running
    /\ running' = running \ {p}
    /\ UNCHANGED <<entries, starting, refs, elapsed, down, threadVars>>

IdleTimeElapses(p) ==
    /\ p \in Cached \ elapsed
    /\ refs[p] = 0
    /\ elapsed' = elapsed \cup {p}
    /\ UNCHANGED <<entries, starting, refs, running, down, threadVars>>

-----------------------------------------------------------------------------

Init ==
    /\ entries = [n \in Nodes |-> NoProc]
    /\ starting = {}
    /\ refs = [p \in Procs |-> 0]
    /\ elapsed = {}
    /\ running = {}
    /\ pc = [t \in Threads |-> "idle"]
    /\ want \in [Threads -> Nodes]
    /\ key = [t \in Threads |-> NoProc]
    /\ stale = [t \in Threads |-> {}]
    /\ down = FALSE
    /\ noTtl \in BOOLEAN

Begin(t) == pc[t] = "idle" /\ \E n \in Nodes : Round(t, n)

Continue(t) ==
    \/ pc[t] = "woken" /\ Round(t, want[t])
    \/ StopStale(t)
    \/ StartOk(t)
    \/ Install(t)
    \/ Finish(t)

Next ==
    /\ \/ \E t \in Threads : Begin(t) \/ Continue(t) \/ Release(t) \/ CleanupIdle(t) \/ Shutdown(t)
       \/ \E p \in Procs : Dies(p) \/ IdleTimeElapses(p)
    /\ UNCHANGED noTtl

Spec == Init /\ [][Next]_vars

-----------------------------------------------------------------------------
(* Properties.                                                             *)

Holding(p) == {t \in Threads : key[t] = p}

\* refcount is the number of threads that hold a cached entry, whatever was
\* evicted, replaced or found dead in between.
RefsMatchHolders == \A p \in Cached : refs[p] = Cardinality(Holding(p))

\* The runtime under a lease is stopped by no other thread: it may die, but
\* eviction, expiry and the release of somebody else leave it alone.  Only a
\* shutdown takes it away.
LeasedNotStopped ==
    ~down => \A t \in Threads : \A p \in stale[t] \cap running : Holding(p) = {}

\* A runtime that runs is cached, is being installed, or is about to be
\* stopped by a thread that took it from the cache: none is left behind.
\* After a shutdown one may be, if its start overlapped the shutdown.
NoneLeftBehind ==
    ~down => \A p \in running :
        \/ p \in Cached
        \/ \E t \in Threads : p \in stale[t] \/ (pc[t] = "install" /\ key[t] = p)

\* A thread that waits for a runtime waits for one that a thread is starting
\* and that will wake it: no wake-up is lost.
WaitersHaveStarter ==
    \A t \in Threads : pc[t] = "waiting" =>
        \E u \in Threads : pc[u] \in {"start", "install", "finish"} /\ want[u] = want[t]
=============================================================================
