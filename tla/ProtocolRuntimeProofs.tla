------------------------ MODULE ProtocolRuntimeProofs ------------------------
(***************************************************************************)
(* For any number of threads, nodes and entries and any size of the cache: *)
(* the reference counts, what may be stopped, what is left running, and    *)
(* that a waiting thread is woken.  The invariant says where an entry can  *)
(* be: in the cache at one node, under installation by its one starter, or *)
(* with a thread that will stop it.                                        *)
(***************************************************************************)
EXTENDS ProtocolRuntime, FiniteSetTheorems, TLAPS

Starters == {"start", "install", "finish"}
Holders  == {"install", "finish", "holding"}
States   == Starters \cup {"idle", "waiting", "woken", "holding", "stopping"}

Shapes ==
    /\ entries \in [Nodes -> Procs \cup {NoProc}]
    /\ starting \subseteq Nodes
    /\ refs \in [Procs -> Nat]
    /\ running \subseteq Procs
    /\ pc \in [Threads -> States]
    /\ want \in [Threads -> Nodes]
    /\ key \in [Threads -> Procs \cup {NoProc}]
    /\ stale \in [Threads -> SUBSET Procs]

\* An entry is cached at one node; a thread that holds one holds the one of
\* its node, unless it was dropped.
Places ==
    /\ \A m, n \in Nodes : entries[m] = entries[n] /\ entries[m] # NoProc => m = n
    /\ \A t \in Threads : key[t] # NoProc <=> pc[t] \in Holders
    /\ \A t \in Threads : key[t] \in Cached => entries[want[t]] = key[t]

Taken ==
    /\ \A t \in Threads : pc[t] = "idle" => stale[t] = {}
    /\ \A t \in Threads : stale[t] \cap Cached = {}

\* An entry that is being installed belongs to its starter alone.
Installing ==
    \A t \in Threads : pc[t] = "install" =>
        /\ key[t] \notin Cached
        /\ refs[key[t]] = 1
        /\ \A u \in Threads : key[t] \notin stale[u] /\ (key[u] = key[t] => u = t)

\* A mark has a starter, and a waiting thread waits for a mark.
Marks ==
    /\ \A n \in starting : \E u \in Threads : pc[u] \in Starters /\ want[u] = n
    /\ \A t \in Threads : pc[t] = "waiting" => want[t] \in starting

\* Before a shutdown a node has one starter, and nothing cached before it
\* has installed what it started.
OneStarter ==
    ~down => \A t \in Threads :
        /\ pc[t] \in Starters =>
              /\ want[t] \in starting
              /\ \A u \in Threads : pc[u] \in Starters /\ want[u] = want[t] => u = t
        /\ pc[t] \in {"start", "install"} => entries[want[t]] = NoProc

CacheInv ==
    /\ Shapes
    /\ Places
    /\ Taken
    /\ Installing
    /\ Marks
    /\ OneStarter
    /\ RefsMatchHolders
    /\ LeasedNotStopped
    /\ NoneLeftBehind

-----------------------------------------------------------------------------
(* Holders, and what leaves the cache.                                     *)

LEMMA HoldingIsFinite ==
    ASSUME NEW p
    PROVE  IsFiniteSet(Holding(p)) /\ Cardinality(Holding(p)) \in Nat
<1>1. Holding(p) \subseteq Threads
    BY DEF Holding
<1>2. IsFiniteSet(Holding(p))
    BY <1>1, FS_Subset, RuntimeAssumption
<1> QED BY <1>2, FS_CardinalityType

LEMMA Unheld ==
    ASSUME CacheInv, NEW p \in Cached, refs[p] = 0
    PROVE  Holding(p) = {}
<1>1. Cardinality(Holding(p)) = 0
    BY DEF CacheInv, RefsMatchHolders
<1> QED BY <1>1, HoldingIsFinite, FS_EmptySet

LEMMA CachedEntries ==
    ASSUME Shapes
    PROVE  /\ Cached \subseteq Procs
           /\ \A n \in Nodes : entries[n] \in Cached \/ entries[n] = NoProc
           /\ \A p \in Cached : \E n \in Nodes : entries[n] = p
           /\ NoProc \notin Procs
BY RuntimeAssumption DEF Cached, Shapes

\* What a sweep takes from the cache is not running or held by nobody.
LEMMA SweptIsUnheld ==
    ASSUME CacheInv, NEW gone \in {Spent \cup E : E \in Evictions}
    PROVE  /\ gone \subseteq Cached
           /\ \A p \in gone : p \notin running \/ Holding(p) = {}
<1>1. PICK E \in SUBSET Evictable(Cached \ Spent) : gone = Spent \cup E
    BY DEF Evictions
<1>2. Spent \subseteq Cached /\ E \subseteq Cached /\ \A p \in E : refs[p] = 0
    BY <1>1 DEF Spent, Evictable
<1>3. \A p \in Spent : p \notin running \/ refs[p] = 0
    BY DEF Spent
<1> QED BY <1>1, <1>2, <1>3, Unheld

\* Dropping entries leaves each of the others at its node.
LEMMA Dropped ==
    ASSUME Shapes, Places, NEW gone \in SUBSET Procs, entries' = Without(gone)
    PROVE  /\ entries' \in [Nodes -> Procs \cup {NoProc}]
           /\ Cached' = Cached \ gone
           /\ \A n \in Nodes : entries'[n] = entries[n] \/ entries'[n] = NoProc
           /\ \A m, n \in Nodes : entries'[m] = entries'[n] /\ entries'[m] # NoProc => m = n
           /\ \A n \in Nodes : entries[n] \in Cached' => entries'[n] = entries[n]
<1>1. \A n \in Nodes : entries'[n] = IF entries[n] \in gone THEN NoProc ELSE entries[n]
    BY DEF Without
<1>2. entries' \in [Nodes -> Procs \cup {NoProc}]
    BY DEF Without, Shapes
<1>3. Cached' = Cached \ gone
    <2>1. NoProc \notin Procs
        BY RuntimeAssumption
    <2> QED BY <1>1, <2>1 DEF Cached
<1>4. \A m, n \in Nodes : entries'[m] = entries'[n] /\ entries'[m] # NoProc => m = n
    BY <1>1 DEF Places
<1>5. \A n \in Nodes : entries[n] \in Cached' => entries'[n] = entries[n]
    BY <1>1, <1>3
<1> QED BY <1>1, <1>2, <1>3, <1>4, <1>5

LEMMA WokenIsWaiting ==
    ASSUME Shapes, NEW u \in Threads
    PROVE  Woken[u] = pc[u] \/ (pc[u] = "waiting" /\ Woken[u] = "woken")
BY DEF Woken

-----------------------------------------------------------------------------
(* The actions.                                                            *)

LEMMA RoundKeeps ==
    ASSUME CacheInv, NEW t \in Threads, NEW n \in Nodes, Round(t, n)
    PROVE  CacheInv'
<1>1. PICK gone \in {Spent \cup E : E \in Evictions} :
          /\ pc[t] \in {"idle", "woken"} /\ stale[t] = {}
          /\ want' = [want EXCEPT ![t] = n]
          /\ stale' = [stale EXCEPT ![t] = gone]
          /\ entries' = Without(gone)
          /\ \/ /\ Without(gone)[n] # NoProc
                /\ refs' = [refs EXCEPT ![Without(gone)[n]] = @ + 1]
                /\ key' = [key EXCEPT ![t] = Without(gone)[n]]
                /\ pc' = [pc EXCEPT ![t] = "holding"]
                /\ UNCHANGED starting
             \/ /\ Without(gone)[n] = NoProc
                /\ pc' = [pc EXCEPT ![t] = IF n \in starting THEN "waiting" ELSE "start"]
                /\ starting' = starting \cup {n}
                /\ UNCHANGED <<refs, key>>
          /\ UNCHANGED <<running, down>>
    BY DEF Round, ToStop, BeingStarted, CacheInv, Taken
<1>2. gone \subseteq Cached /\ (\A p \in gone : p \notin running \/ Holding(p) = {})
    BY SweptIsUnheld
<1>3. Cached \subseteq Procs /\ NoProc \notin Procs
    BY CachedEntries DEF CacheInv
<1>4. /\ entries' \in [Nodes -> Procs \cup {NoProc}] /\ Cached' = Cached \ gone
      /\ \A m \in Nodes : entries'[m] = entries[m] \/ entries'[m] = NoProc
      /\ \A m, k \in Nodes : entries'[m] = entries'[k] /\ entries'[m] # NoProc => m = k
      /\ \A m \in Nodes : entries[m] \in Cached' => entries'[m] = entries[m]
    BY <1>1, <1>2, <1>3, Dropped DEF CacheInv
<1>5. key[t] = NoProc
    BY <1>1 DEF CacheInv, Places, Holders
<1> DEFINE p == entries'[n]
<1>6. \/ /\ p # NoProc /\ p \in Cached'
         /\ refs' = [refs EXCEPT ![p] = @ + 1] /\ key' = [key EXCEPT ![t] = p]
         /\ pc' = [pc EXCEPT ![t] = "holding"] /\ starting' = starting
      \/ /\ p = NoProc /\ refs' = refs /\ key' = key
         /\ \/ n \in starting /\ pc' = [pc EXCEPT ![t] = "waiting"] /\ starting' = starting
            \/ n \notin starting /\ pc' = [pc EXCEPT ![t] = "start"] /\ starting' = starting \cup {n}
    <2>1. p = Without(gone)[n]
        BY <1>1
    <2>2. p # NoProc => p \in Cached'
        BY <1>4 DEF Cached
    <2> HIDE DEF p
    <2>3. CASE p # NoProc
        BY <1>1, <2>1, <2>2, <2>3
    <2>4. CASE p = NoProc /\ n \in starting
        <3>1. starting \cup {n} = starting
            BY <2>4
        <3> QED BY <1>1, <2>1, <2>4, <3>1
    <2>5. CASE p = NoProc /\ n \notin starting
        BY <1>1, <2>1, <2>5
    <2> QED BY <2>3, <2>4, <2>5
<1>7. p \in Procs \cup {NoProc}
    BY <1>4
<1> HIDE DEF p
<1>8. \A u \in Threads : u # t => /\ pc'[u] = pc[u] /\ key'[u] = key[u]
                                  /\ want'[u] = want[u] /\ stale'[u] = stale[u]
    BY <1>1, <1>6 DEF CacheInv, Shapes
<1>9. /\ want'[t] = n /\ stale'[t] = gone /\ pc'[t] \in {"holding", "waiting", "start"}
      /\ key'[t] \in {p, NoProc} /\ (key'[t] # NoProc <=> pc'[t] = "holding")
    BY <1>1, <1>5, <1>6 DEF CacheInv, Shapes
<1>10. Shapes'
    <2>1. refs' \in [Procs -> Nat] /\ key' \in [Threads -> Procs \cup {NoProc}] /\ starting' \subseteq Nodes
        BY <1>6, <1>7 DEF CacheInv, Shapes
    <2>2. pc' \in [Threads -> States]
        BY <1>6 DEF CacheInv, Shapes, States, Starters
    <2>3. want' \in [Threads -> Nodes] /\ stale' \in [Threads -> SUBSET Procs] /\ running' \subseteq Procs
        BY <1>1, <1>2, <1>3 DEF CacheInv, Shapes
    <2> QED BY <1>4, <2>1, <2>2, <2>3 DEF Shapes
<1>11. Places'
    <2>1. \A u \in Threads : key'[u] # NoProc <=> pc'[u] \in Holders
        BY <1>8, <1>9 DEF CacheInv, Places, Holders
    <2>2. \A u \in Threads : key'[u] \in Cached' => entries'[want'[u]] = key'[u]
        <3> SUFFICES ASSUME NEW u \in Threads, key'[u] \in Cached'
                     PROVE  entries'[want'[u]] = key'[u]
            OBVIOUS
        <3>1. CASE u = t
            BY <1>3, <1>4, <1>9, <3>1 DEF p
        <3>2. CASE u # t
            <4>1. key[u] \in Cached /\ want[u] \in Nodes
                BY <1>4, <1>8, <3>2 DEF CacheInv, Shapes
            <4> QED BY <1>4, <1>8, <3>2, <4>1 DEF CacheInv, Places
        <3> QED BY <3>1, <3>2
    <2> QED BY <1>4, <2>1, <2>2 DEF Places
<1>12. Taken'
    BY <1>4, <1>8, <1>9 DEF CacheInv, Taken
<1>13. Installing'
    <2> SUFFICES ASSUME NEW u \in Threads, pc'[u] = "install"
                 PROVE  /\ key'[u] \notin Cached' /\ refs'[key'[u]] = 1
                        /\ \A w \in Threads : key'[u] \notin stale'[w] /\ (key'[w] = key'[u] => w = u)
        BY DEF Installing
    <2>1. /\ u # t /\ pc[u] = "install" /\ key'[u] = key[u] /\ key[u] \notin Cached /\ refs[key[u]] = 1
          /\ \A w \in Threads : key[u] \notin stale[w] /\ (key[w] = key[u] => w = u)
        BY <1>8, <1>9 DEF CacheInv, Installing
    <2>2. key[u] # NoProc /\ key[u] \in Procs
        BY <2>1 DEF CacheInv, Places, Holders, Shapes
    <2>3. key'[t] # key[u]
        BY <1>4, <1>6, <1>9, <2>1, <2>2
    <2>4. refs'[key[u]] = refs[key[u]]
        BY <1>4, <1>6, <2>1, <2>2 DEF CacheInv, Shapes
    <2> QED BY <1>2, <1>4, <1>8, <1>9, <2>1, <2>3, <2>4
<1>14. Marks'
    <2>1. \A m \in starting' : \E u \in Threads : pc'[u] \in Starters /\ want'[u] = m
        <3> SUFFICES ASSUME NEW m \in starting' PROVE \E u \in Threads : pc'[u] \in Starters /\ want'[u] = m
            OBVIOUS
        <3>1. CASE m \in starting
            <4>1. PICK u \in Threads : pc[u] \in Starters /\ want[u] = m
                BY <3>1 DEF CacheInv, Marks
            <4> QED BY <1>1, <1>8, <4>1 DEF Starters
        <3>2. CASE m \notin starting
            <4>1. m = n /\ pc'[t] = "start"
                BY <1>6, <3>2 DEF CacheInv, Shapes
            <4> QED BY <1>9, <4>1 DEF Starters
        <3> QED BY <3>1, <3>2
    <2>2. \A u \in Threads : pc'[u] = "waiting" => want'[u] \in starting'
        <3>1. starting \subseteq starting' /\ (pc'[t] = "waiting" => n \in starting)
            BY <1>6 DEF CacheInv, Shapes
        <3> QED BY <1>8, <1>9, <3>1 DEF CacheInv, Marks
    <2> QED BY <2>1, <2>2 DEF Marks
<1>15. OneStarter'
    <2> SUFFICES ASSUME ~down, NEW u \in Threads
                 PROVE  /\ pc'[u] \in Starters =>
                              /\ want'[u] \in starting'
                              /\ \A w \in Threads : pc'[w] \in Starters /\ want'[w] = want'[u] => w = u
                        /\ pc'[u] \in {"start", "install"} => entries'[want'[u]] = NoProc
        BY <1>1 DEF OneStarter
    <2>1. starting \subseteq starting'
        BY <1>6
    <2>2. pc'[t] \in Starters => p = NoProc /\ n \notin starting /\ n \in starting'
        BY <1>6, <1>9 DEF CacheInv, Shapes, Starters
    <2>3. \A w \in Threads : w # t /\ pc'[w] \in Starters => want'[w] \in starting
        BY <1>8 DEF CacheInv, OneStarter
    <2>4. CASE u = t
        <3>1. pc'[t] \in {"start", "install"} => entries'[n] = NoProc
            BY <2>2 DEF Starters, p
        <3> QED BY <1>9, <2>2, <2>3, <2>4, <3>1
    <2>5. CASE u # t
        <3>1. pc[u] \in {"start", "install"} => entries'[want[u]] = NoProc
            BY <1>4 DEF CacheInv, OneStarter, Shapes
        <3> QED BY <1>8, <1>9, <2>1, <2>2, <2>3, <2>5, <3>1 DEF CacheInv, OneStarter
    <2> QED BY <2>4, <2>5
<1>16. \A q \in Procs : Holding(q)' = IF key'[t] = q THEN Holding(q) \cup {t} ELSE Holding(q)
    BY <1>3, <1>5, <1>8 DEF Holding
<1>17. RefsMatchHolders'
    <2> SUFFICES ASSUME NEW q \in Cached' PROVE refs'[q] = Cardinality(Holding(q)')
        BY DEF RefsMatchHolders
    <2>1. q \in Cached /\ q \in Procs /\ refs[q] = Cardinality(Holding(q))
        BY <1>3, <1>4 DEF CacheInv, RefsMatchHolders
    <2>2. CASE key'[t] = q
        <3>1. refs'[q] = refs[q] + 1
            BY <1>3, <1>6, <1>5, <2>1, <2>2 DEF CacheInv, Shapes
        <3>2. t \notin Holding(q)
            BY <1>3, <1>5, <2>1 DEF Holding
        <3>3. Cardinality(Holding(q) \cup {t}) = Cardinality(Holding(q)) + 1
            BY <3>2, HoldingIsFinite, FS_AddElement
        <3> QED BY <1>16, <2>1, <2>2, <3>1, <3>3
    <2>3. CASE key'[t] # q
        <3>1. refs'[q] = refs[q]
            BY <1>6, <2>1, <2>3 DEF CacheInv, Shapes
        <3> QED BY <1>16, <2>1, <2>3, <3>1
    <2> QED BY <2>2, <2>3
<1>18. LeasedNotStopped'
    <2> SUFFICES ASSUME ~down, NEW u \in Threads, NEW q \in stale'[u] \cap running
                 PROVE  Holding(q)' = {}
        BY <1>1 DEF LeasedNotStopped
    <2>1. q \in Procs /\ Holding(q) = {}
        BY <1>2, <1>8, <1>9 DEF CacheInv, LeasedNotStopped, Shapes
    <2>2. q \notin Cached'
        BY <1>12 DEF Taken
    <2>3. key'[t] # q
        BY <1>3, <1>6, <1>9, <2>1, <2>2
    <2> QED BY <1>16, <2>1, <2>3
<1>19. NoneLeftBehind'
    <2> SUFFICES ASSUME ~down, NEW q \in running, q \notin Cached'
                 PROVE  \E u \in Threads : q \in stale'[u] \/ (pc'[u] = "install" /\ key'[u] = q)
        BY <1>1 DEF NoneLeftBehind
    <2>1. CASE q \in Cached
        BY <1>4, <1>9, <2>1
    <2>2. CASE q \notin Cached
        <3>1. PICK u \in Threads : q \in stale[u] \/ (pc[u] = "install" /\ key[u] = q)
            BY <2>2 DEF CacheInv, NoneLeftBehind
        <3> QED BY <1>1, <1>8, <3>1
    <2> QED BY <2>1, <2>2
<1> QED BY <1>10, <1>11, <1>12, <1>13, <1>14, <1>15, <1>17, <1>18, <1>19 DEF CacheInv

LEMMA StopStaleKeeps ==
    ASSUME CacheInv, NEW t \in Threads, StopStale(t)
    PROVE  CacheInv'
<1>1. /\ stale[t] # {} /\ pc[t] # "waiting"
      /\ running' = running \ stale[t] /\ stale' = [stale EXCEPT ![t] = {}]
      /\ pc' = [pc EXCEPT ![t] = IF @ = "stopping" THEN "idle" ELSE @]
      /\ UNCHANGED <<entries, starting, refs, want, key, down>>
    BY DEF StopStale
<1>2. /\ Cached' = Cached
      /\ \A q : Holding(q)' = Holding(q)
    BY <1>1 DEF Cached, Holding
<1>3. \A u \in Threads : /\ stale'[u] \subseteq stale[u] /\ (u # t => stale'[u] = stale[u])
                         /\ pc'[u] = pc[u] \/ (u = t /\ pc[u] = "stopping" /\ pc'[u] = "idle")
    BY <1>1 DEF CacheInv, Shapes
<1>4. stale'[t] = {}
    BY <1>1 DEF CacheInv, Shapes
<1>5. Shapes'
    <2>1. pc' \in [Threads -> States]
        BY <1>1 DEF CacheInv, Shapes, States
    <2>2. stale' \in [Threads -> SUBSET Procs] /\ running' \subseteq Procs
        BY <1>1 DEF CacheInv, Shapes
    <2> QED BY <1>1, <2>1, <2>2 DEF CacheInv, Shapes
<1>6. Places' /\ Taken'
    BY <1>1, <1>2, <1>3, <1>4 DEF CacheInv, Places, Taken, Holders
<1>7. Installing' /\ Marks'
    <2>1. Installing'
        BY <1>1, <1>2, <1>3 DEF CacheInv, Installing
    <2>2. Marks'
        BY <1>1, <1>3 DEF CacheInv, Marks, Starters
    <2> QED BY <2>1, <2>2
<1>8. OneStarter'
    BY <1>1, <1>3 DEF CacheInv, OneStarter, Starters
<1>9. RefsMatchHolders' /\ LeasedNotStopped'
    BY <1>1, <1>2, <1>3 DEF CacheInv, RefsMatchHolders, LeasedNotStopped
<1>10. NoneLeftBehind'
    <2> SUFFICES ASSUME ~down, NEW q \in running', q \notin Cached
                 PROVE  \E u \in Threads : q \in stale'[u] \/ (pc'[u] = "install" /\ key'[u] = q)
        BY <1>1, <1>2 DEF NoneLeftBehind
    <2>1. PICK u \in Threads : q \in stale[u] \/ (pc[u] = "install" /\ key[u] = q)
        BY <1>1 DEF CacheInv, NoneLeftBehind
    <2> QED BY <1>1, <1>3, <2>1
<1> QED BY <1>5, <1>6, <1>7, <1>8, <1>9, <1>10 DEF CacheInv

LEMMA StartOkKeeps ==
    ASSUME CacheInv, NEW t \in Threads, StartOk(t)
    PROVE  CacheInv'
<1>1. PICK p \in Fresh :
          /\ pc[t] = "start" /\ stale[t] = {}
          /\ running' = running \cup {p} /\ key' = [key EXCEPT ![t] = p]
          /\ refs' = [refs EXCEPT ![p] = 1] /\ pc' = [pc EXCEPT ![t] = "install"]
          /\ UNCHANGED <<entries, starting, want, stale, down>>
    BY DEF StartOk
<1>2. /\ p \in Procs /\ p # NoProc /\ p \notin Cached /\ p \notin running
      /\ \A u \in Threads : p \notin stale[u] /\ key[u] # p
    BY RuntimeAssumption DEF Fresh
<1>3. key[t] = NoProc
    BY <1>1 DEF CacheInv, Places, Holders
<1>4. /\ \A u \in Threads : u # t => pc'[u] = pc[u] /\ key'[u] = key[u]
      /\ key'[t] = p /\ pc'[t] = "install" /\ refs'[p] = 1
      /\ \A q \in Procs : q # p => refs'[q] = refs[q]
    BY <1>1, <1>2 DEF CacheInv, Shapes
<1>5. Cached' = Cached /\ \A q \in Procs : q # p => Holding(q)' = Holding(q)
    BY <1>1, <1>3, <1>4, RuntimeAssumption DEF Cached, Holding
<1>6. Shapes'
    <2>1. pc' \in [Threads -> States] /\ key' \in [Threads -> Procs \cup {NoProc}]
        BY <1>1, <1>2 DEF CacheInv, Shapes, States, Starters
    <2>2. refs' \in [Procs -> Nat] /\ running' \subseteq Procs
        BY <1>1, <1>2 DEF CacheInv, Shapes
    <2> QED BY <1>1, <2>1, <2>2 DEF CacheInv, Shapes
<1>7. Places' /\ Taken'
    BY <1>1, <1>2, <1>4, <1>5 DEF CacheInv, Places, Taken, Holders
<1>8. Installing'
    <2> SUFFICES ASSUME NEW u \in Threads, pc'[u] = "install"
                 PROVE  /\ key'[u] \notin Cached' /\ refs'[key'[u]] = 1
                        /\ \A w \in Threads : key'[u] \notin stale'[w] /\ (key'[w] = key'[u] => w = u)
        BY DEF Installing
    <2>1. CASE u = t
        BY <1>1, <1>2, <1>4, <1>5, <2>1
    <2>2. CASE u # t
        <3>1. pc[u] = "install" /\ key[u] \in Procs
            BY <1>4, <2>2 DEF CacheInv, Places, Holders, Shapes
        <3> QED BY <1>1, <1>2, <1>4, <1>5, <2>2, <3>1 DEF CacheInv, Installing
    <2> QED BY <2>1, <2>2
<1>9. Marks'
    <2>1. \A u \in Threads : (pc'[u] \in Starters <=> pc[u] \in Starters) /\ (pc'[u] = "waiting" <=> pc[u] = "waiting")
        BY <1>1, <1>4 DEF Starters
    <2> QED BY <1>1, <2>1 DEF CacheInv, Marks
<1>10. OneStarter'
    <2>1. \A u \in Threads : /\ pc'[u] \in Starters <=> pc[u] \in Starters
                             /\ pc'[u] \in {"start", "install"} <=> pc[u] \in {"start", "install"}
        BY <1>1, <1>4 DEF Starters
    <2> QED BY <1>1, <2>1 DEF CacheInv, OneStarter
<1>11. RefsMatchHolders'
    BY <1>2, <1>4, <1>5, CachedEntries DEF CacheInv, RefsMatchHolders
<1>12. LeasedNotStopped'
    <2> SUFFICES ASSUME ~down, NEW u \in Threads, NEW q \in stale[u] \cap running'
                 PROVE  Holding(q)' = {}
        BY <1>1 DEF LeasedNotStopped
    <2>1. q # p /\ q \in running /\ q \in Procs
        BY <1>1, <1>2 DEF CacheInv, Shapes
    <2> QED BY <1>5, <2>1 DEF CacheInv, LeasedNotStopped
<1>13. NoneLeftBehind'
    <2> SUFFICES ASSUME ~down, NEW q \in running', q \notin Cached
                 PROVE  \E u \in Threads : q \in stale[u] \/ (pc'[u] = "install" /\ key'[u] = q)
        BY <1>1, <1>5 DEF NoneLeftBehind
    <2>1. CASE q = p
        BY <1>4, <2>1
    <2>2. CASE q # p
        <3>1. PICK u \in Threads : q \in stale[u] \/ (pc[u] = "install" /\ key[u] = q)
            BY <1>1, <2>2 DEF CacheInv, NoneLeftBehind
        <3> QED BY <1>1, <1>4, <3>1
    <2> QED BY <2>1, <2>2
<1> QED BY <1>6, <1>7, <1>8, <1>9, <1>10, <1>11, <1>12, <1>13 DEF CacheInv

LEMMA InstallKeeps ==
    ASSUME CacheInv, NEW t \in Threads, Install(t)
    PROVE  CacheInv'
<1>1. /\ pc[t] = "install" /\ entries' = [entries EXCEPT ![want[t]] = key[t]]
      /\ pc' = [pc EXCEPT ![t] = "finish"]
      /\ UNCHANGED <<starting, refs, running, want, key, stale, down>>
    BY DEF Install
<1> DEFINE p == key[t]
           n == want[t]
<1>2. /\ p \in Procs /\ p # NoProc /\ n \in Nodes /\ p \notin Cached /\ refs[p] = 1
      /\ \A u \in Threads : p \notin stale[u] /\ (key[u] = p => u = t)
    BY <1>1 DEF CacheInv, Shapes, Places, Holders, Installing
<1>3. entries' = [entries EXCEPT ![n] = p]
    BY <1>1
<1>4. \A u \in Threads : (u # t => pc'[u] = pc[u]) /\ (u = t => pc'[u] = "finish")
    BY <1>1 DEF CacheInv, Shapes
<1>5. \A m \in Nodes : entries'[m] = IF m = n THEN p ELSE entries[m]
    BY <1>1, <1>2 DEF CacheInv, Shapes
<1>6. Holding(p) = {t}
    BY <1>2 DEF Holding
<1> HIDE DEF p, n
<1>7. /\ Cached' \subseteq Cached \cup {p} /\ p \in Cached' /\ \A q : Holding(q)' = Holding(q)
      /\ ~down => Cached' = Cached \cup {p}
    <2>1. Cached' \subseteq Cached \cup {p} /\ p \in Cached'
        BY <1>2, <1>5 DEF Cached
    <2>2. \A q : Holding(q)' = Holding(q)
        BY <1>1 DEF Holding
    <2>3. ~down => entries[n] = NoProc
        BY <1>1 DEF CacheInv, OneStarter, n
    <2>4. ~down => Cached \subseteq Cached'
        BY <1>2, <1>5, <2>3, RuntimeAssumption DEF Cached
    <2> QED BY <2>1, <2>2, <2>4
<1>8. \A q \in Cached' : q # p => \E m \in Nodes : m # n /\ entries[m] = q /\ entries'[m] = q
    BY <1>5 DEF Cached
<1>9. Shapes'
    <2>1. entries' \in [Nodes -> Procs \cup {NoProc}]
        BY <1>2, <1>3 DEF CacheInv, Shapes
    <2>2. pc' \in [Threads -> States]
        BY <1>1 DEF CacheInv, Shapes, States, Starters
    <2> QED BY <1>1, <2>1, <2>2 DEF CacheInv, Shapes
<1>10. Places'
    <2>1. \A m, k \in Nodes : entries'[m] = entries'[k] /\ entries'[m] # NoProc => m = k
        <3>1. \A m \in Nodes : entries[m] # p
            BY <1>2 DEF Cached
        <3> QED BY <1>5, <3>1 DEF CacheInv, Places
    <2>2. \A u \in Threads : key[u] # NoProc <=> pc'[u] \in Holders
        BY <1>1, <1>4 DEF CacheInv, Places, Holders
    <2>3. ASSUME NEW u \in Threads, key[u] \in Cached'
          PROVE  entries'[want[u]] = key[u]
        <3>1. CASE key[u] = p
            BY <1>2, <1>5, <3>1 DEF n, p
        <3>2. CASE key[u] # p
            <4>1. PICK m \in Nodes : m # n /\ entries[m] = key[u] /\ entries'[m] = key[u]
                BY <1>8, <2>3, <3>2
            <4>2. key[u] \in Cached /\ want[u] \in Nodes
                BY <1>7, <2>3, <3>2 DEF CacheInv, Shapes
            <4>3. entries[want[u]] = key[u] /\ key[u] # NoProc
                BY <4>2, RuntimeAssumption DEF CacheInv, Places, Cached
            <4>4. want[u] = m
                BY <4>1, <4>2, <4>3 DEF CacheInv, Places
            <4> QED BY <4>1, <4>4
        <3> QED BY <3>1, <3>2
    <2> QED BY <1>1, <2>1, <2>2, <2>3 DEF Places
<1>11. Taken'
    BY <1>1, <1>2, <1>4, <1>7 DEF CacheInv, Taken
<1>12. Installing'
    <2> SUFFICES ASSUME NEW u \in Threads, pc'[u] = "install"
                 PROVE  /\ key[u] \notin Cached' /\ refs[key[u]] = 1
                        /\ \A w \in Threads : key[u] \notin stale[w] /\ (key[w] = key[u] => w = u)
        BY <1>1 DEF Installing
    <2>1. u # t /\ pc[u] = "install"
        BY <1>4
    <2>2. key[u] # p
        BY <1>2, <2>1
    <2> QED BY <1>7, <2>1, <2>2 DEF CacheInv, Installing
<1>13. Marks'
    <2>1. \A u \in Threads : (pc'[u] \in Starters <=> pc[u] \in Starters) /\ (pc'[u] = "waiting" <=> pc[u] = "waiting")
        BY <1>1, <1>4 DEF Starters
    <2> QED BY <1>1, <2>1 DEF CacheInv, Marks
<1>14. OneStarter'
    <2> SUFFICES ASSUME ~down, NEW u \in Threads
                 PROVE  /\ pc'[u] \in Starters =>
                              /\ want[u] \in starting
                              /\ \A w \in Threads : pc'[w] \in Starters /\ want[w] = want[u] => w = u
                        /\ pc'[u] \in {"start", "install"} => entries'[want[u]] = NoProc
        BY <1>1 DEF OneStarter
    <2>1. \A w \in Threads : pc'[w] \in Starters <=> pc[w] \in Starters
        BY <1>1, <1>4 DEF Starters
    <2>2. pc'[u] \in {"start", "install"} => u # t /\ pc[u] \in {"start", "install"}
        BY <1>4
    <2>3. pc'[u] \in {"start", "install"} => want[u] # n /\ want[u] \in Nodes
        BY <1>1, <2>2 DEF CacheInv, OneStarter, Shapes, Starters, n
    <2> QED BY <1>5, <2>1, <2>2, <2>3 DEF CacheInv, OneStarter
<1>15. RefsMatchHolders'
    <2>1. Cardinality(Holding(p)) = 1
        BY <1>6, FS_Singleton
    <2> QED BY <1>1, <1>2, <1>7, <2>1 DEF CacheInv, RefsMatchHolders
<1>16. LeasedNotStopped'
    BY <1>1, <1>7 DEF CacheInv, LeasedNotStopped
<1>17. NoneLeftBehind'
    <2> SUFFICES ASSUME ~down, NEW q \in running, q \notin Cached'
                 PROVE  \E u \in Threads : q \in stale[u] \/ (pc'[u] = "install" /\ key[u] = q)
        BY <1>1 DEF NoneLeftBehind
    <2>1. PICK u \in Threads : q \in stale[u] \/ (pc[u] = "install" /\ key[u] = q)
        BY <1>7 DEF CacheInv, NoneLeftBehind
    <2>2. q # p
        BY <1>7
    <2> QED BY <1>4, <2>1, <2>2 DEF p
<1> QED BY <1>9, <1>10, <1>11, <1>12, <1>13, <1>14, <1>15, <1>16, <1>17 DEF CacheInv

LEMMA FinishKeeps ==
    ASSUME CacheInv, NEW t \in Threads, Finish(t)
    PROVE  CacheInv'
<1>1. /\ pc[t] = "finish" \/ (pc[t] = "start" /\ stale[t] = {})
      /\ starting' = starting \ {want[t]}
      /\ pc' = [Woken EXCEPT ![t] = IF pc[t] = "finish" THEN "holding" ELSE "idle"]
      /\ UNCHANGED <<entries, refs, running, want, key, stale, down>>
    BY DEF Finish, WokenBy
<1>2. Woken \in [Threads -> States]
    BY DEF Woken, CacheInv, Shapes, States
<1>3. \A u \in Threads : u # t => /\ pc'[u] = pc[u] \/ (pc[u] = "waiting" /\ pc'[u] = "woken")
                                  /\ pc'[u] # "waiting"
    BY <1>1, <1>2 DEF Woken
<1>4. pc'[t] = IF pc[t] = "finish" THEN "holding" ELSE "idle"
    BY <1>1, <1>2
<1>5. Cached' = Cached /\ \A q : Holding(q)' = Holding(q)
    BY <1>1 DEF Cached, Holding
<1>6. Shapes'
    <2>1. pc' \in [Threads -> States]
        BY <1>1, <1>2 DEF States
    <2> QED BY <1>1, <2>1 DEF CacheInv, Shapes
<1>7. \A u \in Threads : pc'[u] \in Holders <=> pc[u] \in Holders
    BY <1>1, <1>3, <1>4 DEF Holders
<1>8. Places' /\ Taken'
    <2>1. Places'
        BY <1>1, <1>5, <1>7 DEF CacheInv, Places
    <2>2. \A u \in Threads : pc'[u] = "idle" => stale[u] = {}
        BY <1>1, <1>3, <1>4 DEF CacheInv, Taken
    <2> QED BY <1>1, <1>5, <2>1, <2>2 DEF CacheInv, Taken
<1>9. Installing'
    BY <1>1, <1>3, <1>4, <1>5 DEF CacheInv, Installing
<1>10. Marks'
    <2>1. \A m \in starting' : \E u \in Threads : pc'[u] \in Starters /\ want[u] = m
        <3> SUFFICES ASSUME NEW m \in starting' PROVE \E u \in Threads : pc'[u] \in Starters /\ want[u] = m
            OBVIOUS
        <3>1. PICK u \in Threads : pc[u] \in Starters /\ want[u] = m
            BY <1>1 DEF CacheInv, Marks
        <3>2. u # t
            BY <1>1, <3>1
        <3> QED BY <1>3, <3>1, <3>2 DEF Starters
    <2>2. \A u \in Threads : pc'[u] # "waiting"
        BY <1>3, <1>4
    <2> QED BY <1>1, <2>1, <2>2 DEF Marks
<1>11. OneStarter'
    <2> SUFFICES ASSUME ~down, NEW u \in Threads
                 PROVE  /\ pc'[u] \in Starters =>
                              /\ want[u] \in starting'
                              /\ \A w \in Threads : pc'[w] \in Starters /\ want[w] = want[u] => w = u
                        /\ pc'[u] \in {"start", "install"} => entries[want[u]] = NoProc
        BY <1>1 DEF OneStarter
    <2>1. \A w \in Threads : pc'[w] \in Starters => w # t /\ pc[w] = pc'[w]
        BY <1>3, <1>4 DEF Starters
    <2>2. pc'[u] \in Starters => want[u] # want[t]
        BY <1>1, <2>1 DEF CacheInv, OneStarter, Starters
    <2> QED BY <1>1, <2>1, <2>2 DEF CacheInv, OneStarter, Starters
<1>12. RefsMatchHolders' /\ LeasedNotStopped'
    BY <1>1, <1>5 DEF CacheInv, RefsMatchHolders, LeasedNotStopped
<1>13. NoneLeftBehind'
    <2>1. \A u \in Threads : pc[u] = "install" => pc'[u] = "install"
        BY <1>1, <1>3
    <2> QED BY <1>1, <1>5, <2>1 DEF CacheInv, NoneLeftBehind
<1> QED BY <1>6, <1>8, <1>9, <1>10, <1>11, <1>12, <1>13 DEF CacheInv

LEMMA ReleaseKeeps ==
    ASSUME CacheInv, NEW t \in Threads, Release(t)
    PROVE  CacheInv'
<1>0. PICK p : p = key[t]
    OBVIOUS
<1> DEFINE mine == Released(t)
           last == {q \in mine : refs[q] <= 1}
           gone == IF noTtl THEN last ELSE {}
<1>1. /\ pc[t] = "holding" /\ stale[t] = {}
      /\ refs' = [q \in Procs |-> IF q \in mine /\ refs[q] > 0 THEN refs[q] - 1 ELSE refs[q]]
      /\ entries' = Without(gone)
      /\ stale' = [stale EXCEPT ![t] = gone]
      /\ pc' = [(IF mine = {} THEN pc ELSE Woken) EXCEPT ![t] = IF gone = {} THEN "idle" ELSE "stopping"]
      /\ key' = [key EXCEPT ![t] = NoProc]
      /\ UNCHANGED <<starting, running, want, down>>
    BY DEF Release
<1>2. p \in Procs /\ p # NoProc /\ want[t] \in Nodes /\ NoProc \notin Procs
    BY <1>0, <1>1, RuntimeAssumption DEF CacheInv, Shapes, Places, Holders
<1>3. mine = IF p \in Cached THEN {p} ELSE {}
    BY <1>0, <1>2 DEF Released, CacheInv, Places, Cached
<1>4. /\ gone \subseteq mine /\ \A q \in gone : refs[q] <= 1
    OBVIOUS
<1>5. /\ entries' \in [Nodes -> Procs \cup {NoProc}] /\ Cached' = Cached \ gone
      /\ \A m \in Nodes : entries'[m] = entries[m] \/ entries'[m] = NoProc
      /\ \A m, k \in Nodes : entries'[m] = entries'[k] /\ entries'[m] # NoProc => m = k
      /\ \A m \in Nodes : entries[m] \in Cached' => entries'[m] = entries[m]
    <2>1. gone \in SUBSET Procs
        BY <1>2, <1>3, <1>4
    <2> HIDE DEF gone
    <2> QED BY <1>1, <2>1, Dropped DEF CacheInv
<1> HIDE DEF gone, mine
<1>6. \A u \in Threads : u # t => /\ pc'[u] = pc[u] \/ (pc[u] = "waiting" /\ pc'[u] = "woken")
                                  /\ key'[u] = key[u] /\ stale'[u] = stale[u]
    BY <1>1 DEF CacheInv, Shapes, Woken
<1>7. /\ key'[t] = NoProc /\ stale'[t] = gone /\ pc'[t] \in {"idle", "stopping"}
      /\ pc'[t] = "idle" => gone = {}
    BY <1>1 DEF CacheInv, Shapes, Woken
<1>8. t \in Holding(p) /\ Holding(p)' = Holding(p) \ {t}
      /\ \A q \in Procs \ {p} : Holding(q)' = Holding(q)
    BY <1>0, <1>2, <1>6, <1>7 DEF Holding
<1>9. /\ Cardinality(Holding(p)) \in Nat \ {0}
      /\ Cardinality(Holding(p) \ {t}) = Cardinality(Holding(p)) - 1
      /\ Cardinality(Holding(p)) = 1 => Holding(p) = {t}
    <2>1. IsFiniteSet(Holding(p)) /\ Cardinality(Holding(p)) \in Nat
        BY HoldingIsFinite
    <2>2. Cardinality(Holding(p)) # 0
        BY <1>8, <2>1, FS_EmptySet
    <2>3. Cardinality(Holding(p) \ {t}) = Cardinality(Holding(p)) - 1
        BY <1>8, <2>1, FS_RemoveElement
    <2>4. Cardinality(Holding(p)) = 1 => Holding(p) = {t}
        BY <1>8, <2>1, FS_Singleton
    <2> QED BY <2>1, <2>2, <2>3, <2>4
<1>10. p \in Cached => refs[p] = Cardinality(Holding(p))
    BY DEF CacheInv, RefsMatchHolders
<1>11. \A q \in gone : q = p /\ p \in Cached /\ Holding(p)' = {}
    <2> SUFFICES ASSUME NEW q \in gone PROVE q = p /\ p \in Cached /\ Holding(p)' = {}
        OBVIOUS
    <2>1. q = p /\ p \in Cached /\ refs[p] <= 1
        BY <1>3, <1>4
    <2>2. Cardinality(Holding(p)) = 1
        BY <1>9, <1>10, <2>1
    <2> QED BY <1>8, <1>9, <2>1, <2>2
<1>12. \A q \in Procs : refs'[q] = IF q = p /\ p \in Cached /\ refs[q] > 0 THEN refs[q] - 1 ELSE refs[q]
    BY <1>1, <1>3
<1>13. Shapes'
    <2>1. refs' \in [Procs -> Nat]
        <3>1. \A q \in Procs : refs'[q] \in Nat
            BY <1>12 DEF CacheInv, Shapes
        <3> QED BY <1>1, <3>1
    <2>2. pc' \in [Threads -> States]
        BY <1>1 DEF CacheInv, Shapes, States, Woken
    <2>3. key' \in [Threads -> Procs \cup {NoProc}] /\ stale' \in [Threads -> SUBSET Procs]
        BY <1>1, <1>2, <1>11 DEF CacheInv, Shapes
    <2> QED BY <1>1, <1>5, <2>1, <2>2, <2>3 DEF CacheInv, Shapes
<1>14. Places'
    <2>1. \A u \in Threads : key'[u] # NoProc <=> pc'[u] \in Holders
        BY <1>6, <1>7 DEF CacheInv, Places, Holders
    <2>2. ASSUME NEW u \in Threads, key'[u] \in Cached'
          PROVE  entries'[want[u]] = key'[u]
        <3>1. u # t
            BY <1>2, <1>7, <2>2, CachedEntries, <1>5 DEF CacheInv
        <3>2. key[u] \in Cached /\ want[u] \in Nodes
            BY <1>5, <1>6, <2>2, <3>1 DEF CacheInv, Shapes
        <3> QED BY <1>5, <1>6, <2>2, <3>1, <3>2 DEF CacheInv, Places
    <2> QED BY <1>1, <1>5, <2>1, <2>2 DEF Places
<1>15. Taken'
    BY <1>5, <1>6, <1>7 DEF CacheInv, Taken
<1>16. Installing'
    <2> SUFFICES ASSUME NEW u \in Threads, pc'[u] = "install"
                 PROVE  /\ key'[u] \notin Cached' /\ refs'[key'[u]] = 1
                        /\ \A w \in Threads : key'[u] \notin stale'[w] /\ (key'[w] = key'[u] => w = u)
        BY DEF Installing
    <2>1. /\ u # t /\ pc[u] = "install" /\ key'[u] = key[u] /\ key[u] \notin Cached /\ refs[key[u]] = 1
          /\ \A w \in Threads : key[u] \notin stale[w] /\ (key[w] = key[u] => w = u)
        BY <1>6, <1>7 DEF CacheInv, Installing
    <2>2. key[u] # NoProc /\ key[u] \in Procs /\ key[u] # p
        BY <1>0, <2>1 DEF CacheInv, Places, Holders, Shapes
    <2> QED BY <1>5, <1>6, <1>7, <1>11, <1>12, <2>1, <2>2
<1>17. \A u \in Threads : pc'[u] \in Starters \cup {"waiting"} => u # t /\ pc[u] = pc'[u]
    BY <1>6, <1>7 DEF Starters
<1>18. Marks'
    <2>1. \A u \in Threads : pc[u] \in Starters => pc'[u] = pc[u]
        BY <1>1, <1>6 DEF Starters
    <2> QED BY <1>1, <1>17, <2>1 DEF CacheInv, Marks
<1>19. OneStarter'
    <2> SUFFICES ASSUME ~down, NEW u \in Threads
                 PROVE  /\ pc'[u] \in Starters =>
                              /\ want[u] \in starting
                              /\ \A w \in Threads : pc'[w] \in Starters /\ want[w] = want[u] => w = u
                        /\ pc'[u] \in {"start", "install"} => entries'[want[u]] = NoProc
        BY <1>1 DEF OneStarter
    <2>1. pc'[u] \in {"start", "install"} => entries'[want[u]] = NoProc
        BY <1>5, <1>17 DEF CacheInv, OneStarter, Shapes, Starters
    <2> QED BY <1>17, <2>1 DEF CacheInv, OneStarter
<1>20. RefsMatchHolders'
    <2> SUFFICES ASSUME NEW q \in Cached' PROVE refs'[q] = Cardinality(Holding(q)')
        BY DEF RefsMatchHolders
    <2>1. q \in Cached /\ q \in Procs /\ refs[q] = Cardinality(Holding(q))
        BY <1>5, CachedEntries DEF CacheInv, RefsMatchHolders
    <2>2. CASE q = p
        <3>1. Cardinality(Holding(q)') = Cardinality(Holding(q)) - 1
            BY <1>8, <1>9, <2>2
        <3>2. refs[q] > 0 /\ p \in Cached
            BY <1>9, <2>1, <2>2
        <3>3. refs'[q] = refs[q] - 1
            BY <1>12, <2>1, <2>2, <3>2
        <3> QED BY <2>1, <3>1, <3>3
    <2>3. CASE q # p
        BY <1>8, <1>12, <2>1, <2>3
    <2> QED BY <2>2, <2>3
<1>21. LeasedNotStopped'
    <2> SUFFICES ASSUME ~down, NEW u \in Threads, NEW q \in stale'[u] \cap running
                 PROVE  Holding(q)' = {}
        BY <1>1 DEF LeasedNotStopped
    <2>1. CASE u = t
        BY <1>7, <1>11, <2>1
    <2>2. CASE u # t
        <3>1. Holding(q) = {} /\ q \in Procs
            BY <1>6, <2>2 DEF CacheInv, LeasedNotStopped, Shapes
        <3> QED BY <1>8, <3>1
    <2> QED BY <2>1, <2>2
<1>22. NoneLeftBehind'
    <2> SUFFICES ASSUME ~down, NEW q \in running, q \notin Cached'
                 PROVE  \E u \in Threads : q \in stale'[u] \/ (pc'[u] = "install" /\ key'[u] = q)
        BY <1>1 DEF NoneLeftBehind
    <2>1. CASE q \in Cached
        BY <1>5, <1>7, <2>1
    <2>2. CASE q \notin Cached
        <3>1. PICK u \in Threads : q \in stale[u] \/ (pc[u] = "install" /\ key[u] = q)
            BY <2>2 DEF CacheInv, NoneLeftBehind
        <3> QED BY <1>1, <1>6, <3>1
    <2> QED BY <2>1, <2>2
<1> QED BY <1>13, <1>14, <1>15, <1>16, <1>18, <1>19, <1>20, <1>21, <1>22 DEF CacheInv

LEMMA CleanupIdleKeeps ==
    ASSUME CacheInv, NEW t \in Threads, CleanupIdle(t)
    PROVE  CacheInv'
<1>1. PICK gone \in {Spent \cup E : E \in Evictions} :
          /\ pc[t] = "idle" /\ pc' = [pc EXCEPT ![t] = "stopping"]
          /\ entries' = Without(gone) /\ stale' = [stale EXCEPT ![t] = gone]
          /\ UNCHANGED <<starting, refs, running, want, key, down>>
    BY DEF CleanupIdle
<1>2. gone \subseteq Cached /\ (\A p \in gone : p \notin running \/ Holding(p) = {})
    BY SweptIsUnheld
<1>3. Cached \subseteq Procs
    BY CachedEntries DEF CacheInv
<1>4. /\ entries' \in [Nodes -> Procs \cup {NoProc}] /\ Cached' = Cached \ gone
      /\ \A m \in Nodes : entries'[m] = entries[m] \/ entries'[m] = NoProc
      /\ \A m, k \in Nodes : entries'[m] = entries'[k] /\ entries'[m] # NoProc => m = k
      /\ \A m \in Nodes : entries[m] \in Cached' => entries'[m] = entries[m]
    BY <1>1, <1>2, <1>3, Dropped DEF CacheInv
<1>5. \A u \in Threads : u # t => pc'[u] = pc[u] /\ stale'[u] = stale[u]
    BY <1>1 DEF CacheInv, Shapes
<1>6. stale[t] = {} /\ stale'[t] = gone /\ pc'[t] = "stopping"
    BY <1>1 DEF CacheInv, Shapes, Taken
<1>7. Shapes'
    BY <1>1, <1>2, <1>3, <1>4 DEF CacheInv, Shapes, States
<1>8. Places'
    <2>1. \A u \in Threads : key[u] # NoProc <=> pc'[u] \in Holders
        BY <1>1, <1>5, <1>6 DEF CacheInv, Places, Holders
    <2>2. \A u \in Threads : key[u] \in Cached' => entries'[want[u]] = key[u]
        BY <1>4 DEF CacheInv, Places, Shapes
    <2> QED BY <1>1, <1>4, <2>1, <2>2 DEF Places
<1>9. Taken'
    BY <1>4, <1>5, <1>6 DEF CacheInv, Taken
<1>10. Installing'
    BY <1>1, <1>2, <1>4, <1>5, <1>6 DEF CacheInv, Installing
<1>11. \A u \in Threads : /\ pc'[u] \in Starters <=> pc[u] \in Starters
                          /\ pc'[u] \in {"start", "install"} <=> pc[u] \in {"start", "install"}
                          /\ pc'[u] = "waiting" <=> pc[u] = "waiting"
    BY <1>1, <1>5, <1>6 DEF Starters
<1>12. Marks' /\ OneStarter'
    <2>1. Marks'
        BY <1>1, <1>11 DEF CacheInv, Marks
    <2>2. \A u \in Threads : entries[want[u]] = NoProc => entries'[want[u]] = NoProc
        BY <1>4 DEF CacheInv, Shapes
    <2> QED BY <1>1, <1>11, <2>1, <2>2 DEF CacheInv, OneStarter
<1>13. RefsMatchHolders'
    BY <1>1, <1>4 DEF CacheInv, RefsMatchHolders, Holding
<1>14. LeasedNotStopped'
    <2>1. \A q : Holding(q)' = Holding(q)
        BY <1>1 DEF Holding
    <2> QED BY <1>1, <1>2, <1>5, <1>6, <2>1 DEF CacheInv, LeasedNotStopped
<1>15. NoneLeftBehind'
    <2> SUFFICES ASSUME ~down, NEW q \in running, q \notin Cached'
                 PROVE  \E u \in Threads : q \in stale'[u] \/ (pc'[u] = "install" /\ key[u] = q)
        BY <1>1 DEF NoneLeftBehind
    <2>1. CASE q \in Cached
        BY <1>4, <1>6, <2>1
    <2>2. CASE q \notin Cached
        <3>1. PICK u \in Threads : q \in stale[u] \/ (pc[u] = "install" /\ key[u] = q)
            BY <2>2 DEF CacheInv, NoneLeftBehind
        <3> QED BY <1>1, <1>5, <1>6, <3>1
    <2> QED BY <2>1, <2>2
<1> QED BY <1>7, <1>8, <1>9, <1>10, <1>12, <1>13, <1>14, <1>15 DEF CacheInv

LEMMA ShutdownKeeps ==
    ASSUME CacheInv, NEW t \in Threads, Shutdown(t)
    PROVE  CacheInv'
<1>1. /\ pc[t] = "idle" /\ down' = TRUE /\ entries' = [n \in Nodes |-> NoProc] /\ starting' = {}
      /\ stale' = [stale EXCEPT ![t] = Cached]
      /\ pc' = [Woken EXCEPT ![t] = IF Cached = {} THEN "idle" ELSE "stopping"]
      /\ UNCHANGED <<refs, running, want, key>>
    BY DEF Shutdown
<1>2. Cached' = {}
    BY <1>1, RuntimeAssumption DEF Cached
<1>3. Cached \subseteq Procs
    BY CachedEntries DEF CacheInv
<1>4. \A u \in Threads : u # t => /\ pc'[u] = pc[u] \/ (pc[u] = "waiting" /\ pc'[u] = "woken")
                                  /\ pc'[u] # "waiting" /\ stale'[u] = stale[u]
    BY <1>1 DEF CacheInv, Shapes, Woken
<1>5. stale'[t] = Cached /\ pc'[t] \in {"idle", "stopping"} /\ (pc'[t] = "idle" => Cached = {})
    BY <1>1 DEF CacheInv, Shapes, Woken
<1>6. Shapes'
    <2>1. pc' \in [Threads -> States]
        BY <1>1 DEF CacheInv, Shapes, States, Woken
    <2>2. stale' \in [Threads -> SUBSET Procs] /\ entries' \in [Nodes -> Procs \cup {NoProc}]
        BY <1>1, <1>3 DEF CacheInv, Shapes
    <2> QED BY <1>1, <2>1, <2>2 DEF CacheInv, Shapes
<1>7. Places'
    <2>1. \A u \in Threads : key[u] # NoProc <=> pc'[u] \in Holders
        BY <1>1, <1>4, <1>5 DEF CacheInv, Places, Holders
    <2> QED BY <1>1, <1>2, <2>1 DEF Places
<1>8. Taken'
    BY <1>2, <1>4, <1>5 DEF CacheInv, Taken
<1>9. Installing'
    BY <1>1, <1>2, <1>4, <1>5 DEF CacheInv, Installing
<1>10. Marks'
    BY <1>1, <1>4, <1>5 DEF Marks
<1> QED BY <1>1, <1>2, <1>6, <1>7, <1>8, <1>9, <1>10
        DEF CacheInv, OneStarter, RefsMatchHolders, LeasedNotStopped, NoneLeftBehind

LEMMA WorldKeeps ==
    ASSUME CacheInv, NEW p \in Procs, Dies(p) \/ IdleTimeElapses(p)
    PROVE  CacheInv'
<1>1. /\ running' \subseteq running
      /\ UNCHANGED <<entries, starting, refs, down, pc, want, key, stale>>
    BY DEF Dies, IdleTimeElapses, threadVars
<1>2. Cached' = Cached /\ \A q : Holding(q)' = Holding(q)
    BY <1>1 DEF Cached, Holding
<1>3. Shapes' /\ Places' /\ Taken' /\ Installing'
    BY <1>1, <1>2 DEF CacheInv, Shapes, Places, Taken, Installing
<1>4. Marks' /\ OneStarter' /\ RefsMatchHolders'
    BY <1>1, <1>2 DEF CacheInv, Marks, OneStarter, RefsMatchHolders
<1>5. LeasedNotStopped' /\ NoneLeftBehind'
    BY <1>1, <1>2 DEF CacheInv, LeasedNotStopped, NoneLeftBehind
<1> QED BY <1>3, <1>4, <1>5 DEF CacheInv

-----------------------------------------------------------------------------
(* The whole.                                                              *)

LEMMA InitCacheInv == Init => CacheInv
<1> SUFFICES ASSUME Init PROVE CacheInv
    OBVIOUS
<1>1. Cached = {}
    BY RuntimeAssumption DEF Init, Cached
<1>2. Shapes /\ Places /\ Taken
    BY <1>1 DEF Init, Shapes, Places, Taken, States, Starters, Holders
<1>3. Installing /\ Marks /\ OneStarter
    BY DEF Init, Installing, Marks, OneStarter, Starters
<1>4. RefsMatchHolders /\ LeasedNotStopped /\ NoneLeftBehind
    BY <1>1 DEF Init, RefsMatchHolders, LeasedNotStopped, NoneLeftBehind
<1> QED BY <1>2, <1>3, <1>4 DEF CacheInv

LEMMA CacheStep == CacheInv /\ [Next]_vars => CacheInv'
<1> SUFFICES ASSUME CacheInv, [Next]_vars PROVE CacheInv'
    OBVIOUS
<1>1. ASSUME NEW t \in Threads, Begin(t) PROVE CacheInv'
    BY <1>1, RoundKeeps DEF Begin
<1>2. ASSUME NEW t \in Threads, Continue(t) PROVE CacheInv'
    <2>1. CASE pc[t] = "woken" /\ Round(t, want[t])
        <3>1. want[t] \in Nodes
            BY DEF CacheInv, Shapes
        <3> QED BY <2>1, <3>1, RoundKeeps
    <2> QED BY <1>2, <2>1, StopStaleKeeps, StartOkKeeps, InstallKeeps, FinishKeeps DEF Continue
<1>3. ASSUME NEW t \in Threads, Release(t) \/ CleanupIdle(t) \/ Shutdown(t) PROVE CacheInv'
    BY <1>3, ReleaseKeeps, CleanupIdleKeeps, ShutdownKeeps
<1>4. CASE UNCHANGED vars
    <2>1. UNCHANGED <<entries, starting, refs, down, pc, want, key, stale, running>>
        BY <1>4 DEF vars
    <2>2. Cached' = Cached /\ \A q : Holding(q)' = Holding(q)
        BY <2>1 DEF Cached, Holding
    <2> QED BY <2>1, <2>2 DEF CacheInv, Shapes, Places, Taken, Installing, Marks, OneStarter,
                              RefsMatchHolders, LeasedNotStopped, NoneLeftBehind
<1> QED BY <1>1, <1>2, <1>3, <1>4, WorldKeeps DEF Next

LEMMA CacheInvariant == Spec => []CacheInv
BY InitCacheInv, CacheStep, PTL DEF Spec

\* The reference count of a cached runtime is the number of its holders,
\* whatever was evicted, replaced or found dead (acquire and release).
THEOREM RefsCountHolders == Spec => []RefsMatchHolders
<1>1. CacheInv => RefsMatchHolders
    BY DEF CacheInv
<1> QED BY <1>1, CacheInvariant, PTL

\* Before a shutdown nobody stops a runtime under somebody else's lease.
THEOREM LeasesAreSafe == Spec => []LeasedNotStopped
<1>1. CacheInv => LeasedNotStopped
    BY DEF CacheInv
<1> QED BY <1>1, CacheInvariant, PTL

\* Before a shutdown a process that runs is cached, being installed or about
\* to be stopped.
THEOREM NoOrphans == Spec => []NoneLeftBehind
<1>1. CacheInv => NoneLeftBehind
    BY DEF CacheInv
<1> QED BY <1>1, CacheInvariant, PTL

\* A thread that waits on the condition waits for a thread that will notify
\* it, a shutdown in between included.
THEOREM WakeUpsNotLost == Spec => []WaitersHaveStarter
<1>1. CacheInv => WaitersHaveStarter
    BY DEF CacheInv, Marks, WaitersHaveStarter, Starters
<1> QED BY <1>1, CacheInvariant, PTL

=============================================================================
