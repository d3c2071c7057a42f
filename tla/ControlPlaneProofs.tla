-------------------------- MODULE ControlPlaneProofs --------------------------
(***************************************************************************)
(* For any threads, accounts, settings and requests: a run keeps its       *)
(* configuration, a stop request finds the reauthentication that runs, the *)
(* web interface does not stay locked, the row of a finished run is final  *)
(* and true, and reported progress never goes back. GateInv says who holds *)
(* the gate of _begin_maintenance, RowInv which stage of a run may still   *)
(* write its row, and CountInv how what the workers did, their snapshots   *)
(* and the totals that were reported are related.                          *)
(***************************************************************************)
EXTENDS ControlPlane, WellFoundedInduction, TLAPS

-----------------------------------------------------------------------------
(* The gate.                                                               *)

\* A reauthentication that has not given the gate back.
Holding(r) == request[r] \in {"begun", "loaded"} \/ thread[r] = "alive"

GateShapes ==
    /\ request \in [Requests -> {"idle", "begun", "loaded", "started"}]
    /\ thread \in [Requests -> {"none", "alive"}]
    /\ check \in {"idle", "begun", "working"}

\* One holder of the gate at a time, and none of them beside a run.
OneHolder ==
    /\ check # "idle" => maintenance = "check"
    /\ \A r \in Requests : Holding(r) => maintenance = "reauthentication"
    /\ \A r, s \in Requests : Holding(r) /\ Holding(s) => r = s
    /\ maintenance # None => ~Running

\* The event loop executes one request: until it has been answered no other
\* begins, and no other's job is running.
OneRequest ==
    /\ \A r \in Requests : request[r] # "idle" => loop = r
    /\ \A r \in Requests : thread[r] = "alive" => request[r] \in {"idle", "started"}
    /\ \A r, s \in Requests : request[r] # "idle" /\ thread[s] = "alive" => s = r

GateInv == GateShapes /\ OneHolder /\ OneRequest /\ MaintenanceHeld /\ StopFindsReauth

LEMMA GateStart == Init => GateInv
BY ControlAssumption DEF Init, GateInv, GateShapes, OneHolder, OneRequest, MaintenanceHeld, StopFindsReauth, Holding

\* A step of the run never leaves the state in which no run is going on.
LEMMA NoRunFromNothing == stage = "off" /\ RunStep => stage' = "off"
BY DEF RunStep, MainStep, CreateRow, Prepare, Collect, CloseBatch, FinishRow, RecordFailure, Return,
   WorkerStep, StartAttempt, LeaveLoop, EndAttempt, RetrySlot, Reject, Observe, Publish, Leave

\* What does not concern the gate: a run may only begin when it is free.
LEMMA OtherStep ==
    ASSUME GateInv, UNCHANGED <<maintenance, check, reauthVars>>,
           Running' => Running \/ maintenance = None
    PROVE  GateInv'
BY DEF GateInv, GateShapes, OneHolder, OneRequest, MaintenanceHeld, StopFindsReauth, Holding,
   reauthVars

LEMMA CheckStep ==
    ASSUME GateInv, BeginCheck \/ LoadForCheck \/ EndCheck
    PROVE  GateInv'
<1> USE DEF GateInv, GateShapes, OneHolder, OneRequest, MaintenanceHeld, StopFindsReauth, Holding,
        runVars, reauthVars, Running
<1>1. CASE BeginCheck
    BY <1>1, ControlAssumption DEF BeginCheck, MayBegin, Idle
<1>2. CASE LoadForCheck
    BY <1>2 DEF LoadForCheck
<1>3. CASE EndCheck
    BY <1>3, ControlAssumption DEF EndCheck, Ended
<1> QED BY <1>1, <1>2, <1>3

LEMMA ReauthStep ==
    ASSUME GateInv, NEW r \in Requests, BeginReauth(r) \/ HandlerStep(r) \/ FinishJob(r)
    PROVE  GateInv'
<1> USE DEF GateInv, GateShapes, OneHolder, OneRequest, MaintenanceHeld, StopFindsReauth, Holding,
        runVars, Running
<1>1. CASE BeginReauth(r)
    BY <1>1, ControlAssumption DEF BeginReauth, MayBegin, Idle, OnLoop
<1>2. CASE LoadForReauth(r)
    BY <1>2 DEF LoadForReauth
<1>3. CASE FailReauth(r)
    BY <1>3, ControlAssumption DEF FailReauth, AfterError, Ended
<1>4. CASE StartManager(r)
    BY <1>4 DEF StartManager
<1>5. CASE AnswerReauth(r)
    BY <1>5, ControlAssumption DEF AnswerReauth
<1>6. CASE FinishJob(r)
    BY <1>6, ControlAssumption DEF FinishJob, Ended
<1> QED BY <1>1, <1>2, <1>3, <1>4, <1>5, <1>6 DEF HandlerStep

LEMMA GateStep == GateInv /\ [Next]_vars => GateInv'
<1> SUFFICES ASSUME GateInv, [Next]_vars PROVE GateInv'
    OBVIOUS
<1>1. CASE Start
    BY <1>1, OtherStep DEF Start, Idle
<1>2. CASE Run
    BY <1>2, OtherStep, NoRunFromNothing DEF Run, Running
<1>3. CASE ReadController \/ StopController \/ EditFile \/ PutConfig \/ GetConfig
    BY <1>3, OtherStep DEF ReadController, StopController, EditFile, PutConfig, GetConfig, runVars, Running
<1>4. CASE BeginCheck \/ LoadForCheck \/ EndCheck
    BY <1>4, CheckStep
<1>5. ASSUME NEW r \in Requests, BeginReauth(r) \/ HandlerStep(r) \/ FinishJob(r) PROVE GateInv'
    BY <1>5, ReauthStep
<1>6. CASE UNCHANGED vars
    BY <1>6, OtherStep DEF vars, runVars, Running
<1> QED BY <1>1, <1>2, <1>3, <1>4, <1>5, <1>6 DEF Next

LEMMA GateInvariant == Spec => []GateInv
BY GateStart, GateStep, PTL DEF Spec

\* After an error as after the work, the gate is given back
\* (_begin_maintenance, _end_maintenance, web/server.py).
THEOREM InterfaceNotLocked == Spec => []MaintenanceHeld
BY GateInvariant, PTL DEF GateInv

\* A reauthentication that runs and whose request was answered is the one a
\* stop request stops (start_reauthentication, web/server.py).
THEOREM StopReachesJob == Spec => []StopFindsReauth
BY GateInvariant, PTL DEF GateInv

\* The configuration is not reloaded under a run (_load_config_if_idle,
\* put_config and the maintenance operations, web/server.py).
THEOREM RunKeepsConfig == Spec => ConfigFrozen
<1>1. GateInv /\ [Next]_vars => [Running /\ Running' => config' = config]_vars
    <2> SUFFICES ASSUME GateInv, Next, Running PROVE config' = config
        OBVIOUS
    <2>1. maintenance = None /\ check = "idle" /\ \A r \in Requests : ~Holding(r)
        BY ControlAssumption DEF GateInv, OneHolder
    <2> QED BY <2>1 DEF Next, Start, Run, ReadController, StopController, EditFile, PutConfig, GetConfig,
           BeginCheck, LoadForCheck, EndCheck, BeginReauth, HandlerStep, LoadForReauth, FailReauth,
           StartManager, AnswerReauth, FinishJob, MayLoad, Idle, Holding, configVars
<1> QED BY GateInvariant, <1>1, PTL DEF Spec, ConfigFrozen

-----------------------------------------------------------------------------
(* The row of a run.                                                       *)

Busy(w) == pc[w] \notin {"off", "done", "broken"}

RowShapes ==
    /\ stage \in {"off", "create", "prepare", "batch", "finish", "failing", "return"}
    /\ DOMAIN row = {"status", "requested", "seen"}
    /\ DOMAIN pc = Workers

\* Workers work in the batch only, those without a share not at all, and the
\* row is open until the run has set its final status.
RowInv ==
    /\ RowShapes
    /\ \A w \in Workers : Busy(w) => stage = "batch"
    /\ \A w \in Workers : w \notin Active => pc[w] = "off"
    /\ stage \in {"prepare", "batch", "finish", "failing"} => row.status = "running"

LEMMA RowStart == RunInit => RowInv
BY DEF RunInit, RowInv, RowShapes, Busy

\* The end of the call, when no worker is left.
LEMMA RunEnds ==
    ASSUME RowInv, EndRun, \A w \in Workers : ~Busy(w), DOMAIN row' = DOMAIN row
    PROVE  RowInv'
BY DEF RowInv, RowShapes, EndRun, Busy, Active

LEMMA MainKeepsRow ==
    ASSUME RowInv, MainStep
    PROVE  RowInv'
<1> USE DEF RowInv, RowShapes
<1>1. CASE CreateRow
    <2>1. \A w \in Workers : ~Busy(w)
        BY <1>1 DEF CreateRow
    <2>2. CASE EndRun /\ UNCHANGED row
        BY <2>1, <2>2, RunEnds
    <2>3. CASE stage' = "prepare" /\ UNCHANGED <<planVars, workerVars>>
        BY <1>1, <2>1, <2>3 DEF CreateRow, EndRun, Busy, Active, planVars, workerVars
    <2> QED BY <1>1, <2>2, <2>3 DEF CreateRow
<1>2. CASE Prepare
    <2>1. \A w \in Workers : ~Busy(w)
        BY <1>2 DEF Prepare
    <2>2. CASE stage' = "failing" /\ UNCHANGED <<row, planVars, pc>>
        BY <1>2, <2>1, <2>2 DEF Prepare, Busy, Active, planVars
    <2>3. CASE /\ stage' = "batch"
               /\ \E count \in 1..row.requested : row' = [row EXCEPT !.requested = count]
               /\ pc' = [w \in Workers |-> IF share'[w] > 0 THEN "loop" ELSE "off"]
        BY <1>2, <2>3 DEF Prepare, Busy, Active
    <2> QED BY <1>2, <2>2, <2>3 DEF Prepare
<1>3. ASSUME NEW w \in Workers, Collect(w) PROVE RowInv'
    BY <1>3 DEF Collect, Busy, Active, planVars
<1>4. CASE CloseBatch
    <2>1. \A w \in Workers : ~Busy(w)
        BY <1>4 DEF CloseBatch, MayClose, AllEnded, Busy
    <2>2. CASE EndRun
        BY <1>4, <2>1, <2>2, RunEnds DEF CloseBatch
    <2>3. CASE stage' = (IF fatal THEN "failing" ELSE "finish") /\ UNCHANGED <<planVars, workerVars>>
        BY <1>4, <2>1, <2>3 DEF CloseBatch, Busy, Active, planVars, workerVars
    <2> QED BY <1>4, <2>2, <2>3 DEF CloseBatch
<1>5. CASE FinishRow
    BY <1>5 DEF FinishRow, Busy, Active, planVars, workerVars
<1>6. CASE RecordFailure
    BY <1>6, RunEnds DEF RecordFailure
<1>7. CASE Return
    BY <1>7, RunEnds DEF Return
<1> QED BY <1>1, <1>2, <1>3, <1>4, <1>5, <1>6, <1>7 DEF MainStep

LEMMA WorkerKeepsRow ==
    ASSUME RowInv, NEW w \in Workers, WorkerStep(w)
    PROVE  RowInv' /\ stage = "batch" /\ row'.status = row.status
<1> USE DEF RowInv, RowShapes, Busy
<1>1. Busy(w)
    BY DEF WorkerStep, StartAttempt, LeaveLoop, EndAttempt, RetrySlot, Reject, Report, Observe, Publish,
       Leave
<1>2. /\ UNCHANGED <<stage, share>>
      /\ \E step : pc' = [pc EXCEPT ![w] = step]
      /\ \/ UNCHANGED row
         \/ row' = [row EXCEPT !.seen = heard[w]]
    BY DEF WorkerStep, StartAttempt, LeaveLoop, EndAttempt, RetrySlot, Reject, Report, Observe, Publish,
       Leave, planVars
<1> QED BY <1>1, <1>2 DEF Active

LEMMA RowStep == RowInv /\ [Next]_vars => RowInv'
<1> SUFFICES ASSUME RowInv, [Next]_vars PROVE RowInv'
    OBVIOUS
<1>1. CASE RunStep
    BY <1>1, MainKeepsRow, WorkerKeepsRow DEF RunStep
<1>2. CASE BeginRun
    BY <1>2 DEF BeginRun, RowInv, RowShapes, Busy, Active, planVars, workerVars
<1>3. CASE UNCHANGED <<stage, row, planVars, workerVars>>
    BY <1>3 DEF RowInv, RowShapes, Busy, Active, planVars, workerVars
<1> QED BY <1>1, <1>2, <1>3 DEF Next, Start, Run, ReadController, StopController, EditFile, PutConfig,
       GetConfig, BeginCheck, LoadForCheck, EndCheck, BeginReauth, HandlerStep, LoadForReauth, FailReauth,
       StartManager, AnswerReauth, FinishJob, vars, runVars

LEMMA RowInvariant == Spec => []RowInv
BY RowStart, RowStep, PTL DEF Spec, Init

\* Once a run's row says how it ended no worker writes it again
\* (finish_registration_run, storage/database.py, and record_progress,
\* grok_register_ttk.py).
THEOREM FinalRowIsFinal == Spec => FinishedRowStays
<1>1. RowInv /\ [Next]_vars => [row.status \in Finished /\ stage # "create" => row' = row]_runVars
    <2> SUFFICES ASSUME RowInv, Next, row.status \in Finished, stage # "create" PROVE row' = row
        BY DEF vars, runVars
    <2>1. stage \in {"off", "return"} /\ \A w \in Workers : ~Busy(w)
        BY DEF RowInv, RowShapes, Finished
    <2>2. RunStep => row' = row
        BY <2>1, WorkerKeepsRow DEF RunStep, MainStep, CreateRow, Prepare, Collect, CloseBatch, FinishRow,
           RecordFailure, Return
    <2> QED BY <2>2 DEF Next, Start, Run, BeginRun, ReadController, StopController, EditFile, PutConfig,
           GetConfig, BeginCheck, LoadForCheck, EndCheck, BeginReauth, HandlerStep, LoadForReauth,
           FailReauth, StartManager, AnswerReauth, FinishJob, runVars
<1> QED BY RowInvariant, <1>1, PTL DEF Spec, FinishedRowStays

-----------------------------------------------------------------------------
(* Sums over the workers.                                                  *)

\* Numbers up to MaxThreads have what each of them inherits from the one
\* before, by the well-foundedness of their order.
LEMMA LeastOf ==
    ASSUME NEW S \in SUBSET Nat, S # {}
    PROVE  \E k \in S : \A j \in S : ~(j < k)
<1>1. PICK k \in S : \A j \in S : <<j, k>> \notin OpToRel(<, Nat)
    BY NatLessThanWellFounded, WFMin
<1> QED BY <1>1 DEF OpToRel

PartialSums(g, f, k) == g = [n \in 0..k |-> IF n = 0 THEN 0 ELSE g[n - 1] + f[n]]

\* The recursion of SumOver defines a function.
LEMMA SumsExist ==
    ASSUME NEW f \in [Workers -> Nat]
    PROVE  \E g : PartialSums(g, f, MaxThreads)
<1> USE RunAssumption DEF Workers
<1> DEFINE Bad == {k \in 0..MaxThreads : ~\E g \in [0..k -> Nat] : PartialSums(g, f, k)}
<1>1. Bad = {}
    <2> SUFFICES ASSUME Bad # {} PROVE FALSE
        OBVIOUS
    <2>0. Bad \in SUBSET Nat /\ Bad # {}
        OBVIOUS
    <2>1. PICK k \in Bad : \A j \in Bad : ~(j < k)
        <3> HIDE DEF Bad
        <3> QED BY <2>0, LeastOf
    <2>2. k \in 0..MaxThreads /\ ~\E g \in [0..k -> Nat] : PartialSums(g, f, k)
        OBVIOUS
    <2> HIDE DEF Bad
    <2>3. CASE k = 0
        <3>1. [n \in 0..0 |-> 0] \in [0..0 -> Nat] /\ PartialSums([n \in 0..0 |-> 0], f, 0)
            BY DEF PartialSums
        <3> QED BY <2>2, <2>3, <3>1
    <2>4. CASE k > 0
        <3>1. k - 1 \notin Bad /\ k - 1 \in 0..MaxThreads
            BY <2>1, <2>2, <2>4
        <3>2. PICK g \in [0..(k - 1) -> Nat] : PartialSums(g, f, k - 1)
            BY <3>1 DEF Bad
        <3> DEFINE h == [n \in 0..k |-> IF n = k THEN g[k - 1] + f[k] ELSE g[n]]
        <3>3. g[k - 1] \in Nat /\ f[k] \in Nat
            BY <2>2, <2>4
        <3>4. h \in [0..k -> Nat]
            BY <2>2, <3>3
        <3>5. \A n \in 0..(k - 1) : g[n] = IF n = 0 THEN 0 ELSE g[n - 1] + f[n]
            BY <3>2 DEF PartialSums
        <3>6. ASSUME NEW n \in 0..k
              PROVE  h[n] = IF n = 0 THEN 0 ELSE h[n - 1] + f[n]
            <4>1. CASE n = k
                BY <2>2, <2>4, <4>1
            <4>2. CASE n # k
                <5>1. n \in 0..(k - 1) /\ h[n] = g[n]
                    BY <2>2, <4>2
                <5>2. n # 0 => h[n - 1] = g[n - 1]
                    BY <2>2, <4>2
                <5> QED BY <3>5, <5>1, <5>2
            <4> QED BY <4>1, <4>2
        <3>7. h = [n \in 0..k |-> IF n = 0 THEN 0 ELSE h[n - 1] + f[n]]
            BY <3>4, <3>6
        <3> QED BY <2>2, <3>4, <3>7 DEF PartialSums
    <2> QED BY <2>2, <2>3, <2>4
<1> QED BY <1>1

\* Whoever counts at least as much everywhere has at least the same sum.
LEMMA SumGrows ==
    ASSUME NEW f \in [Workers -> Nat], NEW g \in [Workers -> Nat],
           \A w \in Workers : f[w] <= g[w]
    PROVE  SumOver(f) \in Nat /\ SumOver(g) \in Nat /\ SumOver(f) <= SumOver(g)
<1> USE RunAssumption DEF Workers
<1>1. PICK F : PartialSums(F, f, MaxThreads) /\ SumOver(f) = F[MaxThreads]
    BY SumsExist DEF SumOver, PartialSums
<1>2. PICK G : PartialSums(G, g, MaxThreads) /\ SumOver(g) = G[MaxThreads]
    BY SumsExist DEF SumOver, PartialSums
<1> DEFINE Bad == {k \in 0..MaxThreads : ~(F[k] \in Nat /\ G[k] \in Nat /\ F[k] <= G[k])}
<1>3. Bad = {}
    <2> SUFFICES ASSUME Bad # {} PROVE FALSE
        OBVIOUS
    <2>0. Bad \in SUBSET Nat /\ Bad # {}
        OBVIOUS
    <2>1. PICK k \in Bad : \A j \in Bad : ~(j < k)
        <3> HIDE DEF Bad
        <3> QED BY <2>0, LeastOf
    <2>2. k \in 0..MaxThreads /\ ~(F[k] \in Nat /\ G[k] \in Nat /\ F[k] <= G[k])
        OBVIOUS
    <2> HIDE DEF Bad
    <2>3. /\ F[k] = IF k = 0 THEN 0 ELSE F[k - 1] + f[k]
          /\ G[k] = IF k = 0 THEN 0 ELSE G[k - 1] + g[k]
        BY <1>1, <1>2, <2>2 DEF PartialSums
    <2>4. CASE k = 0
        BY <2>2, <2>3, <2>4
    <2>5. CASE k > 0
        <3>1. k - 1 \notin Bad /\ k - 1 \in 0..MaxThreads
            BY <2>1, <2>2, <2>5
        <3>2. F[k - 1] \in Nat /\ G[k - 1] \in Nat /\ F[k - 1] <= G[k - 1]
            BY <3>1 DEF Bad
        <3>3. f[k] \in Nat /\ g[k] \in Nat /\ f[k] <= g[k]
            BY <2>2, <2>5
        <3>4. F[k] = F[k - 1] + f[k] /\ G[k] = G[k - 1] + g[k]
            BY <2>2, <2>3, <2>5
        <3>5. F[k] \in Nat /\ G[k] \in Nat /\ F[k] <= G[k]
            BY <3>2, <3>3, <3>4
        <3> QED BY <2>2, <3>5
    <2> QED BY <2>2, <2>4, <2>5
<1> QED BY <1>1, <1>2, <1>3

-----------------------------------------------------------------------------
(* The counters of a run.                                                  *)

Totals == [ok : Nat, fail : Nat, cancelled : BOOLEAN]

CountShapes ==
    /\ pc \in [Workers -> {"off", "loop", "attempt", "observe", "publish", "leave", "done", "broken"}]
    /\ after \in [Workers -> {"loop", "leave", "broken"}]
    /\ tally \in [Workers -> Totals]
    /\ snapshots \in [Workers -> Totals]
    /\ heard \in [Workers -> Totals]
    /\ share \in [Workers -> Nat]
    /\ row \in [status : Statuses, requested : Nat, seen : Totals]
    /\ shown \in Totals
    /\ {abort, fatal, stop, parallel} \subseteq BOOLEAN
    /\ rejected \subseteq Workers

\* A snapshot is behind its worker's tally until the worker has left.
Behind ==
    \A w \in Workers : /\ Ahead(snapshots[w], tally[w])
                       /\ pc[w] \in {"off", "done"} => snapshots[w] = tally[w] \/ fatal

\* Why a worker left its loop.
Left(w) ==
    \/ pc[w] \in {"leave", "done"}
    \/ pc[w] \in {"observe", "publish"} /\ after[w] = "leave"
    \/ pc[w] = "off" /\ w \in Active

LeftForReason ==
    /\ \A w \in Workers : Left(w) => tally[w].cancelled \/ ~SlotLeft(w) \/ w \in rejected \/ fatal
    /\ \A w \in Workers : tally[w].cancelled => stop \/ rejected # {} \/ fatal
    /\ abort => rejected # {} \/ fatal

\* What a worker publishes is no less than what was published, and nobody
\* else publishes meanwhile.
Serial == parallel \/ \A v, w \in Active : v = w

Published(seen) == Ahead(seen, Aggregate(snapshots))

Publishing ==
    /\ stage \notin {"off", "create"} => Published(row.seen)
    /\ stage # "off" => Published(shown)
    /\ \A w \in Workers : pc[w] = "publish" =>
          /\ observer = w
          /\ Published(heard[w]) /\ Ahead(row.seen, heard[w]) /\ Ahead(shown, heard[w])

\* The batch is over without a fatal error when the row is finished.
BatchOver ==
    /\ stage \in {"finish", "return"} => ~fatal /\ \A w \in Workers : pc[w] = "off"
    /\ stage = "return" => row.seen.ok = Aggregate(snapshots).ok /\ row.seen.fail = Aggregate(snapshots).fail

\* A run begins with no worker and no shares.
Fresh == stage \in {"off", "create", "prepare"} => \A w \in Workers : pc[w] = "off" /\ share[w] = 0

CountInv ==
    /\ CountShapes
    /\ Fresh
    /\ Behind
    /\ LeftForReason
    /\ Serial
    /\ Publishing
    /\ BatchOver
    /\ FinishedRowTrue

\* Workers who counted at least as much everywhere have at least the total.
LEMMA TotalGrows ==
    ASSUME NEW s \in [Workers -> Totals], NEW t \in [Workers -> Totals],
           \A w \in Workers : Ahead(s[w], t[w])
    PROVE  /\ Aggregate(s) \in Totals /\ Aggregate(t) \in Totals
           /\ Ahead(Aggregate(s), Aggregate(t))
<1>1. /\ [w \in Workers |-> s[w].ok] \in [Workers -> Nat] /\ [w \in Workers |-> t[w].ok] \in [Workers -> Nat]
      /\ [w \in Workers |-> s[w].fail] \in [Workers -> Nat] /\ [w \in Workers |-> t[w].fail] \in [Workers -> Nat]
    BY DEF Totals
<1>2. /\ SumOver([w \in Workers |-> s[w].ok]) \in Nat /\ SumOver([w \in Workers |-> t[w].ok]) \in Nat
      /\ SumOver([w \in Workers |-> s[w].ok]) <= SumOver([w \in Workers |-> t[w].ok])
    BY <1>1, SumGrows DEF Ahead
<1>3. /\ SumOver([w \in Workers |-> s[w].fail]) \in Nat /\ SumOver([w \in Workers |-> t[w].fail]) \in Nat
      /\ SumOver([w \in Workers |-> s[w].fail]) <= SumOver([w \in Workers |-> t[w].fail])
    BY <1>1, SumGrows DEF Ahead
<1> QED BY <1>2, <1>3 DEF Aggregate, Totals, Ahead

LEMMA TotalIsTotal == ASSUME NEW s \in [Workers -> Totals] PROVE Aggregate(s) \in Totals
<1>1. \A w \in Workers : Ahead(s[w], s[w])
    BY DEF Totals, Ahead
<1> QED BY <1>1, TotalGrows

LEMMA AheadOf ==
    ASSUME NEW s \in Totals
    PROVE  /\ Ahead(s, s)
           /\ Ahead(Zero, s)
           /\ \A t, u \in Totals : Ahead(s, t) /\ Ahead(t, u) => Ahead(s, u)
BY DEF Ahead, Totals, Zero

LEMMA CountStart == RunInit => CountInv
<1> SUFFICES ASSUME RunInit PROVE CountInv
    OBVIOUS
<1>1. CountShapes
    BY DEF RunInit, CountShapes, Totals, Zero, Statuses
<1>2. Behind /\ LeftForReason /\ Fresh
    BY DEF RunInit, Behind, LeftForReason, Fresh, Left, Active, Ahead, Zero
<1>3. Serial /\ Publishing /\ BatchOver /\ FinishedRowTrue
    BY DEF RunInit, Serial, Active, Publishing, BatchOver, FinishedRowTrue
<1> QED BY <1>1, <1>2, <1>3 DEF CountInv

\* The end of the call, when no worker is left.
LEMMA CountEnds ==
    ASSUME CountInv, EndRun, \A w \in Workers : ~Busy(w),
           row' \in [status : Statuses, requested : Nat, seen : Totals], shown' \in Totals
    PROVE  CountInv'
<1>1. /\ stage' = "off" /\ parallel' = FALSE /\ abort' = FALSE /\ fatal' = FALSE /\ stop' = FALSE
      /\ share' = [w \in Workers |-> 0] /\ pc' = [w \in Workers |-> "off"]
      /\ after' = [w \in Workers |-> "loop"] /\ tally' = [w \in Workers |-> Zero]
      /\ snapshots' = tally' /\ heard' = tally' /\ rejected' = {}
    BY DEF EndRun, Busy
<1>2. CountShapes'
    BY <1>1 DEF CountShapes, Totals, Zero
<1>3. (Behind /\ LeftForReason /\ Fresh)'
    BY <1>1 DEF Behind, LeftForReason, Fresh, Left, Active, Ahead, Zero
<1>4. (Serial /\ Publishing /\ BatchOver /\ FinishedRowTrue)'
    BY <1>1 DEF Serial, Active, Publishing, BatchOver, FinishedRowTrue
<1> QED BY <1>2, <1>3, <1>4 DEF CountInv

\* What an attempt of worker w does until it is reported.
AttemptEffect(w) ==
    /\ UNCHANGED <<stage, row, shown, planVars, reportVars, fatal, stop>>
    /\ pc' \in [Workers -> {"off", "loop", "attempt", "observe", "publish", "leave", "done", "broken"}]
    /\ after' \in [Workers -> {"loop", "leave", "broken"}]
    /\ tally' \in [Workers -> Totals]
    /\ abort' \in BOOLEAN
    /\ rejected \subseteq rejected' /\ rejected' \subseteq Workers
    /\ \A v \in Workers \ {w} : pc'[v] = pc[v] /\ after'[v] = after[v] /\ tally'[v] = tally[v]
    /\ pc[w] \in {"loop", "attempt"} /\ pc'[w] \in {"attempt", "observe", "leave"}
    /\ Ahead(tally[w], tally'[w])
    /\ (pc'[w] = "leave" \/ (pc'[w] = "observe" /\ after'[w] = "leave")) =>
          (tally'[w].cancelled \/ ~SlotLeft(w)' \/ w \in rejected')
    /\ tally'[w].cancelled => (tally[w].cancelled \/ Cancelled)
    /\ abort' => (abort \/ rejected' # {})

LEMMA AttemptKeeps ==
    ASSUME CountInv, RowInv, NEW w \in Workers, AttemptEffect(w)
    PROVE  CountInv'
<1>1. stage = "batch" /\ UNCHANGED <<stage, row, shown, parallel, share, snapshots, heard, observer, fatal, stop>>
    BY DEF AttemptEffect, RowInv, Busy, planVars, reportVars
<1>2. CountShapes'
    BY <1>1 DEF CountInv, CountShapes, AttemptEffect
<1>3. Behind'
    <2>1. Ahead(snapshots[w], tally'[w])
        <3>1. Ahead(snapshots[w], tally[w]) /\ Ahead(tally[w], tally'[w])
            BY DEF AttemptEffect, CountInv, Behind
        <3>2. snapshots[w] \in Totals /\ tally[w] \in Totals /\ tally'[w] \in Totals
            BY DEF AttemptEffect, CountInv, CountShapes
        <3> QED BY <3>1, <3>2, AheadOf
    <2>2. ASSUME NEW v \in Workers
          PROVE  /\ Ahead(snapshots[v], tally'[v])
                 /\ pc'[v] \in {"off", "done"} => snapshots[v] = tally'[v] \/ fatal
        BY <2>1 DEF AttemptEffect, CountInv, Behind
    <2> QED BY <1>1, <2>2 DEF Behind
<1>4. LeftForReason'
    <2>1. ASSUME NEW v \in Workers, Left(v)'
          PROVE  tally'[v].cancelled \/ ~SlotLeft(v)' \/ v \in rejected' \/ fatal'
        <3>1. CASE v = w
            BY <2>1, <3>1 DEF AttemptEffect, Left
        <3>2. CASE v # w
            BY <1>1, <2>1, <3>2 DEF AttemptEffect, CountInv, LeftForReason, Left, Active, SlotLeft
        <3> QED BY <3>1, <3>2
    <2>2. abort' => rejected' # {} \/ fatal'
        BY <1>1 DEF AttemptEffect, CountInv, LeftForReason
    <2>3. ASSUME NEW v \in Workers, tally'[v].cancelled
          PROVE  stop' \/ rejected' # {} \/ fatal'
        BY <1>1, <2>3 DEF AttemptEffect, CountInv, LeftForReason, Cancelled
    <2> QED BY <2>1, <2>2, <2>3 DEF LeftForReason
<1>5. Publishing'
    BY <1>1 DEF AttemptEffect, CountInv, Publishing, Published
<1>6. Serial' /\ Fresh' /\ BatchOver' /\ FinishedRowTrue'
    BY <1>1 DEF CountInv, Serial, Active, Fresh, BatchOver, FinishedRowTrue
<1> QED BY <1>2, <1>3, <1>4, <1>5, <1>6 DEF CountInv

\* What Report does to the worker's tally.
LEMMA ReportEffect ==
    ASSUME CountInv, NEW w \in Workers, NEW result \in Totals, NEW next \in {"loop", "leave", "broken"},
           NEW again, Report(w, result, next, again), Ahead(tally[w], result),
           UNCHANGED <<stage, row, shown, planVars, reportVars, fatal, stop>>,
           abort' \in BOOLEAN, rejected \subseteq rejected', rejected' \subseteq Workers,
           next = "leave" => result.cancelled \/ w \in rejected',
           result.cancelled => tally[w].cancelled \/ Cancelled,
           abort' => abort \/ rejected' # {}
    PROVE  AttemptEffect(w)
<1>1. /\ pc' \in [Workers -> {"off", "loop", "attempt", "observe", "publish", "leave", "done", "broken"}]
      /\ after' \in [Workers -> {"loop", "leave", "broken"}]
      /\ tally' \in [Workers -> Totals]
    BY DEF Report, CountInv, CountShapes
<1>2. /\ \A v \in Workers \ {w} : pc'[v] = pc[v] /\ after'[v] = after[v] /\ tally'[v] = tally[v]
      /\ pc[w] = "attempt" /\ pc'[w] = "observe" /\ tally'[w] = result /\ after'[w] = next
    BY DEF Report, CountInv, CountShapes
<1> QED BY <1>1, <1>2 DEF AttemptEffect

LEMMA AttemptStep ==
    ASSUME CountInv, RowInv, NEW w \in Workers,
           StartAttempt(w) \/ LeaveLoop(w) \/ EndAttempt(w) \/ RetrySlot(w) \/ Reject(w)
    PROVE  CountInv'
<1>0. tally[w] \in Totals /\ abort \in BOOLEAN /\ parallel \in BOOLEAN /\ rejected \subseteq Workers
    BY DEF CountInv, CountShapes
<1> DEFINE Ok == [tally[w] EXCEPT !.ok = @ + 1]
           Stopped == [tally[w] EXCEPT !.cancelled = TRUE]
<1>a. PICK ok \in Nat, fail \in Nat, cancelled \in BOOLEAN :
          tally[w] = [ok |-> ok, fail |-> fail, cancelled |-> cancelled]
    BY <1>0 DEF Totals
<1>b. Ok = [ok |-> ok + 1, fail |-> fail, cancelled |-> cancelled]
    BY <1>a
<1>c. Failed(w) = [ok |-> ok, fail |-> fail + 1, cancelled |-> cancelled]
    BY <1>a DEF Failed
<1>d. Stopped.ok = ok /\ Stopped.fail = fail /\ Stopped.cancelled
    BY <1>a
<1>e. Stopped \in Totals
    BY <1>0 DEF Totals
<1> HIDE DEF Ok, Stopped
<1>3. /\ Ok \in Totals /\ Failed(w) \in Totals /\ Stopped \in Totals
      /\ Ahead(tally[w], Ok) /\ Ahead(tally[w], Failed(w)) /\ Ahead(tally[w], Stopped)
      /\ Ahead(tally[w], tally[w])
      /\ Ok.cancelled = tally[w].cancelled /\ Failed(w).cancelled = tally[w].cancelled
      /\ Stopped.cancelled
    BY <1>a, <1>b, <1>c, <1>d, <1>e DEF Totals, Ahead
<1>1. CASE StartAttempt(w)
    <2>1. AttemptEffect(w)
        BY <1>0, <1>1, AheadOf DEF StartAttempt, AttemptEffect, CountInv, CountShapes, eventVars
    <2> QED BY <2>1, AttemptKeeps
<1>2. CASE LeaveLoop(w)
    <2>1. CASE ~SlotLeft(w) /\ UNCHANGED tally
        <3>1. ~SlotLeft(w)'
            BY <1>2, <2>1 DEF LeaveLoop, SlotLeft, planVars
        <3>2. AttemptEffect(w)
            BY <1>0, <1>2, <2>1, <3>1, AheadOf DEF LeaveLoop, AttemptEffect, CountInv, CountShapes, eventVars
        <3> QED BY <3>2, AttemptKeeps
    <2>2. CASE Cancelled /\ tally' = [tally EXCEPT ![w].cancelled = TRUE]
        <3>0. tally' = [tally EXCEPT ![w] = Stopped]
            BY <2>2 DEF Stopped
        <3>1. tally' \in [Workers -> Totals] /\ tally'[w] = Stopped
            BY <1>3, <3>0 DEF CountInv, CountShapes
        <3>2. \A v \in Workers \ {w} : tally'[v] = tally[v]
            BY <2>2 DEF CountInv, CountShapes
        <3>3. AttemptEffect(w)
            BY <1>0, <1>2, <1>3, <2>2, <3>1, <3>2 DEF LeaveLoop, AttemptEffect, CountInv, CountShapes, eventVars
        <3> QED BY <3>3, AttemptKeeps
    <2> QED BY <1>2, <2>1, <2>2 DEF LeaveLoop
<1>4. CASE EndAttempt(w)
    <2>1. UNCHANGED <<stage, row, shown, planVars, reportVars, fatal, stop, abort, rejected>>
        BY <1>4 DEF EndAttempt, eventVars
    <2>2. CASE Report(w, Ok, "loop", 0)
        BY <1>0, <1>3, <2>1, <2>2, ReportEffect, AttemptKeeps
    <2>3. CASE Report(w, Failed(w), "loop", 0)
        BY <1>0, <1>3, <2>1, <2>3, ReportEffect, AttemptKeeps
    <2>4. CASE Report(w, tally[w], "broken", retries[w])
        BY <1>0, <1>3, <2>1, <2>4, ReportEffect, AttemptKeeps
    <2>5. CASE Cancelled /\ Report(w, Stopped, "leave", retries[w])
        BY <1>0, <1>3, <2>1, <2>5, ReportEffect, AttemptKeeps
    <2> QED BY <1>4, <2>2, <2>3, <2>4, <2>5 DEF EndAttempt, Ok, Stopped
<1>5. CASE RetrySlot(w)
    <2>1. UNCHANGED <<stage, row, shown, planVars, reportVars, fatal, stop, abort, rejected>>
        BY <1>5 DEF RetrySlot, eventVars
    <2>2. Report(w, tally[w], "loop", retries[w] + 1)
        BY <1>5 DEF RetrySlot
    <2> QED BY <1>0, <1>3, <2>1, <2>2, ReportEffect, AttemptKeeps
<1>6. CASE Reject(w)
    <2>1. /\ UNCHANGED <<stage, row, shown, planVars, reportVars, fatal, stop>>
          /\ rejected' = rejected \cup {w} /\ abort' = (abort \/ parallel)
          /\ Report(w, Failed(w), "leave", 0)
        BY <1>6 DEF Reject
    <2>2. abort' \in BOOLEAN /\ rejected \subseteq rejected' /\ rejected' \subseteq Workers /\ w \in rejected'
        BY <1>0, <2>1
    <2> QED BY <1>3, <2>1, <2>2, ReportEffect, AttemptKeeps
<1> QED BY <1>1, <1>2, <1>4, <1>5, <1>6

LEMMA ObserveKeeps ==
    ASSUME CountInv, RowInv, NEW w \in Workers, Observe(w)
    PROVE  CountInv'
<1>1. /\ UNCHANGED <<stage, row, shown, parallel, share, after, tally, abort, fatal, stop, rejected>>
      /\ pc[w] = "observe" /\ pc' = [pc EXCEPT ![w] = "publish"] /\ observer' = w
      /\ snapshots' = [snapshots EXCEPT ![w] = tally[w]]
      /\ heard' = [heard EXCEPT ![w] = Aggregate(snapshots')]
    BY DEF Observe, planVars, eventVars
<1>2. stage = "batch" /\ w \in Active
    BY <1>1 DEF RowInv, Busy
<1>3. /\ snapshots' \in [Workers -> Totals] /\ snapshots \in [Workers -> Totals]
      /\ \A v \in Workers : Ahead(snapshots[v], snapshots'[v])
    <2>1. Ahead(snapshots[w], tally[w]) /\ tally[w] \in Totals /\ snapshots \in [Workers -> Totals]
        BY DEF CountInv, Behind, CountShapes
    <2>2. \A v \in Workers : Ahead(snapshots[v], snapshots[v])
        BY <2>1, AheadOf
    <2> QED BY <1>1, <2>1, <2>2
<1>4. /\ Aggregate(snapshots) \in Totals /\ Aggregate(snapshots') \in Totals
      /\ Ahead(Aggregate(snapshots), Aggregate(snapshots'))
    BY <1>3, TotalGrows
<1>5. CountShapes'
    BY <1>1, <1>3, <1>4 DEF CountInv, CountShapes
<1>6. Behind'
    <2>1. Ahead(tally[w], tally[w])
        BY AheadOf DEF CountInv, CountShapes
    <2> QED BY <1>1, <2>1 DEF CountInv, Behind, CountShapes
<1>7. LeftForReason'
    BY <1>1 DEF CountInv, LeftForReason, Left, Active, SlotLeft, CountShapes
<1>8. Publishing'
    <2>1. row.seen \in Totals /\ shown \in Totals
        BY DEF CountInv, CountShapes
    <2>2. Ahead(row.seen, Aggregate(snapshots')) /\ Ahead(shown, Aggregate(snapshots'))
        BY <1>2, <1>4, <2>1, AheadOf DEF CountInv, Publishing, Published
    <2>3. \A v \in Workers : pc[v] = "publish" => observer = v /\ v = w
        <3>1. \A v \in Workers : pc[v] = "publish" => observer = v /\ v \in Active
            BY DEF CountInv, Publishing, RowInv
        <3>2. parallel => observer = Nobody
            BY DEF Observe, MayReport
        <3> QED BY <1>2, <3>1, <3>2, RunAssumption DEF CountInv, Serial, Workers
    <2>4. ASSUME NEW v \in Workers, pc'[v] = "publish"
          PROVE  v = w /\ heard'[v] = Aggregate(snapshots')
        BY <1>1, <2>3, <2>4 DEF CountInv, CountShapes
    <2>5. Ahead(Aggregate(snapshots'), Aggregate(snapshots'))
        BY <1>4, AheadOf
    <2> QED BY <1>1, <1>2, <2>2, <2>4, <2>5 DEF Publishing, Published
<1>9. Serial' /\ Fresh' /\ BatchOver' /\ FinishedRowTrue'
    BY <1>1, <1>2 DEF CountInv, Serial, Active, Fresh, BatchOver, FinishedRowTrue
<1> QED BY <1>5, <1>6, <1>7, <1>8, <1>9 DEF CountInv

LEMMA PublishKeeps ==
    ASSUME CountInv, RowInv, NEW w \in Workers, Publish(w)
    PROVE  CountInv'
<1>1. /\ UNCHANGED <<stage, parallel, share, after, tally, snapshots, abort, fatal, stop, rejected>>
      /\ pc[w] = "publish" /\ pc' = [pc EXCEPT ![w] = after[w]]
      /\ heard' = [heard EXCEPT ![w] = Zero] /\ shown' = heard[w]
      /\ row' = [row EXCEPT !.seen = heard[w]] \/ row' = row
    BY DEF Publish, planVars, eventVars
<1>2. /\ stage = "batch" /\ after[w] \in {"loop", "leave", "broken"} /\ heard[w] \in Totals
      /\ Zero \in Totals
    BY <1>1 DEF RowInv, Busy, CountInv, CountShapes, Zero, Totals
<1>3. CountShapes'
    BY <1>1, <1>2 DEF CountInv, CountShapes
<1>4. Behind'
    BY <1>1, <1>2 DEF CountInv, CountShapes, Behind
<1>5. LeftForReason'
    <2>1. \A v \in Workers : Left(v)' => Left(v)
        BY <1>1, <1>2 DEF Left, Active, CountInv, CountShapes
    <2> QED BY <1>1, <2>1 DEF CountInv, LeftForReason, SlotLeft
<1>6. Publishing'
    <2>1. /\ observer = w /\ Published(heard[w]) /\ Published(row.seen)
          /\ \A v \in Workers : pc[v] = "publish" => observer = v
        BY <1>1, <1>2 DEF CountInv, Publishing
    <2>2. \A v \in Workers : pc'[v] # "publish"
        BY <1>1, <1>2, <2>1 DEF CountInv, CountShapes
    <2>3. Published(row.seen)' /\ Published(shown)'
        BY <1>1, <2>1 DEF Published, CountInv, CountShapes
    <2> QED BY <2>2, <2>3 DEF Publishing
<1>7. Serial' /\ Fresh' /\ BatchOver' /\ FinishedRowTrue'
    BY <1>1, <1>2 DEF CountInv, Serial, Active, Fresh, BatchOver, FinishedRowTrue
<1> QED BY <1>3, <1>4, <1>5, <1>6, <1>7 DEF CountInv

LEMMA LeaveKeeps ==
    ASSUME CountInv, RowInv, NEW w \in Workers, Leave(w)
    PROVE  CountInv'
<1>1. /\ UNCHANGED <<stage, row, shown, parallel, share, after, tally, heard, observer, abort, fatal, stop, rejected>>
      /\ pc[w] = "leave" /\ pc' = [pc EXCEPT ![w] = "done"]
      /\ snapshots' = [snapshots EXCEPT ![w] = tally[w]]
    BY DEF Leave, Final, planVars, eventVars
<1>2. stage = "batch"
    BY <1>1 DEF RowInv, Busy
<1>3. /\ snapshots' \in [Workers -> Totals] /\ snapshots \in [Workers -> Totals]
      /\ \A v \in Workers : Ahead(snapshots[v], snapshots'[v])
    <2>1. Ahead(snapshots[w], tally[w]) /\ tally[w] \in Totals /\ snapshots \in [Workers -> Totals]
        BY DEF CountInv, Behind, CountShapes
    <2>2. \A v \in Workers : Ahead(snapshots[v], snapshots[v])
        BY <2>1, AheadOf
    <2> QED BY <1>1, <2>1, <2>2
<1>4. /\ Aggregate(snapshots) \in Totals /\ Aggregate(snapshots') \in Totals
      /\ Ahead(Aggregate(snapshots), Aggregate(snapshots'))
    BY <1>3, TotalGrows
<1>5. CountShapes'
    BY <1>1, <1>3 DEF CountInv, CountShapes
<1>6. Behind'
    <2>1. Ahead(tally[w], tally[w])
        BY AheadOf DEF CountInv, CountShapes
    <2> QED BY <1>1, <2>1 DEF CountInv, Behind, CountShapes
<1>7. LeftForReason'
    <2>1. \A v \in Workers : Left(v)' => Left(v)
        BY <1>1, <1>2 DEF Left, Active, CountInv, CountShapes
    <2> QED BY <1>1, <2>1 DEF CountInv, LeftForReason, SlotLeft
<1>8. Publishing'
    <2>1. \A s \in Totals : Published(s) => Published(s)'
        BY <1>4, AheadOf DEF Published
    <2>2. row.seen \in Totals /\ shown \in Totals /\ heard \in [Workers -> Totals]
        BY DEF CountInv, CountShapes
    <2>3. \A v \in Workers : pc'[v] = "publish" => pc[v] = "publish"
        BY <1>1 DEF CountInv, CountShapes
    <2> QED BY <1>1, <1>2, <2>1, <2>2, <2>3 DEF CountInv, Publishing, Published
<1>9. Serial' /\ Fresh' /\ BatchOver' /\ FinishedRowTrue'
    BY <1>1, <1>2 DEF CountInv, Serial, Active, Fresh, BatchOver, FinishedRowTrue
<1> QED BY <1>5, <1>6, <1>7, <1>8, <1>9 DEF CountInv

LEMMA WorkerKeepsCount ==
    ASSUME CountInv, RowInv, NEW w \in Workers, WorkerStep(w)
    PROVE  CountInv'
BY AttemptStep, ObserveKeeps, PublishKeeps, LeaveKeeps DEF WorkerStep

LEMMA NobodyBusy == RowInv /\ stage # "batch" => \A w \in Workers : ~Busy(w)
BY DEF RowInv

LEMMA CreateKeeps == ASSUME CountInv, RowInv, CreateRow PROVE CountInv'
<1>1. stage = "create" /\ shown' = shown /\ shown \in Totals
    BY DEF CreateRow, CountInv, CountShapes
<1>2. CASE EndRun /\ UNCHANGED row
    <2>1. row' \in [status : Statuses, requested : Nat, seen : Totals]
        BY <1>2 DEF CountInv, CountShapes
    <2> QED BY <1>1, <1>2, <2>1, CountEnds, NobodyBusy
<1>3. CASE /\ stage' = "prepare"
           /\ \E count \in 1..MaxCount : row' = [status |-> "running", requested |-> count, seen |-> Zero]
           /\ UNCHANGED <<planVars, workerVars, reportVars, eventVars>>
    <2>1. UNCHANGED <<parallel, share, pc, after, tally, snapshots, heard, observer, abort, fatal, stop, rejected>>
        BY <1>3 DEF planVars, workerVars, reportVars, eventVars
    <2>2. row'.seen = Zero /\ row' \in [status : Statuses, requested : Nat, seen : Totals]
        BY <1>3, RunAssumption DEF Statuses, Totals, Zero
    <2>3. Aggregate(snapshots) \in Totals
        BY TotalIsTotal DEF CountInv, CountShapes
    <2>4. CountShapes'
        BY <1>1, <2>1, <2>2 DEF CountInv, CountShapes
    <2>5. Behind' /\ LeftForReason'
        BY <2>1 DEF CountInv, Behind, LeftForReason, Left, Active, SlotLeft
    <2>6. Publishing'
        BY <1>1, <1>3, <2>1, <2>2, <2>3, AheadOf DEF CountInv, Publishing, Published, Fresh
    <2>7. Serial' /\ Fresh' /\ BatchOver' /\ FinishedRowTrue'
        BY <1>1, <1>3, <2>1 DEF CountInv, Serial, Active, Fresh, BatchOver, FinishedRowTrue
    <2> QED BY <2>4, <2>5, <2>6, <2>7 DEF CountInv
<1> QED BY <1>2, <1>3 DEF CreateRow

\* A serial batch has one worker with a share.
LEMMA OneShare ==
    ASSUME NEW count \in Nat \ {0}
    PROVE  \A v, w \in Workers : Split(count, 1)[v] > 0 /\ Split(count, 1)[w] > 0 => v = w
<1>1. \A w \in Workers : w > 1 => Split(count, 1)[w] = 0
    BY DEF Split
<1> QED BY <1>1, RunAssumption DEF Workers

LEMMA SharesAreNumbers ==
    ASSUME NEW count \in Nat \ {0}, NEW threads \in Workers
    PROVE  Split(count, threads) \in [Workers -> Nat]
<1> DEFINE actual == IF threads < count THEN threads ELSE count
<1>1. actual \in Nat \ {0}
    BY RunAssumption DEF Workers
<1>2. count \div actual \in Nat /\ count % actual \in Nat
    BY <1>1
<1>3. \A w \in Workers : Split(count, threads)[w] =
          IF w > actual THEN 0 ELSE count \div actual + (IF w <= count % actual THEN 1 ELSE 0)
    BY DEF Split
<1>4. \A w \in Workers : Split(count, threads)[w] \in Nat
    <2> HIDE DEF actual
    <2> QED BY <1>2, <1>3
<1> QED BY <1>4 DEF Split

LEMMA PrepareKeeps == ASSUME CountInv, RowInv, Prepare PROVE CountInv'
<1>1. /\ stage = "prepare" /\ \A w \in Workers : pc[w] = "off" /\ share[w] = 0
      /\ UNCHANGED <<shown, after, tally, snapshots, heard, observer, abort, fatal, stop, rejected>>
    BY DEF Prepare, CountInv, Fresh, reportVars, eventVars
<1>2. CASE stage' = "failing" /\ UNCHANGED <<row, planVars, pc>>
    <2>1. UNCHANGED <<parallel, share, row, pc>>
        BY <1>2 DEF planVars
    <2>2. CountShapes' /\ Behind' /\ LeftForReason'
        BY <1>1, <2>1 DEF CountInv, CountShapes, Behind, LeftForReason, Left, Active, SlotLeft
    <2>3. Publishing' /\ Serial' /\ Fresh' /\ BatchOver' /\ FinishedRowTrue'
        BY <1>1, <1>2, <2>1 DEF CountInv, Publishing, Published, Serial, Active, Fresh, BatchOver, FinishedRowTrue
    <2> QED BY <2>2, <2>3 DEF CountInv
<1>3. ASSUME NEW count \in 1..row.requested, NEW threads \in Workers,
             stage' = "batch", row' = [row EXCEPT !.requested = count],
             parallel' = (threads > 1 /\ count > 1),
             share' = IF parallel' THEN Split(count, threads) ELSE Split(count, 1),
             pc' = [w \in Workers |-> IF share'[w] > 0 THEN "loop" ELSE "off"]
      PROVE  CountInv'
    <2>1. count \in Nat \ {0} /\ 1 \in Workers
        BY RunAssumption DEF CountInv, CountShapes, Workers
    <2>2. share' \in [Workers -> Nat]
        BY <1>3, <2>1, SharesAreNumbers
    <2>3. Serial'
        BY <1>3, <2>1, OneShare DEF Serial, Active
    <2>4. row' \in [status : Statuses, requested : Nat, seen : Totals] /\ row'.seen = row.seen
        BY <1>3, <2>1 DEF CountInv, CountShapes
    <2>5. CountShapes'
        BY <1>1, <1>3, <2>2, <2>4 DEF CountInv, CountShapes
    <2>6. Behind'
        BY <1>1, <1>3 DEF CountInv, Behind
    <2>7. LeftForReason'
        BY <1>1, <1>3, <2>2 DEF CountInv, LeftForReason, Left, Active
    <2>8. Publishing'
        BY <1>1, <1>3, <2>4 DEF CountInv, Publishing, Published
    <2>9. Fresh' /\ BatchOver' /\ FinishedRowTrue'
        BY <1>3 DEF Fresh, BatchOver, FinishedRowTrue
    <2> QED BY <2>3, <2>5, <2>6, <2>7, <2>8, <2>9 DEF CountInv
<1> QED BY <1>2, <1>3 DEF Prepare

LEMMA CollectKeeps == ASSUME CountInv, RowInv, NEW w \in Workers, Collect(w) PROVE CountInv'
<1>1. /\ stage = "batch" /\ pc[w] \in {"done", "broken"} /\ pc' = [pc EXCEPT ![w] = "off"]
      /\ fatal' = (fatal \/ pc[w] = "broken") /\ abort' = (abort \/ pc[w] = "broken")
      /\ UNCHANGED <<stage, row, shown, parallel, share, after, tally, snapshots, heard, observer, stop, rejected>>
    BY DEF Collect, planVars, reportVars
<1>2. CountShapes'
    BY <1>1 DEF CountInv, CountShapes
<1>3. Behind'
    BY <1>1 DEF CountInv, CountShapes, Behind
<1>4. LeftForReason'
    BY <1>1 DEF CountInv, CountShapes, LeftForReason, Left, Active, SlotLeft
<1>5. Publishing' /\ Serial' /\ Fresh' /\ BatchOver' /\ FinishedRowTrue'
    BY <1>1 DEF CountInv, CountShapes, Publishing, Published, Serial, Active, Fresh, BatchOver, FinishedRowTrue
<1> QED BY <1>2, <1>3, <1>4, <1>5 DEF CountInv

LEMMA CloseKeeps == ASSUME CountInv, RowInv, CloseBatch PROVE CountInv'
<1>1. stage = "batch" /\ AllEnded /\ row' = row /\ shown' = shown
    BY DEF CloseBatch, MayClose
<1>2. \A w \in Workers : ~Busy(w)
    BY <1>1 DEF AllEnded, Busy, RowInv
<1>3. CASE EndRun
    <2>1. shown' \in Totals /\ row' \in [status : Statuses, requested : Nat, seen : Totals]
        BY <1>1 DEF CountInv, CountShapes
    <2> QED BY <1>2, <1>3, <2>1, CountEnds
<1>4. CASE /\ ~signal /\ stage' = (IF fatal THEN "failing" ELSE "finish")
           /\ UNCHANGED <<planVars, workerVars, reportVars, eventVars>>
    <2>1. UNCHANGED <<row, shown, parallel, share, pc, after, tally, snapshots, heard, observer, abort, fatal, stop,
                      rejected>>
        BY <1>1, <1>4 DEF planVars, workerVars, reportVars, eventVars
    <2>2. \A w \in Workers : pc[w] = "off"
        BY <1>1, <1>4 DEF AllEnded, RowInv
    <2>3. CountShapes' /\ Behind' /\ LeftForReason'
        BY <2>1 DEF CountInv, CountShapes, Behind, LeftForReason, Left, Active, SlotLeft
    <2>4. Publishing' /\ Serial' /\ Fresh' /\ BatchOver' /\ FinishedRowTrue'
        BY <1>1, <1>4, <2>1, <2>2 DEF CountInv, Publishing, Published, Serial, Active, Fresh, BatchOver,
           FinishedRowTrue
    <2> QED BY <2>3, <2>4 DEF CountInv
<1> QED BY <1>3, <1>4 DEF CloseBatch

\* The total of the snapshots, as the row gets it.
LEMMA TotalSeen ==
    ASSUME CountInv
    PROVE  /\ Total \in Totals
           /\ Total.ok = Aggregate(snapshots).ok /\ Total.fail = Aggregate(snapshots).fail
           /\ Total.cancelled <=> (\E w \in Workers : snapshots[w].cancelled) \/ (parallel /\ stop)
<1>1. PICK ok \in Nat, fail \in Nat, cancelled \in BOOLEAN :
          Aggregate(snapshots) = [ok |-> ok, fail |-> fail, cancelled |-> cancelled]
    BY TotalIsTotal DEF CountInv, CountShapes, Totals
<1>2. cancelled <=> \E w \in Workers : snapshots[w].cancelled
    BY <1>1 DEF Aggregate
<1>3. Total.ok = ok /\ Total.fail = fail /\ Total.cancelled = (cancelled \/ (parallel /\ stop))
    <2>1. "cancelled" \in DOMAIN Aggregate(snapshots)
        BY <1>1
    <2>2. Total.cancelled = (Aggregate(snapshots).cancelled \/ (parallel /\ stop))
        BY <2>1, Zenon DEF Total
    <2> QED BY <1>1, <2>2 DEF Total
<1>4. Total \in Totals
    BY <1>1 DEF Total, Totals, CountInv, CountShapes
<1>5. Total.cancelled <=> (\E w \in Workers : snapshots[w].cancelled) \/ (parallel /\ stop)
    BY <1>2, <1>3, Zenon
<1>6. Total.ok = Aggregate(snapshots).ok /\ Total.fail = Aggregate(snapshots).fail
    BY <1>1, <1>3
<1> QED BY <1>4, <1>5, <1>6

LEMMA FinishKeeps == ASSUME CountInv, RowInv, FinishRow PROVE CountInv'
<1>1. /\ stage = "finish"
      /\ UNCHANGED <<shown, parallel, share, pc, after, tally, snapshots, heard, observer, abort, fatal, stop, rejected>>
    BY DEF FinishRow, planVars, workerVars, reportVars, eventVars
<1>2. ~fatal /\ \A w \in Workers : pc[w] = "off"
    BY <1>1 DEF CountInv, BatchOver
<1>3. Behind' /\ LeftForReason' /\ Serial'
    BY <1>1 DEF CountInv, Behind, LeftForReason, Left, Active, SlotLeft, Serial
<1>4. CASE stage' = "failing" /\ UNCHANGED row
    <2>1. CountShapes' /\ Publishing' /\ Fresh' /\ BatchOver' /\ FinishedRowTrue'
        BY <1>1, <1>4 DEF CountInv, CountShapes, Publishing, Published, Fresh, BatchOver, FinishedRowTrue
    <2> QED BY <1>3, <2>1 DEF CountInv
<1>5. CASE /\ stage' = "return"
           /\ row' = [row EXCEPT !.status = IF Total.cancelled THEN "cancelled" ELSE "completed",
                                 !.seen = Total]
    <2>1. /\ row'.seen = Total /\ row' \in [status : Statuses, requested : Nat, seen : Totals]
          /\ row'.status = IF Total.cancelled THEN "cancelled" ELSE "completed"
        BY <1>5, TotalSeen DEF CountInv, CountShapes, Statuses
    <2>2. snapshots = tally
        BY <1>2 DEF CountInv, Behind, CountShapes
    <2>3. CountShapes'
        BY <1>1, <2>1 DEF CountInv, CountShapes
    <2>4. Publishing'
        <3>1. Ahead(row'.seen, Aggregate(snapshots))
            BY <2>1, TotalSeen, TotalIsTotal DEF Ahead, Totals, CountInv, CountShapes
        <3> QED BY <1>1, <1>2, <1>5, <3>1 DEF CountInv, Publishing, Published
    <2>5. FinishedRowTrue'
        <3>1. ASSUME ~Total.cancelled, NEW w \in Active
              PROVE  ~SlotLeft(w) \/ w \in rejected
            <4>1. Left(w) /\ w \in Workers
                BY <1>2 DEF Left, Active
            <4>2. ~tally[w].cancelled
                BY <2>2, <3>1, <4>1, TotalSeen
            <4> QED BY <1>2, <4>1, <4>2 DEF CountInv, LeftForReason
        <3>2. ASSUME Total.cancelled
              PROVE  stop \/ rejected # {}
            BY <1>2, <2>2, <3>2, TotalSeen DEF CountInv, LeftForReason
        <3> QED BY <1>1, <2>1, <2>2, <3>1, <3>2, TotalSeen DEF FinishedRowTrue, Active, SlotLeft
    <2>6. Fresh' /\ BatchOver'
        BY <1>1, <1>2, <1>5, <2>1, TotalSeen DEF Fresh, BatchOver
    <2> QED BY <1>3, <2>3, <2>4, <2>5, <2>6 DEF CountInv
<1> QED BY <1>4, <1>5 DEF FinishRow

LEMMA LastSteps == ASSUME CountInv, RowInv, RecordFailure \/ Return PROVE CountInv'
<1>1. row' \in [status : Statuses, requested : Nat, seen : Totals] /\ shown' \in Totals
    BY DEF RecordFailure, Return, CountInv, CountShapes, Statuses
<1>2. EndRun /\ \A w \in Workers : ~Busy(w)
    BY NobodyBusy DEF RecordFailure, Return
<1> QED BY <1>1, <1>2, CountEnds

LEMMA RunKeepsCount == ASSUME CountInv, RowInv, RunStep PROVE CountInv'
BY CreateKeeps, PrepareKeeps, CollectKeeps, CloseKeeps, FinishKeeps, LastSteps, WorkerKeepsCount
   DEF RunStep, MainStep

LEMMA BeginKeepsCount == ASSUME CountInv, BeginRun PROVE CountInv'
<1>1. /\ stage = "off" /\ stage' = "create" /\ shown' = Zero
      /\ UNCHANGED <<row, parallel, share, pc, after, tally, snapshots, heard, observer, abort, fatal, stop, rejected>>
    BY DEF BeginRun, planVars, workerVars, reportVars, eventVars
<1>2. Zero \in Totals /\ Aggregate(snapshots) \in Totals
    BY TotalIsTotal DEF CountInv, CountShapes, Totals, Zero
<1>3. CountShapes' /\ Behind' /\ LeftForReason'
    BY <1>1, <1>2 DEF CountInv, CountShapes, Behind, LeftForReason, Left, Active, SlotLeft
<1>4. Publishing'
    BY <1>1, <1>2, AheadOf DEF CountInv, Fresh, Publishing, Published
<1>5. Serial' /\ Fresh' /\ BatchOver' /\ FinishedRowTrue'
    BY <1>1 DEF CountInv, Serial, Active, Fresh, BatchOver, FinishedRowTrue
<1> QED BY <1>3, <1>4, <1>5 DEF CountInv

\* A stop request, and whatever leaves the run alone but resets what the
\* front end shows between two runs.
LEMMA OthersKeepCount ==
    ASSUME CountInv, stop' \in BOOLEAN, stop => stop', shown' \in Totals,
           stage # "off" => shown' = shown,
           UNCHANGED <<stage, row, planVars, workerVars, reportVars, abort, fatal, rejected>>
    PROVE  CountInv'
<1>1. UNCHANGED <<stage, row, parallel, share, pc, after, tally, snapshots, heard, observer, abort, fatal, rejected>>
    BY DEF planVars, workerVars, reportVars
<1>2. CountShapes' /\ Behind' /\ Serial' /\ Fresh'
    BY <1>1 DEF CountInv, CountShapes, Behind, Serial, Fresh, Active
<1>3. LeftForReason'
    BY <1>1 DEF CountInv, LeftForReason, Left, Active, SlotLeft
<1>4. Publishing' /\ BatchOver'
    BY <1>1 DEF CountInv, Publishing, Published, BatchOver, Fresh
<1>5. FinishedRowTrue'
    BY <1>1 DEF CountInv, FinishedRowTrue, Active, SlotLeft
<1> QED BY <1>2, <1>3, <1>4, <1>5 DEF CountInv

LEMMA CountStep == CountInv /\ RowInv /\ [Next]_vars => CountInv'
<1> SUFFICES ASSUME CountInv, RowInv, [Next]_vars PROVE CountInv'
    OBVIOUS
<1>1. shown \in Totals /\ Zero \in Totals /\ stop \in BOOLEAN
    BY DEF CountInv, CountShapes, Totals, Zero
<1>2. CASE Start
    <2>1. CASE BeginRun
        BY <2>1, BeginKeepsCount
    <2>2. CASE /\ shown' \in {Zero, shown}
               /\ UNCHANGED <<stage, row, planVars, workerVars, reportVars, eventVars>>
        BY <1>1, <1>2, <2>2, OthersKeepCount DEF Start, Idle, Running, eventVars
    <2> QED BY <1>2, <2>1, <2>2 DEF Start
<1>3. CASE Run
    BY <1>3, RunKeepsCount DEF Run
<1>4. CASE StopController
    <2>1. stop' \in BOOLEAN /\ (stop => stop')
        BY <1>1, <1>4 DEF StopController
    <2> QED BY <1>1, <1>4, <2>1, OthersKeepCount DEF StopController
<1>5. CASE UNCHANGED runVars
    BY <1>1, <1>5, OthersKeepCount DEF runVars, eventVars
<1> QED BY <1>2, <1>3, <1>4, <1>5 DEF Next, ReadController, EditFile, PutConfig, GetConfig, BeginCheck,
       LoadForCheck, EndCheck, BeginReauth, HandlerStep, LoadForReauth, FailReauth, StartManager,
       AnswerReauth, FinishJob, vars

LEMMA CountInvariant == Spec => []CountInv
BY RowInvariant, CountStart, CountStep, PTL DEF Spec, Init

\* What the row of a returned run says of saved and failed accounts is what
\* its workers did, and "completed" and "cancelled" mean what they say
\* (finish_registration_run in run_registration_common,
\* grok_register_ttk.py, and _aggregate, registration_parallel.py).
THEOREM RowIsTrue == Spec => []FinishedRowTrue
BY CountInvariant, PTL DEF CountInv

\* No worker reports a total older than the one already reported: the
\* counters of the row and of the front end only grow (worker_observer,
\* registration_parallel.py, and record_progress, grok_register_ttk.py).
THEOREM ProgressNeverBack == Spec => ProgressForward
<1>1. CountInv /\ RowInv /\ [Next]_vars =>
          [/\ stage # "create" => Ahead(row.seen, row'.seen)
           /\ stage # "off" => Ahead(shown, shown')]_runVars
    <2> SUFFICES ASSUME CountInv, RowInv, Next
                 PROVE  /\ stage # "create" => Ahead(row.seen, row'.seen)
                        /\ stage # "off" => Ahead(shown, shown')
        BY DEF vars
    <2>1. row.seen \in Totals /\ Ahead(row.seen, row.seen) /\ Ahead(shown, shown)
        BY AheadOf DEF CountInv, CountShapes
    <2>2. ASSUME NEW w \in Workers, WorkerStep(w)
          PROVE  Ahead(row.seen, row'.seen) /\ Ahead(shown, shown')
        <3>1. CASE Publish(w)
            <4>1. Ahead(row.seen, heard[w]) /\ Ahead(shown, heard[w])
                BY <3>1 DEF Publish, CountInv, Publishing
            <4>2. row' = row \/ row'.seen = heard[w]
                BY <3>1 DEF Publish, CountInv, CountShapes
            <4> QED BY <2>1, <3>1, <4>1, <4>2 DEF Publish
        <3>2. CASE ~Publish(w)
            BY <2>1, <2>2, <3>2 DEF WorkerStep, StartAttempt, LeaveLoop, EndAttempt, RetrySlot, Reject, Observe, Leave
        <3> QED BY <3>1, <3>2
    <2>3. ASSUME stage # "create", MainStep
          PROVE  Ahead(row.seen, row'.seen) /\ Ahead(shown, shown')
        <3>1. CASE FinishRow
            <4>1. Ahead(row.seen, Total)
                BY <3>1, TotalSeen DEF FinishRow, CountInv, Publishing, Published, Ahead
            <4>2. row' = row \/ row'.seen = Total
                BY <3>1 DEF FinishRow, CountInv, CountShapes
            <4> QED BY <2>1, <3>1, <4>1, <4>2 DEF FinishRow
        <3>2. CASE Return
            <4>1. Ahead(shown, row.seen)
                BY <3>2 DEF Return, CountInv, Publishing, Published, BatchOver, Ahead
            <4> QED BY <2>1, <3>2, <4>1 DEF Return
        <3>3. CASE Prepare \/ RecordFailure
            <4>1. row'.seen = row.seen /\ shown' = shown
                BY <3>3 DEF Prepare, RecordFailure, CountInv, CountShapes
            <4> QED BY <2>1, <4>1
        <3>4. CASE \/ \E w \in Workers : Collect(w)
                   \/ CloseBatch
            BY <2>1, <3>4 DEF Collect, CloseBatch
        <3> QED BY <2>3, <3>1, <3>2, <3>3, <3>4 DEF MainStep, CreateRow
    <2>4. CASE Run
        <3>1. stage = "create" /\ MainStep => shown' = shown
            BY DEF MainStep, CreateRow, Prepare, Collect, CloseBatch, FinishRow, RecordFailure, Return
        <3> QED BY <2>1, <2>2, <2>3, <2>4, <3>1 DEF Run, RunStep
    <2>5. CASE row' = row /\ (stage = "off" \/ shown' = shown)
        BY <2>1, <2>5
    <2> QED BY <2>4, <2>5 DEF Next, Start, Idle, Running, BeginRun, ReadController, StopController, EditFile,
           PutConfig, GetConfig, BeginCheck, LoadForCheck, EndCheck, BeginReauth, HandlerStep, LoadForReauth,
           FailReauth, StartManager, AnswerReauth, FinishJob, runVars
<1> QED BY RowInvariant, CountInvariant, <1>1, PTL DEF Spec, ProgressForward

-----------------------------------------------------------------------------
(* The command line.                                                       *)

\* KeyboardInterrupt in main breaks an attempt of a serial batch off and
\* leaves the workers of a parallel one alone.
LEMMA InterruptKeeps == ASSUME CountInv, RowInv, Interrupt PROVE CountInv' /\ RowInv'
<1>1. /\ stage = "batch"
      /\ UNCHANGED <<stage, row, shown, planVars, reportVars, abort, fatal, stop, rejected>>
    BY DEF Interrupt
<1>2. CASE UNCHANGED workerVars
    <2>1. CountInv'
        BY <1>1, <1>2, OthersKeepCount DEF CountInv, CountShapes
    <2>2. RowInv'
        BY <1>1, <1>2 DEF RowInv, RowShapes, Busy, Active, planVars, workerVars
    <2> QED BY <2>1, <2>2
<1>3. ASSUME NEW w \in Active, Report(w, tally[w], "broken", retries[w]) PROVE CountInv' /\ RowInv'
    <2>1. w \in Workers /\ tally[w] \in Totals /\ Ahead(tally[w], tally[w])
        BY AheadOf DEF Active, CountInv, CountShapes
    <2>2. AttemptEffect(w)
        BY <1>1, <1>3, <2>1, ReportEffect DEF CountInv, CountShapes
    <2>3. CountInv'
        BY <2>1, <2>2, AttemptKeeps
    <2>4. RowInv'
        BY <1>1, <1>3 DEF RowInv, RowShapes, Report, Busy, Active, planVars
    <2> QED BY <2>3, <2>4
<1> QED BY <1>2, <1>3 DEF Interrupt

\* With Ctrl+C, too, a run that returns has a true row (the
\* KeyboardInterrupt of main_cli and of run_parallel_batch).
THEOREM ConsoleRowIsTrue == ConsoleSpec => []FinishedRowTrue
<1>1. CountInv /\ RowInv /\ [ConsoleNext]_runVars => CountInv' /\ RowInv'
    <2> SUFFICES ASSUME CountInv, RowInv, [ConsoleNext]_runVars PROVE CountInv' /\ RowInv'
        OBVIOUS
    <2>1. CASE BeginRun
        BY <2>1, BeginKeepsCount DEF BeginRun, RowInv, RowShapes, Busy, Active, planVars, workerVars
    <2>2. CASE RunStep
        BY <2>2, RunKeepsCount, MainKeepsRow, WorkerKeepsRow DEF RunStep
    <2>3. CASE UNCHANGED runVars
        <3>1. CountInv'
            BY <2>3, OthersKeepCount DEF runVars, eventVars, CountInv, CountShapes
        <3>2. RowInv'
            BY <2>3 DEF runVars, RowInv, RowShapes, Busy, Active, planVars, workerVars
        <3> QED BY <3>1, <3>2
    <2> QED BY <2>1, <2>2, <2>3, InterruptKeeps DEF ConsoleNext
<1> QED BY <1>1, CountStart, RowStart, PTL DEF ConsoleSpec, CountInv

=============================================================================
