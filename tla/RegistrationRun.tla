--------------------------- MODULE RegistrationRun ---------------------------
(***************************************************************************)
(* One registration run from its row in registration_runs to its result:   *)
(* run_registration_common (grok_register_ttk.py), the serial batch or the *)
(* worker threads of run_parallel_batch (registration_parallel.py), their  *)
(* aborts and the progress they report to the row and to the front end.    *)
(*                                                                         *)
(* An attempt at an account (RegistrationFlow) is one step here with its   *)
(* outcome; what matters is who counts it, who hears of it and when.       *)
(* Abstractions: of the counters those of saved and failed accounts are    *)
(* kept; the results themselves, logs and the mail and browser modules     *)
(* each worker loads are left out.                                         *)
(***************************************************************************)
EXTENDS Naturals

CONSTANTS MaxThreads,    \* bound on multi_thread_workers
          MaxCount,      \* bound on register_count
          MaxSlotRetry,  \* max_slot_retry: 3 in the code
          Console,       \* the front end is the command line, with its Ctrl+C
          Nobody         \* holder of a free observer_lock

ASSUME RunAssumption ==
    /\ MaxThreads \in Nat \ {0}
    /\ MaxCount \in Nat \ {0}
    /\ MaxSlotRetry \in Nat
    /\ Console \in BOOLEAN
    /\ Nobody \notin 1..MaxThreads

Workers == 1..MaxThreads

VARIABLES
    stage,      \* where run_registration_common is; "off" between runs
    row,        \* the run's row in registration_runs
    shown,      \* the counters the front end shows
    parallel,   \* the batch runs on worker threads
    share,      \* accounts each worker has to process
    pc,         \* what each worker does
    after,      \* what it does once its attempt is reported
    retries,    \* retry_count_for_slot of each worker
    tally,      \* BatchResult of each worker
    snapshots,  \* the copy of it that run_parallel_batch keeps
    heard,      \* the total each worker is reporting
    observer,   \* holder of observer_lock
    abort,      \* abort_event
    fatal,      \* fatal_errors is not empty
    stop,       \* the controller of this run has been told to stop
    signal,     \* Ctrl+C has been pressed
    rejected    \* workers whose address the sign-up page rejected (history)

workerVars == <<pc, after, retries, tally>>
reportVars == <<snapshots, heard, observer>>
eventVars  == <<abort, fatal, stop, signal, rejected>>
planVars   == <<parallel, share>>
runVars == <<stage, row, shown, planVars, workerVars, reportVars, eventVars>>

Zero == [ok |-> 0, fail |-> 0, cancelled |-> FALSE]

Counts == [ok : 0..MaxCount, fail : 0..MaxCount, cancelled : BOOLEAN]

Statuses == {"none", "running", "completed", "cancelled", "failed"}

Finished == {"completed", "cancelled", "failed"}

RunTypeOK ==
    /\ stage \in {"off", "create", "prepare", "batch", "finish", "failing", "return"}
    /\ row \in [status : Statuses, requested : 0..MaxCount, seen : Counts]
    /\ shown \in Counts
    /\ parallel \in BOOLEAN
    /\ share \in [Workers -> 0..MaxCount]
    /\ pc \in [Workers -> {"off", "loop", "attempt", "observe", "publish", "leave", "done", "broken"}]
    /\ after \in [Workers -> {"loop", "leave", "broken"}]
    /\ retries \in [Workers -> 0..MaxSlotRetry]
    /\ tally \in [Workers -> Counts]
    /\ snapshots \in [Workers -> Counts]
    /\ heard \in [Workers -> Counts]
    /\ observer \in Workers \cup {Nobody}
    /\ {abort, fatal, stop, signal} \subseteq BOOLEAN
    /\ rejected \subseteq Workers

RunInit ==
    /\ stage = "off"
    /\ row = [status |-> "none", requested |-> 0, seen |-> Zero]
    /\ shown = Zero
    /\ parallel = FALSE
    /\ share = [w \in Workers |-> 0]
    /\ pc = [w \in Workers |-> "off"]
    /\ after = [w \in Workers |-> "loop"]
    /\ retries = [w \in Workers |-> 0]
    /\ tally = [w \in Workers |-> Zero]
    /\ snapshots = tally
    /\ heard = tally
    /\ observer = Nobody
    /\ abort = FALSE
    /\ fatal = FALSE
    /\ stop = FALSE
    /\ signal = FALSE
    /\ rejected = {}

Seen(t) == t.ok + t.fail

Active == {w \in Workers : share[w] > 0}

\* The sum of f over the workers, one after the other.
SumOver(f) ==
    LET upTo[n \in 0..MaxThreads] == IF n = 0 THEN 0 ELSE upTo[n - 1] + f[n]
    IN  upTo[MaxThreads]

Aggregate(s) ==
    [ok        |-> SumOver([w \in Workers |-> s[w].ok]),
     fail      |-> SumOver([w \in Workers |-> s[w].fail]),
     cancelled |-> \E w \in Workers : s[w].cancelled]

\* split_worker_counts: the first workers take the remainder.
Split(count, threads) ==
    LET actual == IF threads < count THEN threads ELSE count
    IN  [w \in Workers |-> IF w > actual THEN 0
                           ELSE count \div actual + (IF w <= count % actual THEN 1 ELSE 0)]

Cancelled == stop \/ (parallel /\ abort)

-----------------------------------------------------------------------------
(* run_registration_common.                                                *)

\* A front end begins a run with counters and a controller of its own.
BeginRun ==
    /\ stage = "off"
    /\ stage' = "create"
    /\ shown' = Zero
    /\ UNCHANGED <<row, planVars, workerVars, reportVars, eventVars>>

\* The call is over; what its closures hold lives as long as its threads.
EndRun ==
    /\ stage' = "off"
    /\ IF \E w \in Workers : pc[w] \notin {"off", "done", "broken"}
         THEN UNCHANGED <<planVars, workerVars, reportVars, eventVars>>
         ELSE /\ parallel' = FALSE
              /\ share' = [w \in Workers |-> 0]
              /\ pc' = [w \in Workers |-> "off"]
              /\ after' = [w \in Workers |-> "loop"]
              /\ retries' = [w \in Workers |-> 0]
              /\ tally' = [w \in Workers |-> Zero]
              /\ snapshots' = tally'
              /\ heard' = tally'
              /\ observer' = Nobody
              /\ abort' = FALSE
              /\ fatal' = FALSE
              /\ stop' = FALSE
              /\ signal' = FALSE
              /\ rejected' = {}

\* Database(...) and create_registration_run; without a row nothing records
\* the failure.
CreateRow ==
    /\ stage = "create"
    /\ \/ /\ stage' = "prepare"
          /\ \E count \in 1..MaxCount :
                row' = [status |-> "running", requested |-> count, seen |-> Zero]
          /\ UNCHANGED <<planVars, workerVars, reportVars, eventVars>>
       \/ EndRun /\ UNCHANGED row
    /\ UNCHANGED shown

\* Old files are imported and mailboxes counted, which may leave fewer
\* accounts than were asked for; then the batch begins.
Prepare ==
    /\ stage = "prepare"
    /\ \/ /\ stage' = "failing"
          /\ UNCHANGED <<row, planVars, pc>>
       \/ \E count \in 1..row.requested, threads \in Workers :
             /\ stage' = "batch"
             /\ row' = [row EXCEPT !.requested = count]
             /\ parallel' = (threads > 1 /\ count > 1)
             /\ share' = IF parallel' THEN Split(count, threads) ELSE Split(count, 1)
             /\ pc' = [w \in Workers |-> IF share'[w] > 0 THEN "loop" ELSE "off"]
    /\ UNCHANGED <<shown, after, retries, tally, reportVars, eventVars>>

\* as_completed hands main a future. An exception is fatal for the batch:
\* the other workers are told to stop. After Ctrl+C main only joins them.
Collect(w) ==
    /\ stage = "batch"
    /\ ~signal
    /\ pc[w] \in {"done", "broken"}
    /\ pc' = [pc EXCEPT ![w] = "off"]
    /\ fatal' = (fatal \/ pc[w] = "broken")
    /\ abort' = (abort \/ pc[w] = "broken")
    /\ UNCHANGED <<stage, row, shown, planVars, after, retries, tally, reportVars, stop, signal, rejected>>

AllEnded == \A w \in Active : pc[w] \in (IF signal THEN {"off", "done", "broken"} ELSE {"off"})

\* Bug: the first fatal error ends the run without waiting for the workers.
FirstFatalEnds == fatal \/ AllEnded

MayClose == AllEnded

\* The pool's threads have ended. A fatal error is raised; KeyboardInterrupt
\* is not an Exception, so no handler sets the row's status.
CloseBatch ==
    /\ stage = "batch"
    /\ MayClose
    /\ \/ signal /\ EndRun
       \/ /\ ~signal
          /\ stage' = IF fatal THEN "failing" ELSE "finish"
          /\ UNCHANGED <<planVars, workerVars, reportVars, eventVars>>
    /\ UNCHANGED <<row, shown>>

\* The parallel batch also asks the front end once more.
Total ==
    LET sum == Aggregate(snapshots)
    IN  [sum EXCEPT !.cancelled = @ \/ (parallel /\ stop)]

FinishRow ==
    /\ stage = "finish"
    /\ \/ /\ stage' = "return"
          /\ row' = [row EXCEPT !.status = IF Total.cancelled THEN "cancelled" ELSE "completed",
                                !.seen = Total]
       \/ /\ stage' = "failing"
          /\ UNCHANGED row
    /\ UNCHANGED <<shown, planVars, workerVars, reportVars, eventVars>>

RecordFailure ==
    /\ stage = "failing"
    /\ EndRun
    /\ \/ row' = [row EXCEPT !.status = "failed"]
       \/ UNCHANGED row
    /\ UNCHANGED shown

Return ==
    /\ stage = "return"
    /\ EndRun
    /\ shown' = row.seen
    /\ UNCHANGED row

-----------------------------------------------------------------------------
(* The workers: run_batch and worker_observer.                             *)

SlotLeft(w) == Seen(tally[w]) < share[w]

StartAttempt(w) ==
    /\ pc[w] = "loop"
    /\ SlotLeft(w)
    /\ ~Cancelled
    /\ pc' = [pc EXCEPT ![w] = "attempt"]
    /\ UNCHANGED <<stage, row, shown, planVars, after, retries, tally, reportVars, eventVars>>

LeaveLoop(w) ==
    /\ pc[w] = "loop"
    /\ \/ ~SlotLeft(w) /\ UNCHANGED tally
       \/ SlotLeft(w) /\ Cancelled /\ tally' = [tally EXCEPT ![w].cancelled = TRUE]
    /\ pc' = [pc EXCEPT ![w] = "leave"]
    /\ UNCHANGED <<stage, row, shown, planVars, after, retries, reportVars, eventVars>>

\* The attempt ends: result, what follows the report and the slot's retries.
Report(w, result, next, again) ==
    /\ pc[w] = "attempt"
    /\ pc' = [pc EXCEPT ![w] = "observe"]
    /\ tally' = [tally EXCEPT ![w] = result]
    /\ after' = [after EXCEPT ![w] = next]
    /\ retries' = [retries EXCEPT ![w] = again]

Failed(w) == [tally[w] EXCEPT !.fail = @ + 1]

EndAttempt(w) ==
    /\ \/ Report(w, [tally[w] EXCEPT !.ok = @ + 1], "loop", 0)
       \/ Report(w, Failed(w), "loop", 0)
       \/ Report(w, tally[w], "broken", retries[w])
       \/ Cancelled /\ Report(w, [tally[w] EXCEPT !.cancelled = TRUE], "leave", retries[w])
    /\ UNCHANGED <<stage, row, shown, planVars, reportVars, eventVars>>

RetrySlot(w) ==
    /\ retries[w] < MaxSlotRetry
    /\ Report(w, tally[w], "loop", retries[w] + 1)
    /\ UNCHANGED <<stage, row, shown, planVars, reportVars, eventVars>>

\* EmailSignupUnavailable ends the batch: stop_all is the abort_event of a
\* parallel batch and None in a serial one.
Reject(w) ==
    /\ Report(w, Failed(w), "leave", 0)
    /\ rejected' = rejected \cup {w}
    /\ abort' = (abort \/ parallel)
    /\ UNCHANGED <<stage, row, shown, planVars, reportVars, fatal, stop, signal>>

\* Bug: workers report without observer_lock.
Unserialised(w) == TRUE

MayReport(w) == parallel => observer = Nobody

\* worker_observer takes observer_lock and, under stats_lock, adds up the
\* snapshots; a serial batch reports its own tally.
Observe(w) ==
    /\ pc[w] = "observe"
    /\ MayReport(w)
    /\ observer' = w
    /\ snapshots' = [snapshots EXCEPT ![w] = tally[w]]
    /\ heard' = [heard EXCEPT ![w] = Aggregate(snapshots')]
    /\ pc' = [pc EXCEPT ![w] = "publish"]
    /\ UNCHANGED <<stage, row, shown, planVars, after, retries, tally, eventVars>>

\* record_progress writes the row, which may fail, then tells the front end.
Publish(w) ==
    /\ pc[w] = "publish"
    /\ shown' = heard[w]
    /\ \/ row' = [row EXCEPT !.seen = heard[w]]
       \/ UNCHANGED row
    /\ observer' = Nobody
    /\ heard' = [heard EXCEPT ![w] = Zero]
    /\ pc' = [pc EXCEPT ![w] = after[w]]
    /\ UNCHANGED <<stage, planVars, after, retries, tally, snapshots, eventVars>>

\* Bug: only reported attempts reach the snapshot.
ReportedOnly(w) == snapshots

Final(w) == [snapshots EXCEPT ![w] = tally[w]]

Leave(w) ==
    /\ pc[w] = "leave"
    /\ pc' = [pc EXCEPT ![w] = "done"]
    /\ snapshots' = Final(w)
    /\ UNCHANGED <<stage, row, shown, planVars, after, retries, tally, heard, observer, eventVars>>

-----------------------------------------------------------------------------
(* Ctrl+C raises KeyboardInterrupt in main: the thread of a serial batch,  *)
(* the one that waits for the workers of a parallel one. run_batch's       *)
(* finally clauses still report; the controller is told only once          *)
(* run_registration_common has returned.                                   *)

Interrupt ==
    /\ Console
    /\ stage = "batch"
    /\ ~signal
    /\ signal' = TRUE
    /\ IF parallel
         THEN UNCHANGED workerVars
         ELSE \E w \in Active : Report(w, tally[w], "broken", retries[w])
    /\ UNCHANGED <<stage, row, shown, planVars, reportVars, abort, fatal, stop, rejected>>

WorkerStep(w) ==
    \/ StartAttempt(w)
    \/ LeaveLoop(w)
    \/ EndAttempt(w)
    \/ RetrySlot(w)
    \/ Reject(w)
    \/ Observe(w)
    \/ Publish(w)
    \/ Leave(w)

MainStep ==
    \/ CreateRow
    \/ Prepare
    \/ \E w \in Workers : Collect(w)
    \/ CloseBatch
    \/ FinishRow
    \/ RecordFailure
    \/ Return

RunStep == MainStep \/ \E w \in Workers : WorkerStep(w)

-----------------------------------------------------------------------------
(* The command line: one run, with Ctrl+C.                                 *)

ConsoleNext == BeginRun \/ RunStep \/ Interrupt

ConsoleSpec == RunInit /\ [][ConsoleNext]_runVars

-----------------------------------------------------------------------------
(* Properties.                                                             *)

Ahead(old, new) == old.ok <= new.ok /\ old.fail <= new.fail

\* The counters of a run never go back, in its row and on the front end,
\* although several workers report and each of them has added up the total
\* at its own moment.
ProgressForward ==
    [][/\ stage # "create" => Ahead(row.seen, row'.seen)
       /\ stage # "off" => Ahead(shown, shown')]_runVars

\* The row of a run that returns tells what happened: its counters are the
\* sum of what the workers did; "completed" means that each worker went
\* through its share or met a rejected address; "cancelled" that the user
\* or a rejection stopped the run.
FinishedRowTrue ==
    stage = "return" =>
        /\ row.seen.ok = Aggregate(tally).ok
        /\ row.seen.fail = Aggregate(tally).fail
        /\ row.status = "completed" => \A w \in Active : ~SlotLeft(w) \/ w \in rejected
        /\ row.status = "cancelled" => stop \/ rejected # {}

\* A row that has got its final status never changes again: no worker
\* outlives the run and writes its progress over it.
FinishedRowStays ==
    [][row.status \in Finished /\ stage # "create" => row' = row]_runVars

\* After Ctrl+C no worker begins another attempt.
InterruptStops ==
    [][\A w \in Workers : signal /\ pc[w] = "loop" => pc'[w] # "attempt"]_runVars

=============================================================================
