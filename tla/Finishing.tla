------------------------------ MODULE Finishing ------------------------------
(***************************************************************************)
(* What happens to an account once xAI has confirmed it                    *)
(* (persist_account_result, registration_flow.py): it is screened, saved   *)
(* in the table or else in the pending queue, its token is published in    *)
(* the pools and the outcomes are written to its row                       *)
(* (storage/account_service.py).  Each account is in a worker thread of    *)
(* its own; the process may die at any point.  The CPA export made before  *)
(* the status is written is in CpaMint.                                    *)
(***************************************************************************)
EXTENDS RiskQuarantine, TokenPools

VARIABLES
    at,       \* step of persist_account_result for each account
    table,    \* accounts with a row
    queued,   \* accounts in the pending queue
    status    \* status columns of each account's row

saveVars == <<table, queued, status>>
vars == <<at, saveVars, riskVars, poolVars>>

Stages == {"screen", "save", "pools", "status", "done", "dead"}
States == {"unknown", "not_requested", "succeeded", "failed"}

NoStatus == [local |-> "unknown", remote |-> "unknown"]

TypeOK ==
    /\ RiskTypeOK
    /\ PoolsTypeOK
    /\ at \in [Accounts -> Stages]
    /\ table \subseteq Accounts
    /\ queued \subseteq Accounts
    /\ status \in [Accounts -> [local : States, remote : States]]

Advance(a, stage) == at' = [at EXCEPT ![a] = stage]

-----------------------------------------------------------------------------

\* Bug: an account whose quarantine could not be written is let through.
PassUnlessDenied(v) == v \in {"eligible", "unwritten"}

Passes(v) == v = "eligible"

ScreenAccount(a) ==
    /\ at[a] = "screen"
    /\ \/ Screen(a) /\ UNCHANGED at
       \/ /\ verdict[a] \in {"eligible", "denied", "unwritten"}
          /\ Advance(a, IF Passes(verdict[a]) THEN "save" ELSE "done")
          /\ UNCHANGED riskVars
    /\ UNCHANGED <<saveVars, poolVars>>

StartPools(a) == Advance(a, "pools") /\ Goto(a, "local")

\* Bug: an account that was neither saved nor queued is published too.
PublishAnyway(a) == StartPools(a)

GiveUp(a) == Advance(a, "done") /\ UNCHANGED pooling

SaveAccount(a) ==
    /\ at[a] = "save"
    /\ \/ table' = table \cup {a} /\ StartPools(a) /\ UNCHANGED queued
       \/ queued' = queued \cup {a} /\ StartPools(a) /\ UNCHANGED table
       \/ GiveUp(a) /\ UNCHANGED <<table, queued>>
    /\ UNCHANGED <<status, riskVars, enabled, api, localVars, remoteVars, seen, result>>

PublishTokens(a) ==
    /\ at[a] = "pools"
    /\ \/ PoolStep(a) /\ UNCHANGED at
       \/ pooling[a] = "done" /\ Advance(a, IF a \in table THEN "status" ELSE "done") /\ UNCHANGED poolVars
    /\ UNCHANGED <<saveVars, riskVars>>

\* Bug: a pool whose write failed counts as written when it is enabled.
EnabledSucceeded(a, pool) ==
    IF pool \in enabled THEN "succeeded" ELSE "not_requested"

\* classify_integration_status.
StatusOf(a, pool) ==
    IF pool \notin enabled THEN "not_requested"
    ELSE IF result[a][pool] = "ok" THEN "succeeded" ELSE "failed"

WriteStatus(a) ==
    /\ at[a] = "status"
    /\ \/ status' = [status EXCEPT ![a] = [local |-> StatusOf(a, "local"),
                                           remote |-> StatusOf(a, "remote")]]
       \/ UNCHANGED status
    /\ Advance(a, "done")
    /\ UNCHANGED <<table, queued, riskVars, poolVars>>

\* The process of the batch dies; the operating system frees its locks.
Crash ==
    /\ \E a \in Accounts : at[a] # "done"
    /\ at' = [a \in Accounts |-> IF at[a] = "done" THEN "done" ELSE "dead"]
    /\ pooling' = [a \in Accounts |-> "off"]
    /\ fileLock' = Nobody
    /\ cached' = 0
    /\ held' = [a \in Accounts |-> 0]
    /\ seen' = [a \in Accounts |-> {}]
    /\ UNCHANGED <<saveVars, riskVars, enabled, api, tokenFile, rootFile, aside,
                   remote, session, refused, result>>

-----------------------------------------------------------------------------

Init ==
    /\ RiskInit
    /\ PoolsInit
    /\ at = [a \in Accounts |-> "screen"]
    /\ table = {}
    /\ queued = {}
    /\ status = [a \in Accounts |-> NoStatus]

Finish(a) ==
    ScreenAccount(a) \/ SaveAccount(a) \/ PublishTokens(a) \/ WriteStatus(a)

Next ==
    \/ \E a \in Accounts : Finish(a)
    \/ Recover /\ UNCHANGED <<at, saveVars, poolVars>>
    \/ Outside /\ UNCHANGED <<at, saveVars, riskVars>>
    \/ Crash

Spec == Init /\ [][Next]_vars

-----------------------------------------------------------------------------

\* A token is published only for an account that passed the gate and that
\* somebody can find again, in the table or in the pending queue.
PublishedOnlyIfKept ==
    \A a \in Accounts :
       a \in LocalTokens \cup remote => verdict[a] = "eligible" /\ a \in table \cup queued

\* A row that says a pool has the account's token is right, whatever the pool
\* went through since.
RowsTruthful ==
    \A a \in Accounts :
       /\ status[a].local = "succeeded" => a \in LocalTokens
       /\ status[a].remote = "succeeded" => a \in remote
=============================================================================
