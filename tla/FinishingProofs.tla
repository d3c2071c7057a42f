---------------------------- MODULE FinishingProofs ----------------------------
(***************************************************************************)
(* For any accounts, pages and tokens of others: a denied account stays    *)
(* recorded and is not quarantined twice, no token is lost, what is        *)
(* published was let through and kept, and the rows tell the truth. Two    *)
(* inductive invariants: RiskInv is about the screening and its recovery,  *)
(* PoolInv about the steps of a worker and the two pools.                  *)
(***************************************************************************)
EXTENDS Finishing, TLAPS

-----------------------------------------------------------------------------
(* The quarantine and its recovery.                                        *)

\* What an interrupted or blind recovery cannot spoil: as long as it runs,
\* nothing is added to the pending file, every row of it is still to be
\* moved, kept or moved already, and what it still moves has at most as many
\* lines as there were blind recoveries before this one.
RecoveryInv ==
    recovery.running =>
        /\ recovery.todo \subseteq riskPending
        /\ recovery.kept \subseteq riskPending
        /\ \A a \in riskPending :
              a \in recovery.todo \/ a \in recovery.kept \/ rejected[a] > 0
        /\ \A a \in recovery.existing : rejected[a] > 0
        /\ \A a \in recovery.todo \ recovery.existing : rejected[a] <= blind

Unwritten ==
    \A a \in Accounts : verdict[a] \in {"unscreened", "blocked"} =>
                            rejected[a] = 0 /\ a \notin riskPending

RiskShapes ==
    /\ verdict \in [Accounts -> Verdicts]
    /\ rejected \in [Accounts -> Nat]
    /\ riskPending \subseteq Accounts
    /\ recovery \in [running : BOOLEAN, todo : SUBSET Accounts,
                     existing : SUBSET Accounts, kept : SUBSET Accounts]
    /\ blind \in Nat

RiskInv == RiskShapes /\ RecoveryInv /\ Unwritten /\ DeniedRecorded /\ RejectedOnce

LEMMA RiskStart == Init => RiskInv
BY RiskAssumption DEF Init, RiskInit, RiskInv, RiskShapes, RecoveryInv, Unwritten,
   DeniedRecorded, RejectedOnce, Verdicts, NoRecovery

LEMMA ScreenStep ==
    ASSUME RiskInv, NEW a \in Accounts, Screen(a)
    PROVE  RiskInv'
<1> USE DEF RiskInv, RiskShapes
<1>1. CASE Inspect(a)
    BY <1>1 DEF Inspect, Decide, riskFiles, RecoveryInv, Unwritten, DeniedRecorded,
       RejectedOnce, Verdicts
<1>2. CASE Quarantine(a)
    <2>1. RiskShapes'
        BY <1>2 DEF Quarantine, Decide, AppendRejected, Verdicts
    <2>2. rejected[a] = 0 /\ a \notin riskPending
        BY <1>2 DEF Quarantine, Unwritten
    <2>3. RecoveryInv'
        BY <1>2, <2>2 DEF Quarantine, AppendRejected, RecoveryInv
    <2>4. Unwritten' /\ DeniedRecorded' /\ RejectedOnce'
        BY <1>2, <2>2 DEF Quarantine, Decide, AppendRejected, Unwritten, DeniedRecorded,
           RejectedOnce, Verdicts
    <2> QED BY <2>1, <2>3, <2>4
<1>3. CASE QueuePending(a)
    BY <1>3 DEF QueuePending, PendingFree, Decide, RecoveryInv, Unwritten, DeniedRecorded,
       RejectedOnce, Verdicts
<1> QED BY <1>1, <1>2, <1>3 DEF Screen

LEMMA RecoveryStep ==
    ASSUME RiskInv, Recover
    PROVE  RiskInv'
<1> USE DEF RiskInv, RiskShapes
<1>1. CASE StartRecovery
    BY <1>1 DEF StartRecovery, Quarantined, RecoveryInv, Unwritten, DeniedRecorded, RejectedOnce
<1>2. ASSUME NEW a \in Accounts, RecoverRow(a) PROVE RiskInv'
    <2> DEFINE next == [recovery EXCEPT !.todo = @ \ {a}]
    <2>a. /\ next \in [running : BOOLEAN, todo : SUBSET Accounts,
                         existing : SUBSET Accounts, kept : SUBSET Accounts]
          /\ next.running = recovery.running /\ next.todo = recovery.todo \ {a}
          /\ next.existing = recovery.existing /\ next.kept = recovery.kept
        OBVIOUS
    <2>b. recovery.running /\ a \in recovery.todo /\ UNCHANGED <<verdict, riskPending, blind>>
        BY <1>2 DEF RecoverRow
    <2>c. \/ AlreadyThere(a) /\ recovery' = next /\ UNCHANGED rejected
          \/ ~AlreadyThere(a) /\ recovery' = next /\ AppendRejected(a)
          \/ /\ ~AlreadyThere(a)
             /\ recovery' = [next EXCEPT !.kept = @ \cup {a}]
             /\ AppendRejected(a) \/ UNCHANGED rejected
        BY <1>2 DEF RecoverRow
    <2> HIDE DEF next
    <2>d. LET kept == [next EXCEPT !.kept = @ \cup {a}]
          IN  /\ kept.running = next.running /\ kept.todo = next.todo
              /\ kept.existing = next.existing /\ kept.kept = next.kept \cup {a}
        BY <2>a
    <2>1. RiskShapes'
        BY <2>a, <2>b, <2>c DEF AppendRejected
    <2>2. \A b \in Accounts : rejected'[b] = rejected[b] \/ (b = a /\ rejected'[b] = rejected[b] + 1)
        BY <2>c DEF AppendRejected
    <2>3. rejected'[a] <= 1 + blind
        BY <2>b, <2>c DEF AppendRejected, AlreadyThere, RecoveryInv, RejectedOnce
    <2>4. a \in riskPending
        BY <2>b DEF RecoveryInv
    <2>5. /\ recovery'.running
          /\ recovery'.existing = recovery.existing
          /\ recovery'.todo = recovery.todo \ {a}
          /\ recovery'.kept = recovery.kept \/ recovery'.kept = recovery.kept \cup {a}
        BY <2>a, <2>b, <2>c, <2>d
    <2>6. a \in recovery.existing \/ a \in recovery'.kept \/ rejected'[a] > 0
        <3>1. CASE AlreadyThere(a)
            BY <3>1 DEF AlreadyThere
        <3>2. CASE recovery' = [next EXCEPT !.kept = @ \cup {a}]
            BY <2>a, <2>d, <3>2
        <3>3. CASE AppendRejected(a)
            BY <3>3 DEF AppendRejected
        <3> QED BY <2>c, <3>1, <3>2, <3>3
    <2>7. RecoveryInv'
        BY <2>2, <2>4, <2>5, <2>6, <2>b DEF RecoveryInv
    <2>8. Unwritten' /\ DeniedRecorded' /\ RejectedOnce'
        BY <2>2, <2>3, <2>4, <2>b DEF Unwritten, DeniedRecorded, RejectedOnce
    <2> QED BY <2>1, <2>7, <2>8
<1>3. CASE EndRecovery
    BY <1>3 DEF EndRecovery, Remaining, NoRecovery, RecoveryInv, Unwritten, DeniedRecorded,
       RejectedOnce
<1>4. CASE KillRecovery
    BY <1>4 DEF KillRecovery, NoRecovery, RecoveryInv, Unwritten, DeniedRecorded, RejectedOnce
<1> QED BY <1>1, <1>2, <1>3, <1>4 DEF Recover

LEMMA RiskUnchanged ==
    ASSUME RiskInv, UNCHANGED riskVars
    PROVE  RiskInv'
BY DEF RiskInv, RiskShapes, RecoveryInv, Unwritten, DeniedRecorded, RejectedOnce,
   riskVars, riskFiles

LEMMA RiskInvariant == Spec => []RiskInv
<1>1. ASSUME RiskInv, [Next]_vars PROVE RiskInv'
    <2>1. ASSUME NEW a \in Accounts, Finish(a) PROVE RiskInv'
        BY <1>1, <2>1, ScreenStep, RiskUnchanged
           DEF Finish, ScreenAccount, SaveAccount, PublishTokens, WriteStatus
    <2>2. CASE Recover
        BY <1>1, <2>2, RecoveryStep
    <2>3. CASE UNCHANGED riskVars
        BY <1>1, <2>3, RiskUnchanged
    <2> QED BY <1>1, <2>1, <2>2, <2>3 DEF Next, Crash, vars
<1> QED BY RiskStart, <1>1, PTL DEF Spec

\* An account that was reported as denied stays in the quarantine or in its
\* pending file, wherever writes fail and recoveries are killed
\* (registration_risk_should_block, retry_sso_risk_pending_file, sso_risk.py).
THEOREM DeniedStaysRecorded == Spec => []DeniedRecorded
BY RiskInvariant, PTL DEF RiskInv

\* Recovering twice writes no account twice, unless the quarantine could not
\* be read (retry_sso_risk_pending_file, sso_risk.py).
THEOREM RecoveryIdempotent == Spec => []RejectedOnce
BY RiskInvariant, PTL DEF RiskInv

-----------------------------------------------------------------------------
(* The workers and the pools.                                              *)

PoolShapes ==
    /\ at \in [Accounts -> Stages]
    /\ status \in [Accounts -> [local : States, remote : States]]
    /\ tokenFile \in [state : {"absent", "ok", "broken"}, tokens : SUBSET Tokens]
    /\ rootFile \subseteq Tokens
    /\ remote \subseteq Tokens
    /\ seen \in [Accounts -> SUBSET Tokens]
    /\ pooling \in [Accounts -> Steps]
    /\ result \in [Accounts -> [local : Outcomes, remote : Outcomes]]

\* Whoever is about to replace the local file holds its lock and knows what
\* the file has.
WriterKnows ==
    \A a \in Accounts : pooling[a] = "replace" =>
        fileLock = a /\ tokenFile.tokens = seen[a]

AbsentIsEmpty == tokenFile.state = "absent" => tokenFile.tokens = {}

\* An account gets to the pools only after the gate and a record of it.
KeptFirst ==
    \A a \in Accounts :
       /\ at[a] \in {"save", "pools", "status"} => verdict[a] = "eligible"
       /\ at[a] \in {"pools", "status"} => a \in table \cup queued

ResultsTrue ==
    \A a \in Accounts :
       /\ result[a].local = "ok" => a \in LocalTokens
       /\ result[a].remote = "ok" => a \in remote

PoolInv ==
    /\ PoolShapes
    /\ WriterKnows
    /\ AbsentIsEmpty
    /\ KeptFirst
    /\ ResultsTrue
    /\ PublishedOnlyIfKept
    /\ RowsTruthful

LEMMA PoolStart == Init => PoolInv
BY PoolsAssumption DEF Init, PoolsInit, PoolInv, PoolShapes, WriterKnows, AbsentIsEmpty,
   KeptFirst, ResultsTrue, PublishedOnlyIfKept, RowsTruthful, LocalTokens, NoStatus,
   Stages, States, Tokens, Steps, Outcomes

\* What a step of worker a in the pools may do.
PoolEffect(a) ==
    /\ LocalTokens \subseteq LocalTokens'
    /\ LocalTokens' \subseteq LocalTokens \cup {a}
    /\ remote \subseteq remote'
    /\ remote' \subseteq remote \cup {a}
    /\ tokenFile' \in [state : {"absent", "ok", "broken"}, tokens : SUBSET Tokens]
    /\ rootFile' \subseteq Tokens
    /\ seen' \in [Accounts -> SUBSET Tokens]
    /\ pooling' \in [Accounts -> Steps]
    /\ result' \in [Accounts -> [local : Outcomes, remote : Outcomes]]
    /\ WriterKnows'
    /\ AbsentIsEmpty'
    /\ \A b \in Accounts \ {a} : result'[b] = result[b]
    /\ result'[a].local = "ok" => result[a].local = "ok" \/ a \in LocalTokens'
    /\ result'[a].remote = "ok" => result[a].remote = "ok" \/ a \in remote'

LEMMA LocalStep ==
    ASSUME PoolShapes, WriterKnows, AbsentIsEmpty, NEW a \in Accounts,
           SkipLocal(a) \/ ReadLocal(a) \/ ReplaceLocal(a)
    PROVE  PoolEffect(a)
<1> USE DEF PoolShapes
<1>a. a \in Tokens
    BY DEF Tokens
<1>1. CASE SkipLocal(a)
    BY <1>1 DEF SkipLocal, Goto, localVars, remoteVars, PoolEffect, WriterKnows, AbsentIsEmpty,
       LocalTokens, Steps
<1>2. CASE ReadLocal(a)
    <2>0. UNCHANGED remote /\ pooling[a] = "local"
        BY <1>2 DEF ReadLocal, remoteVars
    <2>1. CASE LocalResult(a, "failed") /\ UNCHANGED <<localVars, seen>>
        BY <2>0, <2>1 DEF LocalResult, Goto, localVars, PoolEffect, WriterKnows, AbsentIsEmpty,
           LocalTokens, Steps, Outcomes
    <2>2. CASE FileFree /\ rootFile' = IF Migrated = tokenFile THEN rootFile ELSE {}
        <3>1. /\ Migrated \in [state : {"absent", "ok", "broken"}, tokens : SUBSET Tokens]
              /\ Migrated.state = "absent" => Migrated.tokens = {}
              /\ rootFile' \subseteq Tokens
              /\ Migrated.tokens \cup rootFile' = tokenFile.tokens \cup rootFile
            BY <2>2 DEF Migrated, AbsentIsEmpty
        <3>2. \A b \in Accounts : pooling[b] # "replace"
            BY <2>2, PoolsAssumption DEF FileFree, WriterKnows
        <3>3. CASE /\ Migrated.state = "broken"
                   /\ \/ /\ tokenFile' = [state |-> "absent", tokens |-> {}]
                         /\ aside' = aside \cup Migrated.tokens
                      \/ tokenFile' = Migrated /\ UNCHANGED aside
                   /\ LocalResult(a, "failed")
                   /\ UNCHANGED <<fileLock, seen>>
            <4>1. LocalTokens' = LocalTokens
                BY <3>1, <3>3 DEF LocalTokens
            <4> QED BY <2>0, <3>1, <3>2, <3>3, <4>1 DEF LocalResult, Goto, PoolEffect, WriterKnows,
                   AbsentIsEmpty, Steps, Outcomes
        <3>4. CASE /\ a \in Migrated.tokens
                   /\ tokenFile' = Migrated
                   /\ LocalResult(a, "ok")
                   /\ UNCHANGED <<aside, fileLock, seen>>
            <4>1. LocalTokens' = LocalTokens /\ a \in LocalTokens'
                BY <3>1, <3>4 DEF LocalTokens
            <4> QED BY <2>0, <3>1, <3>2, <3>4, <4>1 DEF LocalResult, Goto, PoolEffect, WriterKnows,
                   AbsentIsEmpty, Steps, Outcomes
        <3>5. CASE /\ tokenFile' = Migrated
                   /\ fileLock' = a
                   /\ seen' = [seen EXCEPT ![a] = Migrated.tokens]
                   /\ Goto(a, "replace")
                   /\ UNCHANGED <<aside, result>>
            <4>1. LocalTokens' = LocalTokens
                BY <3>1, <3>5 DEF LocalTokens
            <4> QED BY <2>0, <3>1, <3>2, <3>5, <4>1 DEF Goto, PoolEffect, WriterKnows,
                   AbsentIsEmpty, Steps
        <3> QED BY <1>2, <2>1, <3>3, <3>4, <3>5 DEF ReadLocal
    <2> QED BY <1>2, <2>1, <2>2 DEF ReadLocal
<1>3. CASE ReplaceLocal(a)
    <2>1. /\ tokenFile.tokens = seen[a]
          /\ UNCHANGED <<rootFile, aside, remote>>
          /\ \A b \in Accounts \ {a} : pooling[b] # "replace"
        BY <1>3 DEF ReplaceLocal, WriterKnows, remoteVars
    <2>2. /\ LocalTokens \subseteq LocalTokens'
          /\ LocalTokens' \subseteq LocalTokens \cup {a}
          /\ \/ LocalResult(a, "ok") /\ a \in LocalTokens'
             \/ LocalResult(a, "failed")
        BY <1>3, <2>1 DEF ReplaceLocal, LocalTokens
    <2>3. /\ tokenFile' \in [state : {"absent", "ok", "broken"}, tokens : SUBSET Tokens]
          /\ tokenFile'.state = "absent" => tokenFile'.tokens = {}
        BY <1>3, <1>a DEF ReplaceLocal, AbsentIsEmpty
    <2>4. /\ seen' \in [Accounts -> SUBSET Tokens]
          /\ pooling' \in [Accounts -> Steps]
          /\ pooling'[a] = "remote" /\ \A b \in Accounts \ {a} : pooling'[b] = pooling[b]
        BY <1>3, <2>2 DEF ReplaceLocal, LocalResult, Goto, Steps
    <2>5. /\ result' \in [Accounts -> [local : Outcomes, remote : Outcomes]]
          /\ \A b \in Accounts \ {a} : result'[b] = result[b]
          /\ result'[a].remote = result[a].remote
          /\ result'[a].local = "ok" => a \in LocalTokens'
        <3>1. CASE LocalResult(a, "ok") /\ a \in LocalTokens'
            BY <3>1 DEF LocalResult, Outcomes
        <3>2. CASE LocalResult(a, "failed")
            BY <3>2 DEF LocalResult, Outcomes
        <3> QED BY <2>2, <3>1, <3>2
    <2> QED BY <2>1, <2>2, <2>3, <2>4, <2>5 DEF PoolEffect, WriterKnows, AbsentIsEmpty
<1> QED BY <1>1, <1>2, <1>3

LEMMA RemoteStep ==
    ASSUME PoolShapes, WriterKnows, AbsentIsEmpty, NEW a \in Accounts,
           SkipRemote(a) \/ GetAdminToken(a) \/ Import(a) \/ AddToken(a) \/ SavePool(a)
    PROVE  PoolEffect(a)
<1> USE DEF PoolShapes
<1>1. UNCHANGED localVars /\ pooling[a] # "replace"
    BY DEF SkipRemote, GetAdminToken, Import, AddToken, SavePool
<1>2. LocalTokens' = LocalTokens
    BY <1>1 DEF localVars, LocalTokens
<1>3. seen' \in [Accounts -> SUBSET Tokens] /\ \A b \in Accounts \ {a} : seen'[b] = seen[b]
    BY DEF SkipRemote, GetAdminToken, Import, AddToken, SavePool
<1>4. /\ pooling' \in [Accounts -> Steps]
      /\ \A b \in Accounts \ {a} : pooling'[b] = pooling[b]
      /\ pooling'[a] # "replace"
    BY DEF SkipRemote, GetAdminToken, Import, AddToken, SavePool, Send, RemoteResult, Goto, Steps
<1>5. \/ UNCHANGED remote /\ (UNCHANGED result \/ RemoteResult(a, "failed"))
      \/ remote' = remote \cup {a} /\ (RemoteResult(a, "ok") \/ RemoteResult(a, "failed"))
    BY DEF SkipRemote, GetAdminToken, Import, AddToken, SavePool, Send, Matches, remoteVars
<1>6. WriterKnows'
    BY <1>1, <1>3, <1>4 DEF WriterKnows, localVars
<1>7. AbsentIsEmpty'
    BY <1>1 DEF AbsentIsEmpty, localVars
<1>8. /\ result' \in [Accounts -> [local : Outcomes, remote : Outcomes]]
      /\ \A b \in Accounts \ {a} : result'[b] = result[b]
      /\ result'[a].local = result[a].local
      /\ result'[a].remote = "ok" => result[a].remote = "ok" \/ a \in remote'
    <2>1. CASE UNCHANGED result
        BY <2>1
    <2>2. CASE RemoteResult(a, "failed")
        BY <2>2 DEF RemoteResult, Outcomes
    <2>3. CASE remote' = remote \cup {a} /\ RemoteResult(a, "ok")
        BY <2>3 DEF RemoteResult, Outcomes
    <2> QED BY <1>5, <2>1, <2>2, <2>3
<1>9. remote \subseteq remote' /\ remote' \subseteq remote \cup {a}
    BY <1>5
<1> QED BY <1>1, <1>2, <1>3, <1>4, <1>6, <1>7, <1>8, <1>9 DEF PoolEffect, localVars

\* Whatever the pools did for account a, which had passed the gate and was
\* recorded, the invariant holds again.
LEMMA PublishKeepsInv ==
    ASSUME PoolInv, NEW a \in Accounts, PublishTokens(a)
    PROVE  PoolInv'
<1> USE DEF PoolInv
<1>1. CASE PoolStep(a) /\ UNCHANGED at
    <2>1. PoolEffect(a)
        BY <1>1, LocalStep, RemoteStep DEF PoolStep
    <2>2. at[a] = "pools" /\ UNCHANGED <<saveVars, riskVars>>
        BY DEF PublishTokens
    <2>3. PoolShapes' /\ KeptFirst'
        BY <1>1, <2>1, <2>2 DEF PoolEffect, PoolShapes, KeptFirst, saveVars, riskVars, Tokens
    <2>4. ResultsTrue' /\ RowsTruthful'
        BY <2>1, <2>2 DEF PoolEffect, ResultsTrue, RowsTruthful, saveVars
    <2>5. PublishedOnlyIfKept'
        BY <2>1, <2>2 DEF PoolEffect, PublishedOnlyIfKept, KeptFirst, saveVars, riskVars
    <2> QED BY <2>1, <2>3, <2>4, <2>5 DEF PoolEffect
<1>2. CASE /\ pooling[a] = "done"
           /\ Advance(a, IF a \in table THEN "status" ELSE "done")
           /\ UNCHANGED poolVars
    BY <1>2 DEF PublishTokens, Advance, PoolShapes, WriterKnows, AbsentIsEmpty, KeptFirst,
       ResultsTrue, PublishedOnlyIfKept, RowsTruthful, LocalTokens, Stages, poolVars, localVars,
       remoteVars, saveVars, riskVars
<1> QED BY <1>1, <1>2 DEF PublishTokens

LEMMA ScreenKeepsInv ==
    ASSUME PoolInv, RiskShapes, NEW a \in Accounts, ScreenAccount(a)
    PROVE  PoolInv'
<1> USE DEF PoolInv
<1>1. /\ at' \in [Accounts -> Stages]
      /\ \A b \in Accounts : \/ at'[b] = at[b]
                             \/ b = a /\ at'[a] \in {"save", "done"}
      /\ at'[a] = "save" => verdict'[a] = "eligible"
    BY DEF ScreenAccount, PoolShapes, Advance, Passes, Screen, Inspect, Quarantine, QueuePending,
       riskVars, Stages
<1>2. \A b \in Accounts : verdict[b] = "eligible" => verdict'[b] = "eligible"
    BY DEF ScreenAccount, Screen, Inspect, Quarantine, QueuePending, Decide, riskVars, RiskShapes
<1>3. UNCHANGED <<saveVars, poolVars>>
    BY DEF ScreenAccount
<1> QED BY <1>1, <1>2, <1>3 DEF PoolShapes, WriterKnows, AbsentIsEmpty, KeptFirst, ResultsTrue,
       PublishedOnlyIfKept, RowsTruthful, LocalTokens, saveVars, poolVars, localVars, remoteVars

LEMMA SaveKeepsInv ==
    ASSUME PoolInv, NEW a \in Accounts, SaveAccount(a)
    PROVE  PoolInv'
<1> USE DEF PoolInv
<1>1. /\ at' \in [Accounts -> Stages]
      /\ \A b \in Accounts : \/ at'[b] = at[b]
                             \/ b = a /\ at'[a] \in {"pools", "done"}
      /\ at'[a] = "pools" => a \in table' \cup queued' /\ verdict[a] = "eligible"
    BY DEF SaveAccount, StartPools, GiveUp, PoolShapes, KeptFirst, Advance, Stages
<1>2. /\ pooling' \in [Accounts -> Steps]
      /\ \A b \in Accounts : pooling'[b] = pooling[b] \/ pooling'[b] = "local"
    BY DEF SaveAccount, StartPools, GiveUp, Goto, PoolShapes, Steps
<1>3. /\ table \subseteq table' /\ queued \subseteq queued'
      /\ UNCHANGED <<status, verdict, localVars, remote, seen, result>>
    BY DEF SaveAccount, riskVars, remoteVars
<1> QED BY <1>1, <1>2, <1>3 DEF PoolShapes, WriterKnows, AbsentIsEmpty, KeptFirst, ResultsTrue,
       PublishedOnlyIfKept, RowsTruthful, LocalTokens, localVars

LEMMA StatusKeepsInv ==
    ASSUME PoolInv, NEW a \in Accounts, WriteStatus(a)
    PROVE  PoolInv'
<1> USE DEF PoolInv
<1>1. /\ at' \in [Accounts -> Stages]
      /\ \A b \in Accounts : at'[b] = at[b] \/ at'[b] = "done"
    BY DEF WriteStatus, Advance, PoolShapes, Stages
<1>2. UNCHANGED <<table, queued, riskVars, poolVars>>
    BY DEF WriteStatus
<1>3. status' \in [Accounts -> [local : States, remote : States]]
    BY DEF WriteStatus, StatusOf, PoolShapes, States
<1>4. \A b \in Accounts :
         /\ status'[b].local = "succeeded" => status[b].local = "succeeded" \/ result[b].local = "ok"
         /\ status'[b].remote = "succeeded" => status[b].remote = "succeeded" \/ result[b].remote = "ok"
    BY DEF WriteStatus, StatusOf, PoolShapes
<1>5. RowsTruthful'
    BY <1>2, <1>4 DEF RowsTruthful, ResultsTrue, LocalTokens, poolVars, localVars, remoteVars
<1> QED BY <1>1, <1>2, <1>3, <1>5 DEF PoolShapes, WriterKnows, AbsentIsEmpty, KeptFirst, ResultsTrue,
       PublishedOnlyIfKept, LocalTokens, riskVars, poolVars, localVars, remoteVars

LEMMA CrashKeepsInv ==
    ASSUME PoolInv, Crash
    PROVE  PoolInv'
BY DEF Crash, PoolInv, PoolShapes, WriterKnows, AbsentIsEmpty, KeptFirst, ResultsTrue,
   PublishedOnlyIfKept, RowsTruthful, LocalTokens, saveVars, riskVars, Stages, Steps

LEMMA OutsideKeepsInv ==
    ASSUME PoolInv, Outside, UNCHANGED <<at, saveVars, riskVars>>
    PROVE  PoolInv'
<1> USE DEF PoolInv
<1>1. /\ LocalTokens' = LocalTokens
      /\ tokenFile'.tokens = tokenFile.tokens
      /\ tokenFile' \in [state : {"absent", "ok", "broken"}, tokens : SUBSET Tokens]
      /\ tokenFile'.state = "absent" => tokenFile.state = "absent"
    BY DEF Outside, BreakLocal, Revoke, OtherClient, localVars, LocalTokens, PoolShapes
<1>2. remote \subseteq remote' /\ remote' \subseteq remote \cup Others
    BY DEF Outside, BreakLocal, Revoke, OtherClient, remoteVars
<1>3. UNCHANGED <<rootFile, fileLock, seen, pooling, result>>
    BY DEF Outside, BreakLocal, Revoke, OtherClient, localVars
<1>4. PublishedOnlyIfKept'
    BY <1>1, <1>2, PoolsAssumption DEF PublishedOnlyIfKept, saveVars, riskVars
<1> QED BY <1>1, <1>2, <1>3, <1>4 DEF PoolShapes, WriterKnows, AbsentIsEmpty, KeptFirst, ResultsTrue,
       RowsTruthful, saveVars, riskVars, Tokens

LEMMA PoolSame ==
    ASSUME PoolInv, UNCHANGED <<at, saveVars, poolVars>>, UNCHANGED verdict
    PROVE  PoolInv'
BY DEF PoolInv, PoolShapes, WriterKnows, AbsentIsEmpty, KeptFirst, ResultsTrue,
   PublishedOnlyIfKept, RowsTruthful, LocalTokens, saveVars, poolVars, localVars, remoteVars

LEMMA RecoverOnlyRisk == Recover => UNCHANGED verdict
BY DEF Recover, StartRecovery, RecoverRow, EndRecovery, KillRecovery

LEMMA PoolInvariant == Spec => []PoolInv
<1>1. ASSUME PoolInv, RiskInv, [Next]_vars PROVE PoolInv'
    <2>1. ASSUME NEW a \in Accounts, Finish(a) PROVE PoolInv'
        BY <1>1, <2>1, ScreenKeepsInv, SaveKeepsInv, PublishKeepsInv, StatusKeepsInv DEF Finish, RiskInv
    <2>2. CASE Recover /\ UNCHANGED <<at, saveVars, poolVars>>
        BY <1>1, <2>2, RecoverOnlyRisk, PoolSame
    <2>3. CASE Outside /\ UNCHANGED <<at, saveVars, riskVars>>
        BY <1>1, <2>3, OutsideKeepsInv
    <2>4. CASE Crash
        BY <1>1, <2>4, CrashKeepsInv
    <2>5. CASE UNCHANGED vars
        BY <1>1, <2>5, PoolSame DEF vars, riskVars
    <2> QED BY <1>1, <2>1, <2>2, <2>3, <2>4, <2>5 DEF Next
<1> QED BY PoolStart, RiskInvariant, <1>1, PTL DEF Spec

\* A token is published only for an account the gate let through and that is
\* in the table or the pending queue (persist_account_result,
\* registration_flow.py).
THEOREM PublishedIsKept == Spec => []PublishedOnlyIfKept
BY PoolInvariant, PTL DEF PoolInv

\* A row that says a pool has the token is right (classify_integration_status,
\* storage/account_service.py).
THEOREM RowsTellTheTruth == Spec => []RowsTruthful
BY PoolInvariant, PTL DEF PoolInv

\* No step loses a token of the local files or of the server
\* (add_token_to_grok2api_pools, account_outputs.py).
THEOREM TokensAreKept == Spec => TokensStay
<1>1. ASSUME PoolInv, [Next]_vars PROVE LocalTokens \subseteq LocalTokens' /\ remote \subseteq remote'
    <2>1. ASSUME NEW a \in Accounts, PublishTokens(a)
          PROVE  LocalTokens \subseteq LocalTokens' /\ remote \subseteq remote'
        <3>1. PoolStep(a) => PoolEffect(a)
            BY <1>1, LocalStep, RemoteStep DEF PoolStep, PoolInv
        <3> QED BY <2>1, <3>1 DEF PublishTokens, PoolEffect, LocalTokens, poolVars, localVars, remoteVars
    <2>2. CASE Outside
        BY <1>1, <2>2 DEF Outside, BreakLocal, Revoke, OtherClient, LocalTokens, localVars, remoteVars,
           PoolInv, PoolShapes
    <2>3. CASE UNCHANGED <<tokenFile, rootFile, aside, remote>>
        BY <2>3 DEF LocalTokens
    <2> QED BY <1>1, <2>1, <2>2, <2>3 DEF Next, Finish, ScreenAccount, SaveAccount, WriteStatus, Crash,
           vars, poolVars, localVars, remoteVars
<1>2. [Next]_vars /\ PoolInv => [LocalTokens \subseteq LocalTokens' /\ remote \subseteq remote']_poolVars
    BY <1>1
<1> QED BY PoolInvariant, <1>2, PTL DEF Spec, TokensStay

=============================================================================
