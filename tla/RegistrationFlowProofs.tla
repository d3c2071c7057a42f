----------------------- MODULE RegistrationFlowProofs -----------------------
(***************************************************************************)
(* The batch of one worker and the pool of Outlook mailboxes that batches  *)
(* take theirs from. For any number of accounts, retries and mailboxes:    *)
(* the counters of a batch agree with its rows, an account that exists is  *)
(* not registered again, and nothing that was submitted is replayed except *)
(* in the cases ReplayNeedsRestart names. For any set of accounts and any  *)
(* number of workers: a mailbox of the pool serves one attempt at a time,  *)
(* none after its address was submitted, and no session outlives the task. *)
(* The batch with its mailboxes is a behaviour of both, so that all of     *)
(* this holds of it.                                                       *)
(***************************************************************************)
EXTENDS RegistrationMailboxes, TLAPS

-----------------------------------------------------------------------------
(* The flow.                                                               *)

\* The mark that each operation works under.
StageOf ==
    /\ pc = "lease" => stage = "lease_acquire"
    /\ pc = "browser" => stage = "browser_start"
    /\ pc \in {"open", "mail", "submit"} => stage = "page_open"
    /\ pc \in {"code", "recover", "enter"} => stage = "code_wait"
    /\ pc = "transition" => stage \in {"code_submit", "browser_start"}
    /\ pc = "profile" => stage = "code_submit"
    /\ pc = "sso" => stage \in {"sso_wait", "browser_start"}
    /\ pc = "screen" => stage = "account_confirmed"
    /\ pc = "save" => stage = "postprocess"

FlowShapes ==
    /\ TypeOK
    /\ StageOf
    /\ pc \in Working \cup {"handle"} => processed < Count
    /\ pc = "recover" => mailTry < MaxMailRetry
    /\ rows["retrying"] <= MaxSlotRetry * processed + retries

\* An account that exists is about to be counted.
ConfirmedCounted ==
    "account" \in sent =>
        \/ pc \in {"screen", "save"}
        \/ pc = "handle" /\ stage = "postprocess" /\ failure \in {"risk", "error"}

\* What has reached xAI of an account that was not retried yet.
FirstLease ==
    retries = 0 =>
        /\ pc \in {"slot", "lease", "browser"} => sent = {}
        /\ pc = "handle" /\ stage = "lease_acquire" => sent = {}
        /\ (pc \in {"open", "mail", "submit"} \/ (pc = "handle" /\ stage = "page_open"))
              => (sent = {} \/ (mailTry > 1 /\ sent \cap {"code", "profile"} = {}))
        /\ pc \in {"code", "recover", "enter"} =>
              "mailbox" \in sent /\ sent \cap {"code", "profile"} = {}
        /\ pc \in {"transition", "profile", "sso"} => "code" \in sent
        /\ pc = "handle" /\ stage = "browser_start"
              => (sent = {} \/ "code" \in sent \/ (mailTry < MaxMailRetry /\ "mailbox" \in sent))

\* The counters and the rows of the attempts.
Tallied ==
    /\ processed = tally["success"] + tally["fail"]
    /\ tally["success"] = rows["succeeded"]
    /\ tally["unsaved"] = rows["registered_unsaved"]
    /\ tally["uncertain"] = rows["uncertain"]
    /\ tally["fail"] = rows["failed"] + rows["uncertain"] + rows["registered_unsaved"]
                         + rows["signup_rejected"] + rows["risk_denied"]
    /\ rows["cancelled"] + rows["fatal"] + rows["signup_rejected"]
         <= IF pc \in Ended THEN 1 ELSE 0

UnusedMailbox ==
    /\ ReturnedMailboxesUnused
    /\ pc = "submit" => "mailbox" \notin sent

FlowInv == FlowShapes /\ ConfirmedCounted /\ FirstLease /\ Tallied /\ UnusedMailbox

-----------------------------------------------------------------------------

LEMMA FlowStart == Init => FlowInv
<1> SUFFICES ASSUME Init PROVE FlowInv
    OBVIOUS
<1>1. /\ tally \in [Counters -> Nat] /\ rows \in [Statuses -> Nat]
      /\ \A c \in Counters : tally[c] = 0
      /\ \A s \in Statuses : rows[s] = 0
    BY DEF Init
<1>2. TypeOK
    <2>1. mailTry \in 1..MaxMailRetry /\ retries \in 0..MaxSlotRetry /\ processed \in 0..Count
        BY FlowAssumption DEF Init
    <2> QED BY <1>1, <2>1 DEF Init, TypeOK, Stages, SafeStages, Kinds
<1>3. FlowShapes
    <2>1. rows["retrying"] = 0 /\ MaxSlotRetry * processed + retries = 0
        BY <1>1, FlowAssumption DEF Init, Statuses
    <2> QED BY <1>2, <2>1 DEF Init, FlowShapes, StageOf, Working
<1>4. Tallied
    BY <1>1 DEF Init, Tallied, Ended, Counters, Statuses
<1> QED BY <1>3, <1>4
        DEF Init, FlowInv, ConfirmedCounted, FirstLease, UnusedMailbox, ReturnedMailboxesUnused

\* A step that counts nothing leaves the counters and the rows in agreement.
LEMMA NothingCounted ==
    ASSUME FlowInv, UNCHANGED progress, pc \notin Ended
    PROVE  /\ Tallied'
           /\ tally' \in [Counters -> Nat] /\ rows' \in [Statuses -> Nat]
           /\ rows'["retrying"] <= MaxSlotRetry * processed' + retries'
           /\ processed' \in 0..Count /\ retries' \in 0..MaxSlotRetry
BY DEF FlowInv, FlowShapes, TypeOK, Tallied, progress, Statuses

\* An operation of the attempt, or a request to stop.
LEMMA OperationKeeps ==
    ASSUME FlowInv,
           \/ StartAccount
           \/ EndBatch
           \/ AcquireLease
           \/ StartBrowser
           \/ OpenSignupPage
           \/ CreateMailbox
           \/ SubmitEmail
           \/ WaitForCode
           \/ RestartForNewMailbox
           \/ EnterCode
           \/ LoseTabs
           \/ ConfirmCode
           \/ SubmitProfile
           \/ WaitForSso
           \/ ScreenSso
           \/ RequestStop
    PROVE  FlowInv'
<1> USE FlowAssumption DEF FlowInv, Raise, Proceed, Kinds
<1> USE DEF FlowShapes, TypeOK, StageOf, ConfirmedCounted, FirstLease, UnusedMailbox,
       ReturnedMailboxesUnused, Working, Ended, Stages, SafeStages, UncertainStages, progress
<1>1. CASE StartAccount
    <2>1. UNCHANGED progress /\ pc \notin Ended
        BY <1>1 DEF StartAccount
    <2> QED BY <1>1, <2>1, NothingCounted DEF StartAccount
<1>2. CASE EndBatch
    <2>1. UNCHANGED progress /\ pc \notin Ended
        BY <1>2 DEF EndBatch
    <2> QED BY <1>2, <2>1, NothingCounted DEF EndBatch
<1>3. CASE AcquireLease
    <2>1. UNCHANGED progress /\ pc \notin Ended
        BY <1>3 DEF AcquireLease
    <2> QED BY <1>3, <2>1, NothingCounted DEF AcquireLease
<1>4. CASE StartBrowser
    <2>1. UNCHANGED progress /\ pc \notin Ended
        BY <1>4 DEF StartBrowser
    <2> QED BY <1>4, <2>1, NothingCounted DEF StartBrowser
<1>5. CASE OpenSignupPage
    <2>1. UNCHANGED progress /\ pc \notin Ended
        BY <1>5 DEF OpenSignupPage
    <2> QED BY <1>5, <2>1, NothingCounted DEF OpenSignupPage
<1>6. CASE CreateMailbox
    <2>1. UNCHANGED progress /\ pc \notin Ended
        BY <1>6 DEF CreateMailbox
    <2> QED BY <1>6, <2>1, NothingCounted DEF CreateMailbox
<1>7. CASE SubmitEmail
    <2>1. UNCHANGED progress /\ pc \notin Ended
        BY <1>7 DEF SubmitEmail
    <2>2. CASE /\ pc' = "handle" /\ UNCHANGED <<stage, sent>> /\ mailbox' = "returned"
               /\ failure' \in {"error", "fatal", "retry", "cancelled", "rejected"}
        BY <1>7, <2>1, <2>2, NothingCounted DEF SubmitEmail
    <2>3. CASE /\ pc' = "handle" /\ stage' = "email_submit" /\ mailbox' = "kept"
               /\ sent' \in {sent, AddressSent} /\ failure' \in {"error", "cancelled", "rejected"}
        <3>1. FlowShapes'
            BY <1>7, <2>1, <2>3, NothingCounted DEF SubmitEmail, AddressSent
        <3>2. ConfirmedCounted' /\ FirstLease' /\ UnusedMailbox'
            BY <1>7, <2>1, <2>3 DEF SubmitEmail, AddressSent
        <3> QED BY <2>1, <3>1, <3>2, NothingCounted
    <2>4. CASE /\ pc' = "code" /\ stage' = "code_wait" /\ UNCHANGED failure /\ mailbox' = "kept"
               /\ sent' = AddressSent
        <3>1. FlowShapes'
            BY <1>7, <2>1, <2>4, NothingCounted DEF SubmitEmail, AddressSent
        <3>2. ConfirmedCounted' /\ FirstLease' /\ UnusedMailbox'
            BY <1>7, <2>1, <2>4 DEF SubmitEmail, AddressSent
        <3> QED BY <2>1, <3>1, <3>2, NothingCounted
    <2> QED BY <1>7, <2>2, <2>3, <2>4 DEF SubmitEmail, MailboxAfter
<1>8. CASE WaitForCode
    <2>1. UNCHANGED progress /\ pc \notin Ended
        BY <1>8 DEF WaitForCode
    <2> QED BY <1>8, <2>1, NothingCounted DEF WaitForCode, MoreMailboxes
<1>9. CASE RestartForNewMailbox
    <2>1. UNCHANGED progress /\ pc \notin Ended
        BY <1>9 DEF RestartForNewMailbox
    <2> QED BY <1>9, <2>1, NothingCounted DEF RestartForNewMailbox, NextMailTry
<1>10. CASE EnterCode
    <2>1. UNCHANGED progress /\ pc \notin Ended
        BY <1>10 DEF EnterCode
    <2>2. CASE Proceed("transition", "code_submit") /\ sent' = sent \cup {"code"}
        BY <1>10, <2>1, <2>2, NothingCounted DEF EnterCode
    <2>3. CASE /\ pc' = "handle" /\ failure' \in {"error", "cancelled"}
               /\ stage' \in {"code_wait", "code_submit"} /\ sent' \in {sent, sent \cup {"code"}}
        BY <1>10, <2>1, <2>3, NothingCounted DEF EnterCode
    <2> QED BY <1>10, <2>2, <2>3 DEF EnterCode
<1>11. CASE LoseTabs
    <2>1. UNCHANGED progress /\ pc \notin Ended
        BY <1>11 DEF LoseTabs
    <2> QED BY <1>11, <2>1, NothingCounted DEF LoseTabs
<1>12. CASE ConfirmCode
    <2>1. UNCHANGED progress /\ pc \notin Ended
        BY <1>12 DEF ConfirmCode
    <2> QED BY <1>12, <2>1, NothingCounted DEF ConfirmCode, RestartErrors
<1>13. CASE SubmitProfile
    <2>1. UNCHANGED progress /\ pc \notin Ended
        BY <1>13 DEF SubmitProfile
    <2>2. CASE stage' = "sso_wait" /\ pc' = "sso"
        <3>1. UNCHANGED <<failure, mailTry, mailbox, stopping>> /\ sent' = sent \cup {"profile"}
            BY <1>13, <2>2 DEF SubmitProfile
        <3>2. FlowShapes'
            BY <1>13, <2>1, <2>2, <3>1, NothingCounted DEF SubmitProfile
        <3>3. ConfirmedCounted' /\ FirstLease' /\ UnusedMailbox'
            BY <1>13, <2>1, <2>2, <3>1 DEF SubmitProfile
        <3> QED BY <2>1, <3>2, <3>3, NothingCounted
    <2>3. CASE UNCHANGED <<stage, sent>> /\ pc' = "handle"
        BY <1>13, <2>1, <2>3, NothingCounted DEF SubmitProfile
    <2>4. CASE stage' = "profile_submit" /\ pc' = "handle" /\ failure' = "error"
        BY <1>13, <2>1, <2>4, NothingCounted DEF SubmitProfile
    <2> QED BY <1>13, <2>2, <2>3, <2>4 DEF SubmitProfile
<1>14. CASE WaitForSso
    <2>1. UNCHANGED progress /\ pc \notin Ended
        BY <1>14 DEF WaitForSso
    <2>2. CASE stage' = "account_confirmed" /\ pc' = "screen"
        <3>1. UNCHANGED <<failure, mailTry, mailbox, stopping>> /\ sent' = sent \cup {"account"}
            BY <1>14, <2>2 DEF WaitForSso
        <3>2. FlowShapes'
            BY <1>14, <2>1, <2>2, <3>1, NothingCounted DEF WaitForSso
        <3>3. ConfirmedCounted' /\ FirstLease' /\ UnusedMailbox'
            BY <1>14, <2>1, <2>2, <3>1 DEF WaitForSso
        <3> QED BY <2>1, <3>2, <3>3, NothingCounted
    <2>3. CASE UNCHANGED <<stage, sent>> /\ pc' = "handle"
        BY <1>14, <2>1, <2>3, NothingCounted DEF WaitForSso, RestartErrors
    <2> QED BY <1>14, <2>2, <2>3 DEF WaitForSso
<1>15. CASE ScreenSso
    <2>1. UNCHANGED progress /\ pc \notin Ended
        BY <1>15 DEF ScreenSso
    <2> QED BY <1>15, <2>1, NothingCounted DEF ScreenSso
<1>16. CASE RequestStop
    BY <1>16 DEF RequestStop, Tallied
<1> QED BY <1>1, <1>2, <1>3, <1>4, <1>5, <1>6, <1>7, <1>8, <1>9, <1>10, <1>11, <1>12, <1>13, <1>14, <1>15, <1>16

\* The next account begins with a clean slate, whatever was counted of this one.
LEMMA SlateClean ==
    ASSUME FlowInv, NextAccount, processed < Count, pc' \in {"slot", "rejected"}, UNCHANGED <<stage, mailTry, mailbox, stopping>>,
           failure' \in Kinds, tally' \in [Counters -> Nat], rows' \in [Statuses -> Nat],
           rows'["retrying"] = rows["retrying"]
    PROVE  FlowShapes' /\ ConfirmedCounted' /\ FirstLease' /\ UnusedMailbox'
<1> USE FlowAssumption DEF FlowInv, NextAccount
<1>1. TypeOK'
    BY DEF FlowShapes, TypeOK, Ended
<1>2. rows'["retrying"] <= MaxSlotRetry * processed' + retries'
    <2>1. processed \in Nat /\ retries \in 0..MaxSlotRetry /\ rows["retrying"] \in Nat
          /\ rows["retrying"] <= MaxSlotRetry * processed + retries
        BY DEF FlowShapes, TypeOK, Statuses
    <2>2. MaxSlotRetry * (processed + 1) = MaxSlotRetry * processed + MaxSlotRetry
        BY <2>1
    <2>3. MaxSlotRetry * processed \in Nat
        BY <2>1
    <2> QED BY <2>1, <2>2, <2>3
<1>3. FlowShapes'
    BY <1>1, <1>2 DEF FlowShapes, StageOf, Working
<1> QED BY <1>3 DEF ConfirmedCounted, FirstLease, UnusedMailbox, ReturnedMailboxesUnused

LEMMA SaveKeeps == ASSUME FlowInv, SaveAccount PROVE FlowInv'
<1> USE DEF FlowInv
<1>1. pc \notin Ended /\ processed < Count /\ pc' = "slot" /\ NextAccount
      /\ UNCHANGED <<stage, failure, mailTry, mailbox, stopping>>
    BY DEF SaveAccount, Proceed, FlowShapes, Working, Ended
<1>2. tally \in [Counters -> Nat] /\ rows \in [Statuses -> Nat] /\ failure \in Kinds
    BY DEF FlowShapes, TypeOK
<1>3. /\ tally' \in [Counters -> Nat] /\ rows' \in [Statuses -> Nat]
      /\ rows'["retrying"] = rows["retrying"]
    BY <1>2 DEF SaveAccount, Count1, Counters, Statuses
<1>4. Tallied'
    <2> USE <1>1, <1>2 DEF Count1, Counters, Statuses, Ended, NextAccount, Tallied
    <2>1. CASE tally' = Count1(tally, "success") /\ rows' = Count1(rows, "succeeded")
        BY <2>1
    <2>2. CASE /\ tally' = Count1(Count1(tally, "fail"), "unsaved")
               /\ rows' = Count1(rows, "registered_unsaved")
        BY <2>2
    <2> QED BY <2>1, <2>2 DEF SaveAccount
<1> QED BY <1>1, <1>2, <1>3, <1>4, SlateClean

LEMMA HandleKeeps == ASSUME FlowInv, HandleFailure PROVE FlowInv'
<1> USE DEF FlowInv
<1>1. PICK status \in Statuses : status = Status(failure, stage)
    BY DEF FlowShapes, TypeOK, Kinds, Status, Statuses
<1>2. /\ pc = "handle" /\ processed < Count /\ failure' = "none"
      /\ rows' = Count1(rows, status) /\ tally' = Counted(status)
      /\ UNCHANGED <<stage, mailTry, mailbox, stopping>>
    BY <1>1 DEF HandleFailure, FlowShapes
<1>3. /\ tally \in [Counters -> Nat] /\ rows \in [Statuses -> Nat]
      /\ processed \in Nat
    BY DEF FlowShapes, TypeOK
<1>4. CASE status \in {"cancelled", "fatal"}
    <2>1. UNCHANGED <<processed, retries, sent, tally>> /\ pc' \in {"cancelled", "crashed"}
        BY <1>1, <1>2, <1>4 DEF HandleFailure, Counted
    <2>2. Tallied' /\ rows' \in [Statuses -> Nat] /\ rows'["retrying"] = rows["retrying"]
        BY <1>2, <1>3, <1>4, <2>1 DEF Tallied, Count1, Statuses, Ended
    <2>3. "account" \notin sent
        BY <1>1, <1>2, <1>4 DEF ConfirmedCounted, Status, Disposition, SafeStages, UncertainStages
    <2> QED BY <1>2, <1>3, <2>1, <2>2, <2>3
            DEF FlowShapes, TypeOK, StageOf, ConfirmedCounted, FirstLease, UnusedMailbox,
                ReturnedMailboxesUnused, Working, Ended, Kinds
<1>5. CASE status = "retrying"
    <2>1. UNCHANGED <<processed, sent, tally>> /\ pc' = "slot" /\ retries' = retries + 1
        BY <1>1, <1>2, <1>5 DEF HandleFailure, Counted
    <2>2. retries < MaxSlotRetry /\ stage \in SafeStages
        BY <1>1, <1>5 DEF Status, Disposition
    <2>3. Tallied' /\ rows' \in [Statuses -> Nat] /\ rows'["retrying"] = rows["retrying"] + 1
        BY <1>2, <1>3, <1>5, <2>1 DEF Tallied, Count1, Statuses, Ended
    <2>4. "account" \notin sent
        BY <1>2, <2>2 DEF ConfirmedCounted, SafeStages
    <2>5. retries \in Nat /\ retries' \in 1..MaxSlotRetry
          /\ rows'["retrying"] <= MaxSlotRetry * processed' + retries'
        BY FlowAssumption, <1>3, <2>1, <2>2, <2>3 DEF FlowShapes, TypeOK, Statuses
    <2> QED BY <1>2, <1>3, <2>1, <2>3, <2>4, <2>5
            DEF FlowShapes, TypeOK, StageOf, ConfirmedCounted, FirstLease, UnusedMailbox,
                ReturnedMailboxesUnused, Working, Ended, Kinds
<1>6. CASE status \notin {"cancelled", "fatal", "retrying"}
    <2>1. NextAccount /\ pc' = (IF status = "signup_rejected" THEN "rejected" ELSE "slot")
        BY <1>1, <1>2, <1>6 DEF HandleFailure
    <2>2. status \in {"failed", "uncertain", "signup_rejected", "risk_denied"}
        BY <1>1, <1>6 DEF Status
    <2>3. /\ tally' \in [Counters -> Nat] /\ rows' \in [Statuses -> Nat]
          /\ rows'["retrying"] = rows["retrying"]
        BY <1>2, <1>3, <2>2 DEF Count1, Counted, Counters, Statuses
    <2>4. Tallied'
        <3> USE <1>2, <1>3, <2>1 DEF Tallied, Count1, Counted, Counters, Statuses, Ended, NextAccount
        <3>1. CASE status = "failed"
            BY <3>1
        <3>2. CASE status = "uncertain"
            BY <3>2
        <3>3. CASE status = "signup_rejected"
            BY <3>3
        <3>4. CASE status = "risk_denied"
            BY <3>4
        <3> QED BY <2>2, <3>1, <3>2, <3>3, <3>4
    <2> QED BY <1>2, <2>1, <2>3, <2>4, SlateClean DEF Kinds
<1> QED BY <1>4, <1>5, <1>6

LEMMA FlowStep == FlowInv /\ [Next]_vars => FlowInv'
<1> SUFFICES ASSUME FlowInv, [Next]_vars PROVE FlowInv'
    OBVIOUS
<1>1. CASE UNCHANGED vars
    BY <1>1 DEF vars, progress, FlowInv, FlowShapes, TypeOK, StageOf, ConfirmedCounted, FirstLease,
       Tallied, UnusedMailbox, ReturnedMailboxesUnused
<1> QED BY <1>1, OperationKeeps, SaveKeeps, HandleKeeps DEF Next, Step

\* The inductive invariant of the batch.
THEOREM FlowInvariant == Spec => []FlowInv
BY FlowStart, FlowStep, PTL DEF Spec

\* The counters of BatchResult and the rows of registration_attempts agree.
THEOREM CountersAgree == Spec => []CountersMatchRows
<1>1. FlowInv => CountersMatchRows
    <2> SUFFICES ASSUME FlowInv PROVE CountersMatchRows
        OBVIOUS
    <2>1. /\ processed \in Nat /\ retries \in 0..MaxSlotRetry /\ rows["retrying"] \in Nat
          /\ rows["retrying"] <= MaxSlotRetry * processed + retries
        BY DEF FlowInv, FlowShapes, TypeOK, Statuses
    <2>2. MaxSlotRetry * (processed + 1) = MaxSlotRetry * processed + MaxSlotRetry
        BY <2>1, FlowAssumption
    <2>3. MaxSlotRetry * processed \in Nat
        BY <2>1, FlowAssumption
    <2>4. rows["retrying"] <= MaxSlotRetry * (processed + 1)
        BY <2>1, <2>2, <2>3, FlowAssumption
    <2>5. /\ rows["cancelled"] \in Nat /\ rows["fatal"] \in Nat /\ rows["signup_rejected"] \in Nat
        BY DEF FlowInv, FlowShapes, TypeOK, Statuses
    <2> QED BY <2>4, <2>5 DEF FlowInv, Tallied, CountersMatchRows
<1> QED BY <1>1, FlowInvariant, PTL

\* No lease is acquired for an account that xAI has confirmed.
THEOREM ConfirmedOnce == Spec => []ConfirmedNeverReplayed
<1>1. FlowInv => ConfirmedNeverReplayed
    BY DEF FlowInv, ConfirmedCounted, ConfirmedNeverReplayed, AtLease
<1> QED BY <1>1, FlowInvariant, PTL

\* A mailbox that was given back was never sent.
THEOREM ReturnedAreUnused == Spec => []ReturnedMailboxesUnused
<1>1. FlowInv => ReturnedMailboxesUnused
    BY DEF FlowInv, UnusedMailbox
<1> QED BY <1>1, FlowInvariant, PTL

\* The first replay of an account that has submitted something comes after
\* lost tabs, after a failed restart for the next mailbox, or after a failure
\* of that mailbox.
THEOREM ReplaysHaveReason == Spec => ReplayNeedsRestart
<1> DEFINE Reason == sent = {} \/ LostTabs \/ FailedRecovery \/ NextMailboxFailed
<1>1. FlowInv /\ [Next]_vars => [FirstReplay => Reason]_vars
    <2> SUFFICES ASSUME FlowInv, [Next]_vars, FirstReplay PROVE Reason
        OBVIOUS
    <2>1. HandleFailure
        BY DEF FirstReplay, Next, Step, vars, progress, StartAccount, EndBatch, AcquireLease,
           StartBrowser, OpenSignupPage, CreateMailbox, SubmitEmail, WaitForCode,
           RestartForNewMailbox, EnterCode, LoseTabs, ConfirmCode, SubmitProfile, WaitForSso,
           ScreenSso, SaveAccount, RequestStop
    <2>2. Status(failure, stage) = "retrying"
        BY <2>1 DEF HandleFailure, FirstReplay, NextAccount
    <2>3. stage \in SafeStages
        BY <2>2 DEF Status, Disposition
    <2> QED BY <2>3 DEF FlowInv, FirstLease, FirstReplay, SafeStages,
                LostTabs, FailedRecovery, NextMailboxFailed
<1> QED BY <1>1, FlowInvariant, PTL DEF Spec, ReplayNeedsRestart

-----------------------------------------------------------------------------
(* The pool of mailboxes.                                                  *)

\* Whatever a worker is doing before its address is out, the account it has
\* was taken from the pool by nobody else.
LEMMA Exclusive ==
    ASSUME AccountInv, NEW w \in Workers, NEW v \in Workers, v # w,
           mine[w] # NoAccount
    PROVE  mine[v] # mine[w]
BY DEF AccountInv, OneUser

LEMMA MailboxStart == MailboxInit => AccountInv
<1> SUFFICES ASSUME MailboxInit PROVE AccountInv
    OBVIOUS
<1>1. MailboxTypeOK
    <2>1. available \in [Accounts -> 0..1]
        BY DEF MailboxInit
    <2>2. mine \in [Workers -> Accounts \cup {NoAccount}] /\ phase \in [Workers -> Phases]
        BY DEF MailboxInit, Phases
    <2>3. leases \subseteq Accounts /\ open \subseteq Accounts /\ submitted \subseteq Accounts
        BY DEF MailboxInit
    <2> QED BY <2>1, <2>2, <2>3 DEF MailboxInit, MailboxTypeOK
<1>2. \A w \in Workers : mine[w] = NoAccount /\ phase[w] = "idle"
    BY DEF MailboxInit
<1>3. PhaseMine /\ OneUser
    BY <1>2 DEF PhaseMine, OneUser
<1>4. SubmittedNotReused
    BY DEF MailboxInit, SubmittedNotReused
<1> QED BY <1>1, <1>3, <1>4 DEF AccountInv

LEMMA MailboxStep == AccountInv /\ [MailboxNext]_mailboxVars => AccountInv'
<1> SUFFICES ASSUME AccountInv, [MailboxNext]_mailboxVars PROVE AccountInv'
    OBVIOUS
<1> USE PoolAssumption DEF AccountInv, MailboxTypeOK, Phases, PhaseMine
<1>1. CASE UNCHANGED mailboxVars
    BY <1>1 DEF mailboxVars, OneUser, SubmittedNotReused, Before
<1>2. CASE Close
    BY <1>2 DEF Close, OneUser, SubmittedNotReused, Before
<1>3. ASSUME NEW w \in Workers, BeginAcquire(w) PROVE AccountInv'
    BY <1>3 DEF BeginAcquire, Enter, OneUser, SubmittedNotReused, Before
<1>4. ASSUME NEW w \in Workers, Take(w) PROVE AccountInv'
    <2>1. CASE \E a \in Accounts :
                  /\ available[a] > 0
                  /\ available' = [available EXCEPT ![a] = Remaining(@)]
                  /\ mine' = [mine EXCEPT ![w] = a]
                  /\ Enter(w, "preparing")
        <3>1. PICK a \in Accounts :
                  /\ available[a] > 0
                  /\ available' = [available EXCEPT ![a] = Remaining(@)]
                  /\ mine' = [mine EXCEPT ![w] = a]
                  /\ Enter(w, "preparing")
            BY <2>1
        <3>2. /\ available[a] = 1
              /\ available' = [available EXCEPT ![a] = 0]
            <4>1. available[a] = 1
                BY <3>1
            <4>2. available' = [available EXCEPT ![a] = available[a] - 1]
                BY <3>1 DEF Remaining
            <4> QED BY <4>1, <4>2
        <3>3. a \notin submitted
            BY <3>2 DEF SubmittedNotReused
        <3>4. \A v \in Workers : mine[v] # a
            BY <3>2 DEF OneUser
        <3>5. UNCHANGED <<leases, closed, open, submitted>>
            BY <1>4 DEF Take
        <3>6. MailboxTypeOK' /\ PhaseMine'
            BY <3>1, <3>2, <3>5 DEF Enter
        <3>7. OneUser'
            BY <3>1, <3>2, <3>4 DEF OneUser
        <3>8. SubmittedNotReused'
            BY <3>1, <3>2, <3>3, <3>5 DEF SubmittedNotReused, Before, Enter
        <3> QED BY <3>6, <3>7, <3>8
    <2>2. CASE Quit(w) /\ UNCHANGED available
        BY <1>4, <2>2 DEF Take, Quit, Enter, OneUser, SubmittedNotReused, Before
    <2> QED BY <1>4, <2>1, <2>2 DEF Take
<1>5. ASSUME NEW w \in Workers, Prepare(w) PROVE AccountInv'
    BY <1>5 DEF Prepare, Enter, OneUser, SubmittedNotReused, Before
<1>6. ASSUME NEW w \in Workers, Register(w) PROVE AccountInv'
    BY <1>6 DEF Register, Quit, Enter, OneUser, SubmittedNotReused, Before
<1>7. ASSUME NEW w \in Workers, Submit(w) PROVE AccountInv'
    <2>1. mine[w] \in Accounts /\ available[mine[w]] = 0
        BY <1>7 DEF Submit, OneUser
    <2>2. \A v \in Workers : v # w => mine[v] # mine[w]
        BY <2>1, Exclusive
    <2>3. MailboxTypeOK' /\ PhaseMine' /\ OneUser'
        BY <1>7, <2>1 DEF Submit, Enter, OneUser
    <2>4. SubmittedNotReused'
        BY <1>7, <2>1, <2>2 DEF Submit, Enter, SubmittedNotReused, Before
    <2> QED BY <2>3, <2>4
<1>8. ASSUME NEW w \in Workers, ReleaseBeforeSubmit(w) PROVE AccountInv'
    BY <1>8 DEF ReleaseBeforeSubmit, MayRelease, Quit, Enter, OneUser, SubmittedNotReused, Before
<1>9. ASSUME NEW w \in Workers, GiveBack(w) PROVE AccountInv'
    <2>1. /\ mine[w] \in Accounts
          /\ available[mine[w]] = 0
          /\ mine[w] \notin submitted
        BY <1>9 DEF GiveBack, OneUser, SubmittedNotReused, Before
    <2>2. \A v \in Workers : v # w => mine[v] # mine[w]
        BY <2>1, Exclusive
    <2>3. MailboxTypeOK' /\ PhaseMine'
        BY <1>9, <2>1 DEF GiveBack, Quit, Enter
    <2>4. OneUser'
        BY <1>9, <2>1, <2>2 DEF GiveBack, Quit, OneUser
    <2>5. SubmittedNotReused'
        BY <1>9, <2>1 DEF GiveBack, Quit, Enter, SubmittedNotReused, Before
    <2> QED BY <2>3, <2>4, <2>5
<1>10. ASSUME NEW w \in Workers, BeginRead(w) PROVE AccountInv'
    BY <1>10 DEF BeginRead, Quit, Enter, OneUser, SubmittedNotReused, Before
<1>11. ASSUME NEW w \in Workers, EndRead(w) PROVE AccountInv'
    BY <1>11 DEF EndRead, ClosedAfterRead, Quit, Enter, OneUser, SubmittedNotReused, Before
<1>12. ASSUME NEW w \in Workers, AbandonSubmitted(w) PROVE AccountInv'
    BY <1>12 DEF AbandonSubmitted, Quit, Enter, OneUser, SubmittedNotReused, Before
<1> QED
    BY <1>1, <1>2, <1>3, <1>4, <1>5, <1>6, <1>7, <1>8, <1>9, <1>10, <1>11, <1>12
    DEF MailboxNext, WorkerStep

\* The inductive invariant of the account pool and its users.
THEOREM MailboxInvariant == MailboxSpec => []AccountInv
<1>1. MailboxInit => AccountInv
    BY MailboxStart
<1>2. AccountInv /\ [MailboxNext]_mailboxVars => AccountInv'
    BY MailboxStep
<1> QED BY <1>1, <1>2, PTL DEF MailboxSpec

\* Two attempts never hold one mailbox, and a held mailbox is not on offer.
THEOREM OneUserEach == MailboxSpec => []OneUser
<1>1. AccountInv => OneUser
    BY DEF AccountInv
<1> QED BY <1>1, MailboxInvariant, PTL

\* An address that may have reached the sign-up form is never used again.
THEOREM NeverReused == MailboxSpec => []SubmittedNotReused
<1>1. AccountInv => SubmittedNotReused
    BY DEF AccountInv
<1> QED BY <1>1, MailboxInvariant, PTL

\* A session is open for a live handle, or for a worker that has to close it
\* or is about to hand it over. A closed runtime has no handles.
SessionsOwned ==
    /\ closed => leases = {}
    /\ \A a \in open \ leases : \E w \in Workers :
          mine[w] = a /\ phase[w] \in {"registering", "releasing", "reading"}

SessionInv == MailboxTypeOK /\ PhaseMine /\ SessionsOwned

\* A step of w that keeps the sessions of the others, and leaves its own
\* account owned or closed, keeps all sessions owned.
LEMMA OthersOwn ==
    ASSUME SessionInv, NEW w \in Workers,
           \A v \in Workers \ {w} : mine'[v] = mine[v] /\ phase'[v] = phase[v],
           closed' = closed, closed => leases' = {},
           \A a \in Accounts \ {mine[w]} : /\ a \in open' => a \in open
                                           /\ a \in leases => a \in leases',
           mine[w] \in open' \ leases' =>
               \E v \in Workers : mine'[v] = mine[w]
                                  /\ phase'[v] \in {"registering", "releasing", "reading"},
           open' \subseteq Accounts
    PROVE  SessionsOwned'
<1> SUFFICES ASSUME NEW a \in open' \ leases'
             PROVE  \E v \in Workers : mine'[v] = a /\ phase'[v] \in {"registering", "releasing", "reading"}
    BY DEF SessionInv, SessionsOwned
<1>1. CASE a = mine[w]
    BY <1>1
<1>2. CASE a # mine[w]
    <2>1. a \in open \ leases
        BY <1>2
    <2>2. PICK v \in Workers : mine[v] = a /\ phase[v] \in {"registering", "releasing", "reading"}
        BY <2>1 DEF SessionInv, SessionsOwned
    <2> QED BY <1>2, <2>2
<1> QED BY <1>1, <1>2

\* No session is left without an owner.
LEMMA SessionStep == SessionInv /\ AccountInv /\ [MailboxNext]_mailboxVars => SessionsOwned'
<1> SUFFICES ASSUME SessionInv, AccountInv, [MailboxNext]_mailboxVars PROVE SessionsOwned'
    OBVIOUS
<1> USE PoolAssumption DEF MailboxTypeOK, Phases, PhaseMine, Quit, Enter
<1>1. CASE UNCHANGED mailboxVars
    BY <1>1 DEF mailboxVars, SessionInv, SessionsOwned
<1>2. CASE Close
    BY <1>2 DEF Close, SessionInv, SessionsOwned
<1>3. ASSUME NEW w \in Workers, WorkerStep(w) PROVE SessionsOwned'
    <2> USE DEF SessionInv
    <2>1. CASE BeginAcquire(w)
        BY <2>1, OthersOwn DEF BeginAcquire, SessionsOwned
    <2>2. CASE Take(w)
        BY <2>2, OthersOwn DEF Take, SessionsOwned
    <2>3. CASE Prepare(w)
        BY <2>3, OthersOwn DEF Prepare, SessionsOwned
    <2>4. CASE Register(w)
        BY <2>4, OthersOwn DEF Register, StillOpen, SessionsOwned
    <2>5. CASE Submit(w)
        BY <2>5, OthersOwn DEF Submit, SessionsOwned
    <2>6. CASE ReleaseBeforeSubmit(w)
        BY <2>6, OthersOwn DEF ReleaseBeforeSubmit, MayRelease, SessionsOwned
    <2>7. CASE GiveBack(w)
        BY <2>7, OthersOwn DEF GiveBack, SessionsOwned
    <2>8. CASE BeginRead(w)
        BY <2>8, OthersOwn DEF BeginRead, SessionsOwned
    <2>9. CASE EndRead(w)
        BY <2>9, OthersOwn DEF EndRead, ClosedAfterRead, SessionsOwned
    <2>10. CASE AbandonSubmitted(w)
        BY <2>10, OthersOwn DEF AbandonSubmitted, SessionsOwned
    <2> QED BY <1>3, <2>1, <2>2, <2>3, <2>4, <2>5, <2>6, <2>7, <2>8, <2>9, <2>10 DEF WorkerStep
<1> QED BY <1>1, <1>2, <1>3 DEF MailboxNext

\* A closed runtime whose workers are done has left no mailbox open.
THEOREM SessionsClosed == MailboxSpec => []NoSessionLeft
<1>1. MailboxInit => SessionInv
    BY MailboxStart DEF AccountInv, SessionInv, SessionsOwned, MailboxInit
<1>2. AccountInv /\ AccountInv' /\ SessionInv /\ [MailboxNext]_mailboxVars => SessionInv'
    BY SessionStep DEF AccountInv, SessionInv
<1>3. SessionInv => NoSessionLeft
    BY DEF SessionInv, SessionsOwned, NoSessionLeft
<1> QED BY <1>1, <1>2, <1>3, MailboxInvariant, PTL DEF MailboxSpec

-----------------------------------------------------------------------------
(* The batch with its mailboxes.                                           *)

LEMMA OwnPoolStep ==
    ASSUME WorkerStep(Self)
    PROVE  MailboxNext
BY SelfAssumption DEF MailboxNext

\* Using the mailboxes of a pool adds nothing to what a batch may do
\* (register_one_account and the mail service it calls).
THEOREM BatchIsFlow == BatchSpec => Spec
<1>1. BatchInit => Init
    BY DEF BatchInit
<1>2. [BatchNext]_batchVars => [Next]_vars
    <2>1. ASSUME OwnStep PROVE [Next]_vars
        <3>1. AskForMailbox \/ ReturnToPool \/ OpenMailbox => UNCHANGED vars
            BY DEF AskForMailbox, ReturnToPool, OpenMailbox
        <3>2. MailboxAnswer \/ FillForm \/ ReadMailbox \/ LeaveMailbox \/ OtherOperation => Step
            BY DEF MailboxAnswer, FillForm, ReadMailbox, LeaveMailbox, OtherOperation, Step
        <3> QED BY <2>1, <3>1, <3>2 DEF OwnStep, Next
    <2>2. ASSUME OtherStep PROVE [Next]_vars
        BY <2>2 DEF OtherStep, Next
    <2>3. UNCHANGED batchVars => UNCHANGED vars
        BY DEF batchVars
    <2> QED BY <2>1, <2>2, <2>3 DEF BatchNext
<1> QED BY <1>1, <1>2, PTL DEF BatchSpec, Spec

\* The batch uses the pool as one of its workers: by the stage mark of the
\* flow it submits, abandons or gives back what it was given
\* (fill_email_and_submit, fill_code_and_submit).
THEOREM BatchIsPoolUser == BatchSpec => MailboxSpec
<1>1. BatchInit => MailboxInit
    BY DEF BatchInit
<1>2. [BatchNext]_batchVars => [MailboxNext]_mailboxVars
    <2>1. ASSUME OwnStep PROVE [MailboxNext]_mailboxVars
        <3>1. AskForMailbox \/ FillForm \/ ReturnToPool \/ OpenMailbox => WorkerStep(Self)
            BY DEF AskForMailbox, FillForm, ReturnToPool, OpenMailbox, WorkerStep
        <3>2. MailboxAnswer \/ ReadMailbox \/ LeaveMailbox =>
                  WorkerStep(Self) \/ UNCHANGED mailboxVars
            BY DEF MailboxAnswer, ReadMailbox, LeaveMailbox, WorkerStep
        <3>3. OtherOperation => UNCHANGED mailboxVars
            BY DEF OtherOperation
        <3> QED BY <2>1, <3>1, <3>2, <3>3, OwnPoolStep DEF OwnStep
    <2>2. ASSUME OtherStep PROVE [MailboxNext]_mailboxVars
        BY <2>2 DEF OtherStep, MailboxNext
    <2>3. UNCHANGED batchVars => UNCHANGED mailboxVars
        BY DEF batchVars
    <2> QED BY <2>1, <2>2, <2>3 DEF BatchNext
<1> QED BY <1>1, <1>2, PTL DEF BatchSpec, MailboxSpec
=============================================================================
