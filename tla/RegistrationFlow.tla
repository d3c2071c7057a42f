-------------------------- MODULE RegistrationFlow --------------------------
(***************************************************************************)
(* One registration batch of one worker: the loop of _run_batch_managed    *)
(* and register_one_account (registration_flow.py) driving the browser     *)
(* operations of registration_browser.py, each of which marks the stage    *)
(* the retry decision is later taken from.                                 *)
(*                                                                         *)
(* Abstractions: pages, codes and mailboxes have no content; polling loops *)
(* with a deadline are the outcomes they can end with; an exception is its *)
(* class ("error" is every class the batch loop does not name).            *)
(***************************************************************************)
EXTENDS Naturals, FiniteSets

CONSTANTS Count,          \* accounts the batch was asked for
          MaxSlotRetry,   \* retries of one account with a new lease
          MaxMailRetry,   \* mailboxes tried under one lease
          TabsMayBeLost   \* the browser may stop answering get_tabs

ASSUME FlowAssumption ==
    /\ Count \in Nat
    /\ MaxSlotRetry \in Nat
    /\ MaxMailRetry \in Nat \ {0}
    /\ TabsMayBeLost \in BOOLEAN

VARIABLES
    pc,         \* the operation the worker is in, or how the batch ended
    stage,      \* the thread's registration stage
    failure,    \* class of the exception being handled
    mailTry,    \* mail_try of register_one_account
    retries,    \* retry_count_for_slot
    processed,  \* result.processed_count
    tally,      \* the other counters of BatchResult
    rows,       \* registration_attempts rows of this batch, by status
    mailbox,    \* lease on the current attempt's mailbox
    stopping,   \* callbacks.cancelled()
    sent        \* what reached (or may have reached) xAI for this account:
                \* an address, the current mailbox's address, the code, ...

progress == <<retries, processed, tally, rows>>
vars == <<pc, stage, failure, mailTry, mailbox, stopping, sent, progress>>

SafeStages      == {"lease_acquire", "browser_start", "page_open"}
UncertainStages == {"email_submit", "code_submit", "profile_submit", "sso_wait"}
Stages == SafeStages \cup UncertainStages
             \cup {"code_wait", "account_confirmed", "postprocess"}

Ended    == {"completed", "cancelled", "rejected", "crashed"}
Working  == {"lease", "browser", "open", "mail", "submit", "code", "recover", "enter",
             "transition", "profile", "sso", "screen", "save"}
Kinds    == {"none", "error", "fatal", "retry", "cancelled", "rejected", "risk"}
Statuses == {"succeeded", "registered_unsaved", "retrying", "failed", "fatal", "uncertain",
             "signup_rejected", "risk_denied", "cancelled"}
Counters == {"success", "fail", "unsaved", "uncertain"}

TypeOK ==
    /\ pc \in Working \cup Ended \cup {"slot", "handle"}
    /\ stage \in Stages
    /\ failure \in Kinds
    /\ mailTry \in 1..MaxMailRetry
    /\ retries \in 0..MaxSlotRetry
    /\ processed \in 0..Count
    /\ tally \in [Counters -> Nat]
    /\ rows \in [Statuses -> Nat]
    /\ mailbox \in {"none", "leased", "kept", "returned"}
    /\ stopping \in BOOLEAN
    /\ sent \subseteq {"email", "mailbox", "code", "profile", "account"}

-----------------------------------------------------------------------------

\* An exception leaves the operation; cancellation needs a stop request.
Raise(kinds) ==
    \E k \in kinds : /\ k = "cancelled" => stopping
                     /\ failure' = k
                     /\ pc' = "handle"

Proceed(p, s) == pc' = p /\ stage' = s /\ UNCHANGED failure

\* while result.processed_count < settings.count
StartAccount ==
    /\ pc = "slot"
    /\ processed < Count
    /\ ~stopping
    /\ Proceed("lease", "lease_acquire")
    /\ mailbox' = "none"
    /\ sent' = sent \ {"mailbox"}
    /\ UNCHANGED <<mailTry, stopping, progress>>

EndBatch ==
    /\ pc = "slot"
    /\ \/ processed = Count /\ pc' = "completed"
       \/ processed < Count /\ stopping /\ pc' = "cancelled"
    /\ UNCHANGED <<stage, failure, mailTry, mailbox, stopping, sent, progress>>

\* begin_registration_slot, then the mail preflight.
AcquireLease ==
    /\ pc = "lease"
    /\ \/ Proceed("browser", "browser_start")
       \/ Raise({"error", "fatal", "cancelled"}) /\ UNCHANGED stage
    /\ UNCHANGED <<mailTry, mailbox, stopping, sent, progress>>

StartBrowser ==
    /\ pc = "browser"
    /\ \/ Proceed("open", "page_open") /\ mailTry' = 1
       \/ Raise({"error", "fatal", "cancelled"}) /\ UNCHANGED <<stage, mailTry>>
    /\ UNCHANGED <<mailbox, stopping, sent, progress>>

OpenSignupPage ==
    /\ pc = "open"
    /\ \/ Proceed("mail", "page_open")
       \/ Raise({"error", "fatal", "retry", "cancelled", "rejected"}) /\ UNCHANGED stage
    /\ UNCHANGED <<mailTry, mailbox, stopping, sent, progress>>

CreateMailbox ==
    /\ pc = "mail"
    /\ sent' = sent \ {"mailbox"}
    /\ \/ Proceed("submit", "page_open") /\ mailbox' = "leased"
       \/ Raise({"error", "fatal", "cancelled"}) /\ mailbox' = "none" /\ UNCHANGED stage
    /\ UNCHANGED <<mailTry, stopping, progress>>

\* Bug: the mailbox is given back whatever the stage is.
AlwaysReturned(s) == "returned"

\* The finally of fill_email_and_submit.
MailboxAfter(s) == IF s = "email_submit" THEN "kept" ELSE "returned"

AddressSent == sent \cup {"email", "mailbox"}

\* The click is marked before it is made.  A script that reports no click
\* takes the mark back; one that raises leaves it, sent or not.
SubmitEmail ==
    /\ pc = "submit"
    /\ \/ /\ Raise({"error", "fatal", "retry", "cancelled", "rejected"})
          /\ UNCHANGED <<stage, sent>>
          /\ mailbox' = MailboxAfter("page_open")
       \/ /\ Raise({"error", "cancelled", "rejected"})
          /\ stage' = "email_submit"
          /\ sent' \in {sent, AddressSent}
          /\ failure' # "error" => sent' = AddressSent
          /\ mailbox' = MailboxAfter("email_submit")
       \/ /\ Proceed("code", "code_wait")
          /\ sent' = AddressSent
          /\ mailbox' = MailboxAfter("email_submit")
    /\ UNCHANGED <<mailTry, stopping, progress>>

MoreMailboxes == mailTry < MaxMailRetry

WaitForCode ==
    /\ pc = "code"
    /\ \/ Proceed("enter", "code_wait")
       \/ MoreMailboxes /\ Proceed("recover", "code_wait")
       \/ Raise({"error", "cancelled", "rejected"}) /\ UNCHANGED stage
    /\ UNCHANGED <<mailTry, mailbox, stopping, sent, progress>>

\* Bug: the mailboxes tried are not counted.
SameMailTry == mailTry

NextMailTry == mailTry + 1

\* No code came: the browser is restarted for another mailbox under the same
\* lease.  start_browser marks browser_start over the code_wait set before it,
\* and the next round marks page_open.
RestartForNewMailbox ==
    /\ pc = "recover"
    /\ \/ /\ Proceed("open", "page_open")
          /\ mailTry' = NextMailTry
       \/ Raise({"error", "fatal", "cancelled"}) /\ stage' = "browser_start" /\ UNCHANGED mailTry
    /\ UNCHANGED <<mailbox, stopping, sent, progress>>

\* The code is entered and submitted, or its fields never become ready.
EnterCode ==
    /\ pc = "enter"
    /\ \/ Proceed("transition", "code_submit") /\ sent' = sent \cup {"code"}
       \/ /\ Raise({"error", "cancelled"})
          /\ stage' \in {"code_wait", "code_submit"}
          /\ sent' \in {sent} \cup {sent \cup {"code"} : s \in {stage'} \cap UncertainStages}
    /\ UNCHANGED <<mailTry, mailbox, stopping, progress>>

\* refresh_active_page, called while the worker waits for the profile form or
\* the cookie, restarts a browser that has lost its tabs.
LoseTabs ==
    /\ TabsMayBeLost
    /\ pc \in {"transition", "sso"}
    /\ stage' = "browser_start"
    /\ stage' # stage
    /\ UNCHANGED <<pc, failure, mailTry, mailbox, stopping, sent, progress>>

\* What a restart adds to the exceptions: under browser_start an error of the
\* configuration is not retried.
RestartErrors == IF stage = "browser_start" THEN {"fatal"} ELSE {}

\* A restarted browser shows neither the form nor the cookie.
ConfirmCode ==
    /\ pc = "transition"
    /\ \/ stage = "code_submit" /\ Proceed("profile", "code_submit")
       \/ Raise({"error", "cancelled"} \cup RestartErrors) /\ UNCHANGED stage
    /\ UNCHANGED <<mailTry, mailbox, stopping, sent, progress>>

SubmitProfile ==
    /\ pc = "profile"
    /\ \/ Proceed("sso", "sso_wait") /\ sent' = sent \cup {"profile"}
       \/ Raise({"error", "cancelled"}) /\ UNCHANGED <<stage, sent>>
       \/ /\ Raise({"error"})
          /\ stage' = "profile_submit"
          /\ sent' \in {sent, sent \cup {"profile"}}
    /\ UNCHANGED <<mailTry, mailbox, stopping, progress>>

\* With the cookie the account exists; enable_nsfw never fails the attempt.
WaitForSso ==
    /\ pc = "sso"
    /\ \/ /\ stage = "sso_wait"
          /\ Proceed("screen", "account_confirmed")
          /\ sent' = sent \cup {"account"}
       \/ Raise({"error", "retry", "cancelled"} \cup RestartErrors) /\ UNCHANGED <<stage, sent>>
    /\ UNCHANGED <<mailTry, mailbox, stopping, progress>>

\* screen_sso: denied and quarantined, or denied with nowhere to write it.
ScreenSso ==
    /\ pc = "screen"
    /\ stage' = "postprocess"
    /\ \/ pc' = "save" /\ UNCHANGED failure
       \/ Raise({"risk", "error"})
    /\ UNCHANGED <<mailTry, mailbox, stopping, sent, progress>>

\* Each account is counted once, and its attempt is one row.
Count1(f, x) == [f EXCEPT ![x] = @ + 1]

NextAccount ==
    /\ processed' = processed + 1
    /\ retries' = 0
    /\ sent' = {}

\* persist_account_result and _record_success: what is not saved is in the
\* pending queue or nowhere, and is counted as a failure either way.
SaveAccount ==
    /\ pc = "save"
    /\ Proceed("slot", stage)
    /\ NextAccount
    /\ \/ /\ tally' = Count1(tally, "success")
          /\ rows' = Count1(rows, "succeeded")
       \/ /\ tally' = Count1(Count1(tally, "fail"), "unsaved")
          /\ rows' = Count1(rows, "registered_unsaved")
    /\ UNCHANGED <<mailTry, mailbox, stopping>>

\* Bug: a click whose script raised is taken for no click.
AmbiguousClickSafe(s, fatal) ==
    CASE s \in SafeStages \cup {"email_submit"} -> IF fatal THEN "fatal" ELSE "safe_new_lease"
      [] s = "code_wait" -> "same_lease_recovery"
      [] s \in UncertainStages -> "outcome_uncertain"
      [] OTHER -> "no_retry"

\* registration_retry_disposition.
Disposition(s, fatal) ==
    CASE s \in SafeStages -> IF fatal THEN "fatal" ELSE "safe_new_lease"
      [] s = "code_wait" -> "same_lease_recovery"
      [] s \in UncertainStages -> "outcome_uncertain"
      [] OTHER -> "no_retry"

\* Bug: every exception is a reason to try again.
EverythingRetried(kind, s) ==
    CASE kind \in {"cancelled", "fatal"} -> kind
      [] OTHER -> IF retries < MaxSlotRetry THEN "retrying" ELSE "failed"

\* The status an exception gives the attempt.
Status(kind, s) ==
    LET d == Disposition(s, kind = "fatal")
    IN  CASE kind = "cancelled" -> "cancelled"
          [] kind = "rejected" -> "signup_rejected"
          [] kind = "risk" -> "risk_denied"
          [] d = "fatal" -> "fatal"
          [] d = "safe_new_lease" -> IF retries < MaxSlotRetry THEN "retrying" ELSE "failed"
          [] d = "outcome_uncertain" -> "uncertain"
          [] OTHER -> IF kind = "retry" THEN "uncertain" ELSE "failed"

\* Bug: an uncertain failure is not counted as a failure.
UncertainNotFailed(status) ==
    CASE status \in {"cancelled", "fatal", "retrying"} -> tally
      [] status = "uncertain" -> Count1(tally, "uncertain")
      [] OTHER -> Count1(tally, "fail")

Counted(status) ==
    CASE status \in {"cancelled", "fatal", "retrying"} -> tally
      [] status = "uncertain" -> Count1(Count1(tally, "fail"), "uncertain")
      [] OTHER -> Count1(tally, "fail")

\* The except branches: a retry keeps the account, a cancelled or a fatal
\* attempt ends the batch without counting it, the rest go to the next one.
HandleFailure ==
    LET status == Status(failure, stage)
    IN  /\ pc = "handle"
        /\ failure' = "none"
        /\ rows' = Count1(rows, status)
        /\ tally' = Counted(status)
        /\ pc' = CASE status = "cancelled" -> "cancelled"
                   [] status = "fatal" -> "crashed"
                   [] status = "signup_rejected" -> "rejected"
                   [] OTHER -> "slot"
        /\ CASE status = "retrying" ->
                   retries' = retries + 1 /\ UNCHANGED <<processed, sent>>
             [] status \in {"cancelled", "fatal"} -> UNCHANGED <<processed, retries, sent>>
             [] OTHER -> NextAccount
        /\ UNCHANGED <<stage, mailTry, mailbox, stopping>>

\* The stop button.
RequestStop ==
    /\ ~stopping
    /\ stopping' = TRUE
    /\ UNCHANGED <<pc, stage, failure, mailTry, mailbox, sent, progress>>

-----------------------------------------------------------------------------

Init ==
    /\ pc = "slot"
    /\ stage = "lease_acquire"
    /\ failure = "none"
    /\ mailTry = 1
    /\ retries = 0
    /\ processed = 0
    /\ tally = [c \in Counters |-> 0]
    /\ rows = [s \in Statuses |-> 0]
    /\ mailbox = "none"
    /\ stopping = FALSE
    /\ sent = {}

Step ==
    \/ StartAccount
    \/ EndBatch
    \/ AcquireLease
    \/ StartBrowser
    \/ OpenSignupPage
    \/ CreateMailbox
    \/ SubmitEmail
    \/ WaitForCode
    \/ RestartForNewMailbox
    \/ EnterCode
    \/ LoseTabs
    \/ ConfirmCode
    \/ SubmitProfile
    \/ WaitForSso
    \/ ScreenSso
    \/ SaveAccount
    \/ HandleFailure

Next == Step \/ RequestStop

Spec == Init /\ [][Next]_vars

-----------------------------------------------------------------------------
(* Properties.                                                             *)

AtLease == pc = "lease"

\* A lease is never acquired to register an account that xAI has already
\* confirmed: whatever happens to its result, it is not registered again.
ConfirmedNeverReplayed == AtLease => "account" \notin sent

\* A lease is never acquired for an account whose code or profile was
\* submitted under an earlier lease.
CodeNeverReplayed == AtLease => sent \cap {"code", "profile"} = {}

\* A lease is never acquired for an account whose address was submitted under
\* an earlier lease: a missing code is recovered from under the same one.
AddressNeverReplayed == AtLease => "email" \notin sent

FirstReplay == pc = "handle" /\ retries = 0 /\ retries' = 1

\* The browser lost its tabs after the code was submitted.
LostTabs == stage = "browser_start" /\ "code" \in sent

\* No code came, and the restart for the next mailbox failed.
FailedRecovery ==
    stage = "browser_start" /\ mailTry < MaxMailRetry /\ "mailbox" \in sent /\ "code" \notin sent

\* No code came, the browser was restarted, and the next mailbox failed.
NextMailboxFailed ==
    stage = "page_open" /\ mailTry > 1 /\ sent \cap {"code", "profile"} = {}

\* An account of which something was submitted is replayed in three cases and
\* in no other.  The documentation allows none of the three: CodeNeverReplayed
\* (the first) and AddressNeverReplayed (the others) state what it says, and
\* are violated.
ReplayNeedsRestart ==
    [][FirstReplay => sent = {} \/ LostTabs \/ FailedRecovery \/ NextMailboxFailed]_vars

\* A mailbox given back for another account was never sent to xAI.
ReturnedMailboxesUnused == mailbox = "returned" => "mailbox" \notin sent

\* The counters of BatchResult and the rows of registration_attempts tell the
\* same story: every processed account is counted once, in one row, and only
\* retries, a cancellation or a fatal error add a row that is not counted.
CountersMatchRows ==
    /\ processed = tally["success"] + tally["fail"]
    /\ tally["success"] = rows["succeeded"]
    /\ tally["unsaved"] = rows["registered_unsaved"]
    /\ tally["uncertain"] = rows["uncertain"]
    /\ tally["fail"] = rows["failed"] + rows["uncertain"] + rows["registered_unsaved"]
                         + rows["signup_rejected"] + rows["risk_denied"]
    /\ rows["cancelled"] + rows["fatal"] + rows["signup_rejected"] <= 1
    /\ rows["retrying"] <= MaxSlotRetry * (processed + 1)

\* The batch ends, whatever fails and however often.
BatchEnds == <>(pc \in Ended)
=============================================================================
