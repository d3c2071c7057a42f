------------------------ MODULE RegistrationMailboxes ------------------------
(***************************************************************************)
(* The batch of one worker (RegistrationFlow) with the mailboxes it uses.  *)
(* With the Outlook provider they come from the runtime of the task        *)
(* (OutlookPool), which the other workers of the task use at the same      *)
(* time; any other provider creates a mailbox for every request.  The      *)
(* worker decides by the stage mark of its flow whether an address goes    *)
(* back to the pool.                                                       *)
(*                                                                         *)
(* A call of the flow that uses the mailbox is one step of the flow and    *)
(* the step of the pool in which the call ends; the steps the pool takes   *)
(* before it, outside its locks, leave the flow where it is.               *)
(***************************************************************************)
EXTENDS RegistrationFlow, OutlookPool

CONSTANT Self   \* the worker whose batch this is

ASSUME SelfAssumption == Self \in Workers

VARIABLE provider   \* config["email_provider"], fixed while the task runs

batchVars == <<vars, mailboxVars, provider>>

-----------------------------------------------------------------------------

\* get_email_and_token until the runtime answers.
AskForMailbox ==
    /\ pc = "mail"
    /\ BeginAcquire(Self) \/ Take(Self) \/ Prepare(Self)
    /\ phase'[Self] # "idle"
    /\ UNCHANGED vars

\* It answers with a mailbox or raises: the runtime was closed before or
\* after the mailbox was prepared, or the pool is exhausted.  A stop request
\* may end the call before the runtime is asked.
MailboxAnswer ==
    /\ CreateMailbox
    /\ \/ Register(Self) /\ (phase'[Self] = "form" <=> pc' = "submit")
       \/ Take(Self) /\ phase'[Self] = "idle" /\ pc' = "handle"
       \/ /\ phase[Self] = "idle"
          /\ pc' = "handle"
          /\ failure' \in IF closed THEN {"error", "cancelled"} ELSE {"cancelled"}
          /\ UNCHANGED mailboxVars

\* The form, then the finally of fill_email_and_submit.
FillForm ==
    /\ SubmitEmail
    /\ IF mailbox' = "kept" THEN Submit(Self) ELSE ReleaseBeforeSubmit(Self)

\* The second half of release_before_submit, before the exception goes on.
ReturnToPool == GiveBack(Self) /\ UNCHANGED vars

\* wait_for_code takes the handle; when it cannot, no code is waited for.
OpenMailbox == pc = "code" /\ BeginRead(Self) /\ UNCHANGED vars

ReadMailbox ==
    /\ WaitForCode
    /\ \/ EndRead(Self)
       \/ phase[Self] = "idle" /\ pc' = "handle" /\ failure' = "error" /\ UNCHANGED mailboxVars

\* A submitted address whose code nobody waited for stays with the runtime.
LeaveMailbox ==
    /\ HandleFailure
    /\ IF phase[Self] = "submitted"
       THEN AbandonSubmitted(Self)
       ELSE phase[Self] = "idle" /\ UNCHANGED mailboxVars

\* The other operations of the flow use no mailbox.
OtherOperation == Step /\ pc \notin {"mail", "submit", "code", "handle"} /\ UNCHANGED mailboxVars

\* The next step of the worker.
OwnStep ==
    /\ IF provider = "outlook"
       THEN \/ AskForMailbox \/ MailboxAnswer
            \/ FillForm \/ ReturnToPool
            \/ OpenMailbox \/ ReadMailbox
            \/ LeaveMailbox \/ OtherOperation
       ELSE Step /\ UNCHANGED mailboxVars
    /\ UNCHANGED provider

\* Other workers use the pool, the task closes its runtime, somebody stops.
OtherStep ==
    /\ \/ /\ provider = "outlook"
          /\ Close \/ (\E w \in Workers \ {Self} : WorkerStep(w))
          /\ UNCHANGED vars
       \/ RequestStop /\ UNCHANGED mailboxVars
    /\ UNCHANGED provider

BatchInit == Init /\ MailboxInit /\ provider \in {"outlook", "other"}

BatchNext == OwnStep \/ OtherStep

\* Every operation of the worker has a deadline or a bounded number of tries,
\* so its thread always goes on; nothing is asked of the other workers, and
\* nobody need press stop.
BatchSpec == BatchInit /\ [][BatchNext]_batchVars /\ WF_batchVars(OwnStep)
=============================================================================
