----------------------------- MODULE OutlookPool ----------------------------
(***************************************************************************)
(* The Outlook mailboxes of one registration task, outlook_mailbox_pool.py *)
(* : an account pool that hands out each account once unless it comes back *)
(* before its address was submitted, the registry of opaque handles above  *)
(* it, and the workers that share both.  The pool and the registry have    *)
(* locks of their own and mailboxes are prepared, read and closed outside  *)
(* them, so a call is several actions.                                     *)
(*                                                                         *)
(* Abstractions: the order of the deque (any available account may come    *)
(* next); a handle is the account behind it; reading mail ends with the    *)
(* code, an error or a stop.                                               *)
(***************************************************************************)
EXTENDS Naturals, FiniteSets

CONSTANTS Accounts, Workers, NoAccount

ASSUME PoolAssumption ==
    /\ IsFiniteSet(Accounts)
    /\ Accounts # {}
    /\ NoAccount \notin Accounts

VARIABLES
    available,  \* copies of each account in pool._available
    leases,     \* runtime._leases: accounts with a live handle
    closed,     \* runtime._closed
    open,       \* accounts whose mailbox session is open
    phase,      \* what each worker does
    mine,       \* the account of each worker's attempt
    submitted   \* accounts whose address has reached xAI

mailboxVars == <<available, leases, closed, open, phase, mine, submitted>>

Phases == {"idle", "taking", "preparing", "registering", "form", "submitted",
           "releasing", "reading"}

MailboxTypeOK ==
    /\ available \in [Accounts -> 0..1]
    /\ leases \subseteq Accounts
    /\ closed \in BOOLEAN
    /\ open \subseteq Accounts
    /\ phase \in [Workers -> Phases]
    /\ mine \in [Workers -> Accounts \cup {NoAccount}]
    /\ submitted \subseteq Accounts

-----------------------------------------------------------------------------

Enter(w, p) == phase' = [phase EXCEPT ![w] = p]

Quit(w) == Enter(w, "idle") /\ mine' = [mine EXCEPT ![w] = NoAccount]

\* OutlookTaskRuntime.acquire on an open runtime.
BeginAcquire(w) ==
    /\ phase[w] = "idle"
    /\ ~closed
    /\ Enter(w, "taking")
    /\ UNCHANGED <<available, leases, closed, open, mine, submitted>>

\* Bug: the deque is rotated instead of consumed.
Rotated(n) == n

Remaining(n) == n - 1

\* OutlookAccountPool.acquire: take one, or find the pool exhausted.
Take(w) ==
    /\ phase[w] = "taking"
    /\ \/ \E a \in Accounts :
             /\ available[a] > 0
             /\ available' = [available EXCEPT ![a] = Remaining(@)]
             /\ mine' = [mine EXCEPT ![w] = a]
             /\ Enter(w, "preparing")
       \/ /\ \A a \in Accounts : available[a] = 0
          /\ Quit(w)
          /\ UNCHANGED available
    /\ UNCHANGED <<leases, closed, open, submitted>>

\* A mailbox that cannot be prepared is closed and never offered again.
Prepare(w) ==
    /\ phase[w] = "preparing"
    /\ \/ open' = open \cup {mine[w]} /\ Enter(w, "registering") /\ UNCHANGED mine
       \/ Enter(w, "taking") /\ mine' = [mine EXCEPT ![w] = NoAccount] /\ UNCHANGED open
    /\ UNCHANGED <<available, leases, closed, submitted>>

\* Bug: the runtime is not asked again whether it was closed meanwhile.
RegisteredAnyway == TRUE

StillOpen == ~closed

Register(w) ==
    /\ phase[w] = "registering"
    /\ IF StillOpen
       THEN /\ leases' = leases \cup {mine[w]}
            /\ Enter(w, "form")
            /\ UNCHANGED <<open, mine>>
       ELSE /\ open' = open \ {mine[w]}
            /\ Quit(w)
            /\ UNCHANGED leases
    /\ UNCHANGED <<available, closed, submitted>>

\* The address is entered and submitted, at least as far as anybody knows.
Submit(w) ==
    /\ phase[w] = "form"
    /\ submitted' = submitted \cup {mine[w]}
    /\ Enter(w, "submitted")
    /\ UNCHANGED <<available, leases, closed, open, mine>>

\* Bug: the account comes back whether it was submitted or not.
ReleasedAfterSubmit(w) == phase[w] \in {"form", "submitted"}

MayRelease(w) == phase[w] = "form"

\* release_before_submit: nothing happens for a handle that is gone (closed);
\* otherwise the handle is dropped and the pool gets the account back.
ReleaseBeforeSubmit(w) ==
    /\ MayRelease(w)
    /\ IF mine[w] \notin leases
       THEN Quit(w) /\ UNCHANGED leases
       ELSE leases' = leases \ {mine[w]} /\ Enter(w, "releasing") /\ UNCHANGED mine
    /\ UNCHANGED <<available, closed, open, submitted>>

\* release_unsubmitted: close and give back under the pool's lock.
GiveBack(w) ==
    /\ phase[w] = "releasing"
    /\ open' = open \ {mine[w]}
    /\ available' = [available EXCEPT ![mine[w]] = @ + 1]
    /\ Quit(w)
    /\ UNCHANGED <<leases, closed, submitted>>

\* wait_for_code takes the handle, once, or fails when it is gone.
BeginRead(w) ==
    /\ phase[w] = "submitted"
    /\ IF closed \/ mine[w] \notin leases
       THEN Quit(w) /\ UNCHANGED leases
       ELSE leases' = leases \ {mine[w]} /\ Enter(w, "reading") /\ UNCHANGED mine
    /\ UNCHANGED <<available, closed, open, submitted>>

ClosedAfterRead(a) == {open \ {a}}

EndRead(w) ==
    /\ phase[w] = "reading"
    /\ open' \in ClosedAfterRead(mine[w])
    /\ Quit(w)
    /\ UNCHANGED <<available, leases, closed, submitted>>

\* The attempt ends between the submission and the wait for the code: the
\* handle stays in the registry until the runtime is closed.
AbandonSubmitted(w) ==
    /\ phase[w] = "submitted"
    /\ Quit(w)
    /\ UNCHANGED <<available, leases, closed, open, submitted>>

\* The finally of the task: the handles go and their mailboxes are closed.
Close ==
    /\ ~closed
    /\ closed' = TRUE
    /\ open' = open \ leases
    /\ leases' = {}
    /\ UNCHANGED <<available, phase, mine, submitted>>

-----------------------------------------------------------------------------

MailboxInit ==
    /\ available = [a \in Accounts |-> 1]
    /\ leases = {}
    /\ closed = FALSE
    /\ open = {}
    /\ phase = [w \in Workers |-> "idle"]
    /\ mine = [w \in Workers |-> NoAccount]
    /\ submitted = {}

WorkerStep(w) ==
    \/ BeginAcquire(w) \/ Take(w) \/ Prepare(w) \/ Register(w)
    \/ Submit(w) \/ ReleaseBeforeSubmit(w) \/ GiveBack(w)
    \/ BeginRead(w) \/ EndRead(w) \/ AbandonSubmitted(w)

MailboxNext == Close \/ \E w \in Workers : WorkerStep(w)

MailboxSpec == MailboxInit /\ [][MailboxNext]_mailboxVars
-----------------------------------------------------------------------------
(* Properties.                                                             *)

Before == {"preparing", "registering", "form", "releasing"}

\* An account is the mailbox of one attempt at a time, and is not on offer
\* meanwhile, however acquisitions, releases and failures interleave.
OneUser ==
    /\ \A w \in Workers : mine[w] # NoAccount => available[mine[w]] = 0
    /\ \A v, w \in Workers : v # w /\ mine[v] = mine[w] => mine[w] = NoAccount

\* An account whose address was submitted is never offered or used again.
SubmittedNotReused ==
    /\ \A a \in submitted : available[a] = 0
    /\ \A w \in Workers : phase[w] \in Before => mine[w] \notin submitted

\* When the task has closed the runtime and its workers are done, no mailbox
\* session with its credentials is left open.
NoSessionLeft == closed /\ (\A w \in Workers : phase[w] = "idle") => open = {}

\* A worker has an account exactly while its phase needs one.
PhaseMine ==
    \A w \in Workers : mine[w] = NoAccount <=> phase[w] \in {"idle", "taking"}

\* The inductive invariant behind OneUser and SubmittedNotReused.
AccountInv == MailboxTypeOK /\ PhaseMine /\ OneUser /\ SubmittedNotReused
=============================================================================
