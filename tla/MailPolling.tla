----------------------------- MODULE MailPolling -----------------------------
(***************************************************************************)
(* Waiting for a verification code at a mail API, mail_service.py: the     *)
(* polling loops of the providers cloudflare, duckmail, yyds and cloudmail,*)
(* the backoff of the detail requests, the address checks, resending, and  *)
(* how cloudmail waits for its public token to be accepted.                *)
(*                                                                         *)
(* Times are seconds. Abstractions: a request takes no time; a letter is   *)
(* the data of one mail: for whom it is and where its code can be read,    *)
(* which changes only while the loop sleeps; a list request that fails or  *)
(* comes back unreadable is one outcome.                                   *)
(***************************************************************************)
EXTENDS Integers, FiniteSets, FiniteSetsExt

CONSTANTS Letters,       \* the mails that may arrive
          Timeout,       \* timeout of get_oai_code
          PollInterval,  \* poll_interval
          ResendAfter,   \* 35
          MaxDelay,      \* cap of _detail_retry_attempt: 15
          Convergence,   \* CLOUDMAIL_AUTH_CONVERGENCE_SECONDS: 70
          Offsets        \* 5, 15, 30, 60

ASSUME PollingAssumption ==
    /\ {Timeout, PollInterval, ResendAfter, MaxDelay, Convergence} \subseteq Nat \ {0}
    /\ Offsets \subseteq 1..Convergence
    /\ Offsets # {}

Providers == {"cloudflare", "duckmail", "yyds", "cloudmail", "outlook"}

VARIABLES
    provider,  \* email_provider
    now,       \* time since the wait began
    stage,     \* what the loop does
    letters,   \* what the server has: recipient and where the code is
    retries,   \* detail_retries: attempts and next_retry_at
    unread,    \* letters of the list still to be inspected
    resendAt,  \* next_resend_at
    resends,   \* how often xAI was asked again
    tries,     \* times of the requests left in cloudmail_wait_for_auth
    recovered, \* auth_recovery_used
    began,     \* when the current recovery began (history)
    overdue    \* seconds a code has been readable while all requests
               \* succeeded (history)

pollVars == <<provider, now, stage, letters, retries, unread, resendAt, resends,
              tries, recovered, began, overdue>>

Stages == {"preflight", "sleep", "list", "inspect", "recover", "found", "late",
           "denied", "denied again", "broken", "cancelled"}

Recipients == {"ours", "other", "none"}
Places == {"nowhere", "detail", "list"}

MaxAttempts == Timeout \div 2  \* more than the loop can make
Bound == MaxDelay + PollInterval

PollTypeOK ==
    /\ provider \in Providers
    /\ now \in 0..Timeout + PollInterval
    /\ stage \in Stages
    /\ \A l \in Letters :
          /\ letters[l] \in [there : BOOLEAN, to : Recipients, code : Places]
          /\ retries[l] \in [attempts : 0..MaxAttempts, next : Nat]
          /\ overdue[l] \in 0..Bound
    /\ unread \subseteq Letters
    /\ resendAt \in Nat
    /\ resends \in Nat
    /\ tries \subseteq 0..Timeout + Convergence
    /\ recovered \in BOOLEAN
    /\ began \in 0..Timeout

\* Bug: no request is made at the end of the window.
OffsetsOnly(start, offsets, window) ==
    LET within == {o \in offsets : o <= window}
    IN  IF within = {} THEN {start} ELSE {start + o : o \in within}

\* When cloudmail_wait_for_auth asks: at the offsets within the window and
\* at its end, or once and at once when the window is shorter.
Schedule(start, offsets, window) ==
    LET within == {o \in offsets : o <= window}
    IN  IF within = {} THEN {start} ELSE {start + o : o \in within \cup {window}}

NoRetries == [l \in Letters |-> [attempts |-> 0, next |-> 0]]

PollInit ==
    /\ provider \in Providers
    /\ now = 0
    /\ stage = IF provider = "cloudmail" THEN "preflight" ELSE "list"
    /\ letters = [l \in Letters |-> [there |-> FALSE, to |-> "none", code |-> "nowhere"]]
    /\ retries = NoRetries
    /\ unread = {}
    /\ resendAt = ResendAfter
    /\ resends = 0
    /\ tries = IF provider = "cloudmail" THEN Schedule(0, {0} \cup Offsets, Convergence) ELSE {}
    /\ recovered = FALSE
    /\ began = 0
    /\ overdue = [l \in Letters |-> 0]

-----------------------------------------------------------------------------
(* The mail server and the clock.                                          *)

Ours(l) == \/ letters[l].to = "ours"
           \/ letters[l].to = "none" /\ provider \in {"cloudflare", "cloudmail"}

\* Some providers fill a message in place after listing it; cloudmail has no
\* detail request.
Arrive(l) ==
    /\ stage = "sleep"
    /\ \E place \in Places, to \in Recipients :
          /\ letters[l].there => /\ letters[l].code = "nowhere" /\ place # "nowhere"
                                 /\ to = letters[l].to
          /\ provider = "cloudmail" => place # "detail"
          /\ letters' = [letters EXCEPT ![l] = [there |-> TRUE, to |-> to, code |-> place]]
    /\ UNCHANGED <<provider, now, stage, retries, unread, resendAt, resends, tries, recovered, began, overdue>>

Readable(l) == Ours(l) /\ letters[l].there /\ letters[l].code # "nowhere"

Least(a, b) == IF a < b THEN a ELSE b

Sleep ==
    /\ stage = "sleep"
    /\ now' = now + PollInterval
    /\ overdue' = [l \in Letters |-> IF Readable(l) THEN Least(overdue[l] + PollInterval, Bound) ELSE 0]
    /\ stage' = IF now' < Timeout THEN "list" ELSE "late"
    /\ UNCHANGED <<provider, letters, retries, unread, resendAt, resends, tries, recovered, began>>

\* raise_if_cancelled: the loop and what it knows are gone.
PollCancelled ==
    /\ stage \in {"sleep", "list", "recover", "preflight"}
    /\ stage' = "cancelled"
    /\ retries' = NoRetries
    /\ overdue' = [l \in Letters |-> 0]
    /\ tries' = {}
    /\ UNCHANGED <<provider, now, letters, unread, resendAt, resends, recovered, began>>

-----------------------------------------------------------------------------
(* One round of the loop.                                                  *)

\* duckmail and yyds are given no resend_callback.
Resends == provider \in {"cloudflare", "cloudmail"} /\ now >= resendAt

AskAgain ==
    IF Resends THEN resendAt' = now + ResendAfter /\ resends' = resends + 1
               ELSE UNCHANGED <<resendAt, resends>>

Forgiven == overdue' = [l \in Letters |-> 0]

ListFails ==
    /\ stage = "list"
    /\ AskAgain
    /\ stage' = "sleep"
    /\ Forgiven
    /\ UNCHANGED <<provider, now, letters, retries, unread, tries, recovered, began>>

Inspect ==
    /\ unread' = {l \in Letters : letters[l].there}
    /\ stage' = "inspect"

ListLetters ==
    /\ stage = "list"
    /\ AskAgain
    /\ Inspect
    /\ UNCHANGED <<provider, now, letters, retries, tries, recovered, began, overdue>>

\* Bug: the delays of the backoff are not bounded.
Doubled(attempt) == 2 * 2^(attempt - 1)

Delay(attempt) == Least(MaxDelay, 2 * 2^(attempt - 1))

DetailDue(l) == provider # "cloudmail" /\ now >= retries[l].next

Attempted(l) == [attempts |-> retries[l].attempts + 1,
                 next |-> now + Delay(retries[l].attempts + 1)]

Unmatched(l) ==
    /\ stage = "inspect"
    /\ l \in unread
    /\ ~Ours(l)
    /\ unread' = unread \ {l}
    /\ UNCHANGED <<provider, now, stage, letters, retries, resendAt, resends, tries, recovered, began, overdue>>

\* cloudflare asks for the detail before it looks for a code, the others
\* only when the list has none.
Read(l) ==
    /\ stage = "inspect"
    /\ l \in unread
    /\ Ours(l)
    /\ LET asks == DetailDue(l) /\ (provider = "cloudflare" \/ letters[l].code # "list")
       IN  \E answered \in IF asks THEN BOOLEAN ELSE {FALSE} :
              /\ retries' = IF asks THEN [retries EXCEPT ![l] = Attempted(l)] ELSE retries
              /\ IF letters[l].code = "list" \/ (answered /\ letters[l].code = "detail")
                   THEN stage' = "found" /\ unread' = {}
                   ELSE stage' = stage /\ unread' = unread \ {l}
              /\ overdue' = IF asks /\ ~answered THEN [overdue EXCEPT ![l] = 0] ELSE overdue
    /\ UNCHANGED <<provider, now, letters, resendAt, resends, tries, recovered, began>>

EndRound ==
    /\ stage = "inspect"
    /\ unread = {}
    /\ stage' = "sleep"
    /\ UNCHANGED <<provider, now, letters, retries, unread, resendAt, resends, tries, recovered, began, overdue>>

-----------------------------------------------------------------------------
(* cloudmail: the public token is rejected.                                *)

Remaining == Timeout - now

Rejected ==
    /\ stage = "list"
    /\ provider = "cloudmail"
    /\ AskAgain
    /\ IF recovered
         THEN stage' = "denied again" /\ UNCHANGED <<tries, recovered, began>>
         ELSE /\ stage' = "recover"
              /\ recovered' = TRUE
              /\ began' = now
              /\ tries' = Schedule(now, Offsets, Least(Convergence, Remaining))
    /\ Forgiven
    /\ UNCHANGED <<provider, now, letters, retries, unread>>

\* One request of cloudmail_wait_for_auth.
TryAgain ==
    /\ stage = "recover"
    /\ now' = Min(tries)
    /\ \/ /\ tries' = {}
          /\ Inspect
       \/ /\ tries' = {}  \* another error ends the wait
          /\ stage' = "broken"
          /\ UNCHANGED unread
       \/ /\ tries' = tries \ {now'}
          /\ stage' = IF tries' = {} THEN "denied" ELSE "recover"
          /\ UNCHANGED unread
    /\ UNCHANGED <<provider, letters, retries, resendAt, resends, recovered, began, overdue>>

\* cloudmail_preflight of the slot, before the address is used; an error
\* that is not a rejection is left to the polling. The wait for the code
\* starts its own clock.
Preflight ==
    /\ stage = "preflight"
    /\ \/ /\ stage' = "list"
          /\ tries' = {}
          /\ now' = 0
       \/ /\ now' = Min(tries)
          /\ tries' = tries \ {now'}
          /\ stage' = IF tries' = {} THEN "denied" ELSE "preflight"
    /\ UNCHANGED <<provider, letters, retries, unread, resendAt, resends, recovered, began, overdue>>

-----------------------------------------------------------------------------
PollNext ==
    \/ \E l \in Letters : Arrive(l) \/ Unmatched(l) \/ Read(l)
    \/ Sleep
    \/ PollCancelled
    \/ ListFails
    \/ ListLetters
    \/ EndRound
    \/ Rejected
    \/ TryAgain
    \/ Preflight

-----------------------------------------------------------------------------
(* Properties.                                                             *)

\* A code that can be read is found within the longest delay of the backoff
\* and one round, as long as no request fails, however often the letter was
\* fetched in vain before.
CodeFoundInTime == stage = "sleep" => \A l \in Letters : overdue[l] < Bound

\* A registration is given up for a public token that was never accepted
\* since its first rejection only after the time Workers KV may take to
\* converge, or at the end of the wait for the code, which the recovery
\* does not outlast.
DeniedOnlyAfterConvergence ==
    /\ stage = "denied" => \/ now - began >= Convergence
                           \/ now > Timeout - Min(Offsets)
    /\ recovered /\ stage \in {"recover", "broken", "denied"} => now <= Timeout

=============================================================================
