---------------------------- MODULE RiskQuarantine ----------------------------
(***************************************************************************)
(* The risk gate of a freshly registered account (sso_risk.py): the page   *)
(* grok.com serves for its session is searched for risk marks, a marked    *)
(* account is written to the quarantine file, or to a pending file when    *)
(* that fails, and a recovery moves the pending rows over later.           *)
(*                                                                         *)
(* Each append is one action, since it is made under the lock of its file. *)
(* The recovery holds the lock of the pending file throughout.  An append  *)
(* may fail after its line is written, because fsync is part of it.        *)
(***************************************************************************)
EXTENDS Naturals, ConfirmedAccounts

CONSTANTS GateEnabled,  \* sso_risk_gate_enabled
          Pages,        \* what grok.com may say of an account: sources of its flags, policies
          MaxBlind      \* bound on recoveries that cannot read the quarantine

ASSUME RiskAssumption ==
    /\ GateEnabled \in BOOLEAN
    /\ Pages \subseteq [sources : SUBSET Nat, policies : SUBSET STRING]
    /\ MaxBlind \in Nat

VARIABLES
    verdict,      \* how far the screening of each account is
    rejected,     \* number of lines of each account in the quarantine file
    riskPending,  \* accounts with a row in the risk pending file
    recovery,     \* the recovery of that file
    blind         \* recoveries that could not read the quarantine (history)

riskFiles == <<rejected, riskPending, recovery, blind>>
riskVars  == <<verdict, riskFiles>>

Verdicts == {"unscreened", "blocked", "unquarantined", "denied", "unwritten", "eligible"}

NoRecovery == [running |-> FALSE, todo |-> {}, existing |-> {}, kept |-> {}]

RiskTypeOK ==
    /\ verdict \in [Accounts -> Verdicts]
    /\ rejected \in [Accounts -> Nat]
    /\ riskPending \subseteq Accounts
    /\ recovery \in [running : BOOLEAN, todo : SUBSET Accounts,
                     existing : SUBSET Accounts, kept : SUBSET Accounts]
    /\ blind \in 0..MaxBlind

-----------------------------------------------------------------------------
(* Screening.                                                              *)

\* registration_risk_should_block: one bad mark among several is enough.
Blocks(p) == "deny" \in p.policies \/ p.sources \cap {1, 2} # {}

Decide(a, v) == verdict' = [verdict EXCEPT ![a] = v]

\* The gate may be off; a page that cannot be read blocks nobody.
Inspect(a) ==
    /\ verdict[a] = "unscreened"
    /\ \/ Decide(a, "eligible")
       \/ /\ GateEnabled
          /\ \E p \in Pages : Decide(a, IF Blocks(p) THEN "blocked" ELSE "eligible")
    /\ UNCHANGED riskFiles

AppendRejected(a) == rejected' = [rejected EXCEPT ![a] = @ + 1]

Quarantine(a) ==
    /\ verdict[a] = "blocked"
    /\ \/ AppendRejected(a) /\ Decide(a, "denied")
       \/ AppendRejected(a) /\ Decide(a, "unquarantined")
       \/ UNCHANGED rejected /\ Decide(a, "unquarantined")
    /\ UNCHANGED <<riskPending, recovery, blind>>

\* Bug: rows are appended while a recovery rewrites the file.
PendingNotLocked == TRUE

PendingFree == ~recovery.running

\* The lock is waited for, for 30 seconds.
QueuePending(a) ==
    /\ verdict[a] = "unquarantined"
    /\ \/ PendingFree /\ riskPending' = riskPending \cup {a} /\ Decide(a, "denied")
       \/ PendingFree /\ riskPending' = riskPending \cup {a} /\ Decide(a, "unwritten")
       \/ UNCHANGED riskPending /\ Decide(a, "unwritten")
    /\ UNCHANGED <<rejected, recovery, blind>>

-----------------------------------------------------------------------------
(* retry_sso_risk_pending_file.                                            *)

Quarantined == {a \in Accounts : rejected[a] > 0}

\* The rows and what the quarantine already has are read; when the second
\* reading fails the quarantine counts as empty.
StartRecovery ==
    /\ ~recovery.running
    /\ riskPending # {}
    /\ \E readable \in BOOLEAN :
          /\ recovery' = [running |-> TRUE, todo |-> riskPending, kept |-> {},
                          existing |-> IF readable THEN Quarantined ELSE {}]
          /\ readable \/ blind < MaxBlind
          /\ blind' = IF readable THEN blind ELSE blind + 1
    /\ UNCHANGED <<verdict, rejected, riskPending>>

\* Bug: what the quarantine already has is not looked up.
NothingThere(a) == FALSE

AlreadyThere(a) == a \in recovery.existing

RecoverRow(a) ==
    /\ recovery.running
    /\ a \in recovery.todo
    /\ LET next == [recovery EXCEPT !.todo = @ \ {a}]
       IN  \/ AlreadyThere(a) /\ recovery' = next /\ UNCHANGED rejected
           \/ ~AlreadyThere(a) /\ recovery' = next /\ AppendRejected(a)
           \/ /\ ~AlreadyThere(a)
              /\ recovery' = [next EXCEPT !.kept = @ \cup {a}]
              /\ AppendRejected(a) \/ UNCHANGED rejected
    /\ UNCHANGED <<verdict, riskPending, blind>>

\* Bug: the rows that could not be moved are not kept.
NoneRemain == {}

Remaining == recovery.kept

\* The file is replaced, or removed, in one step, or not at all.
EndRecovery ==
    /\ recovery.running
    /\ recovery.todo = {}
    /\ riskPending' \in {Remaining, riskPending}
    /\ recovery' = NoRecovery
    /\ UNCHANGED <<verdict, rejected, blind>>

\* The process of the recovery is killed.
KillRecovery ==
    /\ recovery.running
    /\ recovery' = NoRecovery
    /\ UNCHANGED <<verdict, rejected, riskPending, blind>>

-----------------------------------------------------------------------------

RiskInit ==
    /\ verdict = [a \in Accounts |-> "unscreened"]
    /\ rejected = [a \in Accounts |-> 0]
    /\ riskPending = {}
    /\ recovery = NoRecovery
    /\ blind = 0

Screen(a) == Inspect(a) \/ Quarantine(a) \/ QueuePending(a)

Recover ==
    \/ StartRecovery
    \/ \E a \in Accounts : RecoverRow(a)
    \/ EndRecovery
    \/ KillRecovery

-----------------------------------------------------------------------------

\* An account the caller was told is denied stays recorded, in the quarantine
\* or in its pending file, whatever write fails, whatever recovery runs
\* meanwhile and wherever it is killed.
DeniedRecorded ==
    \A a \in Accounts : verdict[a] = "denied" => rejected[a] > 0 \/ a \in riskPending

\* Recovering is idempotent: a second line of an account needs a recovery
\* that could not read the quarantine.
RejectedOnce == \A a \in Accounts : rejected[a] <= 1 + blind
=============================================================================
