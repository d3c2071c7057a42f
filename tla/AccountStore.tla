---------------------------- MODULE AccountStore ----------------------------
(***************************************************************************)
(* Where registered accounts are kept: the SQLite table and its tombstones *)
(* (storage/database.py), the TXT exports and the pending queue            *)
(* (account_outputs.py), the importer that reads those files back          *)
(* (storage/legacy_import.py), and the tasks that change them: a           *)
(* registration, a reauthentication job (reauth_jobs.py), deletions from   *)
(* the web interface (web/server.py) and the retry-pending command.        *)
(*                                                                         *)
(* A database transaction and a file written under its lock are one action *)
(* each; everything a task does between two of them interleaves.           *)
(*                                                                         *)
(* Abstractions: an account is its identity, the email and the session;    *)
(* the lines of a file are a set; a file's fingerprint is whether it       *)
(* differs from the one last recorded; passwords, profiles and integration *)
(* states are left out.                                                    *)
(***************************************************************************)
EXTENDS Naturals, FiniteSets, Functions

CONSTANTS Emails,
          Legacy,      \* emails with a line in a TXT of an earlier version
          Queued,      \* emails in a pending queue of an earlier version
          Requests,    \* sets of row ids that a request may name
          MaxId,       \* bound on row ids
          MaxSession,  \* bound on the sessions xAI issues for each email
          Importers,   \* threads that import files: the web's, the job's
          Nobody       \* holder of a free file lock

ASSUME StoreAssumption ==
    /\ Legacy \subseteq Emails
    /\ Queued \subseteq Emails
    /\ Requests \subseteq SUBSET (1..MaxId) \ {{}}
    /\ MaxId \in Nat
    /\ MaxSession \in [Emails -> Nat \ {0}]
    /\ IsFiniteSet(Emails)
    /\ Nobody \notin Importers \cup {"cli"}
    /\ "cli" \notin Importers

VARIABLES
    accounts,    \* accounts table: row id to identity
    recovering,  \* rows whose registration_status is pending_recovery
    linked,      \* account_artifacts of type legacy_txt of each row
    tombs,       \* account_tombstones
    file,        \* identities in each file
    changed,     \* files that differ from their legacy_imports fingerprint
    lock,        \* FileLock of each file
    imports,     \* what each importer does
    issued,      \* sessions xAI has issued for each email
    running,     \* the registration task: "off", "on", "export"
    made,        \* row and identity the registration has just saved
    maintenance, \* _maintenance_state is account_reauthentication
    deleting,    \* rows a delete request may delete: it passed its check
    retry,       \* what the retry-pending command does
    job,         \* the latest reauthentication job
    past,        \* identities that left the table (history)
    saved        \* identities some write has saved (history)

dbVars   == <<accounts, recovering, linked, tombs>>
fileVars == <<file, changed, lock>>
taskVars == <<running, made, maintenance>>
vars == <<dbVars, fileVars, imports, issued, taskVars, deleting, retry, job, past, saved>>

Ids      == 1..MaxId
TxtFiles == {"batch", "reauthenticated"}
Files    == TxtFiles \cup {"pending"}
Sessions == Emails \X Nat
Identity == [email : Emails, sso : Sessions]
JobStates == {"start", "next", "login", "update", "export"}

Rows == DOMAIN accounts
Live == {accounts[id] : id \in Rows}

Idle == [phase |-> "idle", src |-> "batch", recs |-> {}, ids |-> {}, fresh |-> TRUE]

NoJob == [state |-> "none", todo |-> {}, at |-> 0, items |-> <<>>, orphans |-> {},
          lost |-> FALSE, snap |-> <<>>, paths |-> {}, old |-> <<>>, new |-> <<>>, stop |-> FALSE]

TypeOK ==
    /\ Rows \subseteq Ids
    /\ accounts \in [Rows -> Identity]
    /\ recovering \subseteq Rows
    /\ linked \in [Rows -> SUBSET TxtFiles]
    /\ tombs \subseteq Identity
    /\ file \in [Files -> SUBSET Identity]
    /\ changed \subseteq Files
    /\ lock \in [Files -> Importers \cup {"cli", Nobody}]
    /\ issued \in [Emails -> Nat]
    /\ running \in {"off", "on", "export"}
    /\ made \in [id : Ids \cup {0}, who : Identity \cup {<<>>}]
    /\ maintenance \in BOOLEAN
    /\ deleting \subseteq Ids
    /\ retry \in [phase : {"idle", "appended"}, kept : SUBSET Identity]
    /\ job.state \in JobStates \cup {"none"}
    /\ past \subseteq Identity
    /\ saved \subseteq Identity

-----------------------------------------------------------------------------
(* The database.                                                           *)

Update(f, S, v) == [x \in DOMAIN f |-> IF x \in S THEN v ELSE f[x]]

Without(f, S) == [x \in DOMAIN f \ S |-> f[x]]

Top == IF Rows = {} THEN 0 ELSE CHOOSE id \in Rows : \A other \in Rows : other <= id

\* SQLite numbers a new row after the largest id in use, so that the id of a
\* deleted last row is given out again.
NewIds(n) == (Top + 1)..(Top + n)

\* What left the table in this step is history, unless a registration has
\* just made it anew.
Remember(natively) == past' = (past \cup (Live \ Live')) \ natively

\* _insert_account for rows that are not in the table yet.
AddRows(who) ==
    /\ Top + Cardinality(who) <= MaxId
    /\ \E add \in Bijection(NewIds(Cardinality(who)), who) :
          accounts' = [id \in Rows \cup DOMAIN add |-> IF id \in Rows THEN accounts[id] ELSE add[id]]
    /\ linked' = [id \in DOMAIN accounts' |-> IF id \in Rows THEN linked[id] ELSE {}]

RowsOf(who) == {id \in Rows : accounts[id] \in who}

\* Bug: an import does not look at the tombstones.
Unburied(who) == who \ Live

\* An import adds what is neither in the table nor under a tombstone.
Importable(who) == who \ (Live \cup tombs)

\* A line of a TXT file turns a row that was waiting for recovery into a
\* registered one.
InsertImported(who, pending) ==
    LET fresh == Importable(who)
    IN  /\ AddRows(fresh)
        /\ recovering' = IF pending THEN recovering \cup (DOMAIN accounts' \ Rows)
                                    ELSE recovering \ RowsOf(who \ tombs)
        /\ UNCHANGED tombs

\* A native registration replaces the tombstone and the row of its identity.
InsertNative(who) ==
    /\ AddRows({who} \ Live)
    /\ recovering' = recovering \ RowsOf({who})
    /\ tombs' = tombs \ {who}

\* update_account_session: a tombstone for the identity the row loses, if any.
ReplaceSession(id, sso) ==
    /\ tombs' = tombs \cup ({accounts[id]} \ {[accounts[id] EXCEPT !.sso = sso]})
    /\ accounts' = [accounts EXCEPT ![id].sso = sso]
    /\ UNCHANGED <<recovering, linked>>

\* Bug: foreign keys are not enforced on the connection.
ArtifactsKept(S) == linked

\* The foreign key of account_artifacts cascades.
ArtifactsAfter(S) == Without(linked, S)

\* add_artifacts, as far as the legacy_txt ones go.
Link(ids, f) ==
    [id \in Rows |-> linked[id] \cup (IF id \in ids THEN {f} \cap TxtFiles ELSE {})]

\* _delete_accounts: a tombstone for each row, then the rows.
DeleteRows(S) ==
    /\ tombs' = tombs \cup {accounts[id] : id \in S \cap Rows}
    /\ accounts' = Without(accounts, S)
    /\ recovering' = recovering \ S
    /\ linked' = ArtifactsAfter(S)

-----------------------------------------------------------------------------
(* The files.  Whoever writes one changes its fingerprint, also the one an *)
(* importer has read and not yet recorded.                                 *)

Stale(f) == [p \in Importers |-> IF imports[p].phase = "record" /\ imports[p].src = f
                                 THEN [imports[p] EXCEPT !.fresh = FALSE] ELSE imports[p]]

Write(f, content) ==
    /\ file' = [file EXCEPT ![f] = content]
    /\ changed' = changed \cup {f}
    /\ imports' = Stale(f)

\* ensure_account_line and retry_pending_file append what is missing.
Append(f, lines) ==
    IF lines \subseteq file[f]
    THEN UNCHANGED <<file, changed, imports>>
    ELSE Write(f, file[f] \cup lines)

Unlocked(f) == lock[f] = Nobody

Import(p, phase) == [imports EXCEPT ![p].phase = phase]

-----------------------------------------------------------------------------
(* Importing a file: read under its lock, inserted in one transaction,     *)
(* attached in another, recorded in a third after the lock is released.    *)

\* The registration task imports once, before its batch; the web imports at
\* each request that opens the database.
ReadFile(p, f) ==
    /\ imports[p].phase = "idle"
    /\ f \in changed
    /\ file[f] # {}
    /\ Unlocked(f)
    /\ lock' = [lock EXCEPT ![f] = p]
    /\ imports' = [imports EXCEPT ![p] =
           [phase |-> "read", src |-> f, recs |-> file[f], ids |-> {}, fresh |-> TRUE]]
    /\ UNCHANGED <<dbVars, file, changed, issued, taskVars, deleting, retry, job, past, saved>>

InsertRecords(p) ==
    LET who == imports[p].recs
    IN  /\ imports[p].phase = "read"
        /\ InsertImported(who, imports[p].src = "pending")
        /\ Remember({})
        /\ imports' = [imports EXCEPT ![p].phase = "inserted", ![p].recs = {},
                          ![p].ids = {id \in DOMAIN accounts' : accounts'[id] \in who \ tombs}]
        /\ UNCHANGED <<fileVars, issued, taskVars, deleting, retry, job, saved>>

\* A row deleted since its insertion violates the foreign key: the import
\* fails and the file is read again another time.
AttachSource(p) ==
    LET f   == imports[p].src
        ids == imports[p].ids
    IN  /\ imports[p].phase = "inserted"
        /\ lock' = [lock EXCEPT ![f] = Nobody]
        /\ IF ids \subseteq Rows
           THEN /\ linked' = Link(ids, f)
                /\ imports' = Import(p, "record")
           ELSE /\ UNCHANGED linked
                /\ imports' = [imports EXCEPT ![p] = Idle]
        /\ UNCHANGED <<accounts, recovering, tombs, file, changed, issued, taskVars, deleting, retry,
                       job, past, saved>>

\* Bug: the fingerprint is the one of the file as it is now.
ReadAgain(p) == TRUE

\* The fingerprint was taken under the lock.
StillFresh(p) == imports[p].fresh

RecordImport(p) ==
    LET f == imports[p].src
    IN  /\ imports[p].phase = "record"
        /\ changed' = IF StillFresh(p) THEN changed \ {f} ELSE changed \cup {f}
        /\ imports' = [imports EXCEPT ![p] = Idle]
        /\ UNCHANGED <<dbVars, file, lock, issued, taskVars, deleting, retry, job, past, saved>>

\* A busy database or an unreadable file ends an import anywhere.
AbortImport(p) ==
    /\ imports[p].phase # "idle"
    /\ lock' = [f \in Files |-> IF lock[f] = p THEN Nobody ELSE lock[f]]
    /\ imports' = [imports EXCEPT ![p] = Idle]
    /\ UNCHANGED <<dbVars, file, changed, issued, taskVars, deleting, retry, job, past, saved>>

-----------------------------------------------------------------------------
(* Registration.                                                           *)

StartRegistration ==
    /\ running = "off"
    /\ ~maintenance
    /\ running' = "on"
    /\ UNCHANGED <<dbVars, fileVars, imports, issued, made, maintenance, deleting, retry, job, past, saved>>

\* xAI has created the account of a new email: its row is inserted, or it is
\* queued, or both writes fail.
Persist(e) ==
    LET who == [email |-> e, sso |-> <<e, 1>>]
    IN  /\ running = "on"
        /\ issued[e] = 0
        /\ issued' = [issued EXCEPT ![e] = 1]
        /\ \/ /\ InsertNative(who)
              /\ running' = "export"
              /\ made' = [id |-> CHOOSE id \in DOMAIN accounts' : accounts'[id] = who, who |-> who]
              /\ Remember({who})
              /\ saved' = saved \cup {who}
              /\ UNCHANGED <<file, changed, imports>>
           \/ /\ Unlocked("pending")
              /\ Write("pending", file["pending"] \cup {who})
              /\ saved' = saved \cup {who}
              /\ UNCHANGED <<dbVars, running, made, past>>
           \/ UNCHANGED <<dbVars, running, made, file, changed, imports, past, saved>>
        /\ UNCHANGED <<lock, maintenance, deleting, retry, job>>

\* ensure_account_line, then the artifact; either may fail with a warning.
ExportLine ==
    /\ running = "export"
    /\ running' = "on"
    /\ made' = [id |-> 0, who |-> <<>>]
    /\ \/ /\ Unlocked("batch")
          /\ Append("batch", {made.who})
          /\ linked' \in {linked, Link({made.id}, "batch")}
       \/ UNCHANGED <<file, changed, imports, linked>>
    /\ UNCHANGED <<accounts, recovering, tombs, lock, issued, maintenance, deleting, retry, job, past, saved>>

EndRegistration ==
    /\ running = "on"
    /\ running' = "off"
    /\ UNCHANGED <<dbVars, fileVars, imports, issued, made, maintenance, deleting, retry, job, past, saved>>

-----------------------------------------------------------------------------
(* Deleting accounts.                                                      *)

\* Bug: the registration task is not asked for.
NoMaintenance == ~maintenance

\* _require_account_edits_idle looks at the tasks and lets go of the lock; the
\* request's body or an import of the files comes before the deletion.
NoTask == running = "off" /\ ~maintenance

CheckDelete(S) ==
    /\ NoTask
    /\ deleting = {}
    /\ deleting' = S
    /\ UNCHANGED <<dbVars, fileVars, imports, issued, taskVars, retry, job, past, saved>>

\* The items of a job keep their status and lose their account.
Delete ==
    /\ deleting # {}
    /\ DeleteRows(deleting)
    /\ Remember({})
    /\ job' = [job EXCEPT !.items = Without(@, deleting),
                          !.orphans = @ \cup {job.items[id] : id \in DOMAIN job.items \cap deleting \cap Rows},
                          !.lost = @ \/ deleting \cap Rows \cap DOMAIN job.snap # {}]
    /\ deleting' = {}
    /\ UNCHANGED <<fileVars, imports, issued, taskVars, retry, saved>>

-----------------------------------------------------------------------------
(* The reauthentication job.                                               *)

\* start_reauthentication and ReauthManager.start: the accounts are read
\* once, before the job is created.
StartReauth(S) ==
    /\ NoTask
    /\ S \subseteq Rows
    /\ maintenance' = TRUE
    /\ job' = [NoJob EXCEPT !.state = "start",
                   !.snap = [id \in S |-> [email |-> accounts[id].email, paths |-> linked[id]]]]
    /\ UNCHANGED <<dbVars, fileVars, imports, issued, running, made, deleting, retry, past, saved>>

\* create_job names the rows it works on; one that is gone fails the start.
CreateJob ==
    LET S == DOMAIN job.snap
    IN  /\ job.state = "start"
        /\ S \subseteq Rows
        /\ job' = [job EXCEPT !.state = "next", !.todo = S, !.items = [id \in S |-> "pending"]]
        /\ UNCHANGED <<dbVars, fileVars, imports, issued, taskVars, deleting, retry, past, saved>>

\* update_job_item finds an item by its account: one that lost its account
\* keeps its status.
Mark(items, id, status) == Update(items, {id}, status)

Try(id) ==
    job' = [job EXCEPT !.state = "login", !.at = id, !.todo = @ \ {id}, !.items = Mark(@, id, "running")]

Done(id, status) ==
    job' = [job EXCEPT !.state = "next", !.at = 0, !.todo = @ \ {id}, !.items = Mark(@, id, status),
                       !.old = <<>>, !.new = <<>>]

\* An account is skipped after a stop, fails without a password, or is tried.
NextAccount(id) ==
    /\ job.state = "next"
    /\ id \in job.todo
    /\ IF job.stop THEN Done(id, "skipped") ELSE Done(id, "failed") \/ Try(id)
    /\ UNCHANGED <<dbVars, fileVars, imports, issued, taskVars, deleting, retry, past, saved>>

\* Bug: the browser is still signed in to another account.
SharedBrowser(e, sso) ==
    LET others == {f \in Emails \ {e} : issued[f] > 0}
    IN  IF others = {} THEN sso ELSE LET f == CHOOSE f \in others : TRUE IN <<f, issued[f]>>

Obtained(e, sso) == sso

\* The login, in a browser of its own, gives the email a fresh session, fails,
\* or notices the stop.
Login ==
    LET e   == job.snap[job.at].email
        sso == <<e, issued[e] + 1>>
    IN  /\ job.state = "login"
        /\ \/ /\ issued[e] < MaxSession[e]
              /\ issued' = [issued EXCEPT ![e] = @ + 1]
              /\ IF job.stop
                 THEN Done(job.at, "skipped")
                 ELSE job' = [job EXCEPT !.state = "update", !.new = Obtained(e, sso)]
           \/ Done(job.at, "failed") /\ UNCHANGED issued
           \/ job.stop /\ Done(job.at, "skipped") /\ UNCHANGED issued
        /\ UNCHANGED <<dbVars, fileVars, imports, taskVars, deleting, retry, past, saved>>

\* A row that is gone, or a database that is busy, fails the account.
StoreSession ==
    LET paths == job.snap[job.at].paths
    IN  /\ job.state = "update"
        /\ \/ /\ job.at \in Rows
              /\ ReplaceSession(job.at, job.new)
              /\ Remember({})
              /\ job' = [job EXCEPT !.state = "export", !.old = accounts[job.at].sso,
                                    !.paths = IF paths = {} THEN {"reauthenticated"} ELSE paths]
           \/ Done(job.at, "failed") /\ UNCHANGED <<dbVars, past>>
        /\ UNCHANGED <<fileVars, imports, issued, taskVars, deleting, retry, saved>>

\* replace_account_session for each file, then the artifact; a failure is a
\* warning.
RestoreExport(f) ==
    LET e    == job.snap[job.at].email
        keys == {[email |-> e, sso |-> job.old], [email |-> e, sso |-> job.new]}
    IN  /\ job.state = "export"
        /\ f \in job.paths
        /\ job' = [job EXCEPT !.paths = @ \ {f}]
        /\ \/ /\ Unlocked(f)
              /\ Write(f, (file[f] \ keys) \cup {[email |-> e, sso |-> job.new]})
              /\ linked' \in {linked, Link({job.at}, f)}
           \/ UNCHANGED <<file, changed, imports, linked>>
        /\ UNCHANGED <<accounts, recovering, tombs, lock, issued, taskVars, deleting, retry, past, saved>>

\* The session is stored; when "succeeded" cannot be written the account is
\* reported as failed all the same.
FinishAccount ==
    /\ job.state = "export"
    /\ job.paths = {}
    /\ Done(job.at, "succeeded") \/ Done(job.at, "failed")
    /\ UNCHANGED <<dbVars, fileVars, imports, issued, taskVars, deleting, retry, past, saved>>

\* The job is completed once it has nothing left to do, and fails at any time
\* by an error of its own bookkeeping, or because it could not start.  The
\* maintenance ends with it and its items are history.
EndJob ==
    /\ job.state \in JobStates
    /\ job' = NoJob
    /\ maintenance' = FALSE
    /\ UNCHANGED <<dbVars, fileVars, imports, issued, running, made, deleting, retry, past, saved>>

StopReauth ==
    /\ job.state \in JobStates \ {"start"}
    /\ ~job.stop
    /\ job' = [job EXCEPT !.stop = TRUE]
    /\ UNCHANGED <<dbVars, fileVars, imports, issued, taskVars, deleting, retry, past, saved>>

-----------------------------------------------------------------------------
(* retry-pending, a process of its own that holds both locks.              *)

\* Bug: the entries leave the queue before they are in the TXT.
DroppedFirst(restored) == {}

\* The entries that could be appended, each once.
Appended(restored) == restored

AppendPending ==
    /\ retry.phase = "idle"
    /\ file["pending"] # {}
    /\ Unlocked("pending") /\ Unlocked("batch")
    /\ lock' = [lock EXCEPT !["pending"] = "cli", !["batch"] = "cli"]
    /\ \E restored \in SUBSET file["pending"] :
          /\ Append("batch", Appended(restored))
          /\ retry' = [phase |-> "appended", kept |-> file["pending"] \ restored]
    /\ UNCHANGED <<dbVars, issued, taskVars, deleting, job, past, saved>>

RewritePending ==
    /\ retry.phase = "appended"
    /\ Write("pending", retry.kept)
    /\ lock' = [lock EXCEPT !["pending"] = Nobody, !["batch"] = Nobody]
    /\ retry' = [phase |-> "idle", kept |-> {}]
    /\ UNCHANGED <<dbVars, issued, taskVars, deleting, job, past, saved>>

KillRetry ==
    /\ retry.phase = "appended"
    /\ lock' = [lock EXCEPT !["pending"] = Nobody, !["batch"] = Nobody]
    /\ retry' = [phase |-> "idle", kept |-> {}]
    /\ UNCHANGED <<dbVars, file, changed, imports, issued, taskVars, deleting, job, past, saved>>

-----------------------------------------------------------------------------

\* The web process dies with its tasks, requests and locks and starts again;
\* nothing resumes the job.
Restart ==
    /\ running' = "off"
    /\ made' = [id |-> 0, who |-> <<>>]
    /\ maintenance' = FALSE
    /\ deleting' = {}
    /\ imports' = [p \in Importers |-> Idle]
    /\ lock' = [f \in Files |-> IF lock[f] = "cli" THEN "cli" ELSE Nobody]
    /\ job' = NoJob
    /\ UNCHANGED <<dbVars, file, changed, issued, retry, past, saved>>

\* A new database beside the files of an earlier version.
Init ==
    /\ accounts = <<>>
    /\ recovering = {}
    /\ linked = <<>>
    /\ tombs = {}
    /\ file = [f \in Files |-> {[email |-> e, sso |-> <<e, 1>>] : e \in
                  CASE f = "batch" -> Legacy [] f = "pending" -> Queued [] OTHER -> {}}]
    /\ changed = {f \in Files : file[f] # {}}
    /\ lock = [f \in Files |-> Nobody]
    /\ imports = [p \in Importers |-> Idle]
    /\ issued = [e \in Emails |-> IF e \in Legacy \cup Queued THEN 1 ELSE 0]
    /\ running = "off"
    /\ made = [id |-> 0, who |-> <<>>]
    /\ maintenance = FALSE
    /\ deleting = {}
    /\ retry = [phase |-> "idle", kept |-> {}]
    /\ job = NoJob
    /\ past = {}
    /\ saved = UNION {file[f] : f \in Files}

Importing(p) ==
    \/ \E f \in Files : ReadFile(p, f)
    \/ InsertRecords(p)
    \/ AttachSource(p)
    \/ RecordImport(p)
    \/ AbortImport(p)

Registering == StartRegistration \/ (\E e \in Emails : Persist(e)) \/ ExportLine \/ EndRegistration

Reauthenticating ==
    \/ CreateJob
    \/ \E id \in Ids : NextAccount(id)
    \/ Login
    \/ StoreSession
    \/ \E f \in TxtFiles : RestoreExport(f)
    \/ FinishAccount
    \/ EndJob

Next ==
    \/ \E p \in Importers : Importing(p)
    \/ Registering
    \/ \E S \in Requests : CheckDelete(S) \/ StartReauth(S)
    \/ Delete
    \/ Reauthenticating
    \/ StopReauth
    \/ AppendPending \/ RewritePending \/ KillRetry
    \/ Restart

Spec == Init /\ [][Next]_vars

-----------------------------------------------------------------------------
(* Properties.                                                             *)

\* An identity that was deleted or replaced by a new session is never back in
\* the table, whatever files still list it and whoever imports them, unless
\* a registration makes it anew.
NoResurrection == past \cap Live = {}

\* An account that some write has saved stays recoverable until it is deleted
\* or its session is replaced: it is in the table or in a file.
SavedNotLost == saved \subseteq Live \cup past \cup file["batch"] \cup file["pending"]

\* A file that imports skip has nothing to import: each of its accounts is in
\* the table, or was removed from it, and none from a TXT waits for recovery.
SkippedFilesImported ==
    \A f \in Files \ changed :
        /\ file[f] \subseteq Live \cup tombs
        /\ f \in TxtFiles => RowsOf(file[f]) \cap recovering = {}

\* A registration and a reauthentication never run at the same time.
OneTask == running # "off" => job.state \notin JobStates

\* The session of one account is stored under another's email only if a row
\* of the job was deleted after the job read it and its id was used again.
ForeignSessionNeedsDeletion ==
    [][\A id \in Rows \cap DOMAIN accounts' :
          accounts'[id] # accounts[id] /\ accounts'[id].sso[1] # accounts'[id].email
              => job.lost]_vars
=============================================================================
