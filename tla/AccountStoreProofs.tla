------------------------- MODULE AccountStoreProofs -------------------------
(***************************************************************************)
(* For any emails, files of an earlier version, requests and importing     *)
(* threads: what was removed from the accounts table does not come back,   *)
(* what was saved is not lost, what imports skip has been imported, and    *)
(* the two kinds of task exclude each other.                               *)
(*                                                                         *)
(* The table's past stays under tombstones and no tombstone is in the      *)
(* table; that a new session never digs one up rests on its being unknown  *)
(* to every row, file and reader before the job stores it (StoreInv).  The *)
(* locks say what a reader's copy of a file is still good for (FileInv),   *)
(* and that a registration has the first session of its email says which   *)
(* lines a job and retry-pending may take out of a file (SavedInv).        *)
(***************************************************************************)
EXTENDS AccountStore, FiniteSetTheorems, TLAPS

\* Every identity the system may still write into the table.
Known ==
    Live \cup tombs \cup retry.kept \cup {who \in {made.who} : running = "export"}
         \cup (UNION {file[f] : f \in Files}) \cup (UNION {imports[p].recs : p \in Importers})

JobFields == {"state", "todo", "at", "items", "orphans", "lost", "snap", "paths", "old", "new", "stop"}

Shapes ==
    /\ accounts = [id \in Rows |-> accounts[id]]
    /\ issued \in [Emails -> Nat]
    /\ DOMAIN file = Files
    /\ DOMAIN imports = Importers
    /\ \A p \in Importers : DOMAIN imports[p] = {"phase", "src", "recs", "ids", "fresh"}
    /\ DOMAIN retry = {"phase", "kept"}
    /\ DOMAIN job = JobFields

\* The job works on accounts it has read.
JobRefers ==
    /\ \A id \in DOMAIN job.snap : job.snap[id].email \in Emails
    /\ job.todo \subseteq DOMAIN job.snap
    /\ job.state \in {"login", "update", "export"} => job.at \in DOMAIN job.snap

DistinctRows == \A i, j \in Rows : accounts[i] = accounts[j] => i = j

Issued(sso) == sso \in Sessions /\ 1 <= sso[2] /\ sso[2] <= issued[sso[1]]

SessionsIssued == \A who \in Known : who \in Identity /\ Issued(who.sso)

\* The session the job is about to store is nobody's yet.
NewSession ==
    /\ job.state \in {"update", "export"} => Issued(job.new)
    /\ job.state = "update" => \A who \in Known : who.sso # job.new

Buried == past \subseteq tombs /\ tombs \cap Live = {}

StoreInv == Shapes /\ JobRefers /\ DistinctRows /\ SessionsIssued /\ NewSession /\ Buried

-----------------------------------------------------------------------------

\* A step that makes nothing known, gives no session back and lets the job go
\* on with the session it has keeps the sessions issued and the new one new.
LEMMA NothingNew ==
    ASSUME StoreInv, Shapes', JobRefers', DistinctRows', Buried',
           Known' \subseteq Known,
           \A e \in Emails : issued[e] <= issued'[e],
           job'.state \in {"update", "export"} =>
               job.state \in {"update", "export"} /\ job'.new = job.new,
           job'.state = "update" => job.state = "update"
    PROVE  StoreInv'
<1> USE DEF StoreInv
<1>1. ASSUME NEW sso, Issued(sso) PROVE Issued(sso)'
    BY <1>1 DEF Issued, Sessions, Shapes
<1>2. SessionsIssued'
    BY <1>1 DEF SessionsIssued
<1>3. NewSession'
    BY <1>1 DEF NewSession
<1> QED BY <1>2, <1>3

LEMMA SameTable ==
    ASSUME StoreInv, UNCHANGED <<accounts, tombs, past>>
    PROVE  DistinctRows' /\ Buried' /\ Live' = Live
BY DEF StoreInv, DistinctRows, Buried, Rows, Live

\* Writing a file changes what an importer believes of it, not what it read.
LEMMA StaleReaders ==
    ASSUME StoreInv, NEW f, imports' = Stale(f)
    PROVE  /\ DOMAIN imports' = Importers
           /\ \A p \in Importers : /\ DOMAIN imports'[p] = {"phase", "src", "recs", "ids", "fresh"}
                                   /\ imports'[p].recs = imports[p].recs
BY DEF StoreInv, Shapes, Stale

LEMMA KnownParts ==
    /\ Live \subseteq Known
    /\ tombs \subseteq Known
    /\ \A f \in Files : file[f] \subseteq Known
    /\ \A p \in Importers : imports[p].recs \subseteq Known
    /\ retry.kept \subseteq Known
    /\ running = "export" => made.who \in Known
<1>1. \A f \in Files : file[f] \subseteq UNION {file[g] : g \in Files}
    OBVIOUS
<1>2. \A p \in Importers : imports[p].recs \subseteq UNION {imports[q].recs : q \in Importers}
    OBVIOUS
<1> QED BY <1>1, <1>2 DEF Known

LEMMA KnownNext ==
    ASSUME NEW S,
           Live' \subseteq S,
           tombs' \subseteq S,
           \A f \in Files : file'[f] \subseteq S,
           \A p \in Importers : imports'[p].recs \subseteq S,
           retry'.kept \subseteq S,
           running' = "export" => made'.who \in S
    PROVE  Known' \subseteq S
<1>1. (UNION {file[f] : f \in Files})' \subseteq S
    OBVIOUS
<1>2. (UNION {imports[p].recs : p \in Importers})' \subseteq S
    OBVIOUS
<1>3. {who \in {made.who} : running = "export"}' \subseteq S
    OBVIOUS
<1> QED BY <1>1, <1>2, <1>3 DEF Known

LEMMA InitHolds == Init => StoreInv
<1> SUFFICES ASSUME Init PROVE StoreInv
    OBVIOUS
<1>1. Shapes
    BY StoreAssumption DEF Init, Shapes, Rows, NoJob, JobFields, Idle
<1>2. JobRefers
    BY DEF Init, JobRefers, NoJob
<1>3. Live = {} /\ Rows = {}
    BY DEF Init, Live, Rows
<1>4. DistinctRows /\ Buried
    BY <1>3 DEF Init, DistinctRows, Buried
<1>5. SessionsIssued
    <2> SUFFICES ASSUME NEW who \in Known PROVE who \in Identity /\ Issued(who.sso)
        BY DEF SessionsIssued
    <2>1. PICK f \in Files : who \in file[f]
        BY <1>3 DEF Init, Known, Idle
    <2>2. PICK e \in Legacy \cup Queued : who = [email |-> e, sso |-> <<e, 1>>]
        BY <2>1 DEF Init
    <2> QED BY <2>2, StoreAssumption DEF Init, Identity, Sessions, Issued
<1>6. NewSession
    BY DEF Init, NewSession, NoJob
<1> QED BY <1>1, <1>2, <1>4, <1>5, <1>6 DEF StoreInv
-----------------------------------------------------------------------------
(* The steps of an importer.                                               *)

LEMMA ImportStep ==
    ASSUME StoreInv, NEW p \in Importers, Importing(p)
    PROVE  StoreInv' /\ Known' \subseteq Known
<1> USE DEF StoreInv
<1>1. ASSUME NEW f \in Files, ReadFile(p, f) PROVE StoreInv' /\ Known' \subseteq Known
    <2>1. Shapes' /\ JobRefers'
        BY <1>1 DEF ReadFile, Shapes, JobRefers, dbVars, Rows
    <2>2. DistinctRows' /\ Buried' /\ Live' = Live
        BY <1>1, SameTable DEF ReadFile, dbVars
    <2>3. imports[p].recs \subseteq Known /\ \A q \in Importers : imports'[q].recs \subseteq Known
        BY <1>1, KnownParts DEF ReadFile, Shapes
    <2>4. Known' \subseteq Known
        BY <1>1, <2>2, <2>3, KnownParts, KnownNext DEF ReadFile, dbVars, taskVars
    <2> QED BY <1>1, <2>1, <2>2, <2>4, NothingNew DEF ReadFile, Shapes
<1>2. ASSUME InsertRecords(p) PROVE StoreInv' /\ Known' \subseteq Known
    <2> DEFINE who == imports[p].recs
               fresh == Importable(who)
               ids == NewIds(Cardinality(fresh))
    <2>1. PICK add \in Bijection(ids, fresh) :
              accounts' = [id \in Rows \cup DOMAIN add |->
                              IF id \in Rows THEN accounts[id] ELSE add[id]]
        BY <1>2 DEF InsertRecords, InsertImported, AddRows
    <2>2. /\ DOMAIN add = ids
          /\ \A i \in ids : add[i] \in fresh
          /\ \A i, j \in ids : add[i] = add[j] => i = j
        BY <2>1 DEF Bijection, Injection, IsInjective
    <2>3. Live \subseteq Live' /\ Live' \subseteq Live \cup fresh
        BY <2>1, <2>2 DEF Live, Rows
    <2>4. fresh \cap (Live \cup tombs) = {} /\ fresh \subseteq Known
        BY KnownParts DEF Importable
    <2>5. UNCHANGED <<tombs, file, issued, retry, running, made, job>> /\ past' = past
        BY <1>2, <2>3 DEF InsertRecords, InsertImported, Remember, fileVars, taskVars
    <2>6. /\ DOMAIN imports' = Importers
          /\ \A q \in Importers : DOMAIN imports'[q] = {"phase", "src", "recs", "ids", "fresh"}
          /\ \A q \in Importers : imports'[q].recs \subseteq imports[q].recs
        BY <1>2 DEF InsertRecords, Shapes
    <2>7. Shapes' /\ JobRefers'
        BY <2>1, <2>5, <2>6 DEF Shapes, JobRefers, Rows
    <2>8. DistinctRows'
        BY <2>1, <2>2, <2>4 DEF DistinctRows, Rows, Live
    <2>9. Buried'
        BY <2>3, <2>4, <2>5 DEF Buried
    <2>10. Known' \subseteq Known
        BY <2>3, <2>4, <2>5, <2>6, KnownParts, KnownNext
    <2> QED BY <2>5, <2>7, <2>8, <2>9, <2>10, NothingNew DEF Shapes
<1>3. ASSUME AttachSource(p) \/ RecordImport(p) \/ AbortImport(p) PROVE StoreInv' /\ Known' \subseteq Known
    <2>1. UNCHANGED <<accounts, tombs, past, file, issued, retry, running, made, job>>
        BY <1>3 DEF AttachSource, RecordImport, AbortImport, dbVars, fileVars, taskVars
    <2>2. /\ DOMAIN imports' = Importers
          /\ \A q \in Importers : DOMAIN imports'[q] = {"phase", "src", "recs", "ids", "fresh"}
          /\ \A q \in Importers : imports'[q].recs \subseteq imports[q].recs
        BY <1>3 DEF AttachSource, RecordImport, AbortImport, Import, Idle, Shapes
    <2>3. Shapes' /\ JobRefers'
        BY <2>1, <2>2 DEF Shapes, JobRefers, Rows
    <2>4. DistinctRows' /\ Buried' /\ Live' = Live
        BY <2>1, SameTable
    <2>5. Known' \subseteq Known
        BY <2>1, <2>2, <2>4, KnownParts, KnownNext
    <2> QED BY <2>1, <2>3, <2>4, <2>5, NothingNew DEF Shapes
<1> QED BY <1>1, <1>2, <1>3 DEF Importing
-----------------------------------------------------------------------------
(* The steps of a registration.                                            *)

\* Appending known lines to a file makes nothing new known.
LEMMA AppendKnown ==
    ASSUME StoreInv, NEW f \in Files, NEW lines \in SUBSET Known, Append(f, lines)
    PROVE  /\ DOMAIN file' = Files
           /\ \A g \in Files : file'[g] \subseteq Known
           /\ DOMAIN imports' = Importers
           /\ \A p \in Importers : /\ DOMAIN imports'[p] = {"phase", "src", "recs", "ids", "fresh"}
                                   /\ imports'[p].recs = imports[p].recs
<1>1. \A g \in Files : file[g] \subseteq Known
    BY DEF Known
<1>2. CASE lines \subseteq file[f]
    BY <1>1, <1>2 DEF Append, StoreInv, Shapes
<1>3. CASE Write(f, file[f] \cup lines)
    BY <1>1, <1>3, StaleReaders DEF Write, StoreInv, Shapes
<1> QED BY <1>2, <1>3 DEF Append

Newcomer(e) == [email |-> e, sso |-> <<e, 1>>]

\* The account of a new email is unknown until now, and so is its session.
LEMMA PersistStep ==
    ASSUME StoreInv, NEW e \in Emails, Persist(e)
    PROVE  /\ StoreInv'
           /\ Known' \subseteq Known \cup {Newcomer(e)}
           /\ Newcomer(e) \notin Known
<1> USE DEF StoreInv, Newcomer
<1> DEFINE who == [email |-> e, sso |-> <<e, 1>>]
<1>1. issued[e] = 0 /\ issued' = [issued EXCEPT ![e] = 1] /\ job' = job /\ retry' = retry
    BY DEF Persist
<1>2. who \in Identity /\ who.sso = <<e, 1>> /\ Issued(who.sso)'
    BY <1>1 DEF Identity, Sessions, Issued, Shapes
<1>3. ASSUME NEW sso, Issued(sso) PROVE Issued(sso)' /\ sso # who.sso
    <2>1. sso # <<e, 1>>
        BY <1>1, <1>3 DEF Issued
    <2>2. Issued(sso)'
        BY <1>1, <1>3 DEF Issued, Shapes, Sessions
    <2> QED BY <1>2, <2>1, <2>2
<1>4. who \notin Known
    BY <1>2, <1>3 DEF SessionsIssued
<1>5. ASSUME Shapes', DistinctRows', Buried', Known' \subseteq Known \cup {who} PROVE StoreInv'
    <2>1. JobRefers'
        BY <1>1 DEF JobRefers
    <2>2. SessionsIssued'
        BY <1>2, <1>3, <1>5 DEF SessionsIssued
    <2>3. NewSession'
        BY <1>1, <1>3, <1>5 DEF NewSession
    <2> QED BY <1>5, <2>1, <2>2, <2>3
<1>6. issued' \in [Emails -> Nat]
    BY <1>1 DEF Shapes
<1>7. CASE InsertNative(who) /\ Remember({who}) /\ running' = "export" /\ made'.who = who
           /\ UNCHANGED <<file, imports>>
    <2>1. {who} \ Live = {who}
        BY <1>4 DEF Known
    <2>2. PICK add \in Bijection(NewIds(Cardinality({who})), {who}) :
              accounts' = [id \in Rows \cup DOMAIN add |->
                              IF id \in Rows THEN accounts[id] ELSE add[id]]
        BY <1>7, <2>1 DEF InsertNative, AddRows
    <2>3. /\ \A i \in DOMAIN add : add[i] = who
          /\ \A i, j \in DOMAIN add : add[i] = add[j] => i = j
        BY <2>2 DEF Bijection, Injection, IsInjective
    <2>4. Live \subseteq Live' /\ Live' \subseteq Live \cup {who}
        BY <2>2, <2>3 DEF Live, Rows
    <2>5. tombs' = tombs \ {who} /\ past' = past \ {who}
        BY <1>7, <2>4 DEF InsertNative, Remember
    <2>6. Shapes'
        BY <1>1, <1>6, <1>7, <2>2 DEF Shapes, Rows
    <2>7. who \notin Live
        BY <1>4 DEF Known
    <2>8. DistinctRows'
        BY <2>2, <2>3, <2>7 DEF DistinctRows, Rows, Live
    <2>9. Buried'
        BY <2>4, <2>5 DEF Buried
    <2>10. /\ Live' \subseteq Known \cup {who}
           /\ tombs' \subseteq Known \cup {who}
           /\ \A f \in Files : file'[f] \subseteq Known \cup {who}
           /\ \A p \in Importers : imports'[p].recs \subseteq Known \cup {who}
           /\ retry'.kept \subseteq Known \cup {who}
           /\ made'.who \in Known \cup {who}
        BY <1>1, <1>7, <2>4, <2>5, KnownParts
    <2>11. Known' \subseteq Known \cup {who}
        <3> HIDE DEF who
        <3> QED BY <2>10, KnownNext
    <2> QED BY <1>4, <1>5, <2>6, <2>8, <2>9, <2>11
<1>8. CASE /\ UNCHANGED <<dbVars, running, made, past>>
           /\ Write("pending", file["pending"] \cup {who}) \/ UNCHANGED <<file, imports>>
    <2>1. DistinctRows' /\ Buried' /\ Live' = Live
        BY <1>8, SameTable DEF dbVars
    <2>2. "pending" \in Files
        BY DEF Files
    <2>3. /\ DOMAIN imports' = Importers
          /\ \A p \in Importers : /\ DOMAIN imports'[p] = {"phase", "src", "recs", "ids", "fresh"}
                                  /\ imports'[p].recs = imports[p].recs
        BY <1>8, StaleReaders DEF Write, Shapes
    <2>4. /\ DOMAIN file' = Files
          /\ \A f \in Files : file'[f] \subseteq file[f] \cup {who}
        BY <1>8, <2>2 DEF Write, Shapes
    <2>5. Shapes'
        BY <1>1, <1>6, <1>8, <2>3, <2>4 DEF Shapes, dbVars, Rows
    <2>6. /\ Live' \subseteq Known \cup {who}
          /\ tombs' \subseteq Known \cup {who}
          /\ \A f \in Files : file'[f] \subseteq Known \cup {who}
          /\ \A p \in Importers : imports'[p].recs \subseteq Known \cup {who}
          /\ retry'.kept \subseteq Known \cup {who}
          /\ running' = "export" => made'.who \in Known \cup {who}
        BY <1>1, <1>8, <2>1, <2>3, <2>4, KnownParts DEF dbVars
    <2>7. Known' \subseteq Known \cup {who}
        <3> HIDE DEF who
        <3> QED BY <2>6, KnownNext
    <2> QED BY <1>4, <1>5, <2>1, <2>5, <2>7
<1> QED BY <1>7, <1>8 DEF Persist

LEMMA RegistrationStep ==
    ASSUME StoreInv, Registering
    PROVE  /\ StoreInv'
           /\ \/ Known' \subseteq Known
              \/ \E e \in Emails : Persist(e) /\ Known' \subseteq Known \cup {Newcomer(e)}
<1> USE DEF StoreInv
<1>1. CASE StartRegistration \/ EndRegistration
    <2>1. UNCHANGED <<accounts, tombs, past, file, imports, issued, retry, made, job>>
          /\ running' \in {"on", "off"}
        BY <1>1 DEF StartRegistration, EndRegistration, dbVars, fileVars
    <2>2. Shapes' /\ JobRefers'
        BY <2>1 DEF Shapes, JobRefers, Rows
    <2>3. DistinctRows' /\ Buried' /\ Live' = Live
        BY <2>1, SameTable
    <2>4. Known' \subseteq Known
        BY <2>1, <2>3, KnownParts, KnownNext
    <2> QED BY <2>1, <2>2, <2>3, <2>4, NothingNew DEF Shapes
<1>2. CASE \E e \in Emails : Persist(e)
    BY <1>2, PersistStep
<1>3. CASE ExportLine
    <2>1. UNCHANGED <<accounts, tombs, past, issued, retry, job>> /\ running' = "on"
        BY <1>3 DEF ExportLine
    <2>2. {made.who} \in SUBSET Known /\ "batch" \in Files
        BY <1>3, KnownParts DEF ExportLine, Files, TxtFiles
    <2>3. Append("batch", {made.who}) \/ UNCHANGED <<file, imports>>
        BY <1>3 DEF ExportLine
    <2>4. /\ DOMAIN file' = Files
          /\ \A g \in Files : file'[g] \subseteq Known
          /\ DOMAIN imports' = Importers
          /\ \A p \in Importers : /\ DOMAIN imports'[p] = {"phase", "src", "recs", "ids", "fresh"}
                                  /\ imports'[p].recs = imports[p].recs
        <3>1. CASE Append("batch", {made.who})
            BY <2>2, <3>1, AppendKnown
        <3>2. CASE UNCHANGED <<file, imports>>
            BY <3>2 DEF Shapes, Known
        <3> QED BY <2>3, <3>1, <3>2
    <2>5. Shapes' /\ JobRefers'
        BY <2>1, <2>4 DEF Shapes, JobRefers, Rows
    <2>6. DistinctRows' /\ Buried' /\ Live' = Live
        BY <2>1, SameTable
    <2>7. Known' \subseteq Known
        BY <2>1, <2>4, <2>6, KnownParts, KnownNext
    <2> QED BY <2>1, <2>5, <2>6, <2>7, NothingNew DEF Shapes
<1> QED BY <1>1, <1>2, <1>3 DEF Registering
-----------------------------------------------------------------------------
(* Deletions and the requests that lead to them.                           *)

LEMMA RequestStep ==
    ASSUME StoreInv, NEW S \in Requests, CheckDelete(S) \/ StartReauth(S)
    PROVE  StoreInv' /\ Known' \subseteq Known
<1> USE DEF StoreInv
<1>1. UNCHANGED <<accounts, tombs, past, file, imports, issued, retry, running, made>>
    BY DEF CheckDelete, StartReauth, dbVars, fileVars, taskVars
<1>2. \A id \in Rows : accounts[id].email \in Emails
    BY DEF SessionsIssued, Known, Live, Identity
<1>3. DOMAIN job' = JobFields /\ JobRefers'
      /\ (job'.state \in {"update", "export"} => job' = job)
    <2>1. CASE CheckDelete(S)
        BY <2>1 DEF CheckDelete, Shapes, JobRefers
    <2>2. CASE StartReauth(S)
        BY <1>2, <2>2 DEF StartReauth, JobRefers, NoJob, JobFields
    <2> QED BY <2>1, <2>2
<1>4. Shapes'
    BY <1>1, <1>3 DEF Shapes, Rows
<1>5. DistinctRows' /\ Buried' /\ Live' = Live
    BY <1>1, SameTable
<1>6. Known' \subseteq Known
    BY <1>1, <1>5, KnownParts, KnownNext
<1> QED BY <1>1, <1>3, <1>4, <1>5, <1>6, NothingNew DEF Shapes

LEMMA DeleteStep ==
    ASSUME StoreInv, Delete
    PROVE  StoreInv' /\ Known' \subseteq Known
<1> USE DEF StoreInv
<1>1. /\ accounts' = Without(accounts, deleting)
      /\ tombs' = tombs \cup {accounts[id] : id \in deleting \cap Rows}
      /\ past' = past \cup (Live \ Live')
      /\ UNCHANGED <<file, imports, issued, retry, running, made>>
    BY DEF Delete, DeleteRows, Remember, fileVars, taskVars
<1>2. /\ Rows' = Rows \ deleting
      /\ \A id \in Rows' : accounts'[id] = accounts[id]
    BY <1>1 DEF Without, Rows
<1>3. /\ DOMAIN job' = JobFields
      /\ job'.state = job.state /\ job'.new = job.new /\ job'.snap = job.snap
      /\ job'.todo = job.todo /\ job'.at = job.at
    BY DEF Delete, Shapes, JobFields
<1>4. accounts' = [id \in Rows' |-> accounts'[id]]
    BY <1>1 DEF Without, Rows
<1>5. Shapes' /\ JobRefers'
    BY <1>1, <1>3, <1>4 DEF Shapes, JobRefers
<1>6. DistinctRows'
    BY <1>2 DEF DistinctRows
<1>7. Live' = {accounts[id] : id \in Rows \ deleting}
    BY <1>2 DEF Live
<1>8. Buried'
    <2>1. ASSUME NEW who \in past' PROVE who \in tombs'
        BY <1>1, <1>7, <2>1 DEF Buried, Live
    <2>2. ASSUME NEW id \in Rows \ deleting PROVE accounts[id] \notin tombs'
        BY <1>1, <2>2 DEF Buried, Live, DistinctRows
    <2> QED BY <1>7, <2>1, <2>2 DEF Buried
<1>9. Known' \subseteq Known
    <2>1. Live' \subseteq Known /\ {accounts[id] : id \in deleting \cap Rows} \subseteq Known
        BY <1>7, KnownParts DEF Live
    <2> QED BY <1>1, <2>1, KnownParts, KnownNext
<1> QED BY <1>1, <1>3, <1>5, <1>6, <1>8, <1>9, NothingNew DEF Shapes

-----------------------------------------------------------------------------
(* The reauthentication job.                                               *)

\* A step of the job's own bookkeeping.
LEMMA JobOnly ==
    ASSUME StoreInv, UNCHANGED <<accounts, tombs, past, file, imports, retry, running, made>>,
           issued' \in [Emails -> Nat], \A e \in Emails : issued[e] <= issued'[e],
           DOMAIN job' = JobFields, JobRefers',
           job'.state \in {"update", "export"} =>
               job.state \in {"update", "export"} /\ job'.new = job.new,
           job'.state = "update" => job.state = "update"
    PROVE  StoreInv' /\ Known' \subseteq Known
<1> USE DEF StoreInv
<1>1. Shapes'
    BY DEF Shapes, Rows
<1>2. DistinctRows' /\ Buried' /\ Live' = Live
    BY SameTable
<1>3. Known' \subseteq Known
    BY <1>2, KnownParts, KnownNext
<1> QED BY <1>1, <1>2, <1>3, NothingNew

LEMMA DoneRefers ==
    ASSUME StoreInv, NEW id, NEW status, Done(id, status)
    PROVE  DOMAIN job' = JobFields /\ JobRefers' /\ job'.state = "next"
BY DEF StoreInv, Shapes, JobRefers, JobFields, Done

\* A fresh login gives a session that nobody knows.
LEMMA LoginStep ==
    ASSUME StoreInv, Login
    PROVE  StoreInv' /\ Known' \subseteq Known
<1> USE DEF StoreInv
<1>1. PICK e \in Emails : e = job.snap[job.at].email
    BY DEF Login, JobRefers
<1>2. PICK sso : sso = <<e, issued[e] + 1>>
    OBVIOUS
<1>3. /\ job.state = "login" /\ issued[e] \in Nat
      /\ UNCHANGED <<accounts, tombs, past, file, imports, retry, running, made>>
    BY DEF Login, dbVars, fileVars, taskVars, Shapes
<1>4. CASE (\E status : Done(job.at, status)) /\ issued' \in {issued, [issued EXCEPT ![e] = @ + 1]}
    <2>1. DOMAIN job' = JobFields /\ JobRefers' /\ job'.state = "next"
        BY <1>4, DoneRefers
    <2>2. issued' \in [Emails -> Nat] /\ \A d \in Emails : issued[d] <= issued'[d]
        BY <1>3, <1>4 DEF Shapes
    <2> QED BY <1>3, <2>1, <2>2, JobOnly
<1>5. CASE /\ job' = [job EXCEPT !.state = "update", !.new = sso]
           /\ issued' = [issued EXCEPT ![e] = @ + 1]
    <2>1. /\ DOMAIN job' = JobFields
          /\ job'.state = "update" /\ job'.new = sso
          /\ job'.snap = job.snap /\ job'.todo = job.todo /\ job'.at = job.at
        BY <1>5 DEF Shapes, JobFields
    <2>2. issued' \in [Emails -> Nat] /\ issued'[e] = issued[e] + 1
          /\ \A d \in Emails : issued[d] <= issued'[d]
        BY <1>3, <1>5 DEF Shapes
    <2>3. Shapes' /\ JobRefers'
        BY <1>3, <2>1, <2>2 DEF Shapes, JobRefers, Rows
    <2>4. DistinctRows' /\ Buried' /\ Live' = Live
        BY <1>3, SameTable
    <2>5. Known' \subseteq Known
        BY <1>3, <2>4, KnownParts, KnownNext
    <2>6. Issued(sso)'
        BY <1>2, <1>3, <2>2 DEF Issued, Sessions
    <2>7. ASSUME NEW old, Issued(old) PROVE Issued(old)' /\ old # sso
        <3>1. old[1] \in Emails /\ old[2] \in Nat /\ issued[old[1]] <= issued'[old[1]]
              /\ issued[old[1]] \in Nat /\ issued'[old[1]] \in Nat
            BY <2>2, <2>7 DEF Issued, Sessions, Shapes
        <3>2. Issued(old)'
            BY <2>7, <3>1 DEF Issued, Sessions
        <3>3. old # <<e, issued[e] + 1>>
            BY <1>3, <2>7 DEF Issued
        <3> QED BY <1>2, <3>2, <3>3
    <2>8. SessionsIssued'
        BY <2>5, <2>7 DEF SessionsIssued
    <2>9. NewSession'
        BY <2>1, <2>5, <2>6, <2>7 DEF NewSession, SessionsIssued
    <2> QED BY <2>3, <2>4, <2>5, <2>8, <2>9
<1>6. \/ /\ job' = [job EXCEPT !.state = "update", !.new = sso]
         /\ issued' = [issued EXCEPT ![e] = @ + 1]
      \/ /\ \E status : Done(job.at, status)
         /\ issued' \in {issued, [issued EXCEPT ![e] = @ + 1]}
    BY <1>1, <1>2 DEF Login, Obtained
<1> QED BY <1>4, <1>5, <1>6
\* The session a job stores was nobody's: the row's new identity is neither in
\* the table nor under a tombstone, and the old one goes under one.
LEMMA StoreSessionStep ==
    ASSUME StoreInv, StoreSession
    PROVE  /\ StoreInv'
           /\ \/ Known' \subseteq Known
              \/ job.at \in Rows /\ Known' \subseteq Known \cup {[accounts[job.at] EXCEPT !.sso = job.new]}
<1> USE DEF StoreInv
<1>1. job.state = "update" /\ UNCHANGED <<file, imports, issued, retry, running, made>>
    BY DEF StoreSession, fileVars, taskVars
<1>2. CASE Done(job.at, "failed") /\ UNCHANGED <<dbVars, past>>
    <2>1. DOMAIN job' = JobFields /\ JobRefers' /\ job'.state = "next"
        BY <1>2, DoneRefers
    <2>2. \A e \in Emails : issued[e] <= issued'[e]
        BY <1>1 DEF Shapes
    <2> QED BY <1>1, <1>2, <2>1, <2>2, JobOnly DEF dbVars, Shapes
<1>3. CASE /\ job.at \in Rows
           /\ ReplaceSession(job.at, job.new)
           /\ Remember({})
           /\ DOMAIN job' = JobFields
           /\ job'.state = "export" /\ job'.new = job.new
           /\ job'.snap = job.snap /\ job'.todo = job.todo /\ job'.at = job.at
    <2>1. PICK was : was = accounts[job.at]
        OBVIOUS
    <2>2. PICK now : now = [accounts[job.at] EXCEPT !.sso = job.new]
        OBVIOUS
    <2>3. was \in Live /\ was \in Known
        BY <1>3, <2>1, KnownParts DEF Live
    <2>4. was \in Identity /\ now \in Identity /\ now.sso = job.new /\ Issued(job.new)
        BY <1>1, <2>1, <2>2, <2>3 DEF SessionsIssued, NewSession, Identity, Issued
    <2>5. now \notin Known
        BY <1>1, <2>4 DEF NewSession
    <2>6. now \notin Live /\ now \notin tombs /\ now # was
        BY <2>3, <2>5, KnownParts
    <2>7. /\ tombs' = tombs \cup {was}
          /\ accounts' = [accounts EXCEPT ![job.at] = now]
          /\ past' = past \cup (Live \ Live')
        BY <1>3, <2>1, <2>2, <2>6 DEF ReplaceSession, Remember
    <2>8. /\ Rows' = Rows
          /\ accounts'[job.at] = now
          /\ \A id \in Rows \ {job.at} : accounts'[id] = accounts[id]
          /\ accounts' = [id \in Rows' |-> accounts'[id]]
        BY <1>3, <2>7 DEF Rows, Shapes
    <2>9. Live' = {accounts[id] : id \in Rows \ {job.at}} \cup {now}
        BY <1>3, <2>8 DEF Live
    <2>10. Shapes' /\ JobRefers'
        BY <1>1, <1>3, <2>8 DEF Shapes, JobRefers
    <2>11. DistinctRows'
        BY <2>6, <2>8 DEF DistinctRows, Live
    <2>12. Live \ Live' \subseteq {was}
        BY <2>1, <2>9 DEF Live
    <2>13. was \notin Live'
        BY <1>3, <2>1, <2>6, <2>9 DEF DistinctRows
    <2>14. Live' \subseteq Live \cup {now}
        BY <2>9 DEF Live
    <2>15. Buried'
        BY <2>7, <2>6, <2>12, <2>13, <2>14 DEF Buried
    <2>16. /\ Live' \subseteq Known \cup {now}
           /\ tombs' \subseteq Known \cup {now}
           /\ \A f \in Files : file'[f] \subseteq Known \cup {now}
           /\ \A p \in Importers : imports'[p].recs \subseteq Known \cup {now}
           /\ retry'.kept \subseteq Known \cup {now}
           /\ running' = "export" => made'.who \in Known \cup {now}
        BY <1>1, <2>7, <2>3, <2>14, KnownParts
    <2>17. Known' \subseteq Known \cup {now}
        BY <2>16, KnownNext
    <2>18. ASSUME NEW sso, Issued(sso) PROVE Issued(sso)'
        BY <1>1, <2>18 DEF Issued
    <2>19. SessionsIssued'
        BY <2>4, <2>17, <2>18 DEF SessionsIssued
    <2>20. NewSession'
        BY <1>3, <2>4, <2>18 DEF NewSession
    <2> QED BY <1>3, <2>2, <2>10, <2>11, <2>15, <2>17, <2>19, <2>20
<1>4. (Done(job.at, "failed") /\ UNCHANGED <<dbVars, past>>) \/
      /\ job.at \in Rows
      /\ ReplaceSession(job.at, job.new)
      /\ Remember({})
      /\ DOMAIN job' = JobFields
      /\ job'.state = "export" /\ job'.new = job.new
      /\ job'.snap = job.snap /\ job'.todo = job.todo /\ job'.at = job.at
    BY DEF StoreSession, Shapes, JobFields
<1> QED BY <1>2, <1>3, <1>4

\* A file gets the job's session in the place of the old one.
LEMMA RestoreExportStep ==
    ASSUME StoreInv, NEW f \in TxtFiles, RestoreExport(f)
    PROVE  /\ StoreInv'
           /\ Known' \subseteq Known \cup {[email |-> job.snap[job.at].email, sso |-> job.new]}
<1> USE DEF StoreInv
<1>1. PICK now : now = [email |-> job.snap[job.at].email, sso |-> job.new]
    OBVIOUS
<1>2. /\ job.state = "export" /\ f \in Files
      /\ UNCHANGED <<accounts, tombs, past, issued, retry, running, made>>
      /\ DOMAIN job' = JobFields
      /\ job'.state = "export" /\ job'.new = job.new
      /\ job'.snap = job.snap /\ job'.todo = job.todo /\ job'.at = job.at
    BY DEF RestoreExport, taskVars, Files, Shapes, JobFields
<1>3. now \in Identity /\ now.sso = job.new /\ Issued(job.new)
    BY <1>1, <1>2 DEF JobRefers, NewSession, Identity, Issued
<1>4. /\ DOMAIN file' = Files
      /\ \A g \in Files : file'[g] \subseteq file[g] \cup {now}
      /\ DOMAIN imports' = Importers
      /\ \A p \in Importers : /\ DOMAIN imports'[p] = {"phase", "src", "recs", "ids", "fresh"}
                              /\ imports'[p].recs = imports[p].recs
    <2>1. CASE UNCHANGED <<file, imports>>
        BY <2>1 DEF Shapes
    <2>2. CASE \E content \in SUBSET (file[f] \cup {now}) : Write(f, content)
        BY <1>2, <2>2, StaleReaders DEF Write, Shapes
    <2>3. UNCHANGED <<file, imports>> \/ \E content \in SUBSET (file[f] \cup {now}) : Write(f, content)
        BY <1>1 DEF RestoreExport
    <2> QED BY <2>1, <2>2, <2>3
<1>5. Shapes' /\ JobRefers'
    BY <1>2, <1>4 DEF Shapes, JobRefers, Rows
<1>6. DistinctRows' /\ Buried' /\ Live' = Live
    BY <1>2, SameTable
<1>7. /\ Live' \subseteq Known \cup {now}
      /\ tombs' \subseteq Known \cup {now}
      /\ \A g \in Files : file'[g] \subseteq Known \cup {now}
      /\ \A p \in Importers : imports'[p].recs \subseteq Known \cup {now}
      /\ retry'.kept \subseteq Known \cup {now}
      /\ running' = "export" => made'.who \in Known \cup {now}
    BY <1>2, <1>4, <1>6, KnownParts
<1>8. Known' \subseteq Known \cup {now}
    BY <1>7, KnownNext
<1>9. ASSUME NEW sso, Issued(sso) PROVE Issued(sso)'
    BY <1>2, <1>9 DEF Issued
<1>10. SessionsIssued'
    BY <1>3, <1>8, <1>9 DEF SessionsIssued
<1>11. NewSession'
    BY <1>2, <1>3, <1>9 DEF NewSession
<1> QED BY <1>1, <1>5, <1>6, <1>8, <1>10, <1>11

\* The steps that concern the job alone.
LEMMA JobStep ==
    ASSUME StoreInv,
           CreateJob \/ (\E id \in Ids : NextAccount(id)) \/ FinishAccount \/ EndJob \/ StopReauth
    PROVE  StoreInv' /\ Known' \subseteq Known
<1> USE DEF StoreInv
<1>1. UNCHANGED <<accounts, tombs, past, file, imports, retry, running, made, issued>>
    BY DEF CreateJob, NextAccount, FinishAccount, EndJob, StopReauth, dbVars, fileVars, taskVars
<1>2. issued' \in [Emails -> Nat] /\ \A e \in Emails : issued[e] <= issued'[e]
    BY <1>1 DEF Shapes
<1>3. CASE (\E id, status : Done(id, status))
    <2>1. DOMAIN job' = JobFields /\ JobRefers' /\ job'.state = "next"
        BY <1>3, DoneRefers
    <2> QED BY <1>1, <1>2, <2>1, JobOnly
<1>4. CASE \E id \in job.todo : Try(id)
    <2>1. DOMAIN job' = JobFields /\ JobRefers' /\ job'.state = "login"
        BY <1>4 DEF Try, Shapes, JobRefers, JobFields
    <2> QED BY <1>1, <1>2, <2>1, JobOnly
<1>5. CASE CreateJob
    <2>1. DOMAIN job' = JobFields /\ JobRefers' /\ job'.state = "next"
        BY <1>5 DEF CreateJob, Shapes, JobRefers, JobFields
    <2> QED BY <1>1, <1>2, <2>1, JobOnly
<1>6. CASE EndJob
    <2>1. DOMAIN job' = JobFields /\ JobRefers' /\ job'.state = "none"
        BY <1>6 DEF EndJob, NoJob, JobRefers, JobFields
    <2> QED BY <1>1, <1>2, <2>1, JobOnly
<1>7. CASE StopReauth
    <2>1. DOMAIN job' = JobFields /\ JobRefers' /\ job'.state = job.state /\ job'.new = job.new
        BY <1>7 DEF StopReauth, Shapes, JobRefers, JobFields
    <2> QED BY <1>1, <1>2, <2>1, JobOnly
<1>8. (\E id, status : Done(id, status)) \/ (\E id \in job.todo : Try(id))
      \/ CreateJob \/ EndJob \/ StopReauth
    BY DEF NextAccount, FinishAccount
<1> QED BY <1>3, <1>4, <1>5, <1>6, <1>7, <1>8

LEMMA ReauthenticationStep ==
    ASSUME StoreInv, Reauthenticating
    PROVE  StoreInv'
BY JobStep, LoginStep, StoreSessionStep, RestoreExportStep DEF Reauthenticating
-----------------------------------------------------------------------------
(* The retry-pending command and a restart.                                *)

LEMMA RetryStep ==
    ASSUME StoreInv, AppendPending \/ RewritePending \/ KillRetry
    PROVE  StoreInv' /\ Known' \subseteq Known
<1> USE DEF StoreInv
<1>1. UNCHANGED <<accounts, tombs, past, issued, running, made, job>>
    BY DEF AppendPending, RewritePending, KillRetry, dbVars, taskVars
<1>2. /\ DOMAIN retry' = {"phase", "kept"} /\ retry'.kept \subseteq Known
      /\ DOMAIN file' = Files
      /\ \A f \in Files : file'[f] \subseteq Known
      /\ DOMAIN imports' = Importers
      /\ \A p \in Importers : /\ DOMAIN imports'[p] = {"phase", "src", "recs", "ids", "fresh"}
                              /\ imports'[p].recs = imports[p].recs
    <2>1. "batch" \in Files /\ "pending" \in Files
        BY DEF Files, TxtFiles
    <2>2. CASE AppendPending
        <3>1. PICK restored \in SUBSET file["pending"] :
                  /\ Append("batch", restored)
                  /\ retry' = [phase |-> "appended", kept |-> file["pending"] \ restored]
            BY <2>2 DEF AppendPending, Appended
        <3>2. file["pending"] \subseteq Known
            BY <2>1, KnownParts
        <3> QED BY <2>1, <3>1, <3>2, AppendKnown
    <2>3. CASE RewritePending
        <3>1. Write("pending", retry.kept) /\ retry' = [phase |-> "idle", kept |-> {}]
            BY <2>3 DEF RewritePending
        <3> QED BY <2>1, <3>1, StaleReaders, KnownParts DEF Write, Shapes
    <2>4. CASE KillRetry
        BY <2>4, KnownParts DEF KillRetry, Shapes
    <2> QED BY <2>2, <2>3, <2>4
<1>3. Shapes' /\ JobRefers'
    BY <1>1, <1>2 DEF Shapes, JobRefers, Rows
<1>4. DistinctRows' /\ Buried' /\ Live' = Live
    BY <1>1, SameTable
<1>5. Known' \subseteq Known
    BY <1>1, <1>2, <1>4, KnownParts, KnownNext
<1> QED BY <1>1, <1>3, <1>4, <1>5, NothingNew DEF Shapes

LEMMA RestartStep ==
    ASSUME StoreInv, Restart
    PROVE  StoreInv' /\ Known' \subseteq Known
<1> USE DEF StoreInv
<1>1. /\ UNCHANGED <<accounts, tombs, past, file, issued, retry>>
      /\ running' = "off" /\ imports' = [p \in Importers |-> Idle] /\ job' = NoJob
    BY DEF Restart, dbVars
<1>2. Shapes' /\ JobRefers'
    BY <1>1 DEF Shapes, JobRefers, Rows, Idle, NoJob, JobFields
<1>3. DistinctRows' /\ Buried' /\ Live' = Live
    BY <1>1, SameTable
<1>4. Known' \subseteq Known
    BY <1>1, <1>3, KnownParts, KnownNext DEF Idle
<1> QED BY <1>1, <1>2, <1>3, <1>4, NothingNew DEF Shapes, NoJob

LEMMA Unchanged ==
    ASSUME StoreInv, UNCHANGED vars
    PROVE  StoreInv' /\ Known' \subseteq Known
<1> USE DEF StoreInv
<1>1. UNCHANGED <<accounts, tombs, past, file, imports, issued, retry, running, made, job>>
    BY DEF vars, dbVars, fileVars, taskVars
<1>2. JobRefers' /\ DOMAIN job' = JobFields
    BY <1>1 DEF JobRefers, Shapes
<1>3. issued' \in [Emails -> Nat] /\ \A e \in Emails : issued[e] <= issued'[e]
    BY <1>1 DEF Shapes
<1> QED BY <1>1, <1>2, <1>3, JobOnly

-----------------------------------------------------------------------------

\* The inductive invariant of the store holds in every reachable state.
THEOREM StoreInvariant == Spec => []StoreInv
<1>1. ASSUME StoreInv, [Next]_vars PROVE StoreInv'
    BY <1>1, ImportStep, RegistrationStep, RequestStep, DeleteStep, ReauthenticationStep,
       JobStep, RetryStep, RestartStep, Unchanged DEF Next
<1> QED BY <1>1, InitHolds, PTL DEF Spec

\* NoResurrection: nothing an import, a reauthentication, retry-pending or a
\* restart does, in whatever order, brings back what left the table.
THEOREM RemovedStaysRemoved == Spec => []NoResurrection
<1>1. StoreInv => NoResurrection
    BY DEF StoreInv, Buried, NoResurrection
<1> QED BY <1>1, StoreInvariant, PTL
-----------------------------------------------------------------------------

\* A job that runs is the web's maintenance, and no registration starts in it.
JobIsMaintenance == job.state \in JobStates => maintenance /\ running = "off"

\* A registration changes no job, and runs only outside the maintenance.
LEMMA RegistrationAlone ==
    ASSUME JobIsMaintenance, Registering
    PROVE  JobIsMaintenance'
<1>1. /\ job' = job /\ maintenance' = maintenance
      /\ \/ running' = running
         \/ running = "off" /\ ~maintenance
         \/ running # "off"
    BY DEF Registering, StartRegistration, Persist, ExportLine, EndRegistration
<1> QED BY <1>1 DEF JobIsMaintenance

\* A job runs from a start that found no task to its end.
LEMMA JobAlone ==
    ASSUME StoreInv, JobIsMaintenance, Reauthenticating \/ StopReauth
    PROVE  JobIsMaintenance'
<1>1. CASE EndJob
    BY <1>1 DEF EndJob, NoJob, JobIsMaintenance, JobStates
<1>2. CASE ~EndJob
    <2>1. job.state \in JobStates /\ running' = running /\ maintenance' = maintenance
        BY <1>2 DEF Reauthenticating, CreateJob, NextAccount, Login, StoreSession, RestoreExport,
                    FinishAccount, StopReauth, taskVars, JobStates
    <2> QED BY <2>1 DEF JobIsMaintenance
<1> QED BY <1>1, <1>2

\* OneTask: a registration and a reauthentication never run at the same time.
THEOREM TasksExclude == Spec => []OneTask
<1>1. Init => JobIsMaintenance
    BY DEF Init, NoJob, JobIsMaintenance, JobStates
<1>2. ASSUME StoreInv, JobIsMaintenance, [Next]_vars PROVE JobIsMaintenance'
    <2>1. CASE \E p \in Importers : Importing(p)
        BY <1>2, <2>1 DEF Importing, ReadFile, InsertRecords, AttachSource, RecordImport, AbortImport,
                          JobIsMaintenance, taskVars
    <2>2. CASE Registering
        BY <1>2, <2>2, RegistrationAlone
    <2>3. CASE \E S \in Requests : CheckDelete(S) \/ StartReauth(S)
        BY <1>2, <2>3 DEF CheckDelete, StartReauth, NoTask, JobIsMaintenance, taskVars
    <2>4. CASE Delete
        BY <1>2, <2>4 DEF Delete, JobIsMaintenance, taskVars, StoreInv, Shapes, JobFields
    <2>5. CASE Reauthenticating \/ StopReauth
        BY <1>2, <2>5, JobAlone
    <2>6. CASE AppendPending \/ RewritePending \/ KillRetry
        BY <1>2, <2>6 DEF AppendPending, RewritePending, KillRetry, JobIsMaintenance, taskVars
    <2>7. CASE Restart
        BY <2>7 DEF Restart, NoJob, JobIsMaintenance, JobStates
    <2>8. CASE UNCHANGED vars
        BY <1>2, <2>8 DEF vars, taskVars, JobIsMaintenance
    <2> QED BY <1>2, <2>1, <2>2, <2>3, <2>4, <2>5, <2>6, <2>7, <2>8 DEF Next
<1>3. JobIsMaintenance => OneTask
    BY DEF JobIsMaintenance, OneTask
<1> QED BY <1>1, <1>2, <1>3, StoreInvariant, PTL DEF Spec
-----------------------------------------------------------------------------
(* What the history remembers.                                             *)

LEMMA StoreStep == StoreInv /\ [Next]_vars => StoreInv'
<1> SUFFICES ASSUME StoreInv, [Next]_vars PROVE StoreInv'
    OBVIOUS
<1> QED BY ImportStep, RegistrationStep, RequestStep, DeleteStep, ReauthenticationStep,
       JobStep, RetryStep, RestartStep, Unchanged DEF Next

\* What each kind of step adds to the identities the system knows.
LEMMA KnownStep ==
    ASSUME StoreInv, [Next]_vars
    PROVE  \/ Known' \subseteq Known
           \/ \E e \in Emails : Persist(e) /\ Known' \subseteq Known \cup {Newcomer(e)}
           \/ StoreSession /\ job.at \in Rows
                /\ Known' \subseteq Known \cup {[accounts[job.at] EXCEPT !.sso = job.new]}
           \/ \E f \in TxtFiles : RestoreExport(f)
                /\ Known' \subseteq Known \cup {[email |-> job.snap[job.at].email, sso |-> job.new]}
<1>1. CASE Reauthenticating
    BY <1>1, JobStep, LoginStep, StoreSessionStep, RestoreExportStep DEF Reauthenticating
<1> QED BY <1>1, ImportStep, RegistrationStep, RequestStep, DeleteStep, JobStep, RetryStep, RestartStep,
       Unchanged DEF Next

\* Rows are added at the end of the table.
LEMMA RowsAdded ==
    ASSUME NEW who, AddRows(who)
    PROVE  Rows \subseteq Rows' /\ \A id \in Rows : accounts'[id] = accounts[id]
BY DEF AddRows, Rows

\* What each kind of step does to the rows there are.
LEMMA TableStep ==
    ASSUME [Next]_vars
    PROVE  \/ UNCHANGED accounts /\ (past' = past)
           \/ \E p \in Importers : InsertRecords(p) /\ Rows \subseteq Rows' /\ \A id \in Rows : accounts'[id] = accounts[id]
           \/ \E e \in Emails : Persist(e) /\ Rows \subseteq Rows' /\ \A id \in Rows : accounts'[id] = accounts[id]
           \/ Delete
           \/ StoreSession
<1>1. ASSUME NEW p \in Importers, InsertRecords(p)
      PROVE  Rows \subseteq Rows' /\ \A id \in Rows : accounts'[id] = accounts[id]
    BY <1>1, RowsAdded DEF InsertRecords, InsertImported
<1>2. ASSUME NEW e \in Emails, Persist(e)
      PROVE  Rows \subseteq Rows' /\ \A id \in Rows : accounts'[id] = accounts[id]
    BY <1>2, RowsAdded DEF Persist, InsertNative, dbVars, Rows
<1>3. ASSUME NEW p \in Importers, Importing(p), ~InsertRecords(p) PROVE UNCHANGED <<accounts, past>>
    BY <1>3 DEF Importing, ReadFile, AttachSource, RecordImport, AbortImport, dbVars
<1>4. ASSUME Registering, ~\E e \in Emails : Persist(e) PROVE UNCHANGED <<accounts, past>>
    BY <1>4 DEF Registering, StartRegistration, ExportLine, EndRegistration, dbVars
<1>5. ASSUME Reauthenticating, ~StoreSession PROVE UNCHANGED <<accounts, past>>
    BY <1>5 DEF Reauthenticating, CreateJob, NextAccount, Login, RestoreExport, FinishAccount, EndJob, dbVars
<1>6. ASSUME NEW S \in Requests, CheckDelete(S) \/ StartReauth(S) PROVE UNCHANGED <<accounts, past>>
    BY <1>6 DEF CheckDelete, StartReauth, dbVars
<1>7. ASSUME StopReauth \/ AppendPending \/ RewritePending \/ KillRetry \/ Restart \/ UNCHANGED vars
      PROVE  UNCHANGED <<accounts, past>>
    BY <1>7 DEF StopReauth, AppendPending, RewritePending, KillRetry, Restart, dbVars, vars
<1> QED BY <1>1, <1>2, <1>3, <1>4, <1>5, <1>6, <1>7 DEF Next

\* What leaves the table goes into the history, which forgets nothing.
LEMMA HistoryGrows ==
    ASSUME StoreInv, [Next]_vars
    PROVE  Live \subseteq Live' \cup past' /\ past \subseteq past'
<1>1. CASE UNCHANGED accounts /\ past' = past
    BY <1>1 DEF Live, Rows
<1>2. ASSUME NEW p \in Importers, InsertRecords(p) PROVE Live \subseteq Live' \cup past' /\ past \subseteq past'
    BY <1>2 DEF InsertRecords, Remember
<1>3. ASSUME NEW e \in Emails, Persist(e), Rows \subseteq Rows' /\ \A id \in Rows : accounts'[id] = accounts[id]
      PROVE  Live \subseteq Live' \cup past' /\ past \subseteq past'
    <2>1. Live \subseteq Live'
        BY <1>3 DEF Live
    <2>2. Newcomer(e) \notin past
        BY <1>3, PersistStep, KnownParts DEF StoreInv, Buried
    <2> QED BY <1>3, <2>1, <2>2 DEF Persist, Remember, Newcomer
<1>4. CASE Delete
    BY <1>4 DEF Delete, Remember
<1>5. CASE StoreSession
    BY <1>5 DEF StoreSession, Remember, Live, Rows, dbVars
<1> QED BY <1>1, <1>2, <1>3, <1>4, <1>5, TableStep

-----------------------------------------------------------------------------
(* The accounts of a job.                                                  *)

\* While no account of the job was deleted its rows are the ones it has read.
JobTrue ==
    /\ ~job.lost => \A id \in DOMAIN job.snap : id \in Rows /\ accounts[id].email = job.snap[id].email
    /\ job.state \in {"update", "export"} => job.new[1] = job.snap[job.at].email

\* A step that is not the job's.
LEMMA OthersKeepJob ==
    ASSUME JobTrue, job' = job, \A id \in Rows : id \in Rows' /\ accounts'[id].email = accounts[id].email
    PROVE  JobTrue'
BY DEF JobTrue

\* A step of the job with the accounts and the session it has.
LEMMA JobKeepsItself ==
    ASSUME JobTrue, UNCHANGED accounts, job'.snap = job.snap, job'.lost = job.lost,
           job'.state \in {"update", "export"} =>
               job.state \in {"update", "export"} /\ job'.new = job.new /\ job'.at = job.at
    PROVE  JobTrue'
BY DEF JobTrue, Rows

LEMMA NewJobTrue == ASSUME job' = NoJob PROVE JobTrue'
BY DEF JobTrue, NoJob

LEMMA DoneTrue ==
    ASSUME StoreInv, JobTrue, UNCHANGED accounts, NEW id, NEW status, Done(id, status)
    PROVE  JobTrue'
<1>1. job'.snap = job.snap /\ job'.lost = job.lost /\ job'.state = "next"
    BY DEF Done, StoreInv, Shapes, JobFields
<1> QED BY <1>1, JobKeepsItself

LEMMA JobTrueStep == StoreInv /\ JobTrue /\ [Next]_vars => JobTrue'
<1> SUFFICES ASSUME StoreInv, JobTrue, [Next]_vars PROVE JobTrue'
    OBVIOUS
<1>0. DOMAIN job = JobFields
    BY DEF StoreInv, Shapes
<1>1. CASE UNCHANGED job /\ ~Delete /\ ~StoreSession
    BY <1>1, TableStep, OthersKeepJob DEF Rows
<1>2. CASE Delete
    <2>1. /\ Rows' = Rows \ deleting /\ \A id \in Rows' : accounts'[id] = accounts[id]
          /\ job' = [job EXCEPT !.items = Without(@, deleting),
                          !.orphans = @ \cup {job.items[id] : id \in DOMAIN job.items \cap deleting \cap Rows},
                          !.lost = @ \/ deleting \cap Rows \cap DOMAIN job.snap # {}]
        BY <1>2 DEF Delete, DeleteRows, Without, Rows
    <2>2. job'.snap = job.snap /\ job'.state = job.state /\ job'.new = job.new /\ job'.at = job.at
        BY <1>0, <2>1 DEF JobFields
    <2>3. job'.lost = (job.lost \/ deleting \cap Rows \cap DOMAIN job.snap # {})
        BY <1>0, <2>1 DEF JobFields
    <2>4. ~job'.lost => ~job.lost /\ deleting \cap Rows \cap DOMAIN job.snap = {}
        BY <2>3, Zenon
    <2> QED BY <2>1, <2>2, <2>4 DEF JobTrue
<1>3. CASE StoreSession
    <2>1. CASE Done(job.at, "failed") /\ UNCHANGED accounts
        BY <2>1, DoneTrue
    <2>2. CASE job.at \in Rows /\ ReplaceSession(job.at, job.new) /\ job'.state = "export"
        <3>1. job'.snap = job.snap /\ job'.lost = job.lost /\ job'.new = job.new /\ job'.at = job.at
              /\ job.state = "update"
            BY <1>0, <1>3, <2>2 DEF StoreSession, JobFields, Done
        <3>2. accounts' = [accounts EXCEPT ![job.at].sso = job.new]
            BY <2>2 DEF ReplaceSession
        <3>3. Rows' = Rows
            BY <3>2 DEF Rows
        <3>4. accounts[job.at] \in Identity
            BY <2>2, KnownParts DEF StoreInv, SessionsIssued, Live
        <3>5. accounts'[job.at].email = accounts[job.at].email
            BY <2>2, <3>2, <3>4 DEF Identity, Rows
        <3>6. \A id \in Rows : accounts'[id].email = accounts[id].email
            BY <3>2, <3>5 DEF Rows
        <3> QED BY <3>1, <3>3, <3>6 DEF JobTrue
    <2> QED BY <1>0, <1>3, <2>1, <2>2 DEF StoreSession, dbVars, JobFields
<1>4. CASE Login
    <2>1. UNCHANGED accounts
        BY <1>4 DEF Login, dbVars
    <2>2. CASE \E status : Done(job.at, status)
        BY <2>1, <2>2, DoneTrue
    <2>3. CASE \E n : job' = [job EXCEPT !.state = "update", !.new = <<job.snap[job.at].email, n>>]
        <3>1. job'.snap = job.snap /\ job'.lost = job.lost /\ job'.new[1] = job.snap[job.at].email /\ job'.at = job.at
            BY <1>0, <2>3 DEF JobFields
        <3> QED BY <2>1, <3>1 DEF JobTrue, Rows
    <2> QED BY <1>4, <2>2, <2>3 DEF Login, Obtained
<1>5. ASSUME NEW S \in Requests, StartReauth(S) PROVE JobTrue'
    <2>1. /\ job'.lost = FALSE /\ job'.state = "start"
          /\ job'.snap = [id \in S |-> [email |-> accounts[id].email, paths |-> linked[id]]]
          /\ S \subseteq Rows /\ UNCHANGED accounts
        BY <1>5 DEF StartReauth, NoJob, dbVars
    <2> QED BY <2>1 DEF JobTrue, Rows
<1>6. CASE (\E id \in Ids : NextAccount(id)) \/ FinishAccount
    <2>1. UNCHANGED accounts
        BY <1>6 DEF NextAccount, FinishAccount, dbVars
    <2>2. CASE \E id, status : Done(id, status)
        BY <2>1, <2>2, DoneTrue
    <2>3. CASE \E id \in Ids : Try(id)
        <3>1. job'.snap = job.snap /\ job'.lost = job.lost /\ job'.state = "login"
            BY <1>0, <2>3 DEF Try, JobFields
        <3> QED BY <2>1, <3>1, JobKeepsItself
    <2> QED BY <1>6, <2>2, <2>3 DEF NextAccount, FinishAccount
<1>7. CASE CreateJob
    <2>1. job'.snap = job.snap /\ job'.lost = job.lost /\ job'.state = "next" /\ UNCHANGED accounts
        BY <1>0, <1>7 DEF CreateJob, dbVars, JobFields
    <2> QED BY <2>1, JobKeepsItself
<1>8. CASE (\E f \in TxtFiles : RestoreExport(f)) \/ StopReauth
    <2>1. /\ job'.snap = job.snap /\ job'.lost = job.lost /\ job'.state = job.state /\ UNCHANGED accounts
          /\ job'.new = job.new /\ job'.at = job.at
        BY <1>0, <1>8 DEF RestoreExport, StopReauth, dbVars, JobFields
    <2> QED BY <2>1, JobKeepsItself
<1>9. CASE EndJob \/ Restart
    BY <1>9, NewJobTrue DEF EndJob, Restart
<1>10. ASSUME ~Delete, ~Reauthenticating, ~\E S \in Requests : StartReauth(S), ~StopReauth, ~Restart
       PROVE  UNCHANGED job /\ ~StoreSession
    <2>1. ASSUME NEW p \in Importers, Importing(p) PROVE UNCHANGED job
        BY <2>1 DEF Importing, ReadFile, InsertRecords, AttachSource, RecordImport, AbortImport
    <2>2. ASSUME Registering PROVE UNCHANGED job
        BY <2>2 DEF Registering, StartRegistration, Persist, ExportLine, EndRegistration
    <2>3. ASSUME NEW S \in Requests, CheckDelete(S) PROVE UNCHANGED job
        BY <2>3 DEF CheckDelete
    <2>4. ASSUME AppendPending \/ RewritePending \/ KillRetry \/ UNCHANGED vars PROVE UNCHANGED job
        BY <2>4 DEF AppendPending, RewritePending, KillRetry, vars
    <2> QED BY <1>10, <2>1, <2>2, <2>3, <2>4 DEF Next, Reauthenticating
<1> QED BY <1>1, <1>2, <1>3, <1>4, <1>5, <1>6, <1>7, <1>8, <1>9, <1>10 DEF Reauthenticating

LEMMA JobTruth == Spec => []JobTrue
<1>1. Init => JobTrue
    BY DEF Init, JobTrue, NoJob
<1> QED BY <1>1, StoreInvariant, JobTrueStep, PTL DEF Spec

\* A reauthentication stores a session under another account's email only
\* when a row of its job was deleted meanwhile (update_account_session,
\* storage/database.py, with the accounts that reauth_jobs.py read once).
THEOREM ForeignNeedsDeletion == Spec => ForeignSessionNeedsDeletion
<1>1. StoreInv /\ JobTrue /\ [Next]_vars =>
          [\A id \in Rows \cap DOMAIN accounts' :
              accounts'[id] # accounts[id] /\ accounts'[id].sso[1] # accounts'[id].email => job.lost]_vars
    <2> SUFFICES ASSUME StoreInv, JobTrue, [Next]_vars,
                        NEW id \in Rows \cap DOMAIN accounts', accounts'[id] # accounts[id],
                        accounts'[id].sso[1] # accounts'[id].email
                 PROVE  job.lost
        OBVIOUS
    <2>1. StoreSession
        <3>1. Delete => accounts'[id] = accounts[id]
            BY DEF Delete, DeleteRows, Without
        <3> QED BY <3>1, TableStep
    <2>2. job.at = id /\ job.state = "update" /\ accounts' = [accounts EXCEPT ![id].sso = job.new]
        BY <2>1 DEF StoreSession, ReplaceSession, dbVars
    <2>3. accounts[id] \in Identity /\ id \in DOMAIN accounts /\ id \in DOMAIN job.snap
        BY <2>2, KnownParts DEF StoreInv, SessionsIssued, Live, Rows, JobRefers
    <2>4. accounts'[id].email = accounts[id].email /\ accounts'[id].sso = job.new
        BY <2>2, <2>3 DEF Identity
    <2> QED BY <2>2, <2>3, <2>4 DEF JobTrue
<1> QED BY <1>1, StoreInvariant, JobTruth, PTL DEF Spec, ForeignSessionNeedsDeletion

-----------------------------------------------------------------------------
(* The files and their locks.                                              *)

\* Who holds the lock of a file: an importer from its reading to its
\* attaching, retry-pending of both files it moves lines between.
Locked ==
    /\ DOMAIN lock = Files
    /\ \A p \in Importers : imports[p].phase \in {"read", "inserted", "record"} => imports[p].src \in Files
    /\ \A p \in Importers : imports[p].phase \in {"read", "inserted"} => lock[imports[p].src] = p
    /\ retry.phase = "appended" => lock["pending"] = "cli" /\ lock["batch"] = "cli"

\* There is always a next number to count the rows with.
Numbered ==
    /\ Rows \subseteq Ids
    /\ recovering \subseteq Rows
    /\ \A f \in Files : IsFiniteSet(file[f])
    /\ \A p \in Importers : IsFiniteSet(imports[p].recs)
    /\ IsFiniteSet(retry.kept)

\* What an import leaves behind of a file: nothing to import.
Imported(f) ==
    /\ file[f] \subseteq Live \cup tombs
    /\ f \in TxtFiles => RowsOf(file[f]) \cap recovering = {}

\* An importer attaches and records what is still in the file, unless the
\* file has been written since.
ReadersTrue ==
    \A p \in Importers :
        /\ imports[p].phase = "read" => imports[p].recs = file[imports[p].src]
        /\ imports[p].phase = "inserted" => Imported(imports[p].src)
        /\ imports[p].phase = "record" /\ imports[p].fresh => Imported(imports[p].src)

FileInv == Locked /\ Numbered /\ ReadersTrue /\ SkippedFilesImported

\* Nothing leaves the table but under a tombstone, and only an identity that
\* was neither here nor there begins to wait for recovery.
TableKeeps ==
    /\ Live \cup tombs \subseteq Live' \cup tombs'
    /\ \A id \in recovering' \cap Rows' :
          \/ id \in recovering /\ id \in Rows /\ accounts'[id] = accounts[id]
          \/ accounts'[id] \notin Live \cup tombs

LEMMA ImportedKept ==
    ASSUME TableKeeps, NEW f, file'[f] = file[f], Imported(f)
    PROVE  Imported(f)'
BY DEF TableKeeps, Imported, RowsOf

LEMMA SkippedAreImported == SkippedFilesImported <=> \A f \in Files \ changed : Imported(f)
BY DEF SkippedFilesImported, Imported

\* A step of the table.
LEMMA TableOnly ==
    ASSUME FileInv, TableKeeps, UNCHANGED <<file, changed, lock, imports, retry>>,
           Rows' \subseteq Ids, recovering' \subseteq Rows'
    PROVE  FileInv'
<1>1. ReadersTrue'
    BY ImportedKept DEF FileInv, ReadersTrue
<1>2. SkippedFilesImported'
    BY SkippedAreImported, ImportedKept DEF FileInv, SkippedFilesImported, Imported
<1>3. Locked' /\ Numbered'
    BY DEF FileInv, Locked, Numbered
<1> QED BY <1>1, <1>2, <1>3 DEF FileInv

LEMMA SameRows == ASSUME UNCHANGED <<accounts, recovering, tombs>> PROVE TableKeeps
BY DEF TableKeeps, Live, Rows

\* A step that touches neither the table nor the files.
LEMMA NoFileStep ==
    ASSUME FileInv, UNCHANGED <<accounts, recovering, tombs, file, changed, lock, imports, retry>>
    PROVE  FileInv'
BY SameRows, TableOnly DEF FileInv, Numbered, Rows

\* A file is only written under its lock, or by retry-pending which holds it:
\* no importer is between its reading and its attaching then.
LEMMA WriteKeeps ==
    ASSUME StoreInv, FileInv, TableKeeps, NEW f \in Files, lock[f] \in {Nobody, "cli"}, NEW content,
           Write(f, content), IsFiniteSet(content)
    PROVE  /\ ReadersTrue' /\ SkippedFilesImported'
           /\ \A g \in Files : IsFiniteSet(file'[g])
           /\ \A p \in Importers : /\ imports'[p].phase = imports[p].phase /\ imports'[p].src = imports[p].src
                                   /\ imports'[p].recs = imports[p].recs
<1>1. /\ file' = [file EXCEPT ![f] = content] /\ changed' = changed \cup {f} /\ imports' = Stale(f)
      /\ DOMAIN file = Files /\ DOMAIN imports = Importers
      /\ \A p \in Importers : DOMAIN imports[p] = {"phase", "src", "recs", "ids", "fresh"}
    BY DEF Write, StoreInv, Shapes
<1>2. ASSUME NEW p \in Importers
      PROVE  /\ imports'[p].phase = imports[p].phase /\ imports'[p].src = imports[p].src
             /\ imports'[p].recs = imports[p].recs
             /\ imports'[p].fresh = IF imports[p].phase = "record" /\ imports[p].src = f THEN FALSE
                                    ELSE imports[p].fresh
    <2>1. CASE imports[p].phase = "record" /\ imports[p].src = f
        <3>1. imports'[p] = [imports[p] EXCEPT !.fresh = FALSE]
            BY <1>1, <2>1 DEF Stale
        <3> QED BY <1>1, <2>1, <3>1
    <2>2. CASE ~(imports[p].phase = "record" /\ imports[p].src = f)
        <3>1. imports'[p] = imports[p]
            BY <1>1, <2>2 DEF Stale
        <3> QED BY <2>2, <3>1
    <2> QED BY <2>1, <2>2
<1>3. \A g \in Files \ {f} : file'[g] = file[g]
    BY <1>1
<1>4. ReadersTrue'
    <2>1. ASSUME NEW p \in Importers, NEW g \in Files, imports[p].src = g
          PROVE  /\ imports[p].phase = "read" => imports[p].recs = file'[g]
                 /\ imports[p].phase = "inserted" => Imported(g)'
                 /\ imports[p].phase = "record" /\ imports'[p].fresh => Imported(g)'
        <3>1. CASE imports[p].phase \in {"read", "inserted"}
            <4>1. g # f
                BY <2>1, <3>1, StoreAssumption DEF FileInv, Locked
            <4> QED BY <1>3, <2>1, <3>1, <4>1, ImportedKept DEF FileInv, ReadersTrue
        <3>2. CASE imports[p].phase = "record" /\ imports'[p].fresh
            <4>1. g # f /\ imports[p].fresh
                BY <1>2, <2>1, <3>2
            <4> QED BY <1>3, <2>1, <3>2, <4>1, ImportedKept DEF FileInv, ReadersTrue
        <3> QED BY <3>1, <3>2
    <2>2. \A p \in Importers : imports[p].phase \in {"read", "inserted", "record"} => imports[p].src \in Files
        BY DEF FileInv, Locked
    <2>3. ASSUME NEW p \in Importers
          PROVE  (/\ imports[p].phase = "read" => imports[p].recs = file[imports[p].src]
                  /\ imports[p].phase = "inserted" => Imported(imports[p].src)
                  /\ imports[p].phase = "record" /\ imports[p].fresh => Imported(imports[p].src))'
        <3>1. CASE imports[p].phase \in {"read", "inserted", "record"}
            <4>1. PICK g \in Files : imports[p].src = g
                BY <2>2, <3>1
            <4>2. imports'[p].src = g
                BY <1>2, <4>1
            <4>3. Imported(g)' => Imported(imports[p].src)'
                BY <4>2 DEF Imported
            <4> QED BY <1>2, <2>1, <4>1, <4>2, <4>3
        <3>2. CASE imports[p].phase \notin {"read", "inserted", "record"}
            BY <1>2, <3>2
        <3> QED BY <3>1, <3>2
    <2> QED BY <2>3 DEF ReadersTrue
<1>5. SkippedFilesImported'
    <2>1. \A g \in Files \ changed' : Imported(g)'
        BY <1>1, <1>3, SkippedAreImported, ImportedKept DEF FileInv
    <2> QED BY <2>1 DEF SkippedFilesImported, Imported
<1>6. \A g \in Files : IsFiniteSet(file'[g])
    BY <1>1 DEF FileInv, Numbered
<1> QED BY <1>2, <1>4, <1>5, <1>6

\* The same of a line that may be there already.
LEMMA AppendKeeps ==
    ASSUME StoreInv, FileInv, UNCHANGED <<accounts, recovering, tombs>>, NEW f \in Files, Unlocked(f),
           NEW lines, Append(f, lines), IsFiniteSet(lines)
    PROVE  /\ ReadersTrue' /\ SkippedFilesImported'
           /\ \A g \in Files : IsFiniteSet(file'[g])
           /\ \A p \in Importers : /\ imports'[p].phase = imports[p].phase /\ imports'[p].src = imports[p].src
                                   /\ imports'[p].recs = imports[p].recs
<1>1. CASE UNCHANGED <<file, changed, imports>>
    BY <1>1 DEF FileInv, ReadersTrue, SkippedFilesImported, Imported, Numbered, Live, Rows, RowsOf
<1>2. CASE Write(f, file[f] \cup lines)
    <2>1. IsFiniteSet(file[f] \cup lines)
        BY FS_Union DEF FileInv, Numbered
    <2> QED BY <1>2, <2>1, SameRows, WriteKeeps DEF Unlocked
<1> QED BY <1>1, <1>2 DEF Append

\* The locks and the numbers after a write.
LEMMA AfterWrite ==
    ASSUME FileInv, ReadersTrue', SkippedFilesImported', UNCHANGED <<lock, retry>>,
           \A g \in Files : IsFiniteSet(file'[g]), Rows' \subseteq Ids, recovering' \subseteq Rows',
           \A p \in Importers : /\ imports'[p].phase = imports[p].phase /\ imports'[p].src = imports[p].src
                                /\ imports'[p].recs = imports[p].recs
    PROVE  FileInv'
BY DEF FileInv, Locked, Numbered

-----------------------------------------------------------------------------
(* The numbers of the rows.                                                *)

\* The largest of some row numbers exists.
LEMMA LargestId ==
    ASSUME NEW S \in SUBSET Ids, S # {}
    PROVE  \E id \in S : \A other \in S : other <= id
<1> DEFINE back == {n \in Nat : \E id \in S : n = MaxId - id}
<1>1. back \in SUBSET Nat /\ back # {}
    <2>1. PICK id : id \in S
        OBVIOUS
    <2>2. id \in 1..MaxId /\ MaxId \in Nat
        BY <2>1, StoreAssumption DEF Ids
    <2>3. MaxId - id \in Nat
        BY <2>2
    <2> QED BY <2>1, <2>3
<1>2. PICK n \in back : \A m \in back : <<m, n>> \notin OpToRel(<, Nat)
    <2> HIDE DEF back
    <2> QED BY <1>1, NatLessThanWellFounded, WFMin
<1>3. PICK id \in S : n = MaxId - id
    OBVIOUS
<1>4. ASSUME NEW other \in S PROVE other <= id
    <2>1. MaxId - other \in back
        BY StoreAssumption DEF Ids
    <2>2. ~(MaxId - other < n)
        BY <1>2, <2>1 DEF OpToRel
    <2> QED BY <1>3, <2>2, StoreAssumption DEF Ids
<1> QED BY <1>4

LEMMA TopIsLargest ==
    ASSUME Rows \subseteq Ids
    PROVE  Top \in Nat /\ \A id \in Rows : id <= Top
<1>1. CASE Rows = {}
    BY <1>1 DEF Top
<1>2. CASE Rows # {}
    <2>1. Top \in Rows /\ \A id \in Rows : id <= Top
        BY <1>2, LargestId DEF Top
    <2> QED BY <2>1, StoreAssumption DEF Ids
<1> QED BY <1>1, <1>2

\* New rows get numbers of their own, and each new identity a row.
LEMMA RowsNumbered ==
    ASSUME Rows \subseteq Ids, NEW who, IsFiniteSet(who), AddRows(who)
    PROVE  /\ Rows' \subseteq Ids /\ Rows \subseteq Rows'
           /\ \A id \in Rows : accounts'[id] = accounts[id]
           /\ \A id \in Rows' \ Rows : accounts'[id] \in who
           /\ Live' = Live \cup who
<1>1. Cardinality(who) \in Nat /\ Top \in Nat /\ \A id \in Rows : id <= Top
    BY FS_CardinalityType, TopIsLargest
<1>2. Top + Cardinality(who) <= MaxId
    BY DEF AddRows
<1>3. PICK ids : ids = NewIds(Cardinality(who))
    OBVIOUS
<1>4. ids \subseteq Ids /\ ids \cap Rows = {}
    BY <1>1, <1>2, <1>3, StoreAssumption DEF NewIds, Ids
<1>5. PICK add \in Bijection(ids, who) :
          accounts' = [id \in Rows \cup DOMAIN add |-> IF id \in Rows THEN accounts[id] ELSE add[id]]
    BY <1>3 DEF AddRows
<1>6. DOMAIN add = ids /\ (\A id \in ids : add[id] \in who) /\ (\A x \in who : \E id \in ids : add[id] = x)
    BY <1>5 DEF Bijection, Injection, Surjection
<1>7. Rows' = Rows \cup ids
    BY <1>5, <1>6 DEF Rows
<1>8. /\ \A id \in Rows : accounts'[id] = accounts[id]
      /\ \A id \in ids : accounts'[id] = add[id]
    BY <1>4, <1>5, <1>6
<1>9. Live' = Live \cup who
    BY <1>6, <1>7, <1>8 DEF Live
<1> QED BY <1>4, <1>6, <1>7, <1>8, <1>9

-----------------------------------------------------------------------------

LEMMA FilesStart == Init => FileInv
<1> SUFFICES ASSUME Init PROVE FileInv
    OBVIOUS
<1>1. Rows = {}
    BY DEF Init, Rows
<1>2. Locked /\ ReadersTrue
    BY DEF Init, Locked, ReadersTrue, Idle, Files
<1>3. SkippedFilesImported
    BY <1>1 DEF Init, SkippedFilesImported, RowsOf
<1>4. ASSUME NEW f \in Files PROVE IsFiniteSet(file[f])
    <2> DEFINE emails == CASE f = "batch" -> Legacy [] f = "pending" -> Queued [] OTHER -> {}
               line(e) == [email |-> e, sso |-> <<e, 1>>]
    <2>1. emails \in SUBSET Emails
        BY StoreAssumption DEF Files, TxtFiles
    <2>2. IsFiniteSet(emails)
        <3> HIDE DEF emails
        <3> QED BY <2>1, StoreAssumption, FS_Subset
    <2>3. [e \in emails |-> line(e)] \in Surjection(emails, {line(e) : e \in emails})
        <3> HIDE DEF emails, line
        <3> QED BY DEF Surjection
    <2>4. IsFiniteSet({line(e) : e \in emails})
        <3> HIDE DEF emails, line
        <3> QED BY <2>2, <2>3, FS_Surjection
    <2> QED BY <2>4 DEF Init
<1>5. Numbered
    <2>1. IsFiniteSet({})
        BY FS_EmptySet
    <2> QED BY <1>1, <1>4, <2>1 DEF Init, Numbered, Idle
<1> QED BY <1>2, <1>3, <1>5 DEF FileInv

LEMMA ImportKeepsFiles ==
    ASSUME StoreInv, FileInv, NEW p \in Importers, Importing(p)
    PROVE  FileInv'
<1>0. /\ DOMAIN imports = Importers /\ p \notin {Nobody, "cli"} /\ DOMAIN lock = Files
      /\ \A q \in Importers : DOMAIN imports[q] = {"phase", "src", "recs", "ids", "fresh"}
    BY StoreAssumption DEF StoreInv, Shapes, FileInv, Locked
<1>1. ASSUME NEW f \in Files, ReadFile(p, f) PROVE FileInv'
    <2>1. /\ lock[f] = Nobody /\ lock' = [lock EXCEPT ![f] = p]
          /\ UNCHANGED <<accounts, recovering, tombs, file, changed, retry>>
          /\ imports' = [imports EXCEPT ![p] =
                 [phase |-> "read", src |-> f, recs |-> file[f], ids |-> {}, fresh |-> TRUE]]
        BY <1>1 DEF ReadFile, Unlocked, dbVars
    <2>2. /\ imports'[p].phase = "read" /\ imports'[p].src = f /\ imports'[p].recs = file[f]
          /\ \A q \in Importers \ {p} : imports'[q] = imports[q]
        BY <1>0, <2>1
    <2>3. Locked'
        BY <1>0, <2>1, <2>2, StoreAssumption DEF FileInv, Locked, Files, TxtFiles
    <2>4. Numbered'
        BY <2>1, <2>2 DEF FileInv, Numbered, Rows
    <2>5. UNCHANGED <<Live, Rows>>
        BY <2>1 DEF Live, Rows
    <2>6. ReadersTrue'
        BY <2>1, <2>2, <2>5 DEF FileInv, ReadersTrue, Imported, RowsOf
    <2>7. SkippedFilesImported'
        BY <2>1, <2>5 DEF FileInv, SkippedFilesImported, RowsOf
    <2> QED BY <2>3, <2>4, <2>6, <2>7 DEF FileInv
<1>2. ASSUME InsertRecords(p) PROVE FileInv'
    <2> DEFINE who == imports[p].recs
               fresh == Importable(who)
    <2>1. /\ imports[p].phase = "read" /\ AddRows(fresh)
          /\ UNCHANGED <<tombs, file, changed, lock, retry>>
          /\ recovering' = IF imports[p].src = "pending" THEN recovering \cup (DOMAIN accounts' \ Rows)
                                                         ELSE recovering \ RowsOf(who \ tombs)
          /\ imports' = [imports EXCEPT ![p].phase = "inserted", ![p].recs = {},
                          ![p].ids = {id \in DOMAIN accounts' : accounts'[id] \in who \ tombs}]
        BY <1>2 DEF InsertRecords, InsertImported, fileVars
    <2>2. IsFiniteSet(fresh) /\ Rows \subseteq Ids /\ recovering \subseteq Rows
        BY FS_Difference DEF FileInv, Numbered, Importable
    <2>3. /\ Rows' \subseteq Ids /\ Rows \subseteq Rows'
          /\ \A id \in Rows : accounts'[id] = accounts[id]
          /\ \A id \in Rows' \ Rows : accounts'[id] \in fresh
          /\ Live' = Live \cup fresh
        <3> HIDE DEF fresh
        <3> QED BY <2>1, <2>2, RowsNumbered
    <2>4. fresh = who \ (Live \cup tombs)
        BY DEF Importable
    <2>5. recovering' \subseteq Rows'
        BY <2>1, <2>2, <2>3 DEF Rows
    <2>6. TableKeeps
        BY <2>1, <2>2, <2>3, <2>4, <2>5 DEF TableKeeps, Rows
    <2>7. /\ imports'[p].phase = "inserted" /\ imports'[p].src = imports[p].src /\ imports'[p].recs = {}
          /\ \A q \in Importers \ {p} : imports'[q] = imports[q]
        BY <1>0, <2>1
    <2>8. PICK f \in Files : f = imports[p].src /\ who = file[f]
        BY <2>1 DEF FileInv, Locked, ReadersTrue
    <2>9. Imported(f)'
        <3>1. file'[f] \subseteq Live' \cup tombs'
            BY <2>1, <2>3, <2>4, <2>8
        <3>2. ASSUME f \in TxtFiles, NEW id \in Rows', accounts'[id] \in file[f] PROVE id \notin recovering'
            <4>1. recovering' = recovering \ RowsOf(who \ tombs)
                BY <2>1, <2>8, <3>2 DEF TxtFiles
            <4>2. CASE id \in Rows
                <5>1. accounts[id] \in Live /\ accounts[id] \in who
                    BY <2>3, <2>8, <3>2, <4>2 DEF Live
                <5>2. accounts[id] \in who \ tombs
                    BY <5>1 DEF StoreInv, Buried
                <5> QED BY <4>1, <4>2, <5>2 DEF RowsOf
            <4>3. CASE id \notin Rows
                BY <2>2, <4>1, <4>3
            <4> QED BY <4>2, <4>3
        <3> QED BY <2>1, <3>1, <3>2 DEF Imported, RowsOf
    <2>10. ReadersTrue'
        <3>1. ASSUME NEW q \in Importers \ {p}
              PROVE  /\ imports[q].phase = "read" => imports[q].recs = file[imports[q].src]
                     /\ imports[q].phase = "inserted" => Imported(imports[q].src)'
                     /\ imports[q].phase = "record" /\ imports[q].fresh => Imported(imports[q].src)'
            <4>1. PICK g : g = imports[q].src /\ imports'[q].src = g
                BY <2>7
            <4>2. Imported(g) => Imported(g)'
                BY <2>1, <2>6, ImportedKept
            <4> QED BY <2>7, <4>1, <4>2 DEF FileInv, ReadersTrue, Imported
        <3>2. ASSUME NEW q \in Importers
              PROVE  (/\ imports[q].phase = "read" => imports[q].recs = file[imports[q].src]
                      /\ imports[q].phase = "inserted" => Imported(imports[q].src)
                      /\ imports[q].phase = "record" /\ imports[q].fresh => Imported(imports[q].src))'
            <4>1. CASE q = p
                <5>1. Imported(imports[p].src)'
                    BY <2>7, <2>8, <2>9 DEF Imported
                <5> QED BY <2>7, <4>1, <5>1
            <4>2. CASE q # p
                <5>1. imports'[q] = imports[q] /\ file' = file
                    BY <2>1, <2>7, <4>2
                <5> QED BY <3>1, <4>2, <5>1
            <4> QED BY <4>1, <4>2
        <3> QED BY <3>2 DEF ReadersTrue
    <2>11. SkippedFilesImported'
        BY <2>1, <2>6, SkippedAreImported, ImportedKept DEF FileInv, SkippedFilesImported, Imported
    <2>12. Locked'
        BY <2>1, <2>7 DEF FileInv, Locked
    <2>13. Numbered'
        <3>1. IsFiniteSet({})
            BY FS_EmptySet
        <3> QED BY <2>1, <2>3, <2>5, <2>7, <3>1 DEF FileInv, Numbered
    <2> QED BY <2>10, <2>11, <2>12, <2>13 DEF FileInv
<1>3. ASSUME AttachSource(p) PROVE FileInv'
    <2>1. PICK f \in Files : f = imports[p].src /\ imports[p].phase = "inserted" /\ lock[f] = p
        BY <1>3 DEF AttachSource, FileInv, Locked
    <2>2. /\ lock' = [lock EXCEPT ![f] = Nobody]
          /\ UNCHANGED <<accounts, recovering, tombs, file, changed, retry>>
          /\ imports' = Import(p, "record") \/ imports' = [imports EXCEPT ![p] = Idle]
        BY <1>3, <2>1 DEF AttachSource
    <2>3. /\ \/ /\ imports'[p].phase = "record" /\ imports'[p].src = f
                /\ imports'[p].recs = imports[p].recs
             \/ imports'[p].phase = "idle" /\ imports'[p].recs = {}
          /\ \A q \in Importers \ {p} : imports'[q] = imports[q]
        BY <1>0, <2>1, <2>2 DEF Import, Idle
    <2>4. UNCHANGED <<Live, Rows>>
        BY <2>2 DEF Live, Rows
    <2>5. Locked'
        BY <1>0, <2>1, <2>2, <2>3 DEF FileInv, Locked, Files, TxtFiles
    <2>6. Numbered'
        BY <2>2, <2>3, <2>4, FS_EmptySet DEF FileInv, Numbered
    <2>7. ReadersTrue'
        BY <2>1, <2>2, <2>3, <2>4 DEF FileInv, ReadersTrue, Imported, RowsOf
    <2>8. SkippedFilesImported'
        BY <2>2, <2>4 DEF FileInv, SkippedFilesImported, RowsOf
    <2> QED BY <2>5, <2>6, <2>7, <2>8 DEF FileInv
<1>4. ASSUME RecordImport(p) PROVE FileInv'
    <2>1. PICK f \in Files : f = imports[p].src /\ imports[p].phase = "record"
        BY <1>4 DEF RecordImport, FileInv, Locked
    <2>2. /\ UNCHANGED <<accounts, recovering, tombs, file, lock, retry>>
          /\ changed' = IF imports[p].fresh THEN changed \ {f} ELSE changed \cup {f}
          /\ imports' = [imports EXCEPT ![p] = Idle]
        BY <1>4, <2>1 DEF RecordImport, StillFresh, dbVars
    <2>3. /\ imports'[p].phase = "idle" /\ imports'[p].recs = {}
          /\ \A q \in Importers \ {p} : imports'[q] = imports[q]
        BY <1>0, <2>2 DEF Idle
    <2>4. UNCHANGED <<Live, Rows>>
        BY <2>2 DEF Live, Rows
    <2>5. Locked'
        BY <2>2, <2>3 DEF FileInv, Locked
    <2>6. Numbered'
        BY <2>2, <2>3, <2>4, FS_EmptySet DEF FileInv, Numbered
    <2>7. ReadersTrue'
        BY <2>2, <2>3, <2>4 DEF FileInv, ReadersTrue, Imported, RowsOf
    <2>8. SkippedFilesImported'
        <3>1. imports[p].fresh => Imported(f)
            BY <2>1 DEF FileInv, ReadersTrue
        <3>2. \A g \in Files \ changed' : Imported(g)
            BY <2>2, <3>1, SkippedAreImported DEF FileInv
        <3> QED BY <2>2, <2>4, <3>2 DEF SkippedFilesImported, Imported, RowsOf
    <2> QED BY <2>5, <2>6, <2>7, <2>8 DEF FileInv
<1>5. ASSUME AbortImport(p) PROVE FileInv'
    <2>1. /\ UNCHANGED <<accounts, recovering, tombs, file, changed, retry>>
          /\ lock' = [f \in Files |-> IF lock[f] = p THEN Nobody ELSE lock[f]]
          /\ imports' = [imports EXCEPT ![p] = Idle]
        BY <1>5 DEF AbortImport, dbVars
    <2>2. /\ imports'[p].phase = "idle" /\ imports'[p].recs = {}
          /\ \A q \in Importers \ {p} : imports'[q] = imports[q]
        BY <1>0, <2>1 DEF Idle
    <2>3. UNCHANGED <<Live, Rows>>
        BY <2>1 DEF Live, Rows
    <2>4. Locked'
        BY <1>0, <2>1, <2>2 DEF FileInv, Locked, Files, TxtFiles
    <2>5. Numbered'
        BY <2>1, <2>2, <2>3, FS_EmptySet DEF FileInv, Numbered
    <2>6. ReadersTrue'
        BY <2>1, <2>2, <2>3 DEF FileInv, ReadersTrue, Imported, RowsOf
    <2>7. SkippedFilesImported'
        BY <2>1, <2>3 DEF FileInv, SkippedFilesImported, RowsOf
    <2> QED BY <2>4, <2>5, <2>6, <2>7 DEF FileInv
<1> QED BY <1>1, <1>2, <1>3, <1>4, <1>5 DEF Importing

LEMMA RegistrationKeepsFiles ==
    ASSUME StoreInv, FileInv, Registering
    PROVE  FileInv'
<1>0. "pending" \in Files /\ "batch" \in Files /\ Rows \subseteq Ids /\ recovering \subseteq Rows
    BY DEF Files, TxtFiles, FileInv, Numbered
<1>1. CASE StartRegistration \/ EndRegistration
    BY <1>1, NoFileStep DEF StartRegistration, EndRegistration, dbVars, fileVars
<1>2. ASSUME NEW e \in Emails, Persist(e) PROVE FileInv'
    <2>0. UNCHANGED <<lock, retry>>
        BY <1>2 DEF Persist
    <2>1. CASE InsertNative(Newcomer(e)) /\ UNCHANGED <<file, changed, imports>>
        <3>1. {Newcomer(e)} \ Live = {Newcomer(e)}
            BY <1>2, PersistStep, KnownParts
        <3>2. AddRows({Newcomer(e)}) /\ tombs' = tombs \ {Newcomer(e)} /\ recovering' \subseteq recovering
            BY <2>1, <3>1 DEF InsertNative
        <3>3. IsFiniteSet({Newcomer(e)})
            BY FS_Singleton
        <3>4. /\ Rows' \subseteq Ids /\ Rows \subseteq Rows'
              /\ \A id \in Rows : accounts'[id] = accounts[id]
              /\ Live' = Live \cup {Newcomer(e)}
            BY <1>0, <3>2, <3>3, RowsNumbered
        <3>5. TableKeeps
            BY <1>0, <3>2, <3>4 DEF TableKeeps
        <3> QED BY <1>0, <2>0, <2>1, <3>2, <3>4, <3>5, TableOnly
    <2>2. CASE /\ UNCHANGED dbVars /\ Unlocked("pending")
               /\ Write("pending", file["pending"] \cup {Newcomer(e)})
        <3>1. IsFiniteSet(file["pending"] \cup {Newcomer(e)})
            BY <1>0, FS_AddElement DEF FileInv, Numbered
        <3>2. TableKeeps /\ UNCHANGED <<Rows, recovering>>
            BY <2>2, SameRows DEF dbVars, Rows
        <3> QED BY <1>0, <2>0, <2>2, <3>1, <3>2, WriteKeeps, AfterWrite DEF Unlocked
    <2>3. CASE UNCHANGED <<dbVars, file, changed, imports>>
        BY <2>0, <2>3, NoFileStep DEF dbVars
    <2> QED BY <1>2, <2>1, <2>2, <2>3 DEF Persist, Newcomer
<1>3. CASE ExportLine
    <2>1. UNCHANGED <<accounts, recovering, tombs, lock, retry>>
        BY <1>3 DEF ExportLine
    <2>2. CASE Unlocked("batch") /\ Append("batch", {made.who})
        <3>1. IsFiniteSet({made.who}) /\ UNCHANGED <<Rows, recovering>>
            BY <2>1, FS_Singleton DEF Rows
        <3> QED BY <1>0, <2>1, <2>2, <3>1, AppendKeeps, AfterWrite
    <2>3. CASE UNCHANGED <<file, changed, imports>>
        BY <2>1, <2>3, NoFileStep
    <2> QED BY <1>3, <2>2, <2>3 DEF ExportLine
<1> QED BY <1>1, <1>2, <1>3 DEF Registering

LEMMA DeleteKeepsFiles ==
    ASSUME StoreInv, FileInv, Delete
    PROVE  FileInv'
<1>1. /\ accounts' = Without(accounts, deleting)
      /\ tombs' = tombs \cup {accounts[id] : id \in deleting \cap Rows}
      /\ recovering' = recovering \ deleting
      /\ UNCHANGED <<file, changed, lock, imports, retry>>
    BY DEF Delete, DeleteRows, fileVars
<1>2. /\ Rows' = Rows \ deleting
      /\ \A id \in Rows' : accounts'[id] = accounts[id]
    BY <1>1 DEF Without, Rows
<1>3. Live \cup tombs \subseteq Live' \cup tombs'
    BY <1>1, <1>2 DEF Live
<1>4. TableKeeps
    BY <1>1, <1>2, <1>3 DEF TableKeeps
<1> QED BY <1>1, <1>2, <1>4, TableOnly DEF FileInv, Numbered

LEMMA SessionKeepsFiles ==
    ASSUME StoreInv, FileInv, StoreSession
    PROVE  FileInv'
<1>1. UNCHANGED <<file, changed, lock, imports, retry>> /\ job.state = "update"
    BY DEF StoreSession, fileVars
<1>2. CASE UNCHANGED dbVars
    BY <1>1, <1>2, NoFileStep DEF dbVars
<1>3. CASE job.at \in Rows /\ ReplaceSession(job.at, job.new)
    <2>1. PICK id \in Rows : id = job.at
        BY <1>3
    <2>2. /\ tombs \subseteq tombs' /\ recovering' = recovering
          /\ tombs' = tombs \cup ({accounts[id]} \ {[accounts[id] EXCEPT !.sso = job.new]})
          /\ accounts' = [accounts EXCEPT ![id].sso = job.new]
        BY <1>3, <2>1 DEF ReplaceSession
    <2>3. Rows' = Rows /\ \A other \in Rows \ {id} : accounts'[other] = accounts[other]
        BY <2>2 DEF Rows
    <2>4. accounts[id] \in Identity
        BY <2>1, KnownParts DEF StoreInv, SessionsIssued, Live
    <2>5. accounts'[id].sso = job.new
        BY <2>2, <2>4 DEF Identity, Rows
    <2>6. accounts'[id] \notin Known
        BY <1>1, <2>5 DEF StoreInv, NewSession
    <2>7. accounts'[id] \notin Live \cup tombs
        BY <2>6, KnownParts
    <2>8. Live \cup tombs \subseteq Live' \cup tombs'
        <3>1. accounts[id] \in Live' \cup tombs'
            BY <2>2, <2>3 DEF Live, Rows
        <3> QED BY <2>2, <2>3, <3>1 DEF Live
    <2>9. TableKeeps
        BY <2>2, <2>3, <2>7, <2>8 DEF TableKeeps
    <2> QED BY <1>1, <2>2, <2>3, <2>9, TableOnly DEF FileInv, Numbered
<1> QED BY <1>2, <1>3 DEF StoreSession

LEMMA ExportKeepsFiles ==
    ASSUME StoreInv, FileInv, NEW f \in TxtFiles, RestoreExport(f)
    PROVE  FileInv'
<1>1. UNCHANGED <<accounts, recovering, tombs, lock, retry>> /\ f \in Files
    BY DEF RestoreExport, Files
<1>2. CASE UNCHANGED <<file, changed, imports>>
    BY <1>1, <1>2, NoFileStep
<1>3. ASSUME NEW keys, NEW now, Unlocked(f), Write(f, (file[f] \ keys) \cup {now}) PROVE FileInv'
    <2>1. IsFiniteSet((file[f] \ keys) \cup {now})
        <3>1. IsFiniteSet(file[f] \ keys)
            BY <1>1, FS_Difference DEF FileInv, Numbered
        <3> QED BY <3>1, FS_AddElement
    <2>2. TableKeeps /\ UNCHANGED <<Rows, recovering>>
        BY <1>1, SameRows DEF Rows
    <2>3. Rows \subseteq Ids /\ recovering \subseteq Rows
        BY DEF FileInv, Numbered
    <2> QED BY <1>1, <1>3, <2>1, <2>2, <2>3, WriteKeeps, AfterWrite DEF Unlocked
<1> QED BY <1>2, <1>3 DEF RestoreExport

LEMMA RetryKeepsFiles ==
    ASSUME StoreInv, FileInv, AppendPending \/ RewritePending \/ KillRetry
    PROVE  FileInv'
<1>0. /\ "pending" \in Files /\ "batch" \in Files /\ Rows \subseteq Ids /\ recovering \subseteq Rows
      /\ DOMAIN lock = Files
    BY DEF Files, TxtFiles, FileInv, Numbered, Locked
<1>1. UNCHANGED <<accounts, recovering, tombs, Rows>>
    BY DEF AppendPending, RewritePending, KillRetry, dbVars, Rows
<1>2. CASE AppendPending
    <2>1. PICK restored \in SUBSET file["pending"] :
              /\ Unlocked("pending") /\ Unlocked("batch") /\ Append("batch", restored)
              /\ retry' = [phase |-> "appended", kept |-> file["pending"] \ restored]
              /\ lock' = [lock EXCEPT !["pending"] = "cli", !["batch"] = "cli"]
        BY <1>2 DEF AppendPending, Appended
    <2>2. IsFiniteSet(restored) /\ IsFiniteSet(file["pending"] \ restored)
        BY <1>0, FS_Subset, FS_Difference DEF FileInv, Numbered
    <2>3. /\ ReadersTrue' /\ SkippedFilesImported'
          /\ \A g \in Files : IsFiniteSet(file'[g])
          /\ \A p \in Importers : /\ imports'[p].phase = imports[p].phase /\ imports'[p].src = imports[p].src
                                  /\ imports'[p].recs = imports[p].recs
        BY <1>0, <1>1, <2>1, <2>2, AppendKeeps
    <2>4. Locked'
        BY <1>0, <2>1, <2>3, StoreAssumption DEF FileInv, Locked, Unlocked
    <2>5. Numbered'
        BY <1>0, <1>1, <2>1, <2>2, <2>3 DEF FileInv, Numbered
    <2> QED BY <2>3, <2>4, <2>5 DEF FileInv
<1>3. CASE RewritePending
    <2>1. /\ Write("pending", retry.kept) /\ retry' = [phase |-> "idle", kept |-> {}]
          /\ lock' = [lock EXCEPT !["pending"] = Nobody, !["batch"] = Nobody]
          /\ lock["pending"] = "cli" /\ lock["batch"] = "cli"
        BY <1>3 DEF RewritePending, FileInv, Locked
    <2>2. IsFiniteSet(retry.kept) /\ TableKeeps
        BY <1>1, SameRows DEF FileInv, Numbered
    <2>3. /\ ReadersTrue' /\ SkippedFilesImported'
          /\ \A g \in Files : IsFiniteSet(file'[g])
          /\ \A p \in Importers : /\ imports'[p].phase = imports[p].phase /\ imports'[p].src = imports[p].src
                                  /\ imports'[p].recs = imports[p].recs
        BY <1>0, <2>1, <2>2, WriteKeeps
    <2>4. Locked'
        BY <1>0, <2>1, <2>3, StoreAssumption DEF FileInv, Locked
    <2>5. Numbered'
        BY <1>0, <1>1, <2>1, <2>3, FS_EmptySet DEF FileInv, Numbered
    <2> QED BY <2>3, <2>4, <2>5 DEF FileInv
<1>4. CASE KillRetry
    <2>1. /\ UNCHANGED <<file, changed, imports>> /\ retry' = [phase |-> "idle", kept |-> {}]
          /\ lock' = [lock EXCEPT !["pending"] = Nobody, !["batch"] = Nobody]
          /\ lock["pending"] = "cli" /\ lock["batch"] = "cli"
        BY <1>4 DEF KillRetry, FileInv, Locked
    <2>2. Locked'
        BY <1>0, <2>1, StoreAssumption DEF FileInv, Locked
    <2>3. Numbered'
        BY <1>0, <1>1, <2>1, FS_EmptySet DEF FileInv, Numbered
    <2>4. ReadersTrue' /\ SkippedFilesImported'
        BY <1>1, <2>1 DEF FileInv, ReadersTrue, SkippedFilesImported, Imported, RowsOf, Live
    <2> QED BY <2>2, <2>3, <2>4 DEF FileInv
<1> QED BY <1>2, <1>3, <1>4

LEMMA RestartKeepsFiles ==
    ASSUME StoreInv, FileInv, Restart
    PROVE  FileInv'
<1>1. /\ UNCHANGED <<accounts, recovering, tombs, file, changed, retry, Rows, Live>>
      /\ imports' = [p \in Importers |-> Idle]
      /\ lock' = [f \in Files |-> IF lock[f] = "cli" THEN "cli" ELSE Nobody]
    BY DEF Restart, dbVars, Rows, Live
<1>2. Locked'
    BY <1>1 DEF FileInv, Locked, Idle, Files, TxtFiles
<1>3. Numbered'
    BY <1>1, FS_EmptySet DEF FileInv, Numbered, Idle
<1>4. ReadersTrue' /\ SkippedFilesImported'
    BY <1>1 DEF FileInv, ReadersTrue, SkippedFilesImported, RowsOf, Idle
<1> QED BY <1>2, <1>3, <1>4 DEF FileInv

LEMMA FilesStep == StoreInv /\ FileInv /\ [Next]_vars => FileInv'
<1> SUFFICES ASSUME StoreInv, FileInv, [Next]_vars PROVE FileInv'
    OBVIOUS
<1>1. ASSUME NEW S \in Requests, CheckDelete(S) \/ StartReauth(S) PROVE FileInv'
    BY <1>1, NoFileStep DEF CheckDelete, StartReauth, dbVars, fileVars
<1>2. CASE CreateJob \/ (\E id \in Ids : NextAccount(id)) \/ Login \/ FinishAccount \/ EndJob \/ StopReauth
    <2>1. UNCHANGED <<dbVars, fileVars, imports, retry>>
        BY <1>2 DEF CreateJob, NextAccount, Login, FinishAccount, EndJob, StopReauth
    <2> QED BY <2>1, NoFileStep DEF dbVars, fileVars
<1>3. CASE UNCHANGED vars
    BY <1>3, NoFileStep DEF vars, dbVars, fileVars
<1> QED BY <1>1, <1>2, <1>3, ImportKeepsFiles, RegistrationKeepsFiles, DeleteKeepsFiles, SessionKeepsFiles,
       ExportKeepsFiles, RetryKeepsFiles, RestartKeepsFiles DEF Next, Reauthenticating

LEMMA FilesInvariant == Spec => []FileInv
BY FilesStart, FilesStep, StoreInvariant, PTL DEF Spec

\* What the importer skips because its fingerprint is known has nothing left
\* to import (import_legacy_accounts, storage/legacy_import.py).
THEOREM SkippedHasNothing == Spec => []SkippedFilesImported
BY FilesInvariant, PTL DEF FileInv

-----------------------------------------------------------------------------
(* The saved accounts.                                                     *)

\* A registration's own session is the first one of its email; a session
\* under another's email is a later one.
FirstSession(who) == issued[who.email] >= 1 /\ (who.sso[1] # who.email => who.sso[2] >= 2)

FirstSessions ==
    /\ \A who \in Known : FirstSession(who)
    /\ \A id \in DOMAIN job.snap : issued[job.snap[id].email] >= 1
    /\ job.state \in {"update", "export"} => job.new[2] >= 2
    /\ \A who \in saved : who \in Identity /\ who.sso = <<who.email, 1>>

\* A job takes a registration's line out of a file only after the row has
\* lost its session to the new one.
ReplacedIsPast ==
    job.state = "export" =>
        LET e == job.snap[job.at].email
        IN  job.old = <<e, 1>> => [email |-> e, sso |-> job.old] \in past

\* What retry-pending is going to drop from the queue is in the TXT.
Moved == retry.phase = "appended" => file["pending"] \subseteq retry.kept \cup file["batch"]

SavedInv == FirstSessions /\ ReplacedIsPast /\ Moved /\ SavedNotLost

LEMMA IssuedGrows ==
    ASSUME StoreInv, [Next]_vars
    PROVE  \A e \in Emails : issued[e] \in Nat /\ issued'[e] \in Nat /\ issued[e] <= issued'[e]
<1>0. issued \in [Emails -> Nat]
    BY DEF StoreInv, Shapes
<1>1. ASSUME NEW e \in Emails, Persist(e) PROVE issued' = [issued EXCEPT ![e] = 1] /\ issued[e] = 0
    BY <1>1 DEF Persist
<1>2. ASSUME Login
      PROVE  issued' = issued \/ issued' = [issued EXCEPT ![job.snap[job.at].email] = @ + 1]
    BY <1>2 DEF Login
<1>3. ASSUME ~Login, ~\E e \in Emails : Persist(e) PROVE issued' = issued
    <2>1. ASSUME NEW p \in Importers, Importing(p) PROVE issued' = issued
        BY <2>1 DEF Importing, ReadFile, InsertRecords, AttachSource, RecordImport, AbortImport
    <2>2. ASSUME Registering PROVE issued' = issued
        BY <1>3, <2>2 DEF Registering, StartRegistration, ExportLine, EndRegistration
    <2>3. ASSUME NEW S \in Requests, CheckDelete(S) \/ StartReauth(S) PROVE issued' = issued
        BY <2>3 DEF CheckDelete, StartReauth
    <2>4. ASSUME Reauthenticating PROVE issued' = issued
        BY <1>3, <2>4 DEF Reauthenticating, CreateJob, NextAccount, StoreSession, RestoreExport, FinishAccount, EndJob
    <2>5. ASSUME Delete \/ StopReauth \/ AppendPending \/ RewritePending \/ KillRetry \/ Restart \/ UNCHANGED vars
          PROVE  issued' = issued
        BY <2>5 DEF Delete, StopReauth, AppendPending, RewritePending, KillRetry, Restart, vars
    <2> QED BY <2>1, <2>2, <2>3, <2>4, <2>5 DEF Next
<1> QED BY <1>0, <1>1, <1>2, <1>3

\* What each step makes of the job.
LEMMA JobMoves ==
    ASSUME StoreInv, [Next]_vars
    PROVE  \/ job' = NoJob
           \/ \E S \in Requests : StartReauth(S)
           \/ /\ Login
              /\ job' = [job EXCEPT !.state = "update",
                                    !.new = <<job.snap[job.at].email, issued[job.snap[job.at].email] + 1>>]
           \/ /\ StoreSession /\ job.at \in Rows /\ ReplaceSession(job.at, job.new)
              /\ job' = [job EXCEPT !.state = "export", !.old = accounts[job.at].sso, !.paths = job'.paths]
           \/ /\ job'.snap = job.snap
              /\ job'.state \in {"update", "export"} =>
                     /\ job'.state = job.state
                     /\ job'.new = job.new /\ job'.at = job.at /\ job'.old = job.old
<1> DEFINE Goes ==
        /\ job'.snap = job.snap
        /\ job'.state \in {"update", "export"} =>
               job'.state = job.state /\ job'.new = job.new /\ job'.at = job.at /\ job'.old = job.old
<1>0. DOMAIN job = JobFields
    BY DEF StoreInv, Shapes
<1>1. ASSUME NEW id, NEW status, Done(id, status) PROVE Goes
    BY <1>0, <1>1 DEF Done, JobFields
<1>2. CASE CreateJob
    BY <1>0, <1>2 DEF CreateJob, JobFields
<1>3. ASSUME NEW id \in Ids, NextAccount(id) PROVE Goes
    <2>1. CASE Try(id)
        BY <1>0, <2>1 DEF Try, JobFields
    <2> QED BY <1>1, <1>3, <2>1 DEF NextAccount
<1>4. CASE Login
    <2>1. CASE \E status : Done(job.at, status)
        BY <1>1, <2>1
    <2> QED BY <1>4, <2>1 DEF Login, Obtained
<1>5. CASE StoreSession
    <2>1. CASE \E status : Done(job.at, status)
        BY <1>1, <2>1
    <2>2. ASSUME NEW paths, job' = [job EXCEPT !.state = "export", !.old = accounts[job.at].sso, !.paths = paths]
          PROVE  job' = [job EXCEPT !.state = "export", !.old = accounts[job.at].sso, !.paths = job'.paths]
        <3>1. job'.paths = paths
            BY <1>0, <2>2 DEF JobFields
        <3> QED BY <2>2, <3>1
    <2> QED BY <1>5, <2>1, <2>2 DEF StoreSession
<1>6. CASE (\E f \in TxtFiles : RestoreExport(f)) \/ StopReauth
    BY <1>0, <1>6 DEF RestoreExport, StopReauth, JobFields
<1>7. CASE FinishAccount
    BY <1>1, <1>7 DEF FinishAccount
<1>8. CASE EndJob \/ Restart
    BY <1>8 DEF EndJob, Restart
<1>9. CASE Delete
    BY <1>0, <1>9 DEF Delete, JobFields
<1>10. ASSUME ~Delete, ~Reauthenticating, ~\E S \in Requests : StartReauth(S), ~StopReauth, ~Restart
       PROVE  job' = job
    <2>1. ASSUME NEW p \in Importers, Importing(p) PROVE job' = job
        BY <2>1 DEF Importing, ReadFile, InsertRecords, AttachSource, RecordImport, AbortImport
    <2>2. ASSUME Registering PROVE job' = job
        BY <2>2 DEF Registering, StartRegistration, Persist, ExportLine, EndRegistration
    <2>3. ASSUME NEW S \in Requests, CheckDelete(S) PROVE job' = job
        BY <2>3 DEF CheckDelete
    <2>4. ASSUME AppendPending \/ RewritePending \/ KillRetry \/ UNCHANGED vars PROVE job' = job
        BY <2>4 DEF AppendPending, RewritePending, KillRetry, vars
    <2> QED BY <1>10, <2>1, <2>2, <2>3, <2>4 DEF Next
<1> QED BY <1>2, <1>3, <1>4, <1>5, <1>6, <1>7, <1>8, <1>9, <1>10 DEF Reauthenticating

\* What each step makes of a file.
LEMMA FileMoves ==
    ASSUME StoreInv, [Next]_vars, NEW f \in Files
    PROVE  \/ file'[f] = file[f]
           \/ Unlocked(f) /\ file[f] \subseteq file'[f]
           \/ /\ f \in TxtFiles /\ job.state = "export" /\ Unlocked(f)
              /\ file[f] \ {[email |-> job.snap[job.at].email, sso |-> job.old]} \subseteq file'[f]
           \/ f = "pending" /\ RewritePending
<1>0. DOMAIN file = Files /\ "batch" \in Files /\ "pending" \in Files /\ TxtFiles \subseteq Files
    BY DEF StoreInv, Shapes, Files, TxtFiles
<1>1. ASSUME NEW g \in Files, NEW lines, Unlocked(g), Append(g, lines)
      PROVE  file'[f] = file[f] \/ (Unlocked(f) /\ file[f] \subseteq file'[f])
    BY <1>0, <1>1 DEF Append, Write
<1>2. ASSUME NEW e \in Emails, Persist(e)
      PROVE  file'[f] = file[f] \/ (Unlocked(f) /\ file[f] \subseteq file'[f])
    BY <1>0, <1>2 DEF Persist, Write
<1>3. CASE ExportLine
    BY <1>0, <1>1, <1>3 DEF ExportLine
<1>4. ASSUME NEW g \in TxtFiles, RestoreExport(g)
      PROVE  \/ file'[f] = file[f]
             \/ /\ f \in TxtFiles /\ job.state = "export" /\ Unlocked(f)
                /\ file[f] \ {[email |-> job.snap[job.at].email, sso |-> job.old]} \subseteq file'[f]
    <2>1. PICK e, old, new : e = job.snap[job.at].email /\ old = job.old /\ new = job.new
        OBVIOUS
    <2>2. CASE /\ Unlocked(g)
               /\ Write(g, (file[g] \ {[email |-> e, sso |-> old], [email |-> e, sso |-> new]})
                              \cup {[email |-> e, sso |-> new]})
        <3>1. file' = [file EXCEPT ![g] = (file[g] \ {[email |-> e, sso |-> old], [email |-> e, sso |-> new]})
                                             \cup {[email |-> e, sso |-> new]}]
            BY <2>2 DEF Write
        <3>2. job.state = "export"
            BY <1>4 DEF RestoreExport
        <3>3. CASE g = f
            BY <1>0, <2>1, <2>2, <3>1, <3>2, <3>3
        <3>4. CASE g # f
            BY <1>0, <3>1, <3>4
        <3> QED BY <3>3, <3>4
    <2>3. CASE UNCHANGED file
        BY <2>3
    <2> QED BY <1>4, <2>1, <2>2, <2>3 DEF RestoreExport
<1>5. CASE AppendPending
    BY <1>0, <1>1, <1>5 DEF AppendPending
<1>6. CASE RewritePending
    BY <1>0, <1>6 DEF RewritePending, Write
<1>7. ASSUME ~(\E e \in Emails : Persist(e)), ~ExportLine, ~(\E g \in TxtFiles : RestoreExport(g)),
             ~AppendPending, ~RewritePending
      PROVE  file' = file
    <2>1. ASSUME NEW p \in Importers, Importing(p) PROVE file' = file
        BY <2>1 DEF Importing, ReadFile, InsertRecords, AttachSource, RecordImport, AbortImport, fileVars
    <2>2. ASSUME Registering PROVE file' = file
        BY <1>7, <2>2 DEF Registering, StartRegistration, EndRegistration, fileVars
    <2>3. ASSUME NEW S \in Requests, CheckDelete(S) \/ StartReauth(S) PROVE file' = file
        BY <2>3 DEF CheckDelete, StartReauth, fileVars
    <2>4. ASSUME Reauthenticating PROVE file' = file
        BY <1>7, <2>4 DEF Reauthenticating, CreateJob, NextAccount, Login, StoreSession, FinishAccount, EndJob, fileVars
    <2>5. ASSUME Delete \/ StopReauth \/ KillRetry \/ Restart \/ UNCHANGED vars PROVE file' = file
        BY <2>5 DEF Delete, StopReauth, KillRetry, Restart, fileVars, vars
    <2> QED BY <1>7, <2>1, <2>2, <2>3, <2>4, <2>5 DEF Next
<1> QED BY <1>2, <1>3, <1>4, <1>5, <1>6, <1>7

\* Only a registration saves an account: in the table or in the queue.
LEMMA SavedGrows ==
    ASSUME StoreInv, FileInv, [Next]_vars
    PROVE  \/ saved' = saved
           \/ \E e \in Emails : /\ Persist(e) /\ saved' = saved \cup {Newcomer(e)}
                                /\ Newcomer(e) \in Live' \cup file'["pending"]
<1>1. ASSUME NEW e \in Emails, Persist(e), saved' # saved
      PROVE  saved' = saved \cup {Newcomer(e)} /\ Newcomer(e) \in Live' \cup file'["pending"]
    <2>1. CASE InsertNative(Newcomer(e)) /\ saved' = saved \cup {Newcomer(e)}
        <3>1. {Newcomer(e)} \ Live = {Newcomer(e)}
            BY <1>1, PersistStep, KnownParts
        <3>2. AddRows({Newcomer(e)}) /\ IsFiniteSet({Newcomer(e)})
            BY <2>1, <3>1, FS_Singleton DEF InsertNative
        <3>3. Live' = Live \cup {Newcomer(e)}
            BY <3>2, RowsNumbered DEF FileInv, Numbered
        <3> QED BY <2>1, <3>3
    <2>2. CASE Write("pending", file["pending"] \cup {Newcomer(e)}) /\ saved' = saved \cup {Newcomer(e)}
        <3>1. DOMAIN file = Files /\ "pending" \in Files
            BY <1>1 DEF StoreInv, Shapes, Files
        <3> QED BY <2>2, <3>1 DEF Write
    <2> QED BY <1>1, <2>1, <2>2 DEF Persist, Newcomer
<1>2. ASSUME ~\E e \in Emails : Persist(e) PROVE saved' = saved
    <2>1. ASSUME NEW p \in Importers, Importing(p) PROVE saved' = saved
        BY <2>1 DEF Importing, ReadFile, InsertRecords, AttachSource, RecordImport, AbortImport
    <2>2. ASSUME Registering PROVE saved' = saved
        BY <1>2, <2>2 DEF Registering, StartRegistration, ExportLine, EndRegistration
    <2>3. ASSUME NEW S \in Requests, CheckDelete(S) \/ StartReauth(S) PROVE saved' = saved
        BY <2>3 DEF CheckDelete, StartReauth
    <2>4. ASSUME Reauthenticating PROVE saved' = saved
        BY <2>4 DEF Reauthenticating, CreateJob, NextAccount, Login, StoreSession, RestoreExport, FinishAccount, EndJob
    <2>5. ASSUME Delete \/ StopReauth \/ AppendPending \/ RewritePending \/ KillRetry \/ Restart \/ UNCHANGED vars
          PROVE  saved' = saved
        BY <2>5 DEF Delete, StopReauth, AppendPending, RewritePending, KillRetry, Restart, vars
    <2> QED BY <2>1, <2>2, <2>3, <2>4, <2>5 DEF Next
<1> QED BY <1>1, <1>2

LEMMA FirstStep ==
    ASSUME StoreInv, FileInv, JobTrue, FirstSessions, [Next]_vars
    PROVE  FirstSessions'
<1>1. ASSUME NEW who, who.email \in Emails, FirstSession(who) PROVE FirstSession(who)'
    <2>1. issued[who.email] \in Nat /\ issued'[who.email] \in Nat /\ issued[who.email] <= issued'[who.email]
        BY <1>1, IssuedGrows
    <2> QED BY <1>1, <2>1 DEF FirstSession
<1>2. \A who \in Known : who.email \in Emails
    BY DEF StoreInv, SessionsIssued, Identity
<1>3. ASSUME NEW who \in Known' PROVE FirstSession(who)'
    <2>1. CASE who \in Known
        BY <1>1, <1>2, <2>1 DEF FirstSessions
    <2>2. ASSUME NEW e \in Emails, Persist(e), who = Newcomer(e) PROVE FirstSession(who)'
        <3>1. issued'[e] = 1
            BY <2>2 DEF Persist, StoreInv, Shapes
        <3> QED BY <2>2, <3>1 DEF FirstSession, Newcomer
    <2>3. CASE StoreSession /\ job.at \in Rows /\ who = [accounts[job.at] EXCEPT !.sso = job.new]
        <3>1. accounts[job.at] \in Known
            BY <2>3, KnownParts DEF Live
        <3>2. accounts[job.at] \in Identity
            BY <3>1 DEF StoreInv, SessionsIssued
        <3>3. who.email = accounts[job.at].email /\ who.sso = job.new
            BY <2>3, <3>2 DEF Identity
        <3>4. job.new[2] >= 2
            BY <2>3 DEF StoreSession, FirstSessions
        <3> QED BY <1>1, <1>2, <3>1, <3>3, <3>4 DEF FirstSessions, FirstSession
    <2>4. ASSUME NEW f \in TxtFiles, RestoreExport(f), who = [email |-> job.snap[job.at].email, sso |-> job.new]
          PROVE  FirstSession(who)'
        <3>1. job.state = "export" /\ job.at \in DOMAIN job.snap
            BY <2>4 DEF RestoreExport, StoreInv, JobRefers
        <3>2. who.email \in Emails /\ FirstSession(who)
            BY <2>4, <3>1 DEF StoreInv, JobRefers, FirstSessions, FirstSession, JobTrue
        <3> QED BY <1>1, <3>2
    <2> QED BY <2>1, <2>2, <2>3, <2>4, KnownStep
<1>4. \A id \in DOMAIN job'.snap : issued'[job'.snap[id].email] >= 1
    <2>1. CASE job' = NoJob
        BY <2>1 DEF NoJob
    <2>2. ASSUME NEW S \in Requests, StartReauth(S)
          PROVE  \A id \in DOMAIN job'.snap : issued'[job'.snap[id].email] >= 1
        <3>1. job'.snap = [id \in S |-> [email |-> accounts[id].email, paths |-> linked[id]]]
              /\ S \subseteq Rows /\ issued' = issued
            BY <2>2 DEF StartReauth, NoJob
        <3>2. \A id \in S : issued[accounts[id].email] >= 1
            BY <3>1, KnownParts DEF Live, FirstSessions, FirstSession
        <3> QED BY <3>1, <3>2
    <2>3. CASE job'.snap = job.snap
        <3>1. ASSUME NEW id \in DOMAIN job.snap PROVE issued'[job.snap[id].email] >= 1
            <4>1. PICK e \in Emails : e = job.snap[id].email
                BY DEF StoreInv, JobRefers
            <4>2. issued[e] \in Nat /\ issued'[e] \in Nat /\ issued[e] <= issued'[e] /\ issued[e] >= 1
                BY <4>1, IssuedGrows DEF FirstSessions
            <4> QED BY <4>1, <4>2
        <3> QED BY <2>3, <3>1
    <2>4. job' = NoJob \/ (\E S \in Requests : StartReauth(S)) \/ job'.snap = job.snap
        BY JobMoves DEF StoreInv, Shapes, JobFields
    <2> QED BY <2>1, <2>2, <2>3, <2>4
<1>5. job'.state \in {"update", "export"} => job'.new[2] >= 2
    <2>1. CASE job' = NoJob
        BY <2>1 DEF NoJob
    <2>2. ASSUME NEW S \in Requests, StartReauth(S) PROVE job'.state = "start"
        BY <2>2 DEF StartReauth, NoJob
    <2>3. CASE /\ Login
               /\ job' = [job EXCEPT !.state = "update",
                                     !.new = <<job.snap[job.at].email, issued[job.snap[job.at].email] + 1>>]
        <3>1. PICK e \in Emails : e = job.snap[job.at].email /\ issued[e] >= 1
            BY <2>3 DEF Login, StoreInv, JobRefers, FirstSessions
        <3>2. issued[e] \in Nat
            BY DEF StoreInv, Shapes
        <3>3. job'.new = <<e, issued[e] + 1>>
            BY <2>3, <3>1 DEF StoreInv, Shapes, JobFields
        <3> QED BY <3>1, <3>2, <3>3
    <2>4. CASE StoreSession /\ job' = [job EXCEPT !.state = "export", !.old = accounts[job.at].sso, !.paths = job'.paths]
        <3>1. job.state = "update" /\ job'.new = job.new
            BY <2>4 DEF StoreSession, StoreInv, Shapes, JobFields
        <3> QED BY <3>1 DEF FirstSessions
    <2>5. CASE job'.state \in {"update", "export"} => job'.state = job.state /\ job'.new = job.new
        BY <2>5 DEF FirstSessions
    <2> QED BY <2>1, <2>2, <2>3, <2>4, <2>5, JobMoves
<1>6. \A who \in saved' : who \in Identity /\ who.sso = <<who.email, 1>>
    <2>1. \A e \in Emails : Newcomer(e) \in Identity /\ Newcomer(e).sso = <<Newcomer(e).email, 1>>
        BY DEF Newcomer, Identity, Sessions
    <2> QED BY <2>1, SavedGrows DEF FirstSessions
<1> QED BY <1>3, <1>4, <1>5, <1>6 DEF FirstSessions

LEMMA ReplacedStep ==
    ASSUME StoreInv, JobTrue, FirstSessions, ReplacedIsPast, [Next]_vars
    PROVE  ReplacedIsPast'
<1>1. past \subseteq past'
    BY HistoryGrows
<1>2. CASE job'.state # "export"
    BY <1>2 DEF ReplacedIsPast
<1>3. CASE /\ StoreSession /\ job.at \in Rows /\ ReplaceSession(job.at, job.new)
           /\ job' = [job EXCEPT !.state = "export", !.old = accounts[job.at].sso, !.paths = job'.paths]
    <2>1. job'.snap = job.snap /\ job'.at = job.at /\ job'.old = accounts[job.at].sso /\ job.state = "update"
        BY <1>3 DEF StoreSession, StoreInv, Shapes, JobFields
    <2>2. PICK who \in Live : who = accounts[job.at]
        BY <1>3 DEF Live
    <2>3. who \in Identity /\ FirstSession(who)
        BY KnownParts DEF StoreInv, SessionsIssued, FirstSessions
    <2>4. who \in past'
        <3>1. who \in tombs'
            <4>1. [who EXCEPT !.sso = job.new] # who
                BY <2>1, <2>2, <2>3, KnownParts DEF StoreInv, NewSession, Identity
            <4> QED BY <1>3, <2>2, <4>1 DEF ReplaceSession
        <3>2. who \notin Live'
            BY <3>1, StoreStep DEF StoreInv, Buried
        <3> QED BY <3>2, HistoryGrows
    <2>5. PICK e \in Emails : e = job.snap[job.at].email
        BY <2>1, <1>3 DEF StoreInv, JobRefers
    <2>6. ASSUME who.sso = <<e, 1>> PROVE [email |-> e, sso |-> who.sso] = who
        BY <2>3, <2>6 DEF FirstSession, Identity
    <2> QED BY <2>1, <2>2, <2>4, <2>5, <2>6 DEF ReplacedIsPast
<1>4. CASE /\ job'.snap = job.snap
           /\ job.state = "export" /\ job'.at = job.at /\ job'.old = job.old
    BY <1>1, <1>4 DEF ReplacedIsPast
<1>5. \A S \in Requests : StartReauth(S) => job'.state = "start"
    BY DEF StartReauth, NoJob
<1>6. NoJob.state = "none"
    BY DEF NoJob
<1>7. Login => job.state = "login" /\ DOMAIN job = JobFields
    BY DEF Login, StoreInv, Shapes
<1> QED BY <1>2, <1>3, <1>4, <1>5, <1>6, <1>7, JobMoves DEF JobFields

LEMMA MovedStep ==
    ASSUME StoreInv, FileInv, Moved, [Next]_vars
    PROVE  Moved'
<1>0. "batch" \in Files /\ "pending" \in Files /\ DOMAIN file = Files
    BY DEF Files, TxtFiles, StoreInv, Shapes
<1>1. CASE AppendPending
    <2>1. PICK restored \in SUBSET file["pending"] :
              Append("batch", restored) /\ retry' = [phase |-> "appended", kept |-> file["pending"] \ restored]
        BY <1>1 DEF AppendPending, Appended
    <2>2. file'["pending"] = file["pending"] /\ restored \subseteq file'["batch"]
        BY <1>0, <2>1 DEF Append, Write
    <2> QED BY <2>1, <2>2 DEF Moved
<1>2. CASE RewritePending \/ KillRetry
    BY <1>2 DEF RewritePending, KillRetry, Moved
<1>3. ASSUME ~AppendPending, ~RewritePending, ~KillRetry PROVE retry' = retry
    <2>1. ASSUME NEW p \in Importers, Importing(p) PROVE retry' = retry
        BY <2>1 DEF Importing, ReadFile, InsertRecords, AttachSource, RecordImport, AbortImport
    <2>2. ASSUME Registering PROVE retry' = retry
        BY <2>2 DEF Registering, StartRegistration, Persist, ExportLine, EndRegistration
    <2>3. ASSUME NEW S \in Requests, CheckDelete(S) \/ StartReauth(S) PROVE retry' = retry
        BY <2>3 DEF CheckDelete, StartReauth
    <2>4. ASSUME Reauthenticating PROVE retry' = retry
        BY <2>4 DEF Reauthenticating, CreateJob, NextAccount, Login, StoreSession, RestoreExport, FinishAccount, EndJob
    <2>5. ASSUME Delete \/ StopReauth \/ Restart \/ UNCHANGED vars PROVE retry' = retry
        BY <2>5 DEF Delete, StopReauth, Restart, vars
    <2> QED BY <1>3, <2>1, <2>2, <2>3, <2>4, <2>5 DEF Next
<1>4. ASSUME retry' = retry, ~RewritePending, retry.phase = "appended"
      PROVE  file'["pending"] = file["pending"] /\ file'["batch"] = file["batch"]
    <2>1. ~Unlocked("pending") /\ ~Unlocked("batch")
        BY <1>4, StoreAssumption DEF FileInv, Locked, Unlocked
    <2> QED BY <1>0, <1>4, <2>1, FileMoves
<1> QED BY <1>1, <1>2, <1>3, <1>4 DEF Moved

LEMMA SavedStep == StoreInv /\ FileInv /\ JobTrue /\ SavedInv /\ [Next]_vars => SavedInv'
<1> SUFFICES ASSUME StoreInv, FileInv, JobTrue, SavedInv, [Next]_vars PROVE SavedInv'
    OBVIOUS
<1> USE DEF SavedInv
<1>0. "batch" \in Files /\ "pending" \in Files
    BY DEF Files, TxtFiles
<1>1. past \cup Live \subseteq past' \cup Live'
    BY HistoryGrows
<1>2. ASSUME NEW who \in saved, who \in file["batch"] PROVE who \in past' \cup file'["batch"]
    <2>1. CASE job.state = "export" /\ who = [email |-> job.snap[job.at].email, sso |-> job.old]
        <3>1. job.old = <<job.snap[job.at].email, 1>>
            BY <2>1 DEF FirstSessions
        <3> QED BY <2>1, <3>1, HistoryGrows DEF ReplacedIsPast
    <2>2. CASE ~(job.state = "export" /\ who = [email |-> job.snap[job.at].email, sso |-> job.old])
        BY <1>0, <1>2, <2>2, FileMoves
    <2> QED BY <2>1, <2>2
<1>3. ASSUME NEW who \in saved, who \in file["pending"] PROVE who \in past' \cup file'["pending"] \cup file'["batch"]
    <2>1. CASE RewritePending
        <3>1. /\ file' = [file EXCEPT !["pending"] = retry.kept] /\ DOMAIN file = Files
              /\ retry.phase = "appended"
            BY <2>1 DEF RewritePending, Write, StoreInv, Shapes
        <3>2. file'["pending"] = retry.kept /\ file'["batch"] = file["batch"]
            BY <1>0, <3>1
        <3> QED BY <1>3, <3>1, <3>2 DEF Moved
    <2>2. CASE ~RewritePending
        <3>1. "pending" \notin TxtFiles
            BY DEF TxtFiles
        <3> QED BY <1>0, <1>3, <2>2, <3>1, FileMoves
    <2> QED BY <2>1, <2>2
<1>4. SavedNotLost'
    <2>1. saved \subseteq Live' \cup past' \cup file'["batch"] \cup file'["pending"]
        BY <1>1, <1>2, <1>3 DEF SavedNotLost
    <2>2. saved' \subseteq saved \cup Live' \cup file'["pending"]
        BY SavedGrows
    <2> QED BY <2>1, <2>2 DEF SavedNotLost
<1> QED BY <1>4, FirstStep, ReplacedStep, MovedStep

LEMMA SavedStart == Init => SavedInv
<1> SUFFICES ASSUME Init PROVE SavedInv
    OBVIOUS
<1>1. Rows = {} /\ Live = {} /\ tombs = {}
    BY DEF Init, Rows, Live
<1>2. ASSUME NEW f \in Files
      PROVE  \A who \in file[f] : /\ who \in Identity /\ who.sso = <<who.email, 1>>
                                  /\ FirstSession(who)
    <2>1. ASSUME NEW who \in file[f]
          PROVE  \E e \in Legacy \cup Queued : who = [email |-> e, sso |-> <<e, 1>>]
        BY DEF Init
    <2>2. \A e \in Legacy \cup Queued : e \in Emails /\ issued[e] = 1
        BY StoreAssumption DEF Init
    <2> QED BY <2>1, <2>2 DEF Identity, Sessions, FirstSession
<1>3. \A who \in Known : \E f \in Files : who \in file[f]
    BY <1>1 DEF Init, Known, Idle
<1>4. FirstSessions
    BY <1>2, <1>3 DEF Init, FirstSessions, NoJob
<1>5. ReplacedIsPast /\ Moved
    BY DEF Init, ReplacedIsPast, Moved, NoJob
<1>6. SavedNotLost
    <2>1. file["reauthenticated"] = {}
        BY DEF Init, Files, TxtFiles
    <2>2. saved = UNION {file[f] : f \in Files}
        BY DEF Init
    <2> QED BY <2>1, <2>2 DEF SavedNotLost, Files, TxtFiles
<1> QED BY <1>4, <1>5, <1>6 DEF SavedInv

\* An account that was saved stays in the table or in a file until it is
\* deleted or its session is replaced (ensure_account_line,
\* queue_unsaved_account, replace_account_session and retry_pending_file of
\* account_outputs.py, with the table of storage/database.py).
THEOREM SavedIsKept == Spec => []SavedNotLost
BY SavedStart, SavedStep, StoreInvariant, FilesInvariant, JobTruth, PTL DEF Spec, SavedInv
=============================================================================
