---------------------------- MODULE OutlookCodes ----------------------------
(***************************************************************************)
(* How a verification code is found in an Outlook mailbox, outlook_mail.py:*)
(* the baselines taken of each folder through IMAP and Graph before the    *)
(* address is submitted, and the polling rounds that look for newer mail,  *)
(* while mail arrives, is moved between folders, and connections fail.     *)
(*                                                                         *)
(* A request to the server is one action. Abstractions: a mail has a code  *)
(* or none; old mail was received more than the 15 seconds of              *)
(* _graph_cursor_from_messages before the baseline; received times are     *)
(* numbered in order of arrival; a folder fits the pages that are read;    *)
(* the seen_ids of a cursor are part of graph_seen_ids, which alone is     *)
(* kept; the IMAP token and attempts within a request are left out.        *)
(***************************************************************************)
EXTENDS Naturals, FiniteSets, Sequences, FiniteSetsExt, Functions

CONSTANTS Folders,  \* folders in the order in which they are read
          OldMail,  \* mails with a code that are there before the run
          Noise,    \* mails without a code, at any time
          Codes,    \* mails with a code of this registration, in sending order
          MaxUid,   \* bound on the UIDs of a folder
          Nothing   \* no cursor, no mail, no folder

Mails == OldMail \cup Noise \cup Range(Codes)
FolderSet == Range(Folders)

ASSUME OutlookAssumption ==
    /\ MaxUid \in Nat \ {0}
    /\ IsFiniteSet(Mails)
    /\ Folders \in Seq(FolderSet) \ {<<>>}
    /\ OldMail \cap (Noise \cup Range(Codes)) = {}
    /\ Noise \cap Range(Codes) = {}
    /\ Nothing \notin Mails \cup FolderSet \cup ({"imap", "graph"} \X Mails)

VARIABLES
    mode,      \* account.mode: "imap", "graph" or "auto"
    where,     \* folder of each mail, or Nothing
    uid,       \* UID of each mail in its folder
    received,  \* receivedDateTime: 0 for old mail
    clock,     \* mails received so far
    top,       \* last UID each folder has given
    validity,  \* UIDVALIDITY of each folder
    moved,     \* mails that changed folders (history)
    phase,     \* what the mailbox does
    at,        \* index of the folder it reads
    imap,      \* ImapFolderCursor of each folder, or Nothing
    graph,     \* newest_received of each folder's GraphFolderCursor, or Nothing
    seen,      \* graph_seen_ids
    found,     \* what the server listed: UIDs or mails
    todo,      \* those of them still to be fetched
    terminal,  \* channels with a terminal error or without a baseline
    graphToken, \* state.graph_token is set
    sent,      \* codes xAI has been asked to send
    result     \* the channel and the mail of the code that was returned

serverVars == <<where, uid, received, clock, top, validity, moved>>
scanVars == <<found, todo>>
channelVars == <<terminal, graphToken>>
cursorVars == <<imap, graph, seen>>
outlookVars == <<mode, serverVars, phase, at, cursorVars, scanVars, channelVars, sent, result>>

Channels == {"imap", "graph"}

Phases == {"base imap", "base graph", "ready", "poll", "search", "fetch",
           "list", "detail", "done", "failed"}

Uids == 1..MaxUid

OutlookTypeOK ==
    /\ mode \in Channels \cup {"auto"}
    /\ where \in [Mails -> FolderSet \cup {Nothing}]
    /\ uid \in [Mails -> 0..MaxUid]
    /\ received \in [Mails -> 0..Cardinality(Mails)]
    /\ clock \in 0..Cardinality(Mails)
    /\ top \in [FolderSet -> 0..MaxUid]
    /\ validity \in [FolderSet -> 0..1]
    /\ moved \subseteq Mails
    /\ phase \in Phases
    /\ at \in 1..Len(Folders) + 1
    /\ \A f \in FolderSet :
          /\ imap[f] = Nothing \/ imap[f] \in [validity : 0..1, last : 0..MaxUid]
          /\ graph[f] = Nothing \/ graph[f] \in 0..Cardinality(Mails)
    /\ seen \subseteq Mails
    /\ found \subseteq Uids \/ found \subseteq Mails
    /\ todo \subseteq found
    /\ terminal \subseteq Channels
    /\ graphToken \in BOOLEAN
    /\ sent \in 0..Len(Codes)
    /\ result \in (Channels \X Mails) \cup {Nothing}

OutlookInit ==
    /\ mode \in Channels \cup {"auto"}
    /\ where \in [Mails -> FolderSet \cup {Nothing}]
    /\ \A m \in Mails : where[m] # Nothing <=> m \in OldMail
    /\ uid = [m \in Mails |-> IF m \in OldMail THEN 1 ELSE 0]
    /\ \A m, n \in OldMail : m # n => where[m] # where[n]
    /\ received = [m \in Mails |-> 0]
    /\ clock = 0
    /\ top = [f \in FolderSet |-> IF \E m \in OldMail : where[m] = f THEN 1 ELSE 0]
    /\ validity = [f \in FolderSet |-> 0]
    /\ moved = {}
    /\ phase = "base imap"
    /\ at = 1
    /\ imap = [f \in FolderSet |-> Nothing]
    /\ graph = [f \in FolderSet |-> Nothing]
    /\ seen = {}
    /\ found = {} /\ todo = {}
    /\ terminal = {}
    /\ graphToken = FALSE
    /\ sent = 0
    /\ result = Nothing

In(f) == {m \in Mails : where[m] = f}

Largest(S) == IF S = {} THEN 0 ELSE Max(S)

Here == Folders[at]

-----------------------------------------------------------------------------
(* The mail server.                                                        *)

Put(m, f) ==
    /\ top[f] < MaxUid
    /\ top' = [top EXCEPT ![f] = @ + 1]
    /\ where' = [where EXCEPT ![m] = f]
    /\ uid' = [uid EXCEPT ![m] = top[f] + 1]

Deliver(m, f) ==
    /\ where[m] = Nothing
    /\ m \in Noise \cup {Codes[i] : i \in 1..sent}
    /\ Put(m, f)
    /\ clock' = clock + 1
    /\ received' = [received EXCEPT ![m] = clock + 1]
    /\ UNCHANGED <<mode, validity, moved, phase, at, cursorVars, scanVars, channelVars, sent, result>>

\* A rule, the junk filter or the user moves a mail: IMAP gives it a new
\* UID, Graph keeps its immutable id and its time.
Move(m, f) ==
    /\ where[m] \notin {Nothing, f}
    /\ Put(m, f)
    /\ moved' = moved \cup {m}
    /\ UNCHANGED <<mode, received, clock, validity, phase, at, cursorVars, scanVars, channelVars, sent, result>>

\* The server gives the mails of a folder new UIDs, in the same order, but
\* not while the folder is selected.
Renumber(f) ==
    /\ validity[f] = 0
    /\ phase = "fetch" => Here # f
    /\ top[f] < MaxUid
    /\ validity' = [validity EXCEPT ![f] = 1]
    /\ top' = [top EXCEPT ![f] = @ + 1]
    /\ uid' = [m \in Mails |-> IF where[m] = f THEN uid[m] + 1 ELSE uid[m]]
    /\ UNCHANGED <<mode, where, received, clock, moved, phase, at, cursorVars, scanVars, channelVars, sent, result>>

-----------------------------------------------------------------------------
(* prepare_outlook_state: the baselines.                                   *)

Uses(c) == mode \in {c, "auto"}

HasImap == \E f \in FolderSet : imap[f] # Nothing
HasGraph == \E f \in FolderSet : graph[f] # Nothing

\* A folder that cannot be selected has no baseline.
BaselineImap ==
    /\ phase = "base imap"
    /\ Uses("imap")
    /\ at <= Len(Folders)
    /\ imap' \in {imap, [imap EXCEPT ![Here] =
                           [validity |-> validity[Here], last |-> Largest({uid[m] : m \in In(Here)})]]}
    /\ at' = at + 1
    /\ UNCHANGED <<mode, serverVars, phase, graph, seen, scanVars, channelVars, sent, result>>

\* After the last folder, or at an error, which leaves no cursor.
ImapBaselined ==
    /\ phase = "base imap"
    /\ \/ at > Len(Folders) /\ UNCHANGED imap
       \/ imap' = [f \in FolderSet |-> Nothing]
    /\ phase' = IF mode = "imap" /\ \A f \in FolderSet : imap'[f] = Nothing
                THEN "failed" ELSE "base graph"
    /\ at' = 1
    /\ UNCHANGED <<mode, serverVars, graph, seen, scanVars, channelVars, sent, result>>

BaselineGraph ==
    /\ phase = "base graph"
    /\ Uses("graph")
    /\ at <= Len(Folders)
    /\ \/ /\ graph' = [graph EXCEPT ![Here] = Largest({received[m] : m \in In(Here)})]
          /\ seen' = seen \cup In(Here)
       \/ UNCHANGED <<graph, seen>>
    /\ at' = at + 1
    /\ UNCHANGED <<mode, serverVars, phase, imap, scanVars, channelVars, sent, result>>

\* A mailbox without any baseline is not submitted; channels without one
\* are not used.
GraphBaselined ==
    /\ phase = "base graph"
    /\ \/ at > Len(Folders)
       \/ ~Uses("graph")
       \/ at = 1  \* no token
    /\ phase' = IF HasImap \/ HasGraph THEN "ready" ELSE "failed"
    /\ terminal' = {c \in Channels : \/ c = "imap" /\ ~HasImap
                                     \/ c = "graph" /\ ~HasGraph}
    /\ graphToken' = HasGraph
    /\ at' = 1
    /\ UNCHANGED <<mode, serverVars, cursorVars, scanVars, sent, result>>

\* The address is submitted: xAI sends the first code.
Submit ==
    /\ phase = "ready"
    /\ phase' = "poll"
    /\ sent' = 1
    /\ UNCHANGED <<mode, serverVars, at, cursorVars, scanVars, channelVars, result>>

-----------------------------------------------------------------------------
(* wait_for_outlook_code: one round reads the folders through IMAP, then   *)
(* through Graph; an error leaves the channel's scan to the next round.    *)

Usable(c) == c \notin terminal

StartGraph == phase' = IF Usable("graph") THEN "list" ELSE "poll"

BeginRound ==
    /\ phase = "poll"
    /\ terminal # Channels
    /\ phase' = IF Usable("imap") THEN "search" ELSE "list"
    /\ at' = 1
    /\ UNCHANGED <<mode, serverVars, cursorVars, scanVars, channelVars, sent, result>>

\* Every 35 seconds the page is asked to send the code again.
Resend ==
    /\ phase = "poll"
    /\ sent < Len(Codes)
    /\ sent' = sent + 1
    /\ UNCHANGED <<mode, serverVars, phase, at, cursorVars, scanVars, channelVars, result>>

\* The deadline has passed, or no channel is left.
GiveUp ==
    /\ phase = "poll"
    /\ phase' = "failed"
    /\ UNCHANGED <<mode, serverVars, at, cursorVars, scanVars, channelVars, sent, result>>

NextFolder(after) ==
    IF at < Len(Folders) THEN at' = at + 1 /\ phase' = phase
                         ELSE at' = 1 /\ after

\* An IMAP error drops the connection; reconnecting may show that the
\* refresh token is invalid, which ends the channel.
ImapFails ==
    /\ phase \in {"search", "fetch"}
    /\ terminal' \in {terminal, terminal \cup {"imap"}}
    /\ StartGraph
    /\ at' = 1
    /\ found' = {} /\ todo' = {}
    /\ UNCHANGED <<mode, serverVars, cursorVars, graphToken, sent, result>>

\* Bug: the last UID is kept when UIDVALIDITY has changed.
KeepLast(f) == [imap[f] EXCEPT !.validity = validity[f]]

Rebaselined(f) == [validity |-> validity[f], last |-> Largest({uid[m] : m \in In(f)})]

Renumbered(f) == imap[f] # Nothing /\ imap[f].validity # validity[f]

NewUids(f) == IF imap[f] = Nothing \/ Renumbered(f)
              THEN {}
              ELSE {uid[m] : m \in {n \in In(f) : uid[n] > imap[f].last}}

\* A folder that cannot be selected is passed over until the next round.
SkipFolder ==
    /\ phase = "search"
    /\ NextFolder(StartGraph)
    /\ UNCHANGED <<mode, serverVars, cursorVars, scanVars, channelVars, sent, result>>

SearchImap ==
    /\ phase = "search"
    /\ IF NewUids(Here) = {}
         THEN /\ imap' = IF Renumbered(Here) THEN [imap EXCEPT ![Here] = Rebaselined(Here)] ELSE imap
              /\ NextFolder(StartGraph)
              /\ UNCHANGED scanVars
         ELSE /\ found' = NewUids(Here)
              /\ todo' = found'
              /\ phase' = "fetch"
              /\ UNCHANGED <<at, imap>>
    /\ UNCHANGED <<mode, serverVars, graph, seen, channelVars, sent, result>>

HasCode(m) == m \notin Noise

\* The newest UID first; one that has left the folder yields an empty mail.
FetchImap ==
    /\ phase = "fetch"
    /\ LET u == Max(todo)
           m == {n \in In(Here) : uid[n] = u /\ HasCode(n)}
       IN  \/ /\ m # {}
              /\ result' \in {"imap"} \X m
              /\ phase' = "done"
              /\ UNCHANGED <<at, imap, scanVars>>
           \/ /\ m = {}
              /\ todo' = todo \ {u}
              /\ IF todo' # {}
                   THEN UNCHANGED <<phase, at, imap, found>>
                   ELSE /\ imap' = [imap EXCEPT ![Here].last = Max(found)]
                        /\ found' = {}
                        /\ IF at < Len(Folders) THEN at' = at + 1 /\ phase' = "search"
                                                ELSE at' = 1 /\ StartGraph
              /\ UNCHANGED result
    /\ UNCHANGED <<mode, serverVars, graph, seen, channelVars, sent>>

\* A dropped access token is refreshed before the folders are read.
RefreshToken ==
    /\ phase = "list"
    /\ ~graphToken
    /\ graphToken' = TRUE
    /\ UNCHANGED <<mode, serverVars, phase, at, cursorVars, scanVars, terminal, sent, result>>

\* A Graph error drops the access token; its refresh may fail as well, and
\* may find the refresh token invalid, which ends the channel. The cursor of
\* the folder has not moved.
GraphFails ==
    /\ phase \in {"list", "detail"}
    /\ \/ UNCHANGED terminal
       \/ ~graphToken /\ terminal' = terminal \cup {"graph"}
    /\ graphToken' = FALSE
    /\ phase' = "poll"
    /\ at' = 1
    /\ found' = {} /\ todo' = {}
    /\ UNCHANGED <<mode, serverVars, cursorVars, sent, result>>

\* Bug: only the ids and the newest mail decide, not the time of the baseline.
UnseenAndNewest(m, f) == m \notin seen /\ received[m] >= graph[f]

IsNew(m, f) == m \notin seen /\ received[m] > 0 /\ received[m] >= graph[f]

Advance(f, frontier) ==
    /\ seen' = seen \cup frontier
    /\ graph' = [graph EXCEPT ![f] = Largest({@} \cup {received[m] : m \in frontier})]

ListGraph ==
    /\ phase = "list"
    /\ graphToken
    /\ IF graph[Here] = Nothing
         THEN UNCHANGED <<graph, seen, scanVars>> /\ NextFolder(phase' = "poll")
         ELSE /\ found' = In(Here)
              /\ todo' = {m \in In(Here) : IsNew(m, Here)}
              /\ IF todo' # {}
                   THEN phase' = "detail" /\ UNCHANGED <<at, graph, seen>>
                   ELSE Advance(Here, found') /\ NextFolder(phase' = "poll")
    /\ UNCHANGED <<mode, serverVars, imap, channelVars, sent, result>>

\* Bug: the frontier counts as read as soon as its first mail has been.
FirstIsEnough(rest) == TRUE

AllRead(rest) == rest = {}

DetailGraph ==
    /\ phase = "detail"
    /\ \E m \in todo :
          IF HasCode(m)
            THEN /\ result' = <<"graph", m>>
                 /\ phase' = "done"
                 /\ UNCHANGED <<at, graph, seen, scanVars>>
            ELSE /\ todo' = todo \ {m}
                 /\ IF AllRead(todo')
                      THEN /\ Advance(Here, found)
                           /\ found' = {}
                           /\ IF at < Len(Folders) THEN at' = at + 1 /\ phase' = "list"
                                                   ELSE at' = 1 /\ phase' = "poll"
                      ELSE UNCHANGED <<phase, at, graph, seen, found>>
                 /\ UNCHANGED result
    /\ UNCHANGED <<mode, serverVars, imap, channelVars, sent>>

-----------------------------------------------------------------------------
OutlookNext ==
    \/ \E m \in Mails, f \in FolderSet : Deliver(m, f) \/ Move(m, f)
    \/ \E f \in FolderSet : Renumber(f)
    \/ BaselineImap
    \/ ImapBaselined
    \/ BaselineGraph
    \/ GraphBaselined
    \/ Submit
    \/ BeginRound
    \/ Resend
    \/ GiveUp
    \/ ImapFails
    \/ SkipFolder
    \/ SearchImap
    \/ FetchImap
    \/ RefreshToken
    \/ GraphFails
    \/ ListGraph
    \/ DetailGraph

-----------------------------------------------------------------------------
(* Properties.                                                             *)

Delivered == {m \in Mails : where[m] # Nothing}

\* The code that is returned was sent for this registration. Only a code
\* mail of an earlier run that was moved to another folder, where it has a
\* new UID, can pass for a new one, and only through IMAP: Graph compares
\* the time it was received with the baseline.
OldCodeOnlyByMove ==
    \A m \in OldMail, c \in Channels : result = <<c, m>> => c = "imap" /\ m \in moved

\* As long as no code was returned, every code mail sent for this
\* registration is ahead of the cursors of its folder, whatever failed in
\* between: through IMAP unless the folder was renumbered or the mail was
\* moved, through Graph unless it was moved.
NothingSkipped ==
    phase \notin {"done", "failed"} =>
        \A m \in (Delivered \cap Range(Codes)) \ moved :
            LET f == where[m] IN
            /\ (imap[f] # Nothing /\ validity[f] = 0) => uid[m] > imap[f].last
            /\ graph[f] # Nothing => IsNew(m, f)

=============================================================================
