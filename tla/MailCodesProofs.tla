--------------------------- MODULE MailCodesProofs ---------------------------
(***************************************************************************)
(* For any folders, mails and UIDs: a code that is returned from an        *)
(* Outlook mailbox is new unless an old one was moved, and no new one is   *)
(* skipped. OutlookInv relates the cursors to the server: Numbering says   *)
(* how UIDs and times grow, OldBehind and NothingSkipped on which side of  *)
(* the cursors a mail is, Fetching and Reading what is known while the     *)
(* mails that a folder listed are fetched one by one.                      *)
(*                                                                         *)
(* For any letters and timings: a readable code at a mail API is found in  *)
(* time, and a rejected public token is given the time to converge. PollInv*)
(* bounds how long a letter can wait by the next request for its detail,   *)
(* and keeps a request that is late enough among those that are left.      *)
(***************************************************************************)
EXTENDS MailCodes, WellFoundedInduction, TLAPS

\* A set of bounded numbers has a largest, by the well-foundedness of their
\* upper bounds.
LEMMA MaxIn ==
    ASSUME NEW n \in Nat, NEW S \in SUBSET (0..n), S # {}
    PROVE  Max(S) \in S /\ \A x \in S : x <= Max(S)
<1> DEFINE bounds == {m \in Nat : \A x \in S : x <= m}
<1>1. PICK m \in bounds : \A b \in bounds : <<b, m>> \notin OpToRel(<, Nat)
    <2>1. n \in bounds /\ bounds \subseteq Nat
        OBVIOUS
    <2>2. IsWellFoundedOn(OpToRel(<, Nat), Nat)
        BY NatLessThanWellFounded
    <2> QED BY <2>1, <2>2, WFMin
<1>2. \A b \in bounds : ~(b < m)
    BY <1>1 DEF OpToRel
<1>3. m \in S
    <2> SUFFICES ASSUME m \notin S PROVE FALSE
        OBVIOUS
    <2>1. PICK x \in S : TRUE
        OBVIOUS
    <2>2. x <= m /\ x # m
        OBVIOUS
    <2>3. m - 1 \in bounds
        BY <2>2
    <2> QED BY <1>2, <2>3
<1> QED BY <1>3 DEF Max

LEMMA LargestIn ==
    ASSUME NEW n \in Nat, NEW S \in SUBSET (0..n)
    PROVE  Largest(S) \in 0..n /\ \A x \in S : x <= Largest(S)
<1>1. CASE S = {}
    BY <1>1 DEF Largest
<1>2. CASE S # {}
    <2>1. Largest(S) = Max(S)
        BY <1>2 DEF Largest
    <2> QED BY <1>2, <2>1, MaxIn
<1> QED BY <1>1, <1>2

LEMMA LengthIsPositive == Len(Folders) \in Nat \ {0}
<1>1. Folders \in Seq(FolderSet) /\ Folders # <<>>
    BY OutlookAssumption
<1> QED BY <1>1

LEMMA HereIsFolder == ASSUME at \in 1..Len(Folders) PROVE Here \in FolderSet
BY OutlookAssumption DEF Here

LEMMA NextIsFolder ==
    ASSUME at \in 1..Len(Folders) + 1, at <= Len(Folders)
    PROVE  Here \in FolderSet /\ at + 1 \in 1..Len(Folders) + 1
<1>1. Len(Folders) \in Nat /\ at \in Nat /\ 1 <= at
    BY LengthIsPositive
<1>2. at \in 1..Len(Folders) /\ at + 1 \in 1..Len(Folders) + 1
    BY <1>1
<1> QED BY <1>2, HereIsFolder

\* Within a round the index stays one of a folder.
LEMMA TurnIsFolder ==
    ASSUME at \in 1..Len(Folders) + 1, at <= Len(Folders),
           at' = at \/ at' = 1 \/ (at < Len(Folders) /\ at' = at + 1)
    PROVE  at' \in 1..Len(Folders) + 1 /\ at' <= Len(Folders)
<1>1. Len(Folders) \in Nat /\ Len(Folders) >= 1 /\ at \in Nat /\ 1 <= at
    BY LengthIsPositive
<1> QED BY <1>1

NewCodes == (Delivered \cap Range(Codes)) \ moved

Before == {"base imap", "base graph", "ready"}

OutlookShapes ==
    /\ where \in [Mails -> FolderSet \cup {Nothing}]
    /\ uid \in [Mails -> Nat]
    /\ received \in [Mails -> Nat]
    /\ clock \in Nat
    /\ top \in [FolderSet -> Nat]
    /\ validity \in [FolderSet -> 0..1]
    /\ moved \subseteq Mails
    /\ phase \in Phases
    /\ at \in 1..Len(Folders) + 1
    /\ phase \in {"search", "fetch", "list", "detail"} => at <= Len(Folders)
    /\ imap = [f \in FolderSet |-> imap[f]]
    /\ \A f \in FolderSet : imap[f] # Nothing => imap[f] \in [validity : 0..1, last : Nat]
    /\ graph = [f \in FolderSet |-> graph[f]]
    /\ \A f \in FolderSet : graph[f] # Nothing => graph[f] \in Nat
    /\ sent \in Nat

\* UIDs and times are given in order, and the cursors are not ahead of them.
Numbering ==
    /\ \A f \in FolderSet : top[f] <= MaxUid
    /\ \A m \in Delivered : uid[m] <= top[where[m]]
    /\ \A m \in Delivered : received[m] <= clock
    /\ \A f \in FolderSet : imap[f] # Nothing =>
          imap[f].last <= top[f] /\ imap[f].validity <= validity[f]
    /\ \A f \in FolderSet : graph[f] # Nothing => graph[f] <= clock
    /\ seen \subseteq Delivered
    /\ phase \in Before => sent = 0
    /\ sent = 0 => Delivered \cap Range(Codes) = {}

\* Old mail is behind the cursors.
OldBehind ==
    \A m \in OldMail :
       /\ m \in Delivered /\ received[m] = 0
       /\ m \notin moved =>
             LET f == where[m] IN
             imap[f] # Nothing /\ imap[f].validity = validity[f] => uid[m] <= imap[f].last

\* While the new mails of a folder are fetched through IMAP, their UIDs are
\* known, and a code among them is still to be fetched.
Fetching ==
    phase = "fetch" =>
        /\ imap[Here] # Nothing /\ imap[Here].validity = validity[Here]
        /\ found \subseteq 0..top[Here] /\ todo \subseteq found /\ todo # {}
        /\ \A u \in found : u > imap[Here].last
        /\ \A m \in NewCodes : where[m] = Here /\ validity[Here] = 0 =>
              uid[m] \in todo \/ \A u \in found : uid[m] > u

\* While they are read through Graph, likewise.
Reading ==
    phase = "detail" =>
        /\ graph[Here] # Nothing
        /\ found \subseteq Delivered /\ todo \subseteq found
        /\ \A m \in todo : received[m] > 0
        /\ \A m \in NewCodes :
              /\ m \in found => m \in todo
              /\ where[m] = Here /\ m \notin found => \A n \in found : received[m] > received[n]

OutlookInv ==
    /\ OutlookShapes
    /\ Numbering
    /\ OldBehind
    /\ Fetching
    /\ Reading
    /\ NothingSkipped
    /\ OldCodeOnlyByMove

-----------------------------------------------------------------------------
(* The server's steps.                                                     *)

LEMMA DeliverKeeps ==
    ASSUME OutlookInv, NEW m \in Mails, NEW f \in FolderSet, Deliver(m, f)
    PROVE  OutlookInv'
<1> USE OutlookAssumption DEF OutlookInv
<1>1. /\ where' = [where EXCEPT ![m] = f] /\ uid' = [uid EXCEPT ![m] = top[f] + 1]
      /\ top' = [top EXCEPT ![f] = top[f] + 1] /\ top[f] < MaxUid
      /\ clock' = clock + 1 /\ received' = [received EXCEPT ![m] = clock + 1]
      /\ where[m] = Nothing
      /\ UNCHANGED <<validity, moved, phase, at, imap, graph, seen, found, todo, sent, result>>
    BY DEF Deliver, Put, cursorVars, scanVars
<1>t. /\ where \in [Mails -> FolderSet \cup {Nothing}] /\ uid \in [Mails -> Nat]
      /\ received \in [Mails -> Nat] /\ clock \in Nat /\ top \in [FolderSet -> Nat]
    BY DEF OutlookShapes
<1>2. OutlookShapes'
    <2>1. top[f] + 1 \in Nat /\ clock + 1 \in Nat
        BY <1>t
    <2>2. where' \in [Mails -> FolderSet \cup {Nothing}] /\ clock' \in Nat
        BY <1>t, <1>1, <2>1
    <2>3. uid' \in [Mails -> Nat]
        BY <1>t, <1>1, <2>1
    <2>4. received' \in [Mails -> Nat]
        BY <1>t, <1>1, <2>1
    <2>5. top' \in [FolderSet -> Nat]
        BY <1>t, <1>1, <2>1
    <2> QED BY <1>1, <2>2, <2>3, <2>4, <2>5 DEF OutlookShapes
<1>3. Delivered' = Delivered \cup {m} /\ m \notin Delivered
    BY <1>t, <1>1 DEF Delivered
<1>4. Here' = Here /\ (phase \in {"fetch", "detail"} => Here \in FolderSet)
    BY <1>1, HereIsFolder DEF Here, OutlookShapes
<1>5. m \notin OldMail
    BY <1>3 DEF OldBehind
<1>6. Numbering'
    <2>1. sent = 0 => m \notin Range(Codes)
        BY DEF Deliver, OutlookShapes
    <2>2. \A n \in Delivered : n # m /\ where[n] \in FolderSet
        BY <1>3 DEF Delivered, OutlookShapes
    <2>3. \A g \in FolderSet : top'[g] \in Nat /\ top'[g] <= MaxUid /\ top[g] <= top'[g]
        BY <1>1 DEF Numbering, OutlookShapes
    <2>4. \A n \in Delivered' : uid'[n] <= top'[where'[n]] /\ received'[n] <= clock'
        <3> SUFFICES ASSUME NEW n \in Delivered'
                     PROVE  uid'[n] <= top'[where'[n]] /\ received'[n] <= clock'
            OBVIOUS
        <3>1. CASE n = m
            BY <1>1, <3>1 DEF OutlookShapes
        <3>2. CASE n # m
            <4>1. n \in Delivered /\ n \in Mails /\ where'[n] = where[n] /\ uid'[n] = uid[n]
                  /\ received'[n] = received[n]
                BY <1>1, <1>3, <3>2 DEF OutlookShapes, Delivered
            <4>2. uid[n] <= top[where[n]] /\ received[n] <= clock
                BY <4>1 DEF Numbering
            <4>3. where[n] \in FolderSet
                BY <2>2, <4>1
            <4>4. uid[n] \in Nat /\ received[n] \in Nat /\ clock' = clock + 1 /\ clock \in Nat
                BY <1>1, <4>1 DEF OutlookShapes
            <4>5. top[where[n]] \in Nat
                BY <4>3 DEF OutlookShapes
            <4> QED BY <2>3, <4>1, <4>2, <4>3, <4>4, <4>5
        <3> QED BY <3>1, <3>2
    <2>5. \A g \in FolderSet : imap'[g] # Nothing =>
              imap'[g].last <= top'[g] /\ imap'[g].validity <= validity'[g]
        <3> SUFFICES ASSUME NEW g \in FolderSet, imap[g] # Nothing
                     PROVE  imap[g].last <= top'[g] /\ imap[g].validity <= validity[g]
            BY <1>1
        <3>1. imap[g].last \in Nat /\ top[g] \in Nat
            BY DEF OutlookShapes
        <3>2. imap[g].last <= top[g] /\ imap[g].validity <= validity[g]
            BY DEF Numbering
        <3> QED BY <2>3, <3>1, <3>2
    <2>6. \A g \in FolderSet : graph'[g] # Nothing => graph'[g] <= clock'
        BY <1>1 DEF Numbering, OutlookShapes
    <2>7. seen' \subseteq Delivered' /\ (phase' \in Before => sent' = 0)
          /\ (sent' = 0 => Delivered' \cap Range(Codes) = {})
        BY <1>1, <1>3, <2>1 DEF Numbering
    <2> QED BY <2>3, <2>4, <2>5, <2>6, <2>7 DEF Numbering
<1>7. OldBehind'
    <2> SUFFICES ASSUME NEW n \in OldMail
                 PROVE  /\ n \in Delivered' /\ received'[n] = 0
                        /\ n \notin moved' =>
                              (imap'[where'[n]] # Nothing
                               /\ imap'[where'[n]].validity = validity'[where'[n]]
                               => uid'[n] <= imap'[where'[n]].last)
        BY DEF OldBehind
    <2>1. n # m /\ n \in Mails /\ where'[n] = where[n] /\ uid'[n] = uid[n] /\ received'[n] = received[n]
        BY <1>1, <1>5 DEF OutlookShapes, Mails
    <2> QED BY <1>1, <1>3, <2>1 DEF OldBehind
<1>8. Fetching'
    <2> SUFFICES ASSUME phase = "fetch" PROVE Fetching'
        BY <1>1 DEF Fetching
    <2>1. \A n \in Delivered : n \in Mails /\ n # m /\ uid'[n] = uid[n] /\ where'[n] = where[n]
        BY <1>1, <1>3 DEF Delivered, OutlookShapes
    <2>2. /\ imap[Here] # Nothing /\ imap[Here].validity = validity[Here]
          /\ found \subseteq 0..top[Here] /\ todo \subseteq found /\ todo # {}
          /\ \A u \in found : u > imap[Here].last
        BY DEF Fetching
    <2>3. top[Here] \in Nat /\ top'[Here] \in Nat /\ top[Here] <= top'[Here]
          /\ (Here = f => uid'[m] = top[Here] + 1)
        BY <1>1, <1>4 DEF OutlookShapes
    <2>4. ASSUME NEW n \in NewCodes', where'[n] = Here, validity[Here] = 0
          PROVE  uid'[n] \in todo \/ \A u \in found : uid'[n] > u
        <3>1. CASE n = m
            <4>1. Here = f
                BY <1>1, <2>4, <3>1 DEF OutlookShapes
            <4> QED BY <2>2, <2>3, <3>1, <4>1
        <3>2. CASE n # m
            <4>1. n \in NewCodes /\ n \in Delivered
                BY <1>1, <1>3, <3>2 DEF NewCodes
            <4> QED BY <2>1, <2>4, <4>1 DEF Fetching
        <3> QED BY <3>1, <3>2
    <2>5. found \subseteq 0..top'[Here]
        BY <2>2, <2>3
    <2> QED BY <1>1, <1>4, <2>2, <2>4, <2>5 DEF Fetching
<1>9. Reading'
    <2> SUFFICES ASSUME phase = "detail" PROVE Reading'
        BY <1>1 DEF Reading
    <2>1. \A n \in Delivered : n \in Mails /\ n # m /\ received'[n] = received[n] /\ where'[n] = where[n]
                             /\ received[n] <= clock /\ received[n] \in Nat
        BY <1>1, <1>3 DEF Numbering, Delivered, OutlookShapes
    <2>2. received'[m] = clock + 1 /\ clock \in Nat
        BY <1>1 DEF OutlookShapes
    <2>3. found \subseteq Delivered /\ todo \subseteq found /\ graph[Here] # Nothing
          /\ \A n \in todo : received[n] > 0
        BY DEF Reading
    <2>4. \A n \in NewCodes' : n = m \/ n \in NewCodes
        BY <1>1, <1>3 DEF NewCodes
    <2>5. ASSUME NEW n \in NewCodes'
          PROVE  /\ n \in found => n \in todo
                 /\ where'[n] = Here /\ n \notin found => \A k \in found : received'[n] > received'[k]
        <3>1. CASE n = m
            BY <2>1, <2>2, <2>3, <3>1
        <3>2. CASE n \in NewCodes
            <4>1. n \in Delivered
                BY <3>2 DEF NewCodes
            <4> QED BY <2>1, <2>3, <3>2, <4>1 DEF Reading
        <3> QED BY <2>4, <3>1, <3>2
    <2> QED BY <1>1, <1>3, <1>4, <2>1, <2>3, <2>5 DEF Reading
<1>10. NothingSkipped'
    <2> SUFFICES ASSUME phase \notin {"done", "failed"}, NEW n \in NewCodes'
                 PROVE  /\ (imap'[where'[n]] # Nothing /\ validity'[where'[n]] = 0)
                              => uid'[n] > imap'[where'[n]].last
                        /\ graph'[where'[n]] # Nothing => IsNew(n, where[n])'
        BY <1>1 DEF NothingSkipped, NewCodes
    <2>1. CASE n = m
        <3>1. uid'[m] = top[f] + 1 /\ where'[m] = f /\ received'[m] = clock + 1 /\ m \notin seen
            BY <1>1, <1>3 DEF OutlookShapes, Numbering
        <3>2. imap[f] # Nothing => imap[f].last <= top[f] /\ imap[f].last \in Nat /\ top[f] \in Nat
            BY DEF OutlookShapes, Numbering
        <3>3. graph[f] # Nothing => graph[f] <= clock /\ graph[f] \in Nat
            BY DEF OutlookShapes, Numbering
        <3>4. top[f] \in Nat /\ clock \in Nat
            BY DEF OutlookShapes
        <3> QED BY <1>1, <2>1, <3>1, <3>2, <3>3, <3>4 DEF IsNew
    <2>2. CASE n # m
        <3>1. n \in NewCodes /\ n \in Mails
            BY <1>1, <1>3, <2>2 DEF NewCodes, Delivered
        <3>2. where'[n] = where[n] /\ uid'[n] = uid[n] /\ received'[n] = received[n]
            BY <1>1, <2>2, <3>1 DEF OutlookShapes
        <3> QED BY <1>1, <3>1, <3>2 DEF NothingSkipped, IsNew, NewCodes
    <2> QED BY <2>1, <2>2
<1>11. OldCodeOnlyByMove'
    BY <1>1 DEF OldCodeOnlyByMove
<1> QED BY <1>2, <1>6, <1>7, <1>8, <1>9, <1>10, <1>11

LEMMA MoveKeeps ==
    ASSUME OutlookInv, NEW m \in Mails, NEW f \in FolderSet, Move(m, f)
    PROVE  OutlookInv'
<1> USE OutlookAssumption DEF OutlookInv
<1>1. /\ where' = [where EXCEPT ![m] = f] /\ uid' = [uid EXCEPT ![m] = top[f] + 1]
      /\ top' = [top EXCEPT ![f] = top[f] + 1] /\ top[f] < MaxUid
      /\ moved' = moved \cup {m} /\ where[m] # Nothing
      /\ UNCHANGED <<received, clock, validity, phase, at, imap, graph, seen, found, todo, sent, result>>
    BY DEF Move, Put, cursorVars, scanVars
<1>t. /\ where \in [Mails -> FolderSet \cup {Nothing}] /\ uid \in [Mails -> Nat]
      /\ received \in [Mails -> Nat] /\ clock \in Nat /\ top \in [FolderSet -> Nat]
      /\ moved \subseteq Mails
    BY DEF OutlookShapes
<1>2. OutlookShapes'
    <2>1. where' \in [Mails -> FolderSet \cup {Nothing}] /\ moved' \subseteq Mails
        BY <1>t, <1>1
    <2>2. top[f] + 1 \in Nat
        BY <1>t
    <2>3. uid' \in [Mails -> Nat]
        BY <1>t, <1>1, <2>2
    <2>4. top' \in [FolderSet -> Nat]
        BY <1>t, <1>1, <2>2
    <2> QED BY <1>1, <2>1, <2>3, <2>4 DEF OutlookShapes
<1>3. Delivered' = Delivered /\ NewCodes' \subseteq NewCodes \ {m}
    BY <1>t, <1>1 DEF Delivered, NewCodes
<1>4. Here' = Here /\ (phase \in {"fetch", "detail"} => Here \in FolderSet)
    BY <1>1, HereIsFolder DEF Here, OutlookShapes
<1>5. \A n \in NewCodes' : n \in Mails /\ n # m /\ where'[n] = where[n] /\ uid'[n] = uid[n]
    BY <1>1, <1>3 DEF NewCodes, Delivered, OutlookShapes
<1>6. Numbering'
    <2>1. \A g \in FolderSet : top'[g] \in Nat /\ top'[g] <= MaxUid /\ top[g] <= top'[g]
        BY <1>1 DEF Numbering, OutlookShapes
    <2>2. ASSUME NEW n \in Delivered
          PROVE  uid'[n] <= top'[where'[n]]
        <3>1. CASE n = m
            BY <1>1, <3>1 DEF OutlookShapes
        <3>2. CASE n # m
            <4>1. n \in Mails /\ where[n] \in FolderSet
                BY DEF Delivered, OutlookShapes
            <4>2. where'[n] = where[n] /\ uid'[n] = uid[n] /\ uid[n] \in Nat
                BY <1>1, <3>2, <4>1 DEF OutlookShapes
            <4>3. uid[n] <= top[where[n]] /\ top[where[n]] \in Nat
                BY <4>1 DEF Numbering, OutlookShapes
            <4> QED BY <2>1, <4>1, <4>2, <4>3
        <3> QED BY <3>1, <3>2
    <2>3. ASSUME NEW g \in FolderSet, imap[g] # Nothing
          PROVE  imap[g].last <= top'[g] /\ imap[g].validity <= validity[g]
        <3>1. imap[g].last \in Nat /\ top[g] \in Nat
            BY <2>3 DEF OutlookShapes
        <3>2. imap[g].last <= top[g] /\ imap[g].validity <= validity[g]
            BY <2>3 DEF Numbering
        <3> QED BY <2>1, <3>1, <3>2
    <2> QED BY <1>1, <1>3, <2>1, <2>2, <2>3 DEF Numbering
<1>7. OldBehind'
    <2> SUFFICES ASSUME NEW n \in OldMail
                 PROVE  /\ n \in Delivered' /\ received'[n] = 0
                        /\ n \notin moved' =>
                              (imap'[where'[n]] # Nothing
                               /\ imap'[where'[n]].validity = validity'[where'[n]]
                               => uid'[n] <= imap'[where'[n]].last)
        BY DEF OldBehind
    <2>1. n \in Mails
        BY DEF Mails
    <2>2. n # m => where'[n] = where[n] /\ uid'[n] = uid[n]
        BY <1>1, <2>1 DEF OutlookShapes
    <2> QED BY <1>1, <1>3, <2>2 DEF OldBehind
<1>8. Fetching'
    <2> SUFFICES ASSUME phase = "fetch" PROVE Fetching'
        BY <1>1 DEF Fetching
    <2>1. /\ imap[Here] # Nothing /\ imap[Here].validity = validity[Here]
          /\ found \subseteq 0..top[Here] /\ todo \subseteq found /\ todo # {}
          /\ \A u \in found : u > imap[Here].last
        BY DEF Fetching
    <2>2. top[Here] \in Nat /\ top'[Here] \in Nat /\ top[Here] <= top'[Here]
        BY <1>1, <1>4 DEF OutlookShapes
    <2>3. found \subseteq 0..top'[Here]
        BY <2>1, <2>2
    <2>4. \A n \in NewCodes' : where'[n] = Here /\ validity[Here] = 0 =>
              uid'[n] \in todo \/ \A u \in found : uid'[n] > u
        BY <1>3, <1>5 DEF Fetching
    <2> QED BY <1>1, <1>4, <2>1, <2>3, <2>4 DEF Fetching
<1>9. Reading'
    BY <1>1, <1>3, <1>4, <1>5 DEF Reading
<1>10. NothingSkipped'
    BY <1>1, <1>3, <1>5 DEF NothingSkipped, IsNew, NewCodes
<1>11. OldCodeOnlyByMove'
    BY <1>1 DEF OldCodeOnlyByMove
<1> QED BY <1>2, <1>6, <1>7, <1>8, <1>9, <1>10, <1>11

LEMMA RenumberKeeps ==
    ASSUME OutlookInv, NEW f \in FolderSet, Renumber(f)
    PROVE  OutlookInv'
<1> USE OutlookAssumption DEF OutlookInv
<1>1. /\ validity[f] = 0 /\ validity' = [validity EXCEPT ![f] = 1]
      /\ top' = [top EXCEPT ![f] = @ + 1] /\ top[f] < MaxUid
      /\ uid' = [n \in Mails |-> IF where[n] = f THEN uid[n] + 1 ELSE uid[n]]
      /\ phase = "fetch" => Here # f
      /\ UNCHANGED <<where, received, clock, moved, phase, at, imap, graph, seen, found, todo, sent, result>>
    BY DEF Renumber, cursorVars, scanVars
<1>2. OutlookShapes'
    BY <1>1 DEF OutlookShapes
<1>3. Delivered' = Delivered /\ NewCodes' = NewCodes
    BY <1>1 DEF Delivered, NewCodes
<1>4. Here' = Here /\ (phase \in {"fetch", "detail"} => Here \in FolderSet)
    BY <1>1, HereIsFolder DEF Here, OutlookShapes
<1>5. Numbering'
    <2>1. \A g \in FolderSet : top'[g] \in Nat /\ top'[g] <= MaxUid /\ top[g] <= top'[g]
        BY <1>1 DEF Numbering, OutlookShapes
    <2>2. \A n \in Delivered : n \in Mails /\ where[n] \in FolderSet /\ uid[n] <= top[where[n]]
        BY DEF Numbering, OutlookShapes, Delivered
    <2>3. \A n \in Delivered : uid'[n] <= top'[where[n]]
        BY <1>1, <2>1, <2>2 DEF OutlookShapes
    <2>4. \A g \in FolderSet : imap[g] # Nothing =>
              imap[g].last <= top'[g] /\ imap[g].validity <= validity'[g]
        <3> SUFFICES ASSUME NEW g \in FolderSet, imap[g] # Nothing
                     PROVE  imap[g].last <= top'[g] /\ imap[g].validity <= validity'[g]
            OBVIOUS
        <3>1. /\ imap[g].last \in Nat /\ imap[g].last <= top[g]
              /\ imap[g].validity \in 0..1 /\ imap[g].validity <= validity[g]
            BY DEF OutlookShapes, Numbering
        <3>2. top[g] \in Nat /\ validity[g] \in 0..1 /\ validity'[g] \in {1, validity[g]}
            BY <1>1 DEF OutlookShapes
        <3> QED BY <2>1, <3>1, <3>2
    <2> QED BY <1>1, <1>3, <2>1, <2>3, <2>4 DEF Numbering
<1>6. OldBehind'
    <2> SUFFICES ASSUME NEW n \in OldMail
                 PROVE  /\ n \in Delivered' /\ received'[n] = 0
                        /\ n \notin moved' =>
                              (imap'[where'[n]] # Nothing
                               /\ imap'[where'[n]].validity = validity'[where'[n]]
                               => uid'[n] <= imap'[where'[n]].last)
        BY DEF OldBehind
    <2>1. n \in Mails /\ n \in Delivered /\ where[n] \in FolderSet
        <3>1. n \in Mails /\ n \in Delivered
            BY DEF Mails, OldBehind
        <3> QED BY <3>1 DEF Delivered, OutlookShapes
    <2>2. CASE where[n] = f
        <3>1. validity'[f] = 1 /\ validity[f] = 0
            BY <1>1 DEF OutlookShapes
        <3>2. imap[f] # Nothing => imap[f].validity \in 0..1 /\ imap[f].validity <= 0
            BY <3>1 DEF OutlookShapes, Numbering
        <3> QED BY <1>1, <1>3, <2>2, <3>1, <3>2 DEF OldBehind
    <2>3. CASE where[n] # f
        <3>1. uid'[n] = uid[n] /\ validity'[where[n]] = validity[where[n]]
            BY <1>1, <2>1, <2>3 DEF OutlookShapes
        <3> QED BY <1>1, <1>3, <3>1 DEF OldBehind
    <2> QED BY <2>2, <2>3
<1>7. Fetching'
    BY <1>1, <1>3, <1>4 DEF Fetching, NewCodes, Delivered, OutlookShapes
<1>8. Reading'
    BY <1>1, <1>3, <1>4 DEF Reading
<1>9. NothingSkipped'
    <2> SUFFICES ASSUME phase \notin {"done", "failed"}, NEW n \in NewCodes
                 PROVE  /\ (imap[where[n]] # Nothing /\ validity'[where[n]] = 0)
                              => uid'[n] > imap[where[n]].last
                        /\ graph[where[n]] # Nothing => IsNew(n, where[n])
        BY <1>1, <1>3 DEF NothingSkipped, NewCodes, IsNew
    <2>1. n \in Mails /\ where[n] \in FolderSet
        BY DEF NewCodes, Delivered, OutlookShapes
    <2>2. CASE where[n] = f
        <3>1. validity'[f] = 1
            BY <1>1 DEF OutlookShapes
        <3> QED BY <2>2, <3>1 DEF NothingSkipped, NewCodes
    <2>3. CASE where[n] # f
        <3>1. uid'[n] = uid[n] /\ validity'[where[n]] = validity[where[n]]
            BY <1>1, <2>1, <2>3 DEF OutlookShapes
        <3> QED BY <3>1 DEF NothingSkipped, NewCodes
    <2> QED BY <2>2, <2>3
<1>10. OldCodeOnlyByMove'
    BY <1>1 DEF OldCodeOnlyByMove
<1> QED BY <1>2, <1>5, <1>6, <1>7, <1>8, <1>9, <1>10

-----------------------------------------------------------------------------
(* The steps that leave the mails alone.                                   *)

\* Steps that start or end a round, or give it up.
RoundStep ==
    \/ ImapBaselined \/ GraphBaselined \/ Submit \/ BeginRound \/ Resend \/ GiveUp
    \/ ImapFails \/ GraphFails \/ SkipFolder \/ RefreshToken

LEMMA RoundKeeps == ASSUME OutlookInv, RoundStep PROVE OutlookInv'
<1> USE OutlookAssumption DEF OutlookInv
<1>1. /\ UNCHANGED <<where, uid, received, clock, top, validity, moved, graph, seen, result>>
      /\ UNCHANGED imap \/ imap' = [f \in FolderSet |-> Nothing]
      /\ sent' \in {sent, sent + 1} /\ (phase' \in Before => sent' = sent /\ phase \in Before)
      /\ phase' \in Phases \ {"fetch", "detail"}
      /\ at' \in {1, at} \/ (at < Len(Folders) /\ at' = at + 1)
      /\ phase' \in {"search", "list"} => at' = 1 \/ phase \in {"search", "list"}
      /\ phase \notin {"done", "failed"}
    <2> USE DEF serverVars, cursorVars, Phases, Before, StartGraph
    <2>1. CASE ImapBaselined
        BY <2>1 DEF ImapBaselined
    <2>2. CASE GraphBaselined
        BY <2>2 DEF GraphBaselined
    <2>3. CASE Submit
        BY <2>3 DEF Submit, OutlookShapes, Numbering
    <2>4. CASE BeginRound
        BY <2>4 DEF BeginRound
    <2>5. CASE Resend
        BY <2>5 DEF Resend
    <2>6. CASE GiveUp
        BY <2>6 DEF GiveUp
    <2>7. CASE ImapFails
        BY <2>7 DEF ImapFails
    <2>8. CASE GraphFails
        BY <2>8 DEF GraphFails
    <2>9. CASE SkipFolder
        BY <2>9 DEF SkipFolder, NextFolder
    <2>10. CASE RefreshToken
        BY <2>10 DEF RefreshToken
    <2> QED BY <2>1, <2>2, <2>3, <2>4, <2>5, <2>6, <2>7, <2>8, <2>9, <2>10 DEF RoundStep
<1>2. /\ at' \in 1..Len(Folders) + 1
      /\ phase' \in {"search", "list"} => at' <= Len(Folders)
    BY <1>1, LengthIsPositive, TurnIsFolder DEF OutlookShapes
<1>3. \A f \in FolderSet : imap'[f] # Nothing => imap'[f] = imap[f] /\ imap[f] # Nothing
    BY <1>1
<1>4. OutlookShapes'
    BY <1>1, <1>2, <1>3 DEF OutlookShapes
<1>5. Numbering' /\ Delivered' = Delivered /\ NewCodes' = NewCodes
    BY <1>1, <1>3 DEF Numbering, OutlookShapes, Delivered, NewCodes
<1>6. \A n \in Delivered : where[n] \in FolderSet
    BY DEF Delivered, OutlookShapes
<1>7. OldBehind'
    BY <1>1, <1>3, <1>5, <1>6 DEF OldBehind
<1>8. Fetching' /\ Reading' /\ OldCodeOnlyByMove'
    BY <1>1 DEF Fetching, Reading, OldCodeOnlyByMove
<1>9. NothingSkipped'
    BY <1>1, <1>3, <1>5, <1>6 DEF NothingSkipped, NewCodes, IsNew
<1> QED BY <1>4, <1>5, <1>7, <1>8, <1>9

\* The UIDs and times in a folder are bounded.
LEMMA FolderBounds ==
    ASSUME OutlookInv, NEW f \in FolderSet
    PROVE  /\ {uid[m] : m \in In(f)} \subseteq 0..top[f]
           /\ {received[m] : m \in In(f)} \subseteq 0..clock
           /\ In(f) \subseteq Delivered
<1>1. Nothing \notin FolderSet
    BY OutlookAssumption
<1>2. In(f) \subseteq Delivered
    BY <1>1 DEF In, Delivered
<1>3. \A m \in In(f) : /\ uid[m] \in Nat /\ uid[m] <= top[f]
                       /\ received[m] \in Nat /\ received[m] <= clock
    BY <1>2 DEF OutlookInv, OutlookShapes, Numbering, In
<1>4. top[f] \in Nat /\ clock \in Nat
    BY DEF OutlookInv, OutlookShapes
<1> QED BY <1>2, <1>3, <1>4

\* A step that reads the folder Here and may move its cursors.
LEMMA ScanKeeps ==
    ASSUME OutlookInv, Here \in FolderSet,
           UNCHANGED <<where, uid, received, clock, top, validity, moved, sent>>,
           phase' \in Phases, phase' \in Before => phase \in Before,
           at' \in 1..Len(Folders) + 1,
           phase' \in {"search", "fetch", "list", "detail"} => at' <= Len(Folders),
           NEW l \in 0..top[Here],
           \/ imap' = imap
           \/ /\ imap' = [imap EXCEPT ![Here] = [validity |-> validity[Here], last |-> l]]
              /\ \A m \in (OldMail \cap In(Here)) \ moved : uid[m] <= l,
           NEW t \in 0..clock,
           graph' = graph \/ graph' = [graph EXCEPT ![Here] = t],
           seen' \subseteq Delivered
    PROVE  OutlookShapes' /\ Numbering' /\ OldBehind' /\ Delivered' = Delivered /\ NewCodes' = NewCodes
<1> DEFINE new == [validity |-> validity[Here], last |-> l]
<1>1. new.last = l /\ new.validity = validity[Here]
    OBVIOUS
<1>2. validity[Here] \in 0..1 /\ top[Here] \in Nat /\ clock \in Nat
    BY DEF OutlookInv, OutlookShapes
<1>3. new \in [validity : 0..1, last : Nat] /\ new.last <= top[Here]
    BY <1>1, <1>2
<1>4. imap' = imap \/ imap' = [imap EXCEPT ![Here] = new]
    OBVIOUS
<1>5. imap' # imap => \A m \in (OldMail \cap In(Here)) \ moved : uid[m] <= new.last
    BY <1>1
<1> HIDE DEF new
<1>6. \A f \in FolderSet : imap'[f] = imap[f] \/ (f = Here /\ imap'[f] = new /\ imap' # imap)
    BY <1>4 DEF OutlookInv, OutlookShapes
<1>7. \A f \in FolderSet : graph'[f] = graph[f] \/ graph'[f] = t
    BY DEF OutlookInv, OutlookShapes
<1>8. OutlookShapes'
    <2>1. imap' = [f \in FolderSet |-> imap'[f]]
        BY <1>4 DEF OutlookInv, OutlookShapes
    <2>2. graph' = [f \in FolderSet |-> graph'[f]]
        BY DEF OutlookInv, OutlookShapes
    <2>3. \A f \in FolderSet : imap'[f] # Nothing => imap'[f] \in [validity : 0..1, last : Nat]
        BY <1>3, <1>6 DEF OutlookInv, OutlookShapes
    <2>4. \A f \in FolderSet : graph'[f] # Nothing => graph'[f] \in Nat
        BY <1>2, <1>7 DEF OutlookInv, OutlookShapes
    <2> QED BY <2>1, <2>2, <2>3, <2>4 DEF OutlookInv, OutlookShapes
<1>9. Delivered' = Delivered /\ NewCodes' = NewCodes /\ \A m \in Delivered : where[m] \in FolderSet
    BY DEF Delivered, NewCodes, OutlookInv, OutlookShapes
<1>10. Numbering'
    <2>1. \A f \in FolderSet : imap'[f] # Nothing => imap'[f].last <= top[f] /\ imap'[f].validity <= validity[f]
        BY <1>1, <1>2, <1>3, <1>6 DEF OutlookInv, Numbering
    <2>2. \A f \in FolderSet : graph'[f] # Nothing => graph'[f] <= clock
        BY <1>2, <1>7 DEF OutlookInv, Numbering
    <2> QED BY <1>9, <2>1, <2>2 DEF OutlookInv, Numbering
<1>11. OldBehind'
    <2> SUFFICES ASSUME NEW n \in OldMail
                 PROVE  /\ n \in Delivered' /\ received'[n] = 0
                        /\ n \notin moved' =>
                              (imap'[where'[n]] # Nothing
                               /\ imap'[where'[n]].validity = validity'[where'[n]]
                               => uid'[n] <= imap'[where'[n]].last)
        BY DEF OldBehind
    <2>1. n \in Delivered /\ where[n] \in FolderSet /\ n \in Mails
        BY <1>9 DEF OutlookInv, OldBehind, Delivered
    <2>2. CASE imap'[where[n]] = imap[where[n]]
        BY <1>9, <2>2 DEF OutlookInv, OldBehind
    <2>3. CASE where[n] = Here /\ imap'[where[n]] = new /\ imap' # imap
        BY <1>5, <1>9, <2>1, <2>3 DEF OutlookInv, OldBehind, In
    <2> QED BY <1>6, <2>1, <2>2, <2>3
<1> QED BY <1>8, <1>9, <1>10, <1>11

-----------------------------------------------------------------------------
(* The steps that read a folder.                                           *)

LEMMA BaselineImapKeeps == ASSUME OutlookInv, BaselineImap PROVE OutlookInv'
<1>1. /\ UNCHANGED <<where, uid, received, clock, top, validity, moved, phase, graph, seen, sent, result>>
      /\ phase = "base imap" /\ at <= Len(Folders) /\ at' = at + 1
    BY DEF BaselineImap, serverVars
<1>2. Here \in FolderSet /\ at' \in 1..Len(Folders) + 1
    BY <1>1, NextIsFolder DEF OutlookInv, OutlookShapes
<1> DEFINE l == Largest({uid[m] : m \in In(Here)})
<1>3. l \in 0..top[Here] /\ \A m \in In(Here) : uid[m] <= l
    BY <1>2, FolderBounds, LargestIn DEF OutlookInv, OutlookShapes
<1>4. imap' = imap \/ imap' = [imap EXCEPT ![Here] = [validity |-> validity[Here], last |-> l]]
    BY DEF BaselineImap
<1> HIDE DEF l
<1>5. clock \in 0..clock /\ seen' \subseteq Delivered
    <2>1. clock \in 0..clock
        BY DEF OutlookInv, OutlookShapes
    <2>2. seen' \subseteq Delivered
        BY <1>1 DEF OutlookInv, Numbering
    <2> QED BY <2>1, <2>2
<1>6. OutlookShapes' /\ Numbering' /\ OldBehind' /\ Delivered' = Delivered
    BY <1>1, <1>2, <1>3, <1>4, <1>5, ScanKeeps DEF Phases
<1>7. Fetching' /\ Reading' /\ OldCodeOnlyByMove'
    BY <1>1 DEF Fetching, Reading, OldCodeOnlyByMove, OutlookInv
<1>8. NothingSkipped'
    BY <1>1, <1>6 DEF NothingSkipped, Numbering, OutlookInv, Before
<1> QED BY <1>6, <1>7, <1>8 DEF OutlookInv

LEMMA BaselineGraphKeeps == ASSUME OutlookInv, BaselineGraph PROVE OutlookInv'
<1>1. /\ UNCHANGED <<where, uid, received, clock, top, validity, moved, phase, imap, sent, result>>
      /\ phase = "base graph" /\ at <= Len(Folders) /\ at' = at + 1
    BY DEF BaselineGraph, serverVars
<1>2. Here \in FolderSet /\ at' \in 1..Len(Folders) + 1
    BY <1>1, NextIsFolder DEF OutlookInv, OutlookShapes
<1> DEFINE t == Largest({received[m] : m \in In(Here)})
<1>3. t \in 0..clock /\ In(Here) \subseteq Delivered
    BY <1>2, FolderBounds, LargestIn DEF OutlookInv, OutlookShapes
<1>4. graph' = graph \/ graph' = [graph EXCEPT ![Here] = t]
    BY DEF BaselineGraph
<1> HIDE DEF t
<1>5. top[Here] \in 0..top[Here]
    BY <1>2 DEF OutlookInv, OutlookShapes
<1>6. seen' \subseteq Delivered
    BY <1>3 DEF BaselineGraph, OutlookInv, Numbering
<1>7. OutlookShapes' /\ Numbering' /\ OldBehind' /\ Delivered' = Delivered
    BY <1>1, <1>2, <1>3, <1>4, <1>5, <1>6, ScanKeeps DEF Phases
<1>8. Fetching' /\ Reading' /\ OldCodeOnlyByMove'
    BY <1>1 DEF Fetching, Reading, OldCodeOnlyByMove, OutlookInv
<1>9. NothingSkipped'
    BY <1>1, <1>7 DEF NothingSkipped, Numbering, OutlookInv, Before
<1> QED BY <1>7, <1>8, <1>9 DEF OutlookInv

\* What is known of the new codes while no code was returned.
LEMMA CodesAhead ==
    ASSUME OutlookInv, phase \notin {"done", "failed"}, NEW m \in NewCodes
    PROVE  /\ m \in Mails /\ where[m] \in FolderSet /\ m \notin Noise /\ m \in Delivered
           /\ (imap[where[m]] # Nothing /\ validity[where[m]] = 0) => uid[m] > imap[where[m]].last
           /\ graph[where[m]] # Nothing => IsNew(m, where[m])
<1>1. m \in Delivered /\ m \in Range(Codes) /\ m \notin moved
    BY DEF NewCodes
<1>2. m \in Mails /\ where[m] \in FolderSet /\ m \notin Noise
    BY <1>1, OutlookAssumption DEF Delivered, OutlookInv, OutlookShapes
<1> QED BY <1>1, <1>2 DEF OutlookInv, NothingSkipped

LEMMA SearchImapKeeps == ASSUME OutlookInv, SearchImap PROVE OutlookInv'
<1>1. /\ UNCHANGED <<where, uid, received, clock, top, validity, moved, graph, seen, sent, result>>
      /\ phase = "search"
    BY DEF SearchImap, serverVars
<1>2. Here \in FolderSet /\ at \in 1..Len(Folders) + 1 /\ at <= Len(Folders)
    BY <1>1, NextIsFolder DEF OutlookInv, OutlookShapes
<1> DEFINE l == Largest({uid[m] : m \in In(Here)})
<1>3. l \in 0..top[Here] /\ \A m \in In(Here) : uid[m] <= l
    BY <1>2, FolderBounds, LargestIn DEF OutlookInv, OutlookShapes
<1>4. \/ imap' = imap
      \/ imap' = [imap EXCEPT ![Here] = [validity |-> validity[Here], last |-> l]] /\ Renumbered(Here)
    BY DEF SearchImap, Rebaselined
<1> HIDE DEF l
<1>5. clock \in 0..clock
    BY DEF OutlookInv, OutlookShapes
<1>6. seen' \subseteq Delivered
    BY <1>1 DEF OutlookInv, Numbering
<1>7. /\ phase' \in {"search", "fetch", "list", "poll"}
      /\ at' = at \/ at' = 1 \/ (at < Len(Folders) /\ at' = at + 1)
    BY <1>1 DEF SearchImap, NextFolder, StartGraph
<1>8. at' \in 1..Len(Folders) + 1 /\ at' <= Len(Folders)
    BY <1>2, <1>7, TurnIsFolder
<1>9. phase' \in Phases /\ phase' \notin Before
    BY <1>7 DEF Phases, Before
<1>10. OutlookShapes' /\ Numbering' /\ OldBehind' /\ Delivered' = Delivered /\ NewCodes' = NewCodes
    BY <1>1, <1>2, <1>3, <1>4, <1>5, <1>6, <1>8, <1>9, ScanKeeps
<1>11. Fetching'
    <2> SUFFICES ASSUME phase' = "fetch" PROVE Fetching'
        BY DEF Fetching
    <2>1. /\ found' = NewUids(Here) /\ todo' = found' /\ NewUids(Here) # {}
          /\ UNCHANGED <<at, imap>>
        BY <1>1 DEF SearchImap, NextFolder, StartGraph
    <2>2. Here' = Here
        BY <2>1 DEF Here
    <2>3. imap[Here] # Nothing /\ imap[Here].validity = validity[Here]
        BY <2>1 DEF NewUids, Renumbered
    <2>4. NewUids(Here) = {uid[m] : m \in {n \in In(Here) : uid[n] > imap[Here].last}}
        BY <2>3 DEF NewUids, Renumbered
    <2>5. NewUids(Here) \subseteq 0..top[Here]
        BY <1>2, <2>4, FolderBounds
    <2>6. \A m \in NewCodes : where[m] = Here /\ validity[Here] = 0 => uid[m] \in NewUids(Here)
        BY <1>1, <2>3, <2>4, CodesAhead DEF In
    <2>7. \A u \in NewUids(Here) : u > imap[Here].last
        BY <2>4
    <2> QED BY <1>1, <1>10, <2>1, <2>2, <2>3, <2>5, <2>6, <2>7 DEF Fetching
<1>12. Reading' /\ OldCodeOnlyByMove'
    BY <1>1, <1>7 DEF Reading, OldCodeOnlyByMove, OutlookInv
<1>13. NothingSkipped'
    <2> SUFFICES ASSUME NEW m \in NewCodes
                 PROVE  /\ (imap'[where[m]] # Nothing /\ validity[where[m]] = 0) => uid[m] > imap'[where[m]].last
                        /\ graph[where[m]] # Nothing => IsNew(m, where[m])
        BY <1>1, <1>10 DEF NothingSkipped, NewCodes, IsNew
    <2>1. CASE imap' = imap
        BY <1>1, <2>1, CodesAhead
    <2>2. CASE imap' # imap
        <3>1. Renumbered(Here)
            BY <1>4, <2>2
        <3>2. validity[Here] # 0
            BY <1>2, <3>1 DEF Renumbered, OutlookInv, OutlookShapes, Numbering
        <3>3. where[m] # Here => imap'[where[m]] = imap[where[m]]
            BY <1>1, <1>4, CodesAhead DEF OutlookInv, OutlookShapes
        <3> QED BY <1>1, <3>2, <3>3, CodesAhead
    <2> QED BY <2>1, <2>2
<1> QED BY <1>10, <1>11, <1>12, <1>13 DEF OutlookInv

LEMMA FetchImapKeeps == ASSUME OutlookInv, FetchImap PROVE OutlookInv'
<1>1. /\ UNCHANGED <<where, uid, received, clock, top, validity, moved, graph, seen, sent>>
      /\ phase = "fetch"
    BY DEF FetchImap, serverVars
<1>2. Here \in FolderSet /\ at \in 1..Len(Folders) + 1 /\ at <= Len(Folders)
    BY <1>1, NextIsFolder DEF OutlookInv, OutlookShapes
<1>3. /\ imap[Here] # Nothing /\ imap[Here].validity = validity[Here]
      /\ found \subseteq 0..top[Here] /\ todo \subseteq found /\ todo # {}
      /\ \A u \in found : u > imap[Here].last
      /\ \A m \in NewCodes : where[m] = Here /\ validity[Here] = 0 =>
            uid[m] \in todo \/ \A u \in found : uid[m] > u
    BY <1>1 DEF OutlookInv, Fetching
<1>4. top[Here] \in Nat /\ clock \in Nat
    BY <1>2 DEF OutlookInv, OutlookShapes
<1> DEFINE u == Max(todo)
           l == Max(found)
           read == {n \in In(Here) : uid[n] = u /\ HasCode(n)}
<1>5. u \in todo /\ u \in found
    BY <1>3, <1>4, MaxIn
<1>6. l \in found /\ l \in 0..top[Here] /\ \A x \in found : x <= l
    BY <1>3, <1>4, MaxIn
<1>7. \/ /\ read # {} /\ result' \in {"imap"} \X read /\ phase' = "done"
         /\ UNCHANGED <<at, imap, found, todo>>
      \/ /\ read = {} /\ todo' = todo \ {u} /\ UNCHANGED result
         /\ \/ todo' # {} /\ UNCHANGED <<phase, at, imap, found>>
            \/ /\ todo' = {} /\ imap' = [imap EXCEPT ![Here].last = l]
               /\ phase' \in {"search", "list", "poll"}
               /\ at' = 1 \/ (at < Len(Folders) /\ at' = at + 1)
    BY DEF FetchImap, scanVars, StartGraph
<1> HIDE DEF u, l
<1>8. \/ imap' = imap
      \/ imap' = [imap EXCEPT ![Here] = [validity |-> validity[Here], last |-> l]]
    <2>1. imap[Here] \in [validity : 0..1, last : Nat]
        BY <1>2, <1>3 DEF OutlookInv, OutlookShapes
    <2>2. [imap[Here] EXCEPT !.last = l] = [validity |-> validity[Here], last |-> l]
        BY <1>3, <2>1
    <2>3. [imap EXCEPT ![Here].last = l] = [imap EXCEPT ![Here] = [imap[Here] EXCEPT !.last = l]]
        OBVIOUS
    <2> QED BY <1>7, <2>2, <2>3
<1>9. \A m \in (OldMail \cap In(Here)) \ moved : uid[m] <= l /\ uid[m] # u
    <2> SUFFICES ASSUME NEW m \in (OldMail \cap In(Here)) \ moved PROVE uid[m] <= l /\ uid[m] # u
        OBVIOUS
    <2>1. m \in Mails /\ where[m] = Here
        BY DEF In
    <2>2. uid[m] <= imap[Here].last
        BY <1>3, <2>1 DEF OutlookInv, OldBehind
    <2>3. uid[m] \in Nat /\ imap[Here].last \in Nat
        BY <1>2, <1>3, <2>1 DEF OutlookInv, OutlookShapes
    <2>4. imap[Here].last < u /\ imap[Here].last < l /\ u \in 0..top[Here]
        BY <1>3, <1>5, <1>6
    <2> QED BY <1>4, <1>6, <2>2, <2>3, <2>4
<1>10. phase' \in Phases /\ phase' \notin Before
    BY <1>1, <1>7 DEF Phases, Before
<1>11. at' \in 1..Len(Folders) + 1 /\ at' <= Len(Folders)
    BY <1>2, <1>7, TurnIsFolder
<1>12. clock \in 0..clock
    BY <1>4
<1>13. seen' \subseteq Delivered
    BY <1>1 DEF OutlookInv, Numbering
<1>14. OutlookShapes' /\ Numbering' /\ OldBehind' /\ Delivered' = Delivered /\ NewCodes' = NewCodes
    BY <1>1, <1>2, <1>6, <1>8, <1>9, <1>10, <1>11, <1>12, <1>13, ScanKeeps
\* A new code whose turn it is would have been found.
<1>15. read = {} => \A m \in NewCodes : where[m] = Here => uid[m] # u
    BY <1>1, CodesAhead DEF In, HasCode
<1>16. Fetching'
    <2> SUFFICES ASSUME phase' = "fetch" PROVE Fetching'
        BY DEF Fetching
    <2>1. read = {} /\ todo' = todo \ {u} /\ todo' # {} /\ UNCHANGED <<at, imap, found>>
        BY <1>7
    <2>2. Here' = Here
        BY <2>1 DEF Here
    <2> QED BY <1>1, <1>3, <1>14, <1>15, <2>1, <2>2 DEF Fetching
<1>17. Reading'
    BY <1>1, <1>7 DEF Reading
<1>18. OldCodeOnlyByMove'
    <2>1. CASE result' = result
        BY <1>1, <2>1 DEF OldCodeOnlyByMove, OutlookInv
    <2>2. CASE result' \in {"imap"} \X read
        BY <1>1, <1>9, <2>2 DEF OldCodeOnlyByMove
    <2> QED BY <1>7, <2>1, <2>2
<1>19. NothingSkipped'
    <2> SUFFICES ASSUME phase' # "done", NEW m \in NewCodes
                 PROVE  /\ (imap'[where[m]] # Nothing /\ validity[where[m]] = 0) => uid[m] > imap'[where[m]].last
                        /\ graph[where[m]] # Nothing => IsNew(m, where[m])
        BY <1>1, <1>14 DEF NothingSkipped, NewCodes, IsNew
    <2>1. CASE imap' = imap
        BY <1>1, <2>1, CodesAhead
    <2>2. CASE todo' = {} /\ imap' # imap
        <3>1. read = {} /\ todo \subseteq {u}
            BY <1>7, <2>2
        <3>2. where[m] = Here => imap'[where[m]].last = l
            BY <1>2, <1>8, <2>2 DEF OutlookInv, OutlookShapes
        <3>3. where[m] = Here /\ validity[Here] = 0 => uid[m] > l
            BY <1>3, <1>6, <1>15, <3>1
        <3>4. where[m] # Here => imap'[where[m]] = imap[where[m]]
            BY <1>1, <1>8, CodesAhead DEF OutlookInv, OutlookShapes
        <3> QED BY <1>1, <3>2, <3>3, <3>4, CodesAhead
    <2> QED BY <1>7, <2>1, <2>2
<1> QED BY <1>14, <1>16, <1>17, <1>18, <1>19 DEF OutlookInv

\* Reading a folder's frontier to its end skips no new code.
LEMMA AdvanceSkipsNothing ==
    ASSUME OutlookInv, phase \notin {"done", "failed"}, Here \in FolderSet,
           NEW frontier \in SUBSET Delivered, graph[Here] # Nothing,
           Advance(Here, frontier), UNCHANGED <<where, received>>,
           \A m \in NewCodes : /\ m \notin frontier
                               /\ where[m] = Here => \A n \in frontier : received[m] > received[n]
    PROVE  /\ \E t \in 0..clock : graph' = [graph EXCEPT ![Here] = t]
           /\ seen' \subseteq Delivered
           /\ \A m \in NewCodes : graph'[where[m]] # Nothing => IsNew(m, where[m])'
<1>0. \A m \in NewCodes : /\ m \notin frontier
                          /\ where[m] = Here => \A n \in frontier : received[m] > received[n]
    OBVIOUS
<1> DEFINE times == {graph[Here]} \cup {received[m] : m \in frontier}
           t == Largest(times)
<1>1. clock \in Nat /\ graph[Here] \in 0..clock
    BY DEF OutlookInv, OutlookShapes, Numbering
<1>2. \A m \in frontier : received[m] \in 0..clock
    BY <1>1 DEF OutlookInv, OutlookShapes, Numbering, Delivered
<1>3. times \subseteq 0..clock
    BY <1>1, <1>2
<1>4. t \in 0..clock /\ t \in times
    <2>1. times # {}
        <3>1. graph[Here] \in times
            BY Zenon
        <3> QED BY <3>1
    <2>2. t = Max(times)
        BY <2>1 DEF Largest
    <2> HIDE DEF times
    <2> QED BY <1>1, <1>3, <2>1, <2>2, MaxIn
<1>5. graph' = [graph EXCEPT ![Here] = t] /\ seen' = seen \cup frontier
    BY DEF Advance
<1> HIDE DEF t
<1>6. seen' \subseteq Delivered
    BY <1>5 DEF OutlookInv, Numbering
<1>7. ASSUME NEW m \in NewCodes, graph'[where[m]] # Nothing
      PROVE  IsNew(m, where[m])'
    <2>1. m \in Mails /\ where[m] \in FolderSet /\ (graph[where[m]] # Nothing => IsNew(m, where[m]))
        BY CodesAhead
    <2>2. m \notin frontier /\ (where[m] = Here => \A n \in frontier : received[m] > received[n])
        BY <1>0, <1>7
    <2>3. CASE where[m] = Here
        <3>1. graph'[Here] = t
            BY <1>5 DEF OutlookInv, OutlookShapes
        <3>2. received[m] >= graph[Here] /\ received[m] > 0 /\ m \notin seen
            BY <2>1, <2>3 DEF IsNew
        <3>3. received[m] \in Nat
            BY <2>1 DEF OutlookInv, OutlookShapes
        <3>4. received[m] >= t
            BY <1>1, <1>2, <1>4, <2>2, <2>3, <3>2, <3>3
        <3> QED BY <1>5, <2>2, <2>3, <3>1, <3>2, <3>4 DEF IsNew
    <2>4. CASE where[m] # Here
        <3>1. graph'[where[m]] = graph[where[m]]
            BY <1>5, <2>1, <2>4 DEF OutlookInv, OutlookShapes
        <3> QED BY <1>5, <1>7, <2>1, <2>2, <3>1 DEF IsNew
    <2> QED BY <2>3, <2>4
<1> QED BY <1>4, <1>5, <1>6, <1>7

LEMMA ListGraphKeeps == ASSUME OutlookInv, ListGraph PROVE OutlookInv'
<1>1. /\ UNCHANGED <<where, uid, received, clock, top, validity, moved, imap, sent, result>>
      /\ phase = "list"
    BY DEF ListGraph, serverVars
<1>2. Here \in FolderSet /\ at \in 1..Len(Folders) + 1 /\ at <= Len(Folders)
    BY <1>1, NextIsFolder DEF OutlookInv, OutlookShapes
<1>3. top[Here] \in 0..top[Here] /\ clock \in 0..clock
    BY <1>2 DEF OutlookInv, OutlookShapes
<1>4. In(Here) \subseteq Delivered
    BY <1>2, FolderBounds
<1>5. phase' \in {"list", "poll", "detail"} /\ (at' = at \/ at' = 1 \/ (at < Len(Folders) /\ at' = at + 1))
    BY <1>1 DEF ListGraph, NextFolder
<1>6. at' \in 1..Len(Folders) + 1 /\ at' <= Len(Folders)
    BY <1>2, <1>5, TurnIsFolder
<1>7. phase' \in Phases /\ phase' \notin Before
    BY <1>5 DEF Phases, Before
<1>8. Fetching' /\ OldCodeOnlyByMove'
    BY <1>1, <1>5 DEF Fetching, OldCodeOnlyByMove, OutlookInv
<1>9. \A m \in NewCodes : where[m] = Here /\ graph[Here] # Nothing =>
          m \in {n \in In(Here) : IsNew(n, Here)}
    BY <1>1, CodesAhead DEF In
<1>10. CASE UNCHANGED <<graph, seen>>
    <2>1. seen' \subseteq Delivered
        BY <1>10 DEF OutlookInv, Numbering
    <2>2. OutlookShapes' /\ Numbering' /\ OldBehind' /\ Delivered' = Delivered /\ NewCodes' = NewCodes
        BY <1>1, <1>2, <1>3, <1>6, <1>7, <1>10, <2>1, ScanKeeps
    <2>3. NothingSkipped'
        BY <1>1, <1>5, <1>10, <2>2 DEF NothingSkipped, IsNew, OutlookInv
    <2>4. Reading'
        <3> SUFFICES ASSUME phase' = "detail" PROVE Reading'
            BY DEF Reading
        <3>1. /\ graph[Here] # Nothing /\ found' = In(Here)
              /\ todo' = {m \in In(Here) : IsNew(m, Here)} /\ UNCHANGED at
            BY <1>1 DEF ListGraph, NextFolder
        <3>2. Here' = Here
            BY <3>1 DEF Here
        <3>3. \A m \in todo' : received[m] > 0
            BY <3>1 DEF IsNew
        <3>4. \A m \in NewCodes : (m \in In(Here) => m \in todo') /\ (where[m] = Here => m \in found')
            BY <1>9, <3>1 DEF In
        <3> QED BY <1>1, <1>4, <1>10, <2>2, <3>1, <3>2, <3>3, <3>4 DEF Reading
    <2> QED BY <1>8, <2>2, <2>3, <2>4 DEF OutlookInv
<1>11. CASE ~UNCHANGED <<graph, seen>>
    <2>1. /\ graph[Here] # Nothing /\ {m \in In(Here) : IsNew(m, Here)} = {}
          /\ Advance(Here, In(Here)) /\ phase' # "detail"
        BY <1>1, <1>11 DEF ListGraph, NextFolder
    <2>2. \A m \in NewCodes : where[m] # Here /\ m \notin In(Here)
        BY <1>9, <2>1 DEF In
    <2>3. /\ \E t \in 0..clock : graph' = [graph EXCEPT ![Here] = t]
          /\ seen' \subseteq Delivered
          /\ \A m \in NewCodes : graph'[where[m]] # Nothing => IsNew(m, where[m])'
        BY <1>1, <1>2, <1>4, <2>1, <2>2, AdvanceSkipsNothing
    <2>4. PICK t \in 0..clock : graph' = [graph EXCEPT ![Here] = t]
        BY <2>3
    <2>5. OutlookShapes' /\ Numbering' /\ OldBehind' /\ Delivered' = Delivered /\ NewCodes' = NewCodes
        BY <1>1, <1>2, <1>3, <1>6, <1>7, <2>3, <2>4, ScanKeeps
    <2>6. NothingSkipped'
        BY <1>1, <2>3, <2>5, CodesAhead DEF NothingSkipped, NewCodes
    <2>7. Reading'
        BY <2>1 DEF Reading
    <2> QED BY <1>8, <2>5, <2>6, <2>7 DEF OutlookInv
<1> QED BY <1>10, <1>11

LEMMA DetailGraphKeeps == ASSUME OutlookInv, DetailGraph PROVE OutlookInv'
<1>1. /\ UNCHANGED <<where, uid, received, clock, top, validity, moved, imap, sent>>
      /\ phase = "detail"
    BY DEF DetailGraph, serverVars
<1>2. Here \in FolderSet /\ at \in 1..Len(Folders) + 1 /\ at <= Len(Folders)
    BY <1>1, NextIsFolder DEF OutlookInv, OutlookShapes
<1>3. top[Here] \in 0..top[Here] /\ clock \in 0..clock
    BY <1>2 DEF OutlookInv, OutlookShapes
<1>4. PICK m \in todo :
          \/ /\ HasCode(m) /\ result' = <<"graph", m>> /\ phase' = "done"
             /\ UNCHANGED <<at, graph, seen, found, todo>>
          \/ /\ ~HasCode(m) /\ todo' = todo \ {m} /\ UNCHANGED result
             /\ \/ /\ todo' = {} /\ Advance(Here, found) /\ phase' \in {"list", "poll"}
                   /\ at' = 1 \/ (at < Len(Folders) /\ at' = at + 1)
                \/ UNCHANGED <<phase, at, graph, seen, found>>
    BY DEF DetailGraph, AllRead, scanVars
<1>5. phase' \in {"done", "list", "poll", "detail"}
      /\ (at' = at \/ at' = 1 \/ (at < Len(Folders) /\ at' = at + 1))
    BY <1>1, <1>4
<1>6. at' \in 1..Len(Folders) + 1 /\ at' <= Len(Folders)
    BY <1>2, <1>5, TurnIsFolder
<1>7. phase' \in Phases /\ phase' \notin Before
    BY <1>5 DEF Phases, Before
<1>8. /\ graph[Here] # Nothing /\ found \subseteq Delivered /\ todo \subseteq found
      /\ \A n \in todo : received[n] > 0
      /\ \A n \in NewCodes :
            /\ n \in found => n \in todo
            /\ where[n] = Here /\ n \notin found => \A k \in found : received[n] > received[k]
    BY <1>1 DEF OutlookInv, Reading
<1>9. Fetching'
    BY <1>5 DEF Fetching
<1>10. OldCodeOnlyByMove'
    <2>1. CASE result' = result
        BY <1>1, <2>1 DEF OldCodeOnlyByMove, OutlookInv
    <2>2. CASE result' = <<"graph", m>>
        <3>1. m \notin OldMail
            BY <1>8 DEF OutlookInv, OldBehind
        <3> QED BY <2>2, <3>1 DEF OldCodeOnlyByMove
    <2> QED BY <1>4, <2>1, <2>2
<1>11. ~HasCode(m) => \A n \in NewCodes : n # m
    BY <1>1, CodesAhead DEF HasCode
<1>12. CASE UNCHANGED <<graph, seen>>
    <2>1. seen' \subseteq Delivered
        BY <1>12 DEF OutlookInv, Numbering
    <2>2. OutlookShapes' /\ Numbering' /\ OldBehind' /\ Delivered' = Delivered /\ NewCodes' = NewCodes
        BY <1>1, <1>2, <1>3, <1>6, <1>7, <1>12, <2>1, ScanKeeps
    <2>3. NothingSkipped'
        BY <1>1, <1>5, <1>12, <2>2 DEF NothingSkipped, IsNew, OutlookInv
    <2>4. Reading'
        <3> SUFFICES ASSUME phase' = "detail" PROVE Reading'
            BY DEF Reading
        <3>1. ~HasCode(m) /\ todo' = todo \ {m} /\ UNCHANGED <<at, found>>
            BY <1>4
        <3>2. Here' = Here
            BY <3>1 DEF Here
        <3> QED BY <1>1, <1>8, <1>11, <1>12, <2>2, <3>1, <3>2 DEF Reading
    <2> QED BY <1>9, <1>10, <2>2, <2>3, <2>4 DEF OutlookInv
<1>13. CASE ~UNCHANGED <<graph, seen>>
    <2>1. ~HasCode(m) /\ todo = {m} /\ Advance(Here, found) /\ phase' \in {"list", "poll"}
        BY <1>4, <1>13
    <2>2. \A n \in NewCodes : /\ n \notin found
                              /\ where[n] = Here => \A k \in found : received[n] > received[k]
        BY <1>8, <1>11, <2>1
    <2>3. /\ \E t \in 0..clock : graph' = [graph EXCEPT ![Here] = t]
          /\ seen' \subseteq Delivered
          /\ \A n \in NewCodes : graph'[where[n]] # Nothing => IsNew(n, where[n])'
        BY <1>1, <1>2, <1>8, <2>1, <2>2, AdvanceSkipsNothing
    <2>4. PICK t \in 0..clock : graph' = [graph EXCEPT ![Here] = t]
        BY <2>3
    <2>5. OutlookShapes' /\ Numbering' /\ OldBehind' /\ Delivered' = Delivered /\ NewCodes' = NewCodes
        BY <1>1, <1>2, <1>3, <1>6, <1>7, <2>3, <2>4, ScanKeeps
    <2>6. NothingSkipped'
        BY <1>1, <2>3, <2>5, CodesAhead DEF NothingSkipped, NewCodes
    <2>7. Reading'
        BY <2>1 DEF Reading
    <2> QED BY <1>9, <1>10, <2>5, <2>6, <2>7 DEF OutlookInv
<1> QED BY <1>12, <1>13

-----------------------------------------------------------------------------
(* The whole.                                                              *)

LEMMA InitOutlookInv == ASSUME OutlookInit PROVE OutlookInv
<1> USE OutlookAssumption
<1>1. Len(Folders) \in Nat /\ Len(Folders) >= 1
    BY LengthIsPositive
<1>2. \A m \in Mails : m \in Delivered <=> m \in OldMail
    BY DEF OutlookInit, Delivered
<1>3. OutlookShapes
    <2>1. /\ where \in [Mails -> FolderSet \cup {Nothing}] /\ uid \in [Mails -> Nat]
          /\ received \in [Mails -> Nat] /\ clock \in Nat
          /\ top \in [FolderSet -> Nat] /\ validity \in [FolderSet -> 0..1]
        <3>1. where \in [Mails -> FolderSet \cup {Nothing}]
            BY DEF OutlookInit
        <3>2. uid \in [Mails -> Nat] /\ top \in [FolderSet -> Nat]
            BY DEF OutlookInit
        <3>3. received = [m \in Mails |-> 0] /\ clock = 0 /\ validity = [f \in FolderSet |-> 0]
            BY DEF OutlookInit
        <3> QED BY <3>1, <3>2, <3>3
    <2>2. moved \subseteq Mails /\ phase \in Phases /\ phase = "base imap" /\ sent \in Nat
        BY DEF OutlookInit, Phases
    <2>3. at \in 1..Len(Folders) + 1
        <3>1. at = 1
            BY DEF OutlookInit
        <3> QED BY <1>1, <3>1
    <2>4. /\ imap = [f \in FolderSet |-> imap[f]] /\ graph = [f \in FolderSet |-> graph[f]]
          /\ \A f \in FolderSet : imap[f] = Nothing /\ graph[f] = Nothing
        BY DEF OutlookInit
    <2> QED BY <2>1, <2>2, <2>3, <2>4 DEF OutlookShapes
<1>4. Numbering
    <2>1. \A f \in FolderSet : top[f] \in {0, 1} /\ imap[f] = Nothing /\ graph[f] = Nothing
        BY DEF OutlookInit
    <2>2. \A m \in OldMail : m \in Mails /\ where[m] \in FolderSet /\ uid[m] = 1
                          /\ received[m] = 0 /\ top[where[m]] = 1
        BY DEF OutlookInit, Mails
    <2>3. \A m \in Delivered : uid[m] <= top[where[m]] /\ received[m] <= clock
        <3>1. clock = 0 /\ \A m \in Delivered : m \in OldMail
            BY <1>2 DEF OutlookInit, Delivered
        <3>2. \A m \in OldMail : uid[m] <= top[where[m]] /\ received[m] <= 0
            BY <2>2
        <3> QED BY <3>1, <3>2
    <2>4. seen = {} /\ sent = 0 /\ Delivered \cap Range(Codes) = {}
        BY <1>2 DEF OutlookInit, Delivered
    <2>5. \A f \in FolderSet : top[f] <= MaxUid
        BY <2>1
    <2> QED BY <2>1, <2>3, <2>4, <2>5 DEF Numbering
<1>5. OldBehind /\ Fetching /\ Reading
    BY <1>2 DEF OutlookInit, OldBehind, Fetching, Reading, Mails
<1>6. NothingSkipped
    BY <1>2 DEF OutlookInit, NothingSkipped, Delivered
<1>7. OldCodeOnlyByMove
    <2>1. \A m \in OldMail, c \in Channels : <<c, m>> \in {"imap", "graph"} \X Mails
        BY DEF Mails, Channels
    <2>2. result = Nothing /\ Nothing \notin {"imap", "graph"} \X Mails
        BY DEF OutlookInit
    <2> QED BY <2>1, <2>2 DEF OldCodeOnlyByMove
<1> QED BY <1>3, <1>4, <1>5, <1>6, <1>7 DEF OutlookInv

LEMMA OutlookStep == ASSUME OutlookInv, OutlookNext PROVE OutlookInv'
BY DeliverKeeps, MoveKeeps, RenumberKeeps, RoundKeeps, BaselineImapKeeps, BaselineGraphKeeps,
   SearchImapKeeps, FetchImapKeeps, ListGraphKeeps, DetailGraphKeeps DEF OutlookNext, RoundStep

LEMMA OutlookStutter == ASSUME OutlookInv, UNCHANGED outlookVars PROVE OutlookInv'
<1>1. /\ UNCHANGED <<where, uid, received, clock, top, validity, moved, phase, at, imap, graph,
                     seen, found, todo, sent, result>>
      /\ Here' = Here
    BY DEF outlookVars, serverVars, cursorVars, scanVars, Here
<1> QED BY <1>1 DEF OutlookInv, OutlookShapes, Numbering, OldBehind, Fetching, Reading,
                    NothingSkipped, OldCodeOnlyByMove, Delivered, NewCodes, IsNew

LEMMA OutlookInvariant == MailSpec => []OutlookInv
<1>1. MailInit => OutlookInv
    BY InitOutlookInv DEF MailInit
<1>2. OutlookInv /\ [GetCode]_<<outlookVars, pollVars>> => OutlookInv'
    BY OutlookStep, OutlookStutter DEF GetCode
<1> QED BY <1>1, <1>2, PTL DEF MailSpec

\* A code mail of an earlier run is returned only if it was moved to another
\* folder during the run, and never through Graph (wait_for_outlook_code).
THEOREM OldCodesStayBehind == MailSpec => []OldCodeOnlyByMove
<1>1. OutlookInv => OldCodeOnlyByMove
    BY DEF OutlookInv
<1> QED BY <1>1, OutlookInvariant, PTL

\* Until a code is returned no code mail of this registration is behind the
\* cursor of its folder, whatever fails or is interrupted in between.
THEOREM NewCodesStayAhead == MailSpec => []NothingSkipped
<1>1. OutlookInv => NothingSkipped
    BY DEF OutlookInv
<1> QED BY <1>1, OutlookInvariant, PTL

-----------------------------------------------------------------------------
(* The mail APIs.                                                          *)

PollShapes ==
    /\ provider \in Providers
    /\ stage \in Stages
    /\ now \in Nat
    /\ began \in Nat
    /\ tries \subseteq Nat
    /\ overdue \in [Letters -> Nat]
    /\ DOMAIN letters = Letters
    /\ \A l \in Letters : letters[l].code \in Places
    /\ provider = "cloudmail" => \A l \in Letters : letters[l].code # "detail"
    /\ retries \in [Letters -> [attempts : Nat, next : Int]]

\* Nothing is overdue before the loop, while the token is rejected, or of a
\* letter that cannot be read.
NotYetOverdue ==
    /\ stage \in {"preflight", "recover"} => \A l \in Letters : overdue[l] = 0
    /\ stage = "preflight" => retries = NoRetries
    /\ stage # "sleep" => \A l \in Letters : overdue[l] = 0 \/ Readable(l)

\* A letter has been readable only since its detail was last asked for, and
\* the next request is due within the longest delay.
Backoff == stage # "found" => \A l \in Letters : overdue[l] + retries[l].next <= now + MaxDelay

\* A readable letter that a round has passed over was not due yet.
PassedOver ==
    /\ stage = "inspect" => \A l \in Letters \ unread : overdue[l] = 0 \/ now < retries[l].next
    /\ stage = "sleep" => \A l \in Letters : overdue[l] < MaxDelay

FoundInv == PollShapes /\ NotYetOverdue /\ Backoff /\ PassedOver

\* The requests that are left in a wait for the public token come later, and
\* the last of them is late enough to give up after it.
LateEnough(t) == t - began >= Convergence \/ t > Timeout - Min(Offsets)

Waiting ==
    /\ stage \in {"preflight", "recover"} =>
          /\ \E t \in tries : LateEnough(t)
          /\ \A t \in tries : now <= t
    /\ stage = "preflight" => began = 0 /\ ~recovered
    /\ stage = "recover" => \A t \in tries : t <= Timeout
    /\ stage = "list" => now < Timeout

DeniedInv == Waiting /\ DeniedOnlyAfterConvergence

PollInv == FoundInv /\ DeniedInv

\* The timings one by one.
LEMMA Timings ==
    /\ Timeout \in Nat /\ Timeout > 0
    /\ PollInterval \in Nat /\ PollInterval > 0
    /\ MaxDelay \in Nat /\ MaxDelay > 0
    /\ Convergence \in Nat /\ Convergence > 0
    /\ Offsets \subseteq 1..Convergence /\ Offsets # {}
<1>1. \A t \in {Timeout, PollInterval, ResendAfter, MaxDelay, Convergence} : t \in Nat /\ t > 0
    BY PollingAssumption
<1> QED BY <1>1, PollingAssumption

\* A letter that is no longer overdue waits no longer.
LEMMA WaitedLess ==
    \A waited \in Nat, next \in Int, time \in Nat :
        waited + next <= time + MaxDelay => 0 + next <= time + MaxDelay
<1>1. MaxDelay \in Nat
    BY Timings
<1> QED BY <1>1

LEMMA LeastNumber ==
    ASSUME NEW S \in SUBSET Nat, S # {}
    PROVE  Min(S) \in S /\ \A t \in S : Min(S) <= t
<1>1. PICK m \in S : \A t \in S : <<t, m>> \notin OpToRel(<, Nat)
    BY NatLessThanWellFounded, WFMin
<1>2. \A t \in S : ~(t < m)
    BY <1>1 DEF OpToRel
<1>3. \A t \in S : m <= t
    BY <1>2
<1> QED BY <1>3 DEF Min

LEMMA DelayIsBounded == \A n \in Nat \ {0} : Delay(n) \in Int /\ Delay(n) <= MaxDelay
<1> SUFFICES ASSUME NEW n \in Nat \ {0} PROVE Delay(n) \in Int /\ Delay(n) <= MaxDelay
    OBVIOUS
<1>1. \A k \in Nat : 2^k \in Int
    OBVIOUS
<1>2. n - 1 \in Nat
    OBVIOUS
<1>3. 2^(n - 1) \in Int
    BY <1>1, <1>2
<1>4. MaxDelay \in Nat
    BY Timings
<1>5. 2 * 2^(n - 1) \in Int
    BY <1>3
<1> QED BY <1>4, <1>5 DEF Delay, Least

LEMMA FirstOffset ==
    /\ Min(Offsets) \in Offsets /\ Min(Offsets) \in Nat /\ Min(Offsets) > 0
    /\ \A o \in Offsets : Min(Offsets) <= o
<1>1. Offsets \subseteq Nat /\ Offsets # {} /\ \A o \in Offsets : o \in Nat /\ o > 0
    BY Timings
<1>2. Min(Offsets) \in Offsets /\ \A o \in Offsets : Min(Offsets) <= o
    BY <1>1, LeastNumber
<1> QED BY <1>1, <1>2

\* A wait for the token, of the whole convergence or of what is left of the
\* wait for the code, ends late enough.
LEMMA ScheduleEndsLate ==
    ASSUME NEW start \in Nat, NEW offsets \in SUBSET Nat, NEW window \in Nat, Offsets \subseteq offsets,
           window >= Convergence \/ start + window = Timeout
    PROVE  /\ Schedule(start, offsets, window) \subseteq Nat
           /\ \A t \in Schedule(start, offsets, window) : start <= t /\ t <= start + window
           /\ \E t \in Schedule(start, offsets, window) :
                 t - start >= Convergence \/ t > Timeout - Min(Offsets)
<1> USE Timings, FirstOffset
<1>1. CASE {o \in offsets : o <= window} = {}
    <2>1. Schedule(start, offsets, window) = {start}
        BY <1>1 DEF Schedule
    <2>2. ~(Min(Offsets) <= window) /\ Min(Offsets) \in 1..Convergence
        BY <1>1
    <2>3. start + window = Timeout /\ start > Timeout - Min(Offsets)
        BY <2>2
    <2> QED BY <2>1, <2>3
<1>2. CASE {o \in offsets : o <= window} # {}
    <2>1. Schedule(start, offsets, window) = {start + o : o \in {o \in offsets : o <= window} \cup {window}}
        BY <1>2 DEF Schedule
    <2>2. start + window \in Schedule(start, offsets, window)
        BY <2>1
    <2>3. PICK first \in Nat : first = Min(Offsets) /\ first > 0
        OBVIOUS
    <2>4. (start + window) - start >= Convergence \/ start + window > Timeout - first
        BY <2>3
    <2>5. \A t \in Schedule(start, offsets, window) : t \in Nat /\ start <= t /\ t <= start + window
        BY <2>1
    <2> QED BY <2>2, <2>3, <2>4, <2>5
<1> QED BY <1>1, <1>2

LEMMA InitPollInv == ASSUME PollInit PROVE PollInv
<1> USE Timings
<1>0. /\ Schedule(0, {0} \cup Offsets, Convergence) \subseteq Nat
      /\ \A t \in Schedule(0, {0} \cup Offsets, Convergence) : 0 <= t
      /\ \E t \in Schedule(0, {0} \cup Offsets, Convergence) : t - 0 >= Convergence \/ t > Timeout - Min(Offsets)
    <2>1. {0} \cup Offsets \in SUBSET Nat /\ Offsets \subseteq {0} \cup Offsets /\ Convergence \in Nat
        OBVIOUS
    <2> QED BY <2>1, ScheduleEndsLate
<1>1. PollShapes /\ now = 0 /\ began = 0 /\ ~recovered
    <2>1. tries \subseteq Nat
        BY <1>0 DEF PollInit
    <2>2. overdue \in [Letters -> Nat] /\ retries \in [Letters -> [attempts : Nat, next : Int]]
        BY DEF PollInit, NoRetries
    <2>3. DOMAIN letters = Letters /\ \A l \in Letters : letters[l].code = "nowhere"
        BY DEF PollInit
    <2>4. provider \in Providers /\ stage \in Stages /\ now = 0 /\ began = 0 /\ ~recovered
        BY DEF PollInit, Stages
    <2> QED BY <2>1, <2>2, <2>3, <2>4 DEF PollShapes, Places
<1>2. \A l \in Letters : overdue[l] = 0 /\ retries[l].next = 0
    BY DEF PollInit, NoRetries
<1>3. stage \in {"preflight", "list"} /\ retries = NoRetries
    BY DEF PollInit
<1>4. NotYetOverdue /\ Backoff /\ PassedOver
    BY <1>1, <1>2, <1>3 DEF NotYetOverdue, Backoff, PassedOver
<1>5. stage = "preflight" => /\ \E t \in tries : LateEnough(t)
                             /\ \A t \in tries : now <= t
    <2>1. stage = "preflight" => tries = Schedule(0, {0} \cup Offsets, Convergence)
        BY DEF PollInit
    <2> QED BY <1>0, <1>1, <2>1 DEF LateEnough
<1>6. DeniedInv
    BY <1>1, <1>3, <1>5 DEF DeniedInv, Waiting, DeniedOnlyAfterConvergence
<1> QED BY <1>1, <1>4, <1>6 DEF PollInv, FoundInv

LEMMA ArriveKeeps == ASSUME PollInv, NEW l \in Letters, Arrive(l) PROVE PollInv'
<1> USE DEF PollInv
<1>1. /\ UNCHANGED <<provider, now, stage, retries, unread, tries, recovered, began, overdue>>
      /\ stage = "sleep"
    BY DEF Arrive
<1>2. PICK place \in Places, to \in Recipients :
          /\ provider = "cloudmail" => place # "detail"
          /\ letters' = [letters EXCEPT ![l] = [there |-> TRUE, to |-> to, code |-> place]]
    BY DEF Arrive
<1>3. PollShapes'
    BY <1>1, <1>2 DEF FoundInv, PollShapes
<1>4. FoundInv'
    BY <1>1, <1>3 DEF FoundInv, NotYetOverdue, Backoff, PassedOver
<1>5. DeniedInv'
    BY <1>1 DEF DeniedInv, Waiting, LateEnough, DeniedOnlyAfterConvergence
<1> QED BY <1>4, <1>5

LEMMA SleepKeeps == ASSUME PollInv, Sleep PROVE PollInv'
<1> USE Timings DEF PollInv
<1>1. /\ UNCHANGED <<provider, letters, retries, unread, tries, recovered, began>>
      /\ stage = "sleep" /\ now' = now + PollInterval
      /\ stage' = IF now' < Timeout THEN "list" ELSE "late"
      /\ overdue' = [l \in Letters |-> IF Readable(l) THEN Least(overdue[l] + PollInterval, Bound) ELSE 0]
    BY DEF Sleep
<1>2. now \in Nat /\ PollInterval \in Nat /\ MaxDelay \in Nat /\ now' \in Nat /\ Bound \in Nat
    BY <1>1 DEF FoundInv, PollShapes, Bound
<1>3. ASSUME NEW l \in Letters
      PROVE  /\ overdue'[l] \in Nat /\ overdue'[l] <= overdue[l] + PollInterval
             /\ overdue'[l] = 0 \/ Readable(l)'
    <2>1. overdue[l] \in Nat
        BY DEF FoundInv, PollShapes
    <2>2. Readable(l)' <=> Readable(l)
        BY <1>1 DEF Readable, Ours
    <2>3. Least(overdue[l] + PollInterval, Bound) \in Nat
          /\ Least(overdue[l] + PollInterval, Bound) <= overdue[l] + PollInterval
        BY <1>2, <2>1 DEF Least
    <2> QED BY <1>1, <1>2, <2>1, <2>2, <2>3
<1>4. PollShapes'
    <2>1. overdue' \in [Letters -> Nat]
        BY <1>1, <1>3
    <2> QED BY <1>1, <1>2, <2>1 DEF FoundInv, PollShapes, Stages
<1>5. NotYetOverdue'
    BY <1>1, <1>3 DEF NotYetOverdue
<1>6. Backoff'
    <2>1. ASSUME NEW l \in Letters PROVE overdue'[l] + retries[l].next <= now' + MaxDelay
        <3>1. overdue[l] \in Nat /\ retries[l].next \in Int /\ overdue[l] + retries[l].next <= now + MaxDelay
            BY <1>1 DEF FoundInv, PollShapes, Backoff
        <3> QED BY <1>1, <1>2, <1>3, <3>1
    <2> QED BY <1>1, <2>1 DEF Backoff
<1>7. PassedOver'
    BY <1>1 DEF PassedOver
<1>8. DeniedInv'
    BY <1>1 DEF DeniedInv, Waiting, DeniedOnlyAfterConvergence
<1> QED BY <1>4, <1>5, <1>6, <1>7, <1>8 DEF FoundInv

LEMMA CancelKeeps == ASSUME PollInv, PollCancelled PROVE PollInv'
<1> USE Timings DEF PollInv
<1>1. /\ UNCHANGED <<provider, now, letters, unread, recovered, began>>
      /\ stage' = "cancelled" /\ retries' = NoRetries /\ tries' = {}
      /\ overdue' = [l \in Letters |-> 0]
    BY DEF PollCancelled
<1>2. PollShapes'
    <2>1. overdue' \in [Letters -> Nat] /\ retries' \in [Letters -> [attempts : Nat, next : Int]]
        BY <1>1 DEF NoRetries
    <2> QED BY <1>1, <2>1 DEF FoundInv, PollShapes, Stages
<1>3. NotYetOverdue' /\ PassedOver'
    BY <1>1 DEF NotYetOverdue, PassedOver
<1>4. Backoff'
    BY <1>1 DEF FoundInv, PollShapes, Backoff, NoRetries
<1>5. DeniedInv'
    BY <1>1 DEF DeniedInv, Waiting, DeniedOnlyAfterConvergence
<1> QED BY <1>2, <1>3, <1>4, <1>5 DEF FoundInv

\* Once the requests fail, nothing is overdue.
LEMMA ForgivenKeeps ==
    ASSUME PollInv, UNCHANGED <<provider, now, letters, retries, unread>>, Forgiven,
           stage = "list", stage' \in {"sleep", "recover", "denied again"}, tries' \subseteq Nat, began' \in Nat
    PROVE  FoundInv'
<1> USE Timings DEF PollInv, FoundInv
<1>1. \A l \in Letters : overdue'[l] = 0
    BY DEF Forgiven
<1>2. PollShapes'
    BY DEF PollShapes, Stages, Forgiven
<1>3. NotYetOverdue' /\ PassedOver'
    <2>1. 0 < MaxDelay
        OBVIOUS
    <2> QED BY <1>1, <2>1 DEF NotYetOverdue, PassedOver
<1>4. Backoff'
    <2>1. ASSUME NEW l \in Letters PROVE overdue'[l] + retries'[l].next <= now' + MaxDelay
        <3>1. PICK waited \in Nat, next \in Int, time \in Nat :
                  /\ waited = overdue[l] /\ next = retries[l].next /\ time = now
                  /\ waited + next <= time + MaxDelay
            BY DEF PollShapes, Backoff
        <3>2. 0 + next <= time + MaxDelay
            BY <3>1, WaitedLess
        <3>3. overdue'[l] = 0 /\ retries'[l].next = next /\ now' = time
            BY <1>1, <3>1
        <3> QED BY <3>2, <3>3
    <2> QED BY <2>1 DEF Backoff
<1> QED BY <1>2, <1>3, <1>4

LEMMA ListFailsKeeps == ASSUME PollInv, ListFails PROVE PollInv'
<1>1. /\ UNCHANGED <<provider, now, letters, retries, unread, tries, recovered, began>>
      /\ Forgiven /\ stage = "list" /\ stage' = "sleep"
    BY DEF ListFails
<1>2. FoundInv'
    BY <1>1, ForgivenKeeps DEF PollInv, FoundInv, PollShapes
<1>3. DeniedInv'
    BY <1>1 DEF PollInv, DeniedInv, Waiting, DeniedOnlyAfterConvergence
<1> QED BY <1>2, <1>3 DEF PollInv

LEMMA RejectedKeeps == ASSUME PollInv, Rejected PROVE PollInv'
<1> USE Timings DEF PollInv
<1>1. /\ UNCHANGED <<provider, now, letters, retries, unread>>
      /\ Forgiven /\ stage = "list" /\ now \in Nat /\ now < Timeout /\ Timeout \in Nat /\ Convergence \in Nat
    BY DEF Rejected, FoundInv, PollShapes, DeniedInv, Waiting
<1>2. CASE recovered
    <2>1. stage' = "denied again" /\ UNCHANGED <<tries, recovered, began>>
        BY <1>2 DEF Rejected
    <2>2. FoundInv'
        BY <1>1, <2>1, ForgivenKeeps DEF FoundInv, PollShapes
    <2> QED BY <2>1, <2>2 DEF DeniedInv, Waiting, DeniedOnlyAfterConvergence
<1>3. CASE ~recovered
    <2>1. /\ stage' = "recover" /\ recovered' = TRUE /\ began' = now
          /\ tries' = Schedule(now, Offsets, Least(Convergence, Remaining))
        BY <1>3 DEF Rejected
    <2>2. PICK window \in Nat : /\ window = Least(Convergence, Remaining)
                                /\ window >= Convergence \/ now + window = Timeout
                                /\ now + window <= Timeout
        <3>1. Timeout - now \in Nat /\ Remaining = Timeout - now
            BY <1>1 DEF Remaining
        <3>2. CASE Convergence < Timeout - now
            BY <1>1, <3>1, <3>2 DEF Least
        <3>3. CASE ~(Convergence < Timeout - now)
            <4>1. Least(Convergence, Remaining) = Timeout - now
                BY <3>1, <3>3 DEF Least
            <4>2. now + (Timeout - now) = Timeout
                BY <1>1
            <4> QED BY <1>1, <3>1, <4>1, <4>2
        <3> QED BY <3>2, <3>3
    <2>3. Offsets \in SUBSET Nat
        OBVIOUS
    <2>4. /\ tries' \subseteq Nat
          /\ \A t \in tries' : now <= t /\ t <= now + window
          /\ \E t \in tries' : t - now >= Convergence \/ t > Timeout - Min(Offsets)
        BY <1>1, <2>1, <2>2, <2>3, ScheduleEndsLate
    <2>5. ASSUME NEW t \in tries' PROVE t <= Timeout
        <3>1. t \in Nat /\ t <= now + window /\ now + window <= Timeout
            BY <2>2, <2>4
        <3> QED BY <1>1, <3>1
    <2>6. FoundInv'
        BY <1>1, <2>1, <2>4, ForgivenKeeps
    <2>7. Waiting'
        BY <1>1, <2>1, <2>4, <2>5 DEF Waiting, LateEnough
    <2>8. DeniedOnlyAfterConvergence'
        BY <1>1, <2>1 DEF DeniedOnlyAfterConvergence
    <2> QED BY <2>6, <2>7, <2>8 DEF DeniedInv
<1> QED BY <1>2, <1>3

\* A list is to be read from the beginning.
LEMMA InspectKeeps ==
    ASSUME PollInv, UNCHANGED <<provider, letters, retries, overdue, began>>, Inspect,
           stage \in {"list", "recover"}, now' \in Nat, now <= now', tries' \subseteq Nat
    PROVE  FoundInv'
<1> USE Timings DEF PollInv, FoundInv
<1>1. \A l \in Letters : Readable(l)' <=> Readable(l)
    BY DEF Readable, Ours
<1>2. \A l \in Letters : overdue[l] = 0 \/ Readable(l)
    BY DEF NotYetOverdue
<1>3. PollShapes'
    BY DEF PollShapes, Stages, Inspect
<1>4. NotYetOverdue'
    BY <1>1, <1>2 DEF NotYetOverdue, Inspect
<1>5. PassedOver'
    BY <1>2 DEF PassedOver, Inspect, Readable
<1>6. Backoff'
    <2>1. ASSUME NEW l \in Letters PROVE overdue'[l] + retries'[l].next <= now' + MaxDelay
        <3>1. /\ overdue[l] \in Nat /\ retries[l].next \in Int /\ now \in Nat /\ MaxDelay \in Nat
              /\ overdue[l] + retries[l].next <= now + MaxDelay
            BY DEF PollShapes, Backoff
        <3> QED BY <3>1
    <2> QED BY <2>1 DEF Backoff
<1> QED BY <1>3, <1>4, <1>5, <1>6

LEMMA ListLettersKeeps == ASSUME PollInv, ListLetters PROVE PollInv'
<1>1. /\ UNCHANGED <<provider, now, letters, retries, tries, recovered, began, overdue>>
      /\ Inspect /\ stage = "list" /\ now \in Nat /\ tries \subseteq Nat
    BY DEF ListLetters, PollInv, FoundInv, PollShapes
<1>2. FoundInv'
    BY <1>1, InspectKeeps
<1>3. DeniedInv'
    BY <1>1 DEF PollInv, DeniedInv, Waiting, DeniedOnlyAfterConvergence, Inspect
<1> QED BY <1>2, <1>3 DEF PollInv

LEMMA UnmatchedKeeps == ASSUME PollInv, NEW l \in Letters, Unmatched(l) PROVE PollInv'
<1> USE Timings DEF PollInv, FoundInv
<1>1. /\ UNCHANGED <<provider, now, stage, letters, retries, tries, recovered, began, overdue>>
      /\ stage = "inspect" /\ ~Ours(l) /\ unread' = unread \ {l}
    BY DEF Unmatched
<1>2. overdue[l] = 0
    BY <1>1 DEF NotYetOverdue, Readable
<1>3. PollShapes' /\ NotYetOverdue' /\ Backoff'
    BY <1>1 DEF PollShapes, NotYetOverdue, Backoff, Readable, Ours
<1>4. PassedOver'
    BY <1>1, <1>2 DEF PassedOver
<1>5. DeniedInv'
    BY <1>1 DEF DeniedInv, Waiting, LateEnough, DeniedOnlyAfterConvergence
<1> QED BY <1>3, <1>4, <1>5

LEMMA ReadKeeps == ASSUME PollInv, NEW l \in Letters, Read(l) PROVE PollInv'
<1> USE Timings DEF PollInv, FoundInv
<1>1. /\ UNCHANGED <<provider, now, letters, tries, recovered, began>>
      /\ stage = "inspect" /\ Ours(l)
    BY DEF Read
<1>2. PICK asks \in BOOLEAN, answered \in BOOLEAN :
          /\ asks = (DetailDue(l) /\ (provider = "cloudflare" \/ letters[l].code # "list"))
          /\ ~asks => ~answered
          /\ retries' = IF asks THEN [retries EXCEPT ![l] = Attempted(l)] ELSE retries
          /\ IF letters[l].code = "list" \/ (answered /\ letters[l].code = "detail")
               THEN stage' = "found" /\ unread' = {}
               ELSE stage' = stage /\ unread' = unread \ {l}
          /\ overdue' = IF asks /\ ~answered THEN [overdue EXCEPT ![l] = 0] ELSE overdue
    <2>1. PICK asks : asks = (DetailDue(l) /\ (provider = "cloudflare" \/ letters[l].code # "list"))
        OBVIOUS
    <2>2. asks \in BOOLEAN
        BY <2>1
    <2> QED BY <2>1, <2>2 DEF Read
<1>3. /\ overdue[l] \in Nat /\ retries[l] \in [attempts : Nat, next : Int] /\ now \in Nat /\ MaxDelay \in Nat
    BY DEF PollShapes
<1>4. Attempted(l) \in [attempts : Nat, next : Int] /\ Attempted(l).next <= now + MaxDelay
    <2>1. PICK n \in Nat \ {0} : n = retries[l].attempts + 1
        BY <1>3
    <2>2. Delay(n) \in Int /\ Delay(n) <= MaxDelay
        BY DelayIsBounded
    <2>3. Attempted(l) = [attempts |-> n, next |-> now + Delay(n)]
        BY <2>1 DEF Attempted
    <2> QED BY <1>3, <2>1, <2>2, <2>3
<1>5. /\ retries' \in [Letters -> [attempts : Nat, next : Int]]
      /\ overdue' \in [Letters -> Nat]
      /\ \A k \in Letters \ {l} : retries'[k] = retries[k] /\ overdue'[k] = overdue[k]
      /\ asks => retries'[l] = Attempted(l)
      /\ ~asks => retries'[l] = retries[l]
      /\ overdue'[l] = IF asks /\ ~answered THEN 0 ELSE overdue[l]
    BY <1>2, <1>4 DEF PollShapes
<1>6. PollShapes'
    BY <1>1, <1>2, <1>5 DEF PollShapes, Stages
<1>7. NotYetOverdue'
    <2>1. \A k \in Letters : Readable(k)' <=> Readable(k)
        BY <1>1 DEF Readable, Ours
    <2> QED BY <1>1, <1>2, <1>5, <2>1 DEF NotYetOverdue
<1>8. CASE stage' = "found"
    BY <1>1, <1>6, <1>7, <1>8 DEF Backoff, PassedOver, DeniedInv, Waiting, DeniedOnlyAfterConvergence
<1>9. CASE stage' # "found"
    <2>1. /\ stage' = "inspect" /\ unread' = unread \ {l} /\ letters[l].code # "list"
          /\ ~(answered /\ letters[l].code = "detail")
        BY <1>1, <1>2, <1>9
    <2>2. overdue[l] = 0 \/ letters[l].code = "detail"
        BY <1>1, <2>1 DEF NotYetOverdue, Readable, PollShapes, Places
    <2>3. overdue'[l] = 0 \/ (now < retries[l].next /\ ~asks)
        <3>1. CASE asks
            BY <1>5, <2>1, <2>2, <3>1
        <3>2. CASE ~asks
            <4>1. ~DetailDue(l)
                BY <1>2, <2>1, <3>2
            <4>2. overdue[l] = 0 \/ provider # "cloudmail"
                BY <2>2 DEF PollShapes
            <4>3. overdue[l] = 0 \/ ~(now >= retries[l].next)
                BY <4>1, <4>2 DEF DetailDue
            <4> QED BY <1>3, <1>5, <3>2, <4>3
        <3> QED BY <3>1, <3>2
    <2>4. PassedOver'
        BY <1>1, <1>5, <2>1, <2>3 DEF PassedOver
    <2>5. overdue'[l] + retries'[l].next <= now + MaxDelay
        <3>1. CASE asks
            BY <1>3, <1>4, <1>5, <2>3, <3>1
        <3>2. CASE ~asks
            BY <1>1, <1>5, <3>2 DEF Backoff
        <3> QED BY <3>1, <3>2
    <2>6. Backoff'
        BY <1>1, <1>5, <2>5 DEF Backoff
    <2>7. DeniedInv'
        BY <1>1, <2>1 DEF DeniedInv, Waiting, DeniedOnlyAfterConvergence
    <2> QED BY <1>6, <1>7, <2>4, <2>6, <2>7
<1> QED BY <1>8, <1>9

LEMMA EndRoundKeeps == ASSUME PollInv, EndRound PROVE PollInv'
<1> USE Timings DEF PollInv, FoundInv
<1>1. /\ UNCHANGED <<provider, now, letters, retries, unread, tries, recovered, began, overdue>>
      /\ stage = "inspect" /\ unread = {} /\ stage' = "sleep"
    BY DEF EndRound
<1>2. PollShapes' /\ NotYetOverdue' /\ Backoff'
    BY <1>1 DEF PollShapes, NotYetOverdue, Backoff, Stages
<1>3. PassedOver'
    <2>1. ASSUME NEW l \in Letters PROVE overdue[l] < MaxDelay
        <3>1. /\ overdue[l] \in Nat /\ retries[l].next \in Int /\ now \in Nat /\ MaxDelay \in Nat /\ MaxDelay > 0
              /\ overdue[l] + retries[l].next <= now + MaxDelay
              /\ overdue[l] = 0 \/ now < retries[l].next
            BY <1>1 DEF PollShapes, Backoff, PassedOver
        <3> QED BY <3>1
    <2> QED BY <1>1, <2>1 DEF PassedOver
<1>4. DeniedInv'
    BY <1>1 DEF DeniedInv, Waiting, DeniedOnlyAfterConvergence
<1> QED BY <1>2, <1>3, <1>4

\* After the earliest of the requests that are left the latest is still late
\* enough, or was the one.
LEMMA NextTry ==
    ASSUME NEW S \in SUBSET Nat, NEW first, first = Min(S), \E t \in S : LateEnough(t), began \in Nat
    PROVE  /\ first \in S
           /\ \A t \in S : first <= t
           /\ S \ {first} = {} => LateEnough(first)
           /\ S \ {first} # {} => \E t \in S \ {first} : LateEnough(t)
<1> USE Timings, FirstOffset
<1>1. PICK t \in S : LateEnough(t)
    OBVIOUS
<1>2. first \in S /\ \A u \in S : first <= u
    BY LeastNumber
<1>3. ASSUME NEW u \in S \ {first}, t = first PROVE LateEnough(u)
    <2>1. u \in Nat /\ t \in Nat /\ t <= u
        BY <1>2, <1>3
    <2>2. PICK offset \in Nat : offset = Min(Offsets)
        OBVIOUS
    <2> QED BY <1>1, <2>1, <2>2 DEF LateEnough
<1> QED BY <1>1, <1>2, <1>3

LEMMA TryAgainKeeps == ASSUME PollInv, TryAgain PROVE PollInv'
<1> USE Timings DEF PollInv
<1>1. /\ UNCHANGED <<provider, letters, retries, recovered, began, overdue>>
      /\ stage = "recover" /\ now' = Min(tries)
    BY DEF TryAgain
<1>2. /\ tries \in SUBSET Nat /\ began \in Nat /\ now \in Nat /\ \E t \in tries : LateEnough(t)
      /\ \A t \in tries : now <= t /\ t <= Timeout
    BY <1>1 DEF FoundInv, PollShapes, DeniedInv, Waiting
<1>3. /\ now' \in tries
      /\ \A t \in tries : now' <= t
      /\ tries \ {now'} = {} => LateEnough(now')
      /\ tries \ {now'} # {} => \E t \in tries \ {now'} : LateEnough(t)
    BY <1>1, <1>2, NextTry
<1>4. now' \in Nat /\ now <= now' /\ now' <= Timeout /\ tries' \subseteq Nat
    BY <1>2, <1>3 DEF TryAgain
<1>5. CASE Inspect
    <2>1. FoundInv'
        BY <1>1, <1>4, <1>5, InspectKeeps
    <2> QED BY <1>5, <2>1 DEF Inspect, DeniedInv, Waiting, DeniedOnlyAfterConvergence
<1>6. CASE ~Inspect
    <2>1. /\ UNCHANGED unread
          /\ \/ stage' = "broken"
             \/ stage' = "denied" /\ tries' = {} /\ tries' = tries \ {now'}
             \/ stage' = "recover" /\ tries' # {} /\ tries' = tries \ {now'}
        BY <1>6 DEF TryAgain
    <2>2. \A l \in Letters : overdue[l] = 0
        BY <1>1 DEF FoundInv, NotYetOverdue
    <2>3. PollShapes'
        BY <1>1, <1>4, <2>1 DEF FoundInv, PollShapes, Stages
    <2>4. NotYetOverdue' /\ PassedOver'
        BY <1>1, <2>1, <2>2 DEF NotYetOverdue, PassedOver
    <2>5. Backoff'
        <3>1. ASSUME NEW l \in Letters PROVE overdue'[l] + retries'[l].next <= now' + MaxDelay
            <4>1. /\ overdue[l] \in Nat /\ retries[l].next \in Int /\ now \in Nat /\ MaxDelay \in Nat
                  /\ overdue[l] + retries[l].next <= now + MaxDelay
                BY <1>1 DEF FoundInv, PollShapes, Backoff
            <4> QED BY <1>1, <1>4, <4>1
        <3> QED BY <3>1 DEF Backoff
    <2>6. \A t \in tries : LateEnough(t) => LateEnough(t)'
        BY <1>1 DEF LateEnough
    <2>7. Waiting'
        BY <1>1, <1>2, <1>3, <2>1, <2>6 DEF Waiting
    <2>8. DeniedOnlyAfterConvergence'
        BY <1>1, <1>3, <1>4, <2>1 DEF DeniedOnlyAfterConvergence, LateEnough
    <2> QED BY <2>3, <2>4, <2>5, <2>7, <2>8 DEF FoundInv, DeniedInv
<1> QED BY <1>5, <1>6

LEMMA PreflightKeeps == ASSUME PollInv, Preflight PROVE PollInv'
<1> USE Timings DEF PollInv
<1>1. /\ UNCHANGED <<provider, letters, retries, unread, recovered, began, overdue>>
      /\ stage = "preflight"
    BY DEF Preflight
<1>2. /\ tries \in SUBSET Nat /\ began \in Nat /\ now \in Nat /\ \E t \in tries : LateEnough(t)
      /\ \A t \in tries : now <= t
      /\ began = 0 /\ ~recovered /\ retries = NoRetries
      /\ \A l \in Letters : overdue[l] = 0 /\ retries[l].next = 0
    BY <1>1 DEF FoundInv, PollShapes, DeniedInv, Waiting, NotYetOverdue, NoRetries
<1>3. CASE stage' = "list" /\ tries' = {} /\ now' = 0
    BY <1>1, <1>2, <1>3 DEF FoundInv, PollShapes, NotYetOverdue, Backoff, PassedOver, Stages,
                            DeniedInv, Waiting, DeniedOnlyAfterConvergence
<1>4. CASE now' = Min(tries) /\ tries' = tries \ {now'} /\ stage' = IF tries' = {} THEN "denied" ELSE "preflight"
    <2>1. /\ now' \in tries
          /\ \A t \in tries : now' <= t
          /\ tries \ {now'} = {} => LateEnough(now')
          /\ tries \ {now'} # {} => \E t \in tries \ {now'} : LateEnough(t)
        BY <1>2, <1>4, NextTry
    <2>2. now' \in Nat /\ tries' \subseteq Nat /\ MaxDelay \in Nat
        BY <1>2, <1>4, <2>1
    <2>3. PollShapes'
        BY <1>1, <1>4, <2>2 DEF FoundInv, PollShapes, Stages
    <2>4. NotYetOverdue' /\ PassedOver' /\ Backoff'
        BY <1>1, <1>2, <1>4, <2>2 DEF NotYetOverdue, PassedOver, Backoff
    <2>5. \A t \in tries : LateEnough(t) => LateEnough(t)'
        BY <1>1 DEF LateEnough
    <2>6. Waiting'
        BY <1>1, <1>2, <1>4, <2>1, <2>5 DEF Waiting
    <2>7. DeniedOnlyAfterConvergence'
        BY <1>1, <1>2, <1>4, <2>1 DEF DeniedOnlyAfterConvergence, LateEnough
    <2> QED BY <2>3, <2>4, <2>6, <2>7 DEF FoundInv, DeniedInv
<1> QED BY <1>3, <1>4 DEF Preflight

LEMMA PollStutter == ASSUME PollInv, UNCHANGED pollVars PROVE PollInv'
<1>1. UNCHANGED <<provider, now, stage, letters, retries, unread, tries, recovered, began, overdue>>
    BY DEF pollVars
<1>2. \A l \in Letters : Readable(l)' <=> Readable(l)
    BY <1>1 DEF Readable, Ours
<1>3. FoundInv'
    BY <1>1, <1>2 DEF PollInv, FoundInv, PollShapes, NotYetOverdue, Backoff, PassedOver
<1>4. DeniedInv'
    BY <1>1 DEF PollInv, DeniedInv, Waiting, LateEnough, DeniedOnlyAfterConvergence
<1> QED BY <1>3, <1>4 DEF PollInv

LEMMA PollInvariant == MailSpec => []PollInv
<1>1. MailInit => PollInv
    BY InitPollInv DEF MailInit
<1>2. PollInv /\ PollNext => PollInv'
    BY ArriveKeeps, UnmatchedKeeps, ReadKeeps, SleepKeeps, CancelKeeps, ListFailsKeeps, ListLettersKeeps,
       EndRoundKeeps, RejectedKeeps, TryAgainKeeps, PreflightKeeps DEF PollNext
<1>3. PollInv /\ [GetCode]_<<outlookVars, pollVars>> => PollInv'
    BY <1>2, PollStutter DEF GetCode
<1> QED BY <1>1, <1>3, PTL DEF MailSpec

\* A code that can be read at a mail API is found within the longest delay of
\* _detail_retry_attempt and one round while the requests succeed, for any
\* timings and however often its letter was fetched in vain.
THEOREM ReadableCodeIsFound == MailSpec => []CodeFoundInTime
<1>1. PollInv => CodeFoundInTime
    <2> SUFFICES ASSUME PollInv, stage = "sleep", NEW l \in Letters PROVE overdue[l] < Bound
        BY DEF CodeFoundInTime
    <2>1. overdue[l] \in Nat /\ overdue[l] < MaxDelay /\ MaxDelay \in Nat /\ PollInterval \in Nat
        BY Timings DEF PollInv, FoundInv, PollShapes, PassedOver
    <2> QED BY <2>1 DEF Bound
<1> QED BY <1>1, PollInvariant, PTL

\* A rejected public token is not given up before the convergence time or the
\* end of the wait for the code, for any offsets (cloudmail_wait_for_auth).
THEOREM TokenGivenTime == MailSpec => []DeniedOnlyAfterConvergence
<1>1. PollInv => DeniedOnlyAfterConvergence
    BY DEF PollInv, DeniedInv
<1> QED BY <1>1, PollInvariant, PTL

=============================================================================
