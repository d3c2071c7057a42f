---------------------------- MODULE CpaMintProofs ----------------------------
(***************************************************************************)
(* For any workers and accounts, and any way in which browsers, cookies    *)
(* and polling threads fail: a credential file holds its own account's     *)
(* token, and no browser is lost. MintInv says whose session a worker's    *)
(* browser may have at each step, and that a browser that runs and was not *)
(* given up is some worker's and on the registry.                          *)
(***************************************************************************)
EXTENDS CpaMint, FiniteSetTheorems, TLAPS

MintShapes ==
    /\ pc \in [Workers -> Steps]
    /\ account \in [Workers -> Sessions]
    /\ \A w \in Workers : pc[w] \in {"idle", "ended"} <=> account[w] = Nobody
    /\ todo \subseteq Accounts
    /\ mine = [w \in Workers |-> mine[w]]
    /\ \A w \in Workers : DOMAIN mine[w] = {"browser", "served", "proxy"}
    /\ launched \in Nat
    /\ session \in [Browsers -> Sessions]
    /\ approved \in [Workers -> Sessions]
    /\ poll \in [Workers -> {"off", "check", "asked"}]
    /\ stop = [w \in Workers |-> stop[w]]
    /\ box \in [Workers -> Sessions \cup {"empty", "error"}]
    /\ files \in [Accounts -> Sessions]

\* Each worker has a browser of its own, or none.
OwnBrowser ==
    /\ launched \in Browsers \cup {0}
    /\ \A w \in Workers : mine[w].browser \in Nat /\ mine[w].browser <= launched
    /\ \A v, w \in Workers : mine[v].browser = mine[w].browser /\ mine[w].browser # 0 => v = w
    /\ \A w \in Workers : pc[w] \in {"inject", "approve"} => mine[w].browser \in Browsers

SessionOf(w) == session[mine[w].browser]

\* A browser comes to a mint without a session, and gets no other than its
\* account's.
OwnSession ==
    /\ \A b \in Browsers : b > launched => session[b] = Nobody
    /\ \A w \in Workers : pc[w] = "inject" => SessionOf(w) = Nobody
    /\ \A w \in Workers : pc[w] = "approve" => SessionOf(w) \in {Nobody, account[w]}

OwnToken ==
    /\ \A w \in Workers : approved[w] \in {Nobody, account[w]}
    /\ \A w \in Workers : box[w] \in {"empty", "error"} \/ (box[w] \in Accounts /\ box[w] = account[w])
    /\ \A w \in Workers : pc[w] = "write" => poll[w] = "off" /\ box[w] \in Accounts
    /\ \A w \in Workers : pc[w] \in {"idle", "ended", "code", "acquire", "inject"} => poll[w] = "off"

OnRegistry ==
    /\ alive \ stuck \subseteq registry
    /\ \A b \in alive \ stuck : \E w \in Workers : mine[w].browser = b /\ b # 0
    /\ (\E w \in Workers : pc[w] = "ended") =>
          alive \subseteq stuck /\ \A w \in Workers : pc[w] = "ended"

MintInv == MintShapes /\ OwnBrowser /\ OwnSession /\ OwnToken /\ OnRegistry /\ OwnCredential

LEMMA BrowserNumbers == Cardinality(Accounts) \in Nat /\ Browsers \subseteq Nat \ {0}
BY MintAssumption, FS_CardinalityType DEF Browsers

LEMMA MintStart == Init => MintInv
BY BrowserNumbers DEF Init, MintInv, MintShapes, OwnBrowser, OwnSession, OwnToken, OnRegistry,
   OwnCredential, NoBrowser, Steps, Sessions, SessionOf

-----------------------------------------------------------------------------
(* Steps that leave the browsers alone.                                    *)

\* What a step of the polling thread of w may do.
PollEffect(w) ==
    /\ poll' \in [Workers -> {"off", "check", "asked"}]
    /\ \A v \in Workers \ {w} : poll'[v] = poll[v] /\ box'[v] = box[v]
    /\ stop' = [v \in Workers |-> stop'[v]]
    /\ box' \in [Workers -> Sessions \cup {"empty", "error"}]
    /\ \/ box'[w] \in {box[w], "error"}
       \/ approved[w] # Nobody /\ box'[w] = approved[w]

\* The polling thread.
LEMMA PollStep ==
    ASSUME MintInv, NEW w \in Workers, Poll(w)
    PROVE  MintInv'
<1> USE DEF MintInv, MintShapes
<1>1. UNCHANGED <<pc, account, todo, browserVars, approved, files>> /\ poll[w] # "off"
    BY DEF Poll, PollCheck, PollAnswer
<1>2. PollEffect(w)
    <2>1. ASSUME NEW answer \in {"error", approved[w]}, PollEnds(w, answer),
                 answer # "error" => approved[w] # Nobody
          PROVE  PollEffect(w)
        BY <2>1 DEF PollEnds, PollEffect, Sessions
    <2>2. ASSUME UNCHANGED <<stop, box>>, NEW next \in {"check", "asked"},
                 poll' = [poll EXCEPT ![w] = next]
          PROVE  PollEffect(w)
        BY <2>2 DEF PollEffect
    <2>3. CASE PollCheck(w)
        BY <2>1, <2>2, <2>3 DEF PollCheck
    <2>4. CASE PollAnswer(w)
        BY <2>1, <2>2, <2>4 DEF PollAnswer
    <2> QED BY <2>3, <2>4 DEF Poll
<1>3. OwnToken'
    BY <1>1, <1>2 DEF PollEffect, OwnToken, Sessions
<1> QED BY <1>1, <1>2, <1>3 DEF PollEffect, OwnBrowser, OwnSession, OnRegistry, OwnCredential, SessionOf, browserVars

\* A worker goes to a step in which it needs less of its browser.
LEMMA Onward ==
    ASSUME MintInv, NEW w \in Workers, NEW step \in {"acquire", "join", "leave"},
           pc[w] \notin {"idle", "ended"}, step = "acquire" => poll[w] = "off", Goto(w, step),
           UNCHANGED <<account, todo, browserVars, approved, poll, box, files>>,
           stop' = [v \in Workers |-> stop'[v]]
    PROVE  MintInv'
<1> USE DEF MintInv, MintShapes, Goto, browserVars
<1>1. MintShapes'
    BY DEF Steps
<1>2. OwnBrowser'
    BY DEF OwnBrowser
<1>3. OwnSession'
    BY DEF OwnSession, SessionOf
<1>4. OwnToken'
    BY DEF OwnToken
<1>5. OnRegistry'
    BY DEF OnRegistry
<1>6. OwnCredential'
    BY DEF OwnCredential
<1> QED BY <1>1, <1>2, <1>3, <1>4, <1>5, <1>6

LEMMA QuietStep ==
    ASSUME MintInv, NEW w \in Workers,
           BeginExport(w) \/ RequestCode(w) \/ SeeStop(w) \/ Allow(w) \/ BrowserFails(w) \/ JoinPoll(w)
    PROVE  MintInv'
<1> USE DEF MintInv, MintShapes
<1>1. CASE BeginExport(w)
    <2> USE <1>1 DEF BeginExport, Goto, browserVars, pollVars
    <2>1. MintShapes'
        BY MintAssumption DEF Steps, Sessions
    <2>2. OwnBrowser' /\ OwnSession'
        BY DEF OwnBrowser, OwnSession, SessionOf
    <2>3. OwnToken'
        BY MintAssumption DEF OwnToken
    <2>4. OnRegistry' /\ OwnCredential'
        BY DEF OnRegistry, OwnCredential
    <2> QED BY <2>1, <2>2, <2>3, <2>4
<1>2. CASE RequestCode(w)
    <2>1. Goto(w, "acquire") \/ Goto(w, "leave")
        BY <1>2 DEF RequestCode
    <2> QED BY <1>2, <2>1, Onward DEF RequestCode, pollVars, OwnToken
<1>3. CASE SeeStop(w)
    BY <1>3, Onward DEF SeeStop, pollVars
<1>4. CASE Allow(w)
    <2>1. session[mine[w].browser] = account[w]
        BY <1>4 DEF Allow, OwnSession, SessionOf
    <2> QED BY <1>4, <2>1 DEF Allow, browserVars, OwnBrowser, OwnSession, OwnToken, OnRegistry,
           OwnCredential, SessionOf, Sessions
<1>5. CASE BrowserFails(w)
    BY <1>5, Onward DEF BrowserFails
<1>6. CASE JoinPoll(w)
    <2>1. CASE Goto(w, "leave")
        BY <1>6, <2>1, Onward DEF JoinPoll, pollVars
    <2>2. CASE Goto(w, "write") /\ box[w] \in Accounts
        <3> USE <1>6, <2>2 DEF JoinPoll, Goto, browserVars, pollVars
        <3>1. MintShapes'
            BY DEF Steps
        <3>2. OwnBrowser' /\ OwnSession'
            BY DEF OwnBrowser, OwnSession, SessionOf
        <3>3. OwnToken' /\ OnRegistry' /\ OwnCredential'
            BY DEF OwnToken, OnRegistry, OwnCredential
        <3> QED BY <3>1, <3>2, <3>3
    <2> QED BY <1>6, <2>1, <2>2 DEF JoinPoll
<1> QED BY <1>1, <1>2, <1>3, <1>4, <1>5, <1>6

\* The end of a mint forgets everything but the browser.
LEMMA EndStep ==
    ASSUME MintInv, NEW w \in Workers, Leave(w) \/ WriteCredential(w)
    PROVE  MintInv'
<1> USE DEF MintInv, MintShapes
<1>1. pc[w] \in {"leave", "write"} /\ EndMint(w) /\ UNCHANGED <<todo, launched, session, alive, registry, stuck>>
    BY DEF Leave, WriteCredential, browserVars
<1>2. /\ mine' = [v \in Workers |-> mine'[v]]
      /\ \A v \in Workers : DOMAIN mine'[v] = {"browser", "served", "proxy"}
      /\ \A v \in Workers : mine'[v].browser = mine[v].browser
    BY DEF Leave, WriteCredential, browserVars
<1>3. OwnCredential' /\ files' \in [Accounts -> Sessions]
    <2>1. pc[w] = "write" => box[w] = account[w] /\ account[w] \in Accounts
        BY MintAssumption DEF OwnToken
    <2> QED BY <2>1 DEF Leave, WriteCredential, OwnCredential, Sessions
<1>4. MintShapes'
    BY <1>1, <1>2, <1>3 DEF EndMint, Goto, Steps, Sessions
<1>5. OwnBrowser' /\ OwnSession'
    BY <1>1, <1>2 DEF EndMint, Goto, OwnBrowser, OwnSession, SessionOf
<1>6. OwnToken' /\ OnRegistry'
    BY <1>1, <1>2 DEF EndMint, Goto, OwnToken, OnRegistry
<1> QED BY <1>3, <1>4, <1>5, <1>6

-----------------------------------------------------------------------------
(* Steps that give a browser a session.                                    *)

LEMMA SessionStep ==
    ASSUME MintInv, NEW w \in Workers, InjectCookies(w) \/ LogIn(w)
    PROVE  MintInv'
<1> USE DEF MintInv, MintShapes
<1>1. /\ pc[w] \in {"inject", "approve"} /\ pc'[w] = "approve"
      /\ pc' = [v \in Workers |-> IF v = w THEN "approve" ELSE pc[v]]
      /\ session' \in {session, [session EXCEPT ![mine[w].browser] = account[w]]}
      /\ UNCHANGED <<account, todo, mine, launched, alive, registry, stuck, approved, stop, box, files>>
      /\ poll' \in {poll, [poll EXCEPT ![w] = "check"]}
    BY DEF InjectCookies, LogIn, Goto, pollVars
<1>2. MintShapes'
    BY <1>1 DEF Steps
<1>3. OwnBrowser'
    BY <1>1 DEF OwnBrowser
<1>4. \A v \in Workers \ {w} : pc[v] \in {"inject", "approve"} => mine[v].browser # mine[w].browser
    BY <1>1, BrowserNumbers DEF OwnBrowser
<1>5. OwnSession'
    BY <1>1, <1>4 DEF OwnBrowser, OwnSession, SessionOf
<1>6. OwnToken' /\ OnRegistry' /\ OwnCredential'
    BY <1>1 DEF OwnToken, OnRegistry, OwnCredential
<1> QED BY <1>2, <1>3, <1>5, <1>6

-----------------------------------------------------------------------------
(* Browsers come and go.                                                   *)

\* create_standalone_page closes the old browser and starts a new one, which
\* nobody has used, or fails.
LEMMA ReplaceStep ==
    ASSUME MintInv, NEW w \in Workers, NEW proxy, pc[w] = "acquire", Replace(w, proxy),
           UNCHANGED <<account, todo, session, pollVars, files>>
    PROVE  MintInv'
<1> USE DEF MintInv, MintShapes
<1> DEFINE old == {mine[w].browser} \ {0}
           new == launched + 1
<1>1. PICK failing \in SUBSET (old \cap alive) :
         \/ /\ new \in Browsers
            /\ launched' = new
            /\ mine' = [mine EXCEPT ![w] = [browser |-> new, served |-> 0, proxy |-> proxy]]
            /\ registry' = (registry \ old) \cup {new}
            /\ alive' = (alive \ old) \cup failing \cup {new}
            /\ stuck' = (stuck \ old) \cup failing
            /\ Goto(w, "inject")
         \/ AfterClose(old, failing) /\ Goto(w, "leave") /\ UNCHANGED <<mine, launched>>
         \/ /\ new \in Browsers
            /\ launched' = new
            /\ AfterClose(old, failing \cup {new})
            /\ Goto(w, "leave")
            /\ UNCHANGED mine
    BY DEF Replace, Registered
<1>2. CASE /\ new \in Browsers
           /\ launched' = new
           /\ mine' = [mine EXCEPT ![w] = [browser |-> new, served |-> 0, proxy |-> proxy]]
           /\ registry' = (registry \ old) \cup {new}
           /\ alive' = (alive \ old) \cup failing \cup {new}
           /\ stuck' = (stuck \ old) \cup failing
           /\ Goto(w, "inject")
    <2>1. /\ mine'[w].browser = new
          /\ \A v \in Workers \ {w} : mine'[v] = mine[v]
          /\ \A v \in Workers : DOMAIN mine'[v] = {"browser", "served", "proxy"}
          /\ mine' = [v \in Workers |-> mine'[v]]
        BY <1>2
    <2>2. MintShapes'
        <3>1. pc' \in [Workers -> Steps] /\ \A v \in Workers : pc'[v] = pc[v] \/ (v = w /\ pc'[v] = "inject")
            BY <1>2 DEF Goto, Steps
        <3>2. launched' \in Nat
            BY <1>2
        <3> QED BY <2>1, <3>1, <3>2 DEF pollVars
    <2>3. OwnBrowser'
        BY <1>2, <2>1, BrowserNumbers DEF OwnBrowser, Goto
    <2>4. OwnSession'
        BY <1>2, <2>1, BrowserNumbers DEF OwnSession, OwnBrowser, SessionOf, Goto
    <2>5. OwnToken' /\ OwnCredential'
        BY <1>2 DEF OwnToken, OwnCredential, Goto, pollVars
    <2>6. alive' \ stuck' \subseteq registry'
        BY <1>2 DEF OnRegistry
    <2>7. \A b \in alive' \ stuck' : \E v \in Workers : mine'[v].browser = b /\ b # 0
        BY <1>2, <2>1 DEF OnRegistry
    <2>8. OnRegistry'
        BY <1>2, <2>6, <2>7 DEF OnRegistry, Goto, Steps
    <2> QED BY <2>2, <2>3, <2>4, <2>5, <2>8
<1>3. CASE AfterClose(old, failing) /\ Goto(w, "leave") /\ UNCHANGED <<mine, launched>>
    <2>1. MintShapes'
        BY <1>3 DEF Goto, Steps, pollVars
    <2>2. OwnBrowser' /\ OwnSession'
        BY <1>3 DEF OwnBrowser, OwnSession, SessionOf, Goto
    <2>3. OwnToken' /\ OwnCredential'
        BY <1>3 DEF OwnToken, OwnCredential, Goto, pollVars
    <2>4. OnRegistry'
        BY <1>3 DEF OnRegistry, AfterClose, Goto, Steps
    <2> QED BY <2>1, <2>2, <2>3, <2>4
<1>4. CASE /\ new \in Browsers
           /\ launched' = new
           /\ AfterClose(old, failing \cup {new})
           /\ Goto(w, "leave")
           /\ UNCHANGED mine
    <2>1. MintShapes'
        BY <1>4 DEF Goto, Steps, pollVars
    <2>2. OwnBrowser'
        BY <1>4, BrowserNumbers DEF OwnBrowser, Goto
    <2>3. OwnSession'
        BY <1>4, BrowserNumbers DEF OwnSession, OwnBrowser, SessionOf, Goto
    <2>4. OwnToken' /\ OwnCredential'
        BY <1>4 DEF OwnToken, OwnCredential, Goto, pollVars
    <2>5. OnRegistry'
        BY <1>4 DEF OnRegistry, AfterClose, Goto, Steps
    <2> QED BY <2>1, <2>2, <2>3, <2>4, <2>5
<1> QED BY <1>1, <1>2, <1>3, <1>4

LEMMA AcquireStep ==
    ASSUME MintInv, NEW w \in Workers, Acquire(w)
    PROVE  MintInv'
<1> USE DEF MintInv, MintShapes
<1>1. PICK proxy \in Proxies :
         \/ ~Reusable(w, proxy) /\ Replace(w, proxy) /\ UNCHANGED session
         \/ /\ Reusable(w, proxy)
            /\ mine[w].browser \in alive
            /\ session' = [session EXCEPT ![mine[w].browser] = Nobody]
            /\ Goto(w, "inject")
            /\ UNCHANGED <<mine, launched, alive, registry, stuck>>
         \/ Reusable(w, proxy) /\ ReplaceOnFailure(w, proxy) /\ UNCHANGED session
    BY DEF Acquire
<1>2. CASE Replace(w, proxy) /\ UNCHANGED session
    BY <1>2, ReplaceStep DEF Acquire
<1>3. CASE /\ Reusable(w, proxy)
           /\ session' = [session EXCEPT ![mine[w].browser] = Nobody]
           /\ Goto(w, "inject")
           /\ UNCHANGED <<mine, launched, alive, registry, stuck>>
    <2> USE <1>3 DEF Acquire, Goto, pollVars
    <2>0. mine[w].browser \in Browsers
        BY BrowserNumbers DEF OwnBrowser, Reusable, Browsers
    <2>1. MintShapes'
        BY DEF Steps, Sessions
    <2>2. OwnBrowser'
        BY <2>0 DEF OwnBrowser
    <2>3. OwnSession'
        BY <2>0 DEF OwnBrowser, OwnSession, SessionOf, Sessions
    <2>4. OwnToken' /\ OwnCredential' /\ OnRegistry'
        BY DEF OwnToken, OwnCredential, OnRegistry, Steps
    <2> QED BY <2>1, <2>2, <2>3, <2>4
<1> QED BY <1>1, <1>2, <1>3 DEF ReplaceOnFailure

LEMMA ShutdownStep ==
    ASSUME MintInv, Shutdown
    PROVE  MintInv'
<1> USE DEF MintInv, MintShapes, Shutdown, pollVars
<1>1. MintShapes'
    BY DEF Steps, NoBrowser
<1>2. OwnBrowser' /\ OwnSession'
    BY DEF OwnBrowser, OwnSession, SessionOf, NoBrowser
<1>3. OwnToken' /\ OwnCredential'
    BY DEF OwnToken, OwnCredential
<1>4. OnRegistry'
    BY DEF OnRegistry, AfterClose
<1> QED BY <1>1, <1>2, <1>3, <1>4

LEMMA MintStep == MintInv /\ [Next]_vars => MintInv'
<1> SUFFICES ASSUME MintInv, [Next]_vars PROVE MintInv'
    OBVIOUS
<1>1. ASSUME NEW w \in Workers, Work(w) \/ BrowserFails(w) \/ Poll(w) \/ BeginExport(w) PROVE MintInv'
    BY <1>1, PollStep, QuietStep, EndStep, SessionStep, AcquireStep DEF Work
<1>2. CASE Shutdown
    BY <1>2, ShutdownStep
<1>3. CASE UNCHANGED <<pc, account, todo, browserVars, pollVars, files>>
    BY <1>3 DEF MintInv, MintShapes, OwnBrowser, OwnSession, OwnToken, OnRegistry, OwnCredential,
       SessionOf, browserVars, pollVars
<1> QED BY <1>1, <1>2, <1>3 DEF Next, RequestStop, vars

LEMMA MintInvariant == Spec => []MintInv
BY MintStart, MintStep, PTL DEF Spec

\* A credential file holds a token approved by the account it is named after
\* (acquire_mint_browser, cpa_xai/browser_session.py; mint_with_browser,
\* cpa_xai/browser_confirm.py).
THEOREM CredentialIsOwn == Spec => []OwnCredential
BY MintInvariant, PTL DEF MintInv

\* The browsers that run are the workers' and are closed by the shutdown,
\* but for those that would not quit (_register_mint_browser,
\* shutdown_mint_browsers, cpa_xai/browser_session.py).
THEOREM BrowsersAccounted == Spec => []NoBrowserLost
<1>1. ASSUME MintInv PROVE NoBrowserLost
    <2> DEFINE running == alive \ stuck
               owner == [b \in running |-> CHOOSE w \in Workers : mine[w].browser = b]
    <2>1. \A b \in running : owner[b] \in Workers /\ mine[owner[b]].browser = b
        BY <1>1 DEF MintInv, OnRegistry
    <2>2. owner \in Injection(running, Workers)
        BY <2>1 DEF Injection, IsInjective
    <2>3. Cardinality(running) <= Cardinality(Workers)
        BY <2>2, FS_Injection, MintAssumption
    <2> QED BY <1>1, <2>3 DEF NoBrowserLost, MintInv, OnRegistry
<1> QED BY MintInvariant, <1>1, PTL

=============================================================================
