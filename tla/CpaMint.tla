------------------------------- MODULE CpaMint -------------------------------
(***************************************************************************)
(* The CPA export of a registered account (cpa_export.py, cpa_xai/): a     *)
(* device code is requested, approved in a browser under the account's     *)
(* session, and polled for by a thread of its own; the token is written to *)
(* a credential file.  Each registration worker keeps one mint browser     *)
(* and uses it for one account after another; a registry lists the         *)
(* browsers of all workers for the final shutdown.                         *)
(*                                                                         *)
(* A worker and the polling thread of its current mint share the stop      *)
(* event and the box of the result.  A polling thread that outlives its    *)
(* mint has its own event, which is set, and its own box, which nobody     *)
(* reads: it is not followed further.                                      *)
(*                                                                         *)
(* Abstractions: of a page, only whose session it has; a request is sent   *)
(* in one action and answered in another; bridges are left out.            *)
(***************************************************************************)
EXTENDS Naturals, FiniteSets

CONSTANTS Workers,
          Accounts,
          Nobody,        \* session of an empty browser
          RecycleEvery,  \* accounts a browser serves before it is replaced
          Proxies        \* upstream proxies a lease may have

ASSUME MintAssumption ==
    /\ IsFiniteSet(Workers)
    /\ IsFiniteSet(Accounts)
    /\ Accounts \cap {Nobody, "empty", "error"} = {}
    /\ RecycleEvery \in Nat \ {0}

VARIABLES
    pc,         \* step of each worker
    account,    \* account each worker exports
    todo,       \* accounts whose export has not begun
    cancelled,  \* the batch is asked to stop
    mine,       \* _mint_tls of each worker
    launched,   \* number of browsers started so far
    session,    \* account whose session each browser has
    alive,      \* browsers whose process runs
    registry,   \* _mint_registry
    stuck,      \* browsers whose quit failed (history)
    approved,   \* account that approved the device code of each mint
    poll,       \* polling thread of each worker's mint
    stop,       \* its stop_event
    box,        \* token_box and error_box: whose token, or "error"
    files       \* account whose token is in each credential file

browserVars == <<mine, launched, session, alive, registry, stuck>>
pollVars    == <<approved, poll, stop, box>>
vars == <<pc, account, todo, cancelled, browserVars, pollVars, files>>

Browsers == 1..Cardinality(Accounts)
Sessions == Accounts \cup {Nobody}
Steps    == {"idle", "code", "acquire", "inject", "approve", "join", "leave", "write", "ended"}

NoBrowser == [browser |-> 0, served |-> 0, proxy |-> "none"]

TypeOK ==
    /\ pc \in [Workers -> Steps]
    /\ account \in [Workers -> Sessions]
    /\ todo \subseteq Accounts
    /\ cancelled \in BOOLEAN
    /\ mine \in [Workers -> [browser : 0..Cardinality(Accounts), served : Nat,
                             proxy : Proxies \cup {"none"}]]
    /\ launched \in 0..Cardinality(Accounts)
    /\ session \in [Browsers -> Sessions]
    /\ alive \subseteq Browsers
    /\ registry \subseteq alive
    /\ stuck \subseteq alive
    /\ approved \in [Workers -> Sessions]
    /\ poll \in [Workers -> {"off", "check", "asked"}]
    /\ stop \in [Workers -> BOOLEAN]
    /\ box \in [Workers -> Sessions \cup {"empty", "error"}]
    /\ files \in [Accounts -> Sessions]

Goto(w, step) == pc' = [pc EXCEPT ![w] = step]

-----------------------------------------------------------------------------
(* Browsers.                                                               *)

\* close_standalone of some browsers: off the registry, then quit, which may
\* fail unnoticed.
AfterClose(closed, failing) ==
    /\ registry' = registry \ closed
    /\ alive' = (alive \ closed) \cup failing
    /\ stuck' = (stuck \ closed) \cup failing

\* Bug: the new browser is not registered.
Unregistered(b) == {}

Registered(b) == {b}

\* create_standalone_page after the worker's old browser, if any, is closed.
\* When it fails it closes what it started, a quit that may fail too, and the
\* worker keeps what it had noted of the old one. An export starts one browser
\* at most, so Browsers bounds nothing.
Replace(w, proxy) ==
    LET old == {mine[w].browser} \ {0}
        new == launched + 1
    IN  \E failing \in SUBSET (old \cap alive) :
          \/ /\ new \in Browsers
             /\ launched' = new
             /\ mine' = [mine EXCEPT ![w] = [browser |-> new, served |-> 0, proxy |-> proxy]]
             /\ registry' = (registry \ old) \cup Registered(new)
             /\ alive' = (alive \ old) \cup failing \cup {new}
             /\ stuck' = (stuck \ old) \cup failing
             /\ Goto(w, "inject")
          \/ AfterClose(old, failing) /\ Goto(w, "leave") /\ UNCHANGED <<mine, launched>>
          \/ /\ new \in Browsers
             /\ launched' = new
             /\ AfterClose(old, failing \cup {new})
             /\ Goto(w, "leave")
             /\ UNCHANGED mine

\* Bug: the browser is kept although its session could not be cleared.
KeepOnFailure(w, proxy) ==
    Goto(w, "inject") /\ UNCHANGED <<mine, launched, alive, registry, stuck>>

\* "A failed cleanup must never hand a previous account's session to the next."
ReplaceOnFailure(w, proxy) == Replace(w, proxy)

Reusable(w, proxy) ==
    /\ mine[w].browser # 0
    /\ mine[w].proxy = proxy
    /\ mine[w].served % RecycleEvery # 0 \/ mine[w].served = 0

\* acquire_mint_browser: clear_page_session may fail halfway, and fails when
\* the browser is gone.
Acquire(w) ==
    /\ pc[w] = "acquire"
    /\ \E proxy \in Proxies :
          \/ ~Reusable(w, proxy) /\ Replace(w, proxy) /\ UNCHANGED session
          \/ /\ Reusable(w, proxy)
             /\ mine[w].browser \in alive
             /\ session' = [session EXCEPT ![mine[w].browser] = Nobody]
             /\ Goto(w, "inject")
             /\ UNCHANGED <<mine, launched, alive, registry, stuck>>
          \/ Reusable(w, proxy) /\ ReplaceOnFailure(w, proxy) /\ UNCHANGED session
    /\ UNCHANGED <<account, todo, cancelled, pollVars, files>>

-----------------------------------------------------------------------------
(* One mint.                                                               *)

\* export_cpa_xai_for_account, called by the worker for an account it saved.
BeginExport(w) ==
    /\ pc[w] = "idle"
    /\ \E e \in todo :
          /\ account' = [account EXCEPT ![w] = e]
          /\ todo' = todo \ {e}
    /\ Goto(w, "code")
    /\ UNCHANGED <<cancelled, browserVars, pollVars, files>>

\* request_device_code, with its retries; it checks for cancellation.
RequestCode(w) ==
    /\ pc[w] = "code"
    /\ \/ ~cancelled /\ Goto(w, "acquire")
       \/ Goto(w, "leave")
    /\ UNCHANGED <<account, todo, cancelled, browserVars, pollVars, files>>

\* The cookies of the account are set, or are not to be set, or setting them
\* fails; the polling thread starts.
InjectCookies(w) ==
    /\ pc[w] = "inject"
    /\ session' \in {session, [session EXCEPT ![mine[w].browser] = account[w]]}
    /\ poll' = [poll EXCEPT ![w] = "check"]
    /\ Goto(w, "approve")
    /\ UNCHANGED <<account, todo, cancelled, mine, launched, alive, registry, stuck, approved,
                   stop, box, files>>

\* The loop of approve_device_code ends when it sees the stop event.
SeeStop(w) ==
    /\ pc[w] = "approve"
    /\ stop[w]
    /\ Goto(w, "join")
    /\ UNCHANGED <<account, todo, cancelled, browserVars, pollVars, files>>

\* Without a session the page asks for one.
LogIn(w) ==
    /\ pc[w] = "approve"
    /\ session[mine[w].browser] = Nobody
    /\ session' = [session EXCEPT ![mine[w].browser] = account[w]]
    /\ UNCHANGED <<pc, account, todo, cancelled, mine, launched, alive, registry, stuck, pollVars, files>>

Allow(w) ==
    /\ pc[w] = "approve"
    /\ session[mine[w].browser] # Nobody
    /\ approved[w] = Nobody
    /\ approved' = [approved EXCEPT ![w] = session[mine[w].browser]]
    /\ UNCHANGED <<pc, account, todo, cancelled, browserVars, poll, stop, box, files>>

\* A page that shows an error, a lost browser, or the browser's deadline.
\* The finally of mint_with_browser sets the event and waits, for a while.
BrowserFails(w) ==
    /\ pc[w] = "approve"
    /\ stop' = [stop EXCEPT ![w] = TRUE]
    /\ Goto(w, "leave")
    /\ UNCHANGED <<account, todo, cancelled, browserVars, approved, poll, box, files>>

\* The event is set by the polling thread only, at its end: the join of the
\* thread does not take long.
JoinPoll(w) ==
    /\ pc[w] = "join"
    /\ poll[w] = "off"
    /\ Goto(w, IF box[w] \in Accounts THEN "write" ELSE "leave")
    /\ UNCHANGED <<account, todo, cancelled, browserVars, pollVars, files>>

\* What a mint keeps in its own variables ends with it.
EndMint(w) ==
    /\ Goto(w, "idle")
    /\ account' = [account EXCEPT ![w] = Nobody]
    /\ approved' = [approved EXCEPT ![w] = Nobody]
    /\ poll' = [poll EXCEPT ![w] = "off"]
    /\ stop' = [stop EXCEPT ![w] = FALSE]
    /\ box' = [box EXCEPT ![w] = "empty"]

\* The mint failed; its polling thread is left behind if it still runs.
Leave(w) ==
    /\ pc[w] = "leave"
    /\ EndMint(w)
    /\ UNCHANGED <<todo, cancelled, browserVars, files>>

\* The browser has served one more account; the file is replaced, or the
\* write fails, and the copy for hot loading changes nothing else.
WriteCredential(w) ==
    /\ pc[w] = "write"
    /\ mine' = [mine EXCEPT ![w].served = @ + 1]
    /\ \/ files' = [files EXCEPT ![account[w]] = box[w]]
       \/ UNCHANGED files
    /\ EndMint(w)
    /\ UNCHANGED <<todo, cancelled, launched, session, alive, registry, stuck>>

-----------------------------------------------------------------------------
(* The polling thread.                                                     *)

\* Bug: an error of the polling thread does not stop the browser's loop.
StopUnchanged(w) == stop[w]

\* Both branches of _poll set the event.
StopAfterError(w) == TRUE

PollEnds(w, result) ==
    /\ box' = [box EXCEPT ![w] = result]
    /\ stop' = [stop EXCEPT ![w] = IF result = "error" THEN StopAfterError(w) ELSE TRUE]
    /\ poll' = [poll EXCEPT ![w] = "off"]

PollCheck(w) ==
    /\ poll[w] = "check"
    /\ IF stop[w] \/ cancelled
       THEN PollEnds(w, "error")
       ELSE poll' = [poll EXCEPT ![w] = "asked"] /\ UNCHANGED <<stop, box>>
    /\ UNCHANGED <<pc, account, todo, cancelled, browserVars, approved, files>>

\* Pending, a passing network error, a final error, or the token, which is
\* dropped if the mint was stopped or cancelled while the request was out.
PollAnswer(w) ==
    /\ poll[w] = "asked"
    /\ \/ poll' = [poll EXCEPT ![w] = "check"] /\ UNCHANGED <<stop, box>>
       \/ PollEnds(w, "error")
       \/ /\ approved[w] # Nobody
          /\ PollEnds(w, IF stop[w] \/ cancelled THEN "error" ELSE approved[w])
    /\ UNCHANGED <<pc, account, todo, cancelled, browserVars, approved, files>>

-----------------------------------------------------------------------------

RequestStop ==
    /\ ~cancelled
    /\ cancelled' = TRUE
    /\ UNCHANGED <<pc, account, todo, browserVars, pollVars, files>>

\* shutdown_mint_browsers, once the workers have ended.
Shutdown ==
    /\ \A w \in Workers : pc[w] = "idle"
    /\ todo = {} \/ cancelled
    /\ \E failing \in SUBSET registry : AfterClose(registry, failing)
    /\ todo' = {}
    /\ pc' = [w \in Workers |-> "ended"]
    /\ mine' = [w \in Workers |-> NoBrowser]
    /\ UNCHANGED <<account, cancelled, launched, session, pollVars, files>>

Init ==
    /\ pc = [w \in Workers |-> "idle"]
    /\ account = [w \in Workers |-> Nobody]
    /\ todo = Accounts
    /\ cancelled = FALSE
    /\ mine = [w \in Workers |-> NoBrowser]
    /\ launched = 0
    /\ session = [b \in Browsers |-> Nobody]
    /\ alive = {}
    /\ registry = {}
    /\ stuck = {}
    /\ approved = [w \in Workers |-> Nobody]
    /\ poll = [w \in Workers |-> "off"]
    /\ stop = [w \in Workers |-> FALSE]
    /\ box = [w \in Workers |-> "empty"]
    /\ files = [a \in Accounts |-> Nobody]

\* What a worker does within a mint without a time limit running out.
Work(w) ==
    \/ RequestCode(w) \/ Acquire(w) \/ InjectCookies(w) \/ SeeStop(w) \/ LogIn(w) \/ Allow(w)
    \/ JoinPoll(w) \/ Leave(w) \/ WriteCredential(w)

Poll(w) == PollCheck(w) \/ PollAnswer(w)

Next ==
    \/ \E w \in Workers : Work(w) \/ BrowserFails(w) \/ Poll(w) \/ BeginExport(w)
    \/ RequestStop
    \/ Shutdown

Spec == Init /\ [][Next]_vars

\* Workers go on by themselves, and requests have a timeout.  It is not
\* assumed that the browser fails or that its deadline passes.
FairSpec == Spec /\ \A w \in Workers : WF_vars(Work(w)) /\ WF_vars(Poll(w))

-----------------------------------------------------------------------------

\* A credential file holds a token that the account it is named after
\* approved, although one browser serves many accounts.
OwnCredential == \A e \in Accounts : files[e] \in {Nobody, e}

\* No browser is lost track of: a worker has one at most, and none is left
\* after the shutdown, but for those that would not quit.
NoBrowserLost ==
    /\ Cardinality(alive \ stuck) <= Cardinality(Workers)
    /\ (\E w \in Workers : pc[w] = "ended") => alive \subseteq stuck

Minting(w) == pc[w] \notin {"idle", "ended"}

\* A stop request ends a mint without any time limit running out: the
\* browser's loop does not look for it, but the polling thread does.
CancelEndsMint ==
    \A w \in Workers : (cancelled /\ Minting(w)) ~> ~Minting(w)
=============================================================================
