---------------------------- MODULE ControlPlane ----------------------------
(***************************************************************************)
(* The web control plane (web/server.py) around a registration run: the    *)
(* requests that start and stop it, change or reload the configuration,    *)
(* run a maintenance operation, and start and stop a reauthentication.     *)
(*                                                                         *)
(* A handler's section under _job_lock is one action. Handlers declared    *)
(* "async def" run on the event loop, one at a time between two awaits;    *)
(* the others, and the jobs' threads, interleave with them.                *)
(***************************************************************************)
EXTENDS RegistrationRun

CONSTANTS Settings,   \* contents that config.json may have
          Requests,   \* requests that start a reauthentication
          None        \* no manager, no request, no operation

ASSUME ControlAssumption == None \notin Requests \cup {"check", "reauthentication"}

VARIABLES
    config,       \* engine.config
    file,         \* config.json
    maintenance,  \* _maintenance_state: None, "check" or a reauthentication
    check,        \* the maintenance request: "idle", "begun" or "working"
    stopping,     \* the controller a stop request has read
    request,      \* where each start_reauthentication is
    thread,       \* threads of the managers these requests have made
    manager,      \* _reauth_manager
    loop          \* request the event loop executes

configVars == <<config, file>>
reauthVars == <<request, thread, manager, loop>>
vars == <<runVars, configVars, maintenance, check, stopping, reauthVars>>

TypeOK ==
    /\ RunTypeOK
    /\ {config, file} \subseteq Settings
    /\ maintenance \in {None, "check", "reauthentication"}
    /\ check \in {"idle", "begun", "working"}
    /\ stopping \in {"none", "current", "stale"}
    /\ request \in [Requests -> {"idle", "begun", "loaded", "started"}]
    /\ thread \in [Requests -> {"none", "alive"}]
    /\ manager \in Requests \cup {None}
    /\ loop \in Requests \cup {None}

Init ==
    /\ RunInit
    /\ file \in Settings
    /\ config = file
    /\ maintenance = None
    /\ check = "idle"
    /\ stopping = "none"
    /\ request = [r \in Requests |-> "idle"]
    /\ thread = [r \in Requests |-> "none"]
    /\ manager = None
    /\ loop = None

Running == stage # "off"

Idle == ~Running /\ maintenance = None

-----------------------------------------------------------------------------
(* Registration: start, _run_job, stop.                                    *)

\* start reloads the configuration, which may be invalid; a thread that does
\* not start leaves the counters reset and nothing running.
Start ==
    /\ Idle
    /\ config' = file
    /\ \/ BeginRun
       \/ /\ shown' \in {Zero, shown}
          /\ UNCHANGED <<stage, row, planVars, workerVars, reportVars, eventVars>>
    /\ UNCHANGED <<file, maintenance, check, stopping, reauthVars>>

\* _run_job's finally forgets the controller, which a stop request that is
\* still under way may hold.
Run ==
    /\ RunStep
    /\ stopping' = IF stage' = "off" /\ stopping = "current" THEN "stale" ELSE stopping
    /\ UNCHANGED <<configVars, maintenance, check, reauthVars>>

ReadController ==
    /\ stopping = "none"
    /\ Running
    /\ stopping' = "current"
    /\ UNCHANGED <<runVars, configVars, maintenance, check, reauthVars>>

StopController ==
    /\ stopping # "none"
    /\ stopping' = "none"
    /\ stop' = (stop \/ stopping = "current")
    /\ UNCHANGED <<stage, row, shown, planVars, workerVars, reportVars, abort, fatal, signal, rejected>>
    /\ UNCHANGED <<configVars, maintenance, check, reauthVars>>

-----------------------------------------------------------------------------
(* Configuration: put_config, put_outlook_mailboxes, _load_config_if_idle. *)

\* Somebody edits the file, or another process saves it.
EditFile ==
    /\ file' \in Settings \ {file}
    /\ UNCHANGED <<runVars, config, maintenance, check, stopping, reauthVars>>

\* Async handlers without an await inside the section.
PutConfig ==
    /\ loop = None
    /\ Idle
    /\ file' \in Settings
    /\ config' = file'
    /\ UNCHANGED <<runVars, maintenance, check, stopping, reauthVars>>

\* Bug: requests that only read reload the file whatever runs.
MayReload == TRUE

MayLoad == Idle

GetConfig ==
    /\ MayLoad
    /\ config' = file
    /\ UNCHANGED <<runVars, file, maintenance, check, stopping, reauthVars>>

-----------------------------------------------------------------------------
(* Maintenance: health check, mailbox test, proxy reload, test, preflight. *)

\* Bug: maintenance excludes maintenance only.
NoMaintenance == maintenance = None

MayBegin == Idle

BeginCheck ==
    /\ check = "idle"
    /\ MayBegin
    /\ maintenance' = "check"
    /\ check' = "begun"
    /\ UNCHANGED <<runVars, configVars, stopping, reauthVars>>

\* load_config takes no lock.
LoadForCheck ==
    /\ check = "begun"
    /\ check' = "working"
    /\ config' = file
    /\ UNCHANGED <<runVars, file, maintenance, stopping, reauthVars>>

\* _end_maintenance in a finally clause: after the work or an error.
Ended(kind) == IF maintenance = kind THEN None ELSE maintenance

EndCheck ==
    /\ check \in {"begun", "working"}
    /\ check' = "idle"
    /\ maintenance' = Ended("check")
    /\ UNCHANGED <<runVars, configVars, stopping, reauthVars>>

-----------------------------------------------------------------------------
(* Reauthentication: start_reauthentication is a coroutine that does not   *)
(* await after its first section; stop_reauthentication, a plain function, *)
(* stops the manager it finds.                                             *)

\* Bug: the handler is a plain function, in a thread of its own.
AnyThread(r) == TRUE

OnLoop(r) == loop \in {None, r}

BeginReauth(r) ==
    /\ request[r] = "idle"
    /\ thread[r] = "none"
    /\ OnLoop(r)
    /\ MayBegin
    /\ maintenance' = "reauthentication"
    /\ request' = [request EXCEPT ![r] = "begun"]
    /\ loop' = r
    /\ UNCHANGED <<runVars, configVars, check, stopping, thread, manager>>

LoadForReauth(r) ==
    /\ request[r] = "begun"
    /\ OnLoop(r)
    /\ request' = [request EXCEPT ![r] = "loaded"]
    /\ config' = file
    /\ UNCHANGED <<runVars, file, maintenance, check, stopping, thread, manager, loop>>

\* Bug: an exception of load_config or manager.start skips _end_maintenance.
StillMaintained(kind) == maintenance

AfterError(kind) == Ended(kind)

\* load_config, get_account or the new thread's start fails.
FailReauth(r) ==
    /\ request[r] \in {"begun", "loaded"}
    /\ OnLoop(r)
    /\ request' = [request EXCEPT ![r] = "idle"]
    /\ maintenance' = AfterError("reauthentication")
    /\ loop' = None
    /\ UNCHANGED <<runVars, configVars, check, stopping, thread, manager>>

\* manager.start: a new manager, whose thread runs from here on.
StartManager(r) ==
    /\ request[r] = "loaded"
    /\ OnLoop(r)
    /\ request' = [request EXCEPT ![r] = "started"]
    /\ thread' = [thread EXCEPT ![r] = "alive"]
    /\ manager' = IF manager = r THEN None ELSE manager  \* that one was another object
    /\ UNCHANGED <<runVars, configVars, maintenance, check, stopping, loop>>

\* _reauth_manager = manager, after the thread has started.
AnswerReauth(r) ==
    /\ request[r] = "started"
    /\ OnLoop(r)
    /\ request' = [request EXCEPT ![r] = "idle"]
    /\ manager' = r
    /\ loop' = None
    /\ UNCHANGED <<runVars, configVars, maintenance, check, stopping, thread>>

\* _run's finally calls on_finish.
FinishJob(r) ==
    /\ thread[r] = "alive"
    /\ thread' = [thread EXCEPT ![r] = "none"]
    /\ maintenance' = Ended("reauthentication")
    /\ UNCHANGED <<runVars, configVars, check, stopping, request, manager, loop>>

-----------------------------------------------------------------------------
HandlerStep(r) ==
    LoadForReauth(r) \/ FailReauth(r) \/ StartManager(r) \/ AnswerReauth(r)

Next ==
    \/ Start
    \/ Run
    \/ ReadController
    \/ StopController
    \/ EditFile
    \/ PutConfig
    \/ GetConfig
    \/ BeginCheck
    \/ LoadForCheck
    \/ EndCheck
    \/ \E r \in Requests :
          \/ BeginReauth(r)
          \/ HandlerStep(r)
          \/ FinishJob(r)

Spec == Init /\ [][Next]_vars

-----------------------------------------------------------------------------
(* Properties.                                                             *)

\* A run keeps the configuration it began with: the job reads engine.config,
\* one dictionary for the whole process, from all its threads, while every
\* request and every maintenance operation may reload it from a file that
\* anybody may have edited.
ConfigFrozen == [][Running /\ Running' => config' = config]_vars

\* Once start_reauthentication has been answered, a stop request finds the
\* job while it runs: _reauth_manager is assigned after the job's thread has
\* started, when that job may have ended and another one begun.
StopFindsReauth ==
    \A r \in Requests : thread[r] = "alive" /\ request[r] = "idle" => manager = r

\* The web interface never stays locked: whenever a maintenance operation is
\* registered, a handler or a reauthentication thread that will end it is
\* under way, whatever has failed before.
MaintenanceHeld ==
    /\ maintenance = "check" => check # "idle"
    /\ maintenance = "reauthentication" =>
          \E r \in Requests : request[r] \in {"begun", "loaded"} \/ thread[r] = "alive"

=============================================================================
