# grok-register: TLA+ models, checks and proofs

grok-register registers accounts in batches: worker threads lease a proxy node,
drive a browser through a sign-up form, wait for a code in a mailbox, and store
the session they obtain in SQLite, in a TXT export, in token pools and as a
credential of a command-line client. A FastAPI process on the local machine
starts and stops these batches, deletes and reauthenticates accounts. This
directory holds the specifications of its stateful parts, the TLC models that
check them and the TLAPS proofs about them. Paths below are relative to `src/`.

## 1. The system

| Component | State it keeps | Operations | Modules | Status |
|---|---|---|---|---|
| proxy pool manager, `proxy_pool_v3.py` | nodes (enabled, cooldown, inflight, health), sources, leases, background probes | acquire, release, report_*, refresh, probe, probe_all | `LeasePool`, `ProxyPool` | partly |
| protocol runtimes, `proxy_protocol_runtime.py` | cached processes, reference counts, nodes being started | acquire, release, cleanup_idle, shutdown | `ProtocolRuntime` | modelled |
| registration flow, `registration_flow.py`, `registration_browser.py` | stage of the thread, retry counts, batch counters, attempt rows | one operation per page or mailbox step, retry decision, batch loop | `RegistrationFlow`, `RegistrationMailboxes` | partly |
| parallel batch, `registration_parallel.py` | per-worker snapshots, observer lock, abort flag | split, run, report, merge | `RegistrationRun` | partly |
| engine and command line, `grok_register_ttk.py` | the run's row, controller, configuration in use | run a registration, record it, Ctrl+C | `RegistrationRun` | partly |
| web control plane, `web/server.py` | running task, maintenance state, manager of the job, configuration | start, stop, configure, check, reauthenticate, delete | `ControlPlane`, `AccountStore` | partly |
| mail providers, `outlook_mail.py`, `mail_service.py` | cursors of the folders, retries of details, public tokens | prepare, wait for a code, resend | `OutlookCodes`, `MailPolling`, `MailCodes` | partly |
| Outlook pool, `outlook_mailbox_pool.py` | available accounts, live handles, open sessions | acquire, release_before_submit, wait_for_code, close | `OutlookPool`, `RegistrationMailboxes` | partly |
| risk quarantine, `sso_risk.py` | quarantine file and its pending file | screen, append, recover | `RiskQuarantine`, `Finishing` | modelled |
| account outputs, `account_outputs.py` | TXT exports, pending queues, token pools, admin token | ensure line, queue, retry-pending, publish a token | `TokenPools`, `Finishing`, `AccountStore` | partly |
| account store, `storage/` | accounts, tombstones, artifacts, import fingerprints, jobs | insert, import, delete, replace session | `AccountStore` | partly |
| reauthentication, `reauth_jobs.py`, `reauthentication.py` | the running job, its items | start, stop, one login per account | `AccountStore`, `ControlPlane` | partly |
| CPA export, `cpa_export.py`, `cpa_xai/` | mint browsers and their registry, device codes, polling threads | export, mint, shut down | `CpaMint` | partly |
| protocol bridge, `proxy_bridge.py`, `proxy_protocols.py` | one child process | parse a link, start, stop | none | outcomes only |
| preflight, browser runtime, configuration, frontend, release tooling | little or none | | none | not modelled |

How they interact:

* The command line or `/api/start` calls `run_registration_common` in one thread;
  it runs `run_batch` itself or in worker threads, each with its share of the
  accounts. Workers report through an observer under a lock.
* `run_batch` calls the proxy pool (`begin_registration_slot`,
  `end_registration_slot`), the browser operations and the mailbox in the worker's
  thread; the stage of the thread is a thread-local mark that the operations set
  and the exception handlers of the batch loop read.
* The proxy pool starts local runtimes through the runtime manager, outside its
  own lock, and probes nodes in background threads.
* `persist_account_result` screens a session, writes the account to SQLite and
  the TXT line, or else the pending queue, publishes the token in the pools, exports
  the credential and writes the outcomes to the row.
* Every web request that opens the database imports changed TXT files and
  queues first, in its own thread, while a job may be rewriting them.
* Requests, the job's threads and the maintenance operations share one dictionary
  of configuration, one controller and one slot for the running task.
* The commands `retry-pending` and the recovery of the quarantine are processes of
  their own; file locks are all they share with the web process.

What is hard in it: threads that act on what they read before an unlock
(capacity, descriptors, cache entries, import lines, the row of a job); retries
whose safety depends on how far a form got; batches of several files and tables
that may fail or be killed between two writes; cursors that must not pass a mail
that was not read; one browser that serves one account after another; deadlines
over loops; gates that are checked in one place and used in another.
`PROJECT.json` lists each of these hazards at its line with the properties that
would catch it.

What makes each component correct:

* proxy pool: slots are counted exactly across failures and refreshes, the
  capacity holds, the nodes on offer are those last listed, acquiring ends;
* runtimes: exact references, nothing leased is stopped, nothing is left
  running, no lost wake-up;
* flow: counters tell what happened, a confirmed account is never registered
  twice, what was submitted is not replayed but for the cases of section 4, a
  returned mailbox was not used,
  the batch ends;
* runs and control plane: progress never goes back, a finished row is true and
  final, a run keeps its configuration, a stop request finds its job, the interface
  does not stay locked;
* mail: an old code is not taken for a new one, a new one is not skipped and is
  found in time, a token is given up only after it had time to be accepted;
* Outlook pool: one attempt per account, no reuse after submission, no session
  left open;
* finishing an account: a denied account is recorded once and never published,
  a row tells the truth about the pools, no token is lost from a pool;
* CPA export: a credential has its own account's token, no browser is lost,
  a cancelled mint ends;
* account store: removed accounts stay removed, saved accounts are not lost,
  skipped files are really imported, tasks exclude each other, a session is
  stored under its own email.

## 2. The modules

Each module of a name `XProofs` extends the module X with theorems (section 5);
`RegistrationFlowProofs` is about `RegistrationMailboxes`, and so about `OutlookPool`,
too. Each `MCX` gives X its small sets and its symmetry.

### LeasePool, ProxyPool

`LeasePool` is the promise to the workers: at most one slot each, at most
`Capacity` slots of a node out. `ProxyPool` is the manager. Each action is one
critical section of `ProxyPoolManager._lock`; starting a runtime, probing and
loading a source are the gaps between two actions.

| Action | Code |
|---|---|
| `LoadSources`, `InstallNodes` | `_refresh_source`, `_reload_sources_locked` under the refresh gate |
| `BeginAcquire`, `Select`, `GiveUp`, `CancelWait`, `DeadlinePasses` | the loop of `acquire` |
| `ResolveOk`, `ResolveFails` | `_resolve_node_endpoint`, `_rollback_runtime_failure` |
| `ReportSuccess`, `ReportConfiguration`, `ReportTransport`, `ReportSuspected` | `report_*` as called by `end_registration_slot` |
| `Release` | `release` |
| `FailureProbe`, `ApplyPenalty`, `StartSweep`, `SweepProbe` | `_schedule_failure_probe.runner`, `probe_all` |

Abstracted: any eligible node may be chosen (the tiers and scores only order
them), a cooldown ends at any moment, and health is not a number.

### ProtocolRuntime

`Round` is one pass of `_acquire_runtime_entry` under the condition: clean up,
then take the entry, wait, or become the starter. `StopStale` is the stop outside
the lock, `StartOk`, `Install` and `Finish` the starter's later steps, `Release`,
`CleanupIdle` and `Shutdown` the other public calls. A process may die and an
idle time elapse at any moment.

### RegistrationFlow

One worker's batch. `pc` is the operation, `stage` the mark, `failure` the class
of the exception in flight. Each browser operation may succeed or raise at the
places where the code raises, with the mark it has by then; a click whose script
raised may or may not have reached the site. `sent` is a history of what did.
`HandleFailure` is the chain of except branches with
`registration_retry_disposition`. `rows` counts the attempts handed to
`record_attempt`; that its own write may fail with a logged message is left out.

### RegistrationRun, ControlPlane

`RegistrationRun` takes one attempt of `RegistrationFlow` as a step with an outcome
and models everything around it.

| Action | Code |
|---|---|
| `BeginRun`, `CreateRow`, `Prepare`, `FinishRow`, `RecordFailure`, `Return` | `run_registration_common` from the row's creation to its last status |
| `Split`, `Collect`, `CloseBatch` | `run_parallel_batch`: shares, futures, the aggregated result |
| `StartAttempt`, `EndAttempt`, `RetrySlot`, `Reject`, `LeaveLoop`, `Leave` | one worker's `run_batch` and its end |
| `Observe`, `Publish` | the observer: add up under the lock, then tell row and front end |
| `Interrupt` | Ctrl+C on the command line |

`ControlPlane` extends it with the requests of the web interface: `Start`, `Run`,
`ReadController` and `StopController` (a stop request reads the controller under the
lock and uses it afterwards), `EditFile`, `PutConfig`, `GetConfig`, the maintenance
request (`BeginCheck`, `LoadForCheck`, `EndCheck`) and `start_reauthentication`
with its job (`BeginReauth`, `LoadForReauth`, `FailReauth`, `StartManager`,
`AnswerReauth`, `FinishJob`). `loop` is the event loop, which runs one `async def`
handler at a time; ordinary handlers and threads interleave with it.

### OutlookCodes, MailPolling, MailCodes

`OutlookCodes` is a mailbox with the server behind it. Mail is delivered, moved between
folders (a new UID, the same id and time) or renumbered (a new `UIDVALIDITY`); the
client takes its baselines (`BaselineImap`, `BaselineGraph`), the address is submitted,
and rounds read each folder through IMAP (`SearchImap`, `FetchImap`; `SkipFolder` when it
cannot be selected), then through Graph (`RefreshToken`, `ListGraph`, `DetailGraph`),
one request per action, with failures in between
that leave the channel for the next round or end it. `MailPolling` is the loop over a
mail API in seconds: letters arrive late, are filled in after they were listed, or
are for somebody else; `Read` keeps the backoff of the detail requests; `Rejected` and
`TryAgain` wait until a public token is accepted; `Preflight` does so before the
registration. `MailCodes` is the choice of the provider, over both. A request takes
no time, and a folder fits the pages the code reads.

### OutlookPool

The pool's lock and the registry's lock make two families of actions: `Take`
and `GiveBack` for the pool, `BeginAcquire`, `Register`, `ReleaseBeforeSubmit`,
`BeginRead` and `Close` for the registry; `Prepare` and `EndRead` are the work
between them. `Submit`, `MayRelease` and `AbandonSubmitted` model the caller in
`registration_browser.py`.

### RegistrationMailboxes

The batch of one worker, `Self`, with the mailboxes it uses. `provider` is the
configured mail service: with `outlook` they come from the pool of the task, which
the other workers use at the same time; any other service makes one for each
request. A call of the flow that uses the mailbox is one step of both modules, taken
when the call ends; what the pool does before, outside its locks, leaves the flow
where it is.

| Action | Code |
|---|---|
| `AskForMailbox`, `MailboxAnswer` | `get_email_and_token`, called by `fill_email_and_submit` |
| `FillForm`, `ReturnToPool` | `_fill_email_form`, then the `finally` that asks for the stage mark and calls `release_email_lease` |
| `OpenMailbox`, `ReadMailbox` | `get_oai_code`, called by `fill_code_and_submit` |
| `LeaveMailbox` | the attempt ends with a handle nobody read |
| `OtherOperation` | every other operation of the flow |
| `OtherStep` | the other workers, the end of the task (`run_registration_common`), the stop button |

### ConfirmedAccounts, RiskQuarantine, TokenPools, Finishing

`Finishing` composes the parts of `persist_account_result`, one worker per account.
`RiskQuarantine` screens the account: `Inspect` reads the page, `Quarantine` appends to
the quarantine file, `QueuePending` to the pending file when that failed;
`StartRecovery`, `RecoverRow` and `EndRecovery` are the recovery under the lock of the
pending file, `KillRecovery` its death. `TokenPools` publishes: `ReadLocal` and
`ReplaceLocal` on the local file under its lock, `GetAdminToken`, `Send`, `Import`,
`AddToken` and `SavePool` on the server, whose version decides which of them exist,
with a shared admin token that the server may revoke and other clients of the same
pool. `Finishing` adds the row, the queue, the status columns and a crash of the
process at any step.

### CpaMint

One worker at a time exports one account: a device code is requested, a browser
approves it under the account's session, a thread polls for the token. `Acquire` and
`Replace` keep one browser per worker, recycled after `RecycleEvery` accounts or when
the proxy changed, and may fail to start one or to close it again; `InjectCookies`,
`LogIn`, `Allow` and `BrowserFails` are the page, `PollCheck` and `PollAnswer` the
thread, `EndMint`, `Leave` and `WriteCredential` the end, `RequestStop` and `Shutdown`
the batch's. Left out: bridges, the registration browser as the mint browser
(`force_standalone` has its default), and the time-out of the join after an approval,
which the code grants 45 seconds more.

### AccountStore

The table with its tombstones and TXT artifacts, three files (the export of a
batch, `accounts_reauthenticated.txt`, a pending queue), and every task that
changes them. One transaction or one write under a file's lock is one action.

| Action | Code |
|---|---|
| `ReadFile`, `InsertRecords`, `AttachSource`, `RecordImport`, `AbortImport` | `import_legacy_directory`; the first three under the file's lock |
| `StartRegistration`, `Persist`, `ExportLine`, `EndRegistration` | `/api/start`, `persist_account_result`, `persist_account`, the end of `_run_job` |
| `CheckDelete`, `Delete` | `_require_account_edits_idle`, then `delete_accounts` |
| `StartReauth`, `CreateJob`, `NextAccount`, `Login`, `StoreSession`, `RestoreExport`, `FinishAccount`, `EndJob`, `StopReauth` | `start_reauthentication`, `ReauthManager` |
| `AppendPending`, `RewritePending`, `KillRetry` | `retry_pending_file` and its death in between |
| `Restart` | the web process dies and starts again |

An account is its identity, the email and the session. Row ids are given out as
SQLite does for `INTEGER PRIMARY KEY`: one more than the largest in use, so the
id of a deleted last row returns. A file's fingerprint is whether the file
differs from what was recorded; `fresh` of an importer says that nobody wrote
the file since it read it. `past` and `saved` are histories for the properties.

## 3. The runs

| Run | Bounds | Checks |
|---|---|---|
| `pool_sources` | 2 nodes (one rotating), 2 sources, 2 workers, capacity 2 | `SlotsAccounted`, `PoolMatchesSources` |
| `pool_leases` | 1 node, 3 workers, capacity 2, fallback, sweeps | `CapacityRespected`, refinement `LeasesSpec`, liveness `AcquireEnds` |
| `runtimes` | 3 threads, 2 nodes, 3 processes, cache of 1, with and without idle time | references, stops, leftovers, waiters |
| `batch` | 2 accounts, 1 slot retry, 2 mailboxes per lease, lost tabs; Outlook or another provider, 2 mailboxes in the pool, 2 more workers | `CountersMatchRows`, `ConfirmedNeverReplayed`, `ReturnedMailboxesUnused`, `ReplayNeedsRestart`, `OneUser`, `SubmittedNotReused`, `NoSessionLeft`, liveness `BatchEnds` |
| `replay_after_lost_tabs` | 1 account, 1 retry, 1 mailbox | violates `CodeNeverReplayed` |
| `replay_after_failed_restart` | 1 account, 1 retry, 2 mailboxes, no lost tabs | violates `AddressNeverReplayed` |
| `control` | 2 worker threads, 3 accounts, 1 slot retry, 2 configurations, 2 reauthentication requests | `ProgressForward`, `FinishedRowTrue`, `FinishedRowStays`, `ConfigFrozen`, `StopFindsReauth`, `MaintenanceHeld` |
| `console_interrupt` | 2 worker threads, 3 accounts, 1 slot retry | violates `InterruptStops` |
| `mail` | 2 folders, 1 old mail, 1 without a code, 2 codes, 2 UIDs per folder; 2 letters, 75 seconds | `OldCodeOnlyByMove`, `NothingSkipped`, `CodeFoundInTime`, `DeniedOnlyAfterConvergence` |
| `finishing` | 2 accounts in 2 threads, pages with and without a mark, 1 old token, 1 blind recovery, 2 admin sessions | `DeniedRecorded`, `RejectedOnce`, `PublishedOnlyIfKept`, `RowsTruthful`, `TokensStay` |
| `mint` | 2 workers, 3 accounts, a browser serves 2 | `OwnCredential`, `NoBrowserLost`, liveness `CancelEndsMint` |
| `accounts` | 2 emails (one in an old TXT), 2 row ids, requests for {1} and {1,2}, 1 importing thread, sessions: 2 and 1 | `NoResurrection`, `SavedNotLost`, `SkippedFilesImported`, `OneTask`, `ForeignSessionNeedsDeletion` |

Why the bounds are enough to be interesting. *Pool:* with three workers and two slots
one worker waits while two fail and release in any order; two sources let a node leave
one and stay in the other, leave both while leased, and return. *Runtimes:* three
threads give a starter, a waiter and an evictor; a cache of one makes two nodes
compete. *Flow:* two accounts show that nothing leaks from one to the next, one retry
shows every first replay, two mailboxes the recovery under one lease. The pool of two
mailboxes runs out while the worker still needs one, and with two more workers one can
return a mailbox, one can be preparing one and the batch take what is left, while the
task is closed. *Control:* three accounts on two threads give unequal shares and two
workers that report in either order; two requests let a job end while another is
begun; runs follow one another. *Mail:* two folders let a code arrive in the folder
that was just read, or move to it; two UIDs per folder allow one move or one
renumbering of each; 75 seconds are two resends, the whole convergence time and every
delay of the backoff up to its cap. *Finishing:* two accounts compete for each file,
one can be killed while the other goes on, and two admin sessions are one revocation.
*Mint:* three accounts and recycling after two give a browser that is used again, one
that is replaced, and two workers. *Accounts:* two row ids are enough for an id to be
used again by another account while a job or a request still names it; two sessions of
one email give a replaced session to resurrect.

Bounds in the guards: `MaxId` on row ids and `MaxSession` on the sessions an
email obtains (`AddRows`, `Login`); one delete request is in flight at a time; one
account at a time is between its row and its TXT line; `MaxBlind` on recoveries
that cannot read the quarantine; `MaxLogin` on admin sessions; `MaxUid` on the UIDs of
a folder. `Browsers` of `CpaMint` bounds nothing, since an export starts one
browser at most.

Symmetry is used where no liveness is checked: workers and sources in `pool_sources`,
threads, nodes and processes in `runtimes`, accounts in `finishing`, letters in
`mail`. The code treats their members alike in each case. Deadlock is checked except
where the program ends: `batch` and the two violation runs of the flow, `finishing`,
`mint` and `mail`.

Fairness. `ProxyPool!FairSpec` is weak fairness of each worker's acquire loop and
of its deadline: the loop waits at most a second at a time and the deadline is a
point on the clock. It does not assume that a lease is ever released, a
probe ever made or a source ever refreshed. `RegistrationMailboxes!BatchSpec`
has weak fairness of the worker's next step: each operation, and each call of the
mail service, has a deadline or a bounded number of tries. Nothing is asked of the
other workers of the pool. `CpaMint!FairSpec` is weak fairness of each worker and of each
polling thread: every page operation and request has a time-out. No fairness is
assumed for stop requests, for other clients or for xAI.

## 4. What disagrees with the documentation

* `replay_after_lost_tabs`: `refresh_active_page` restarts a browser that lost its
  tabs after the code was submitted; the restart marks `browser_start`, a safe
  stage, and the account is registered again (`docs/proxy-pool.en.md:106`).
* `console_interrupt`: Ctrl+C on the command line is turned into a stop request only
  after the pool of worker threads has been waited for, so that workers go on to their
  next accounts after it was pressed.

* `replay_after_failed_restart`: no code comes, and the browser is to be restarted
  for the next mailbox under the same lease. `register_one_account` sets `code_wait`
  before the restart, with the comment that a restart which fails must not be taken
  for a safe point (`registration_flow.py:237`, also `docs/proxy-pool.en.md:10` and
  `:105`, `README.en.md:518`); but `start_browser` marks `browser_start` first
  (`registration_browser.py:250`), so the failure is `SAFE_NEW_LEASE` and the account
  whose address was submitted is registered again under another lease.

`PROJECT.json` quotes the lines. What the flow still promises is
`ReplayNeedsRestart`, which `batch` checks and `ReplaysHaveReason` proves: an account of
which something was submitted is replayed in three cases and no other. They are the
lost tabs and the failed restart above (`LostTabs`, `FailedRecovery`), and a restart that
succeeds and a next mailbox that fails before it is submitted (`NextMailboxFailed`): its
`page_open` hides what the mailbox before it submitted (`registration_flow.py:217`,
`docs/proxy-pool.en.md:10`), a second way in which `AddressNeverReplayed` is violated.

Smaller differences met on the way, which no run records: a configuration error
disables a node and the transient runtime failure of another lease of it enables it
again (`proxy_pool_v3.py:609`, `docs/proxy-pool.en.md:299`); the limit of the idle
runtime cache holds at acquisitions only (`proxy_protocol_runtime.py:306`,
`docs/proxy-pool.en.md:166`); a delete request that passed its check before a job
began removes an account of the job, whose item then stays pending
(`storage/database.py:631`, `docs/reauthentication.md:25`).

## 5. What is proved

The proofs hold for any sets of nodes, workers, threads, sources, accounts, folders
and mails and any bounds that satisfy the named assumptions of the modules. They state
every invariant and every action property of the passing runs; each inductive
invariant was model-checked in the bounds of its run before it was proved.

`ProxyPoolProofs`, from `ConstantsAssumption` (finitely many workers, a positive
capacity, `NoNode` outside `Nodes`):

* `PoolInvariant`: `Spec => []PoolInv`. `PoolInv` is the type invariant with three
  facts: a worker occupies a slot exactly in the phases resolving, holding and
  releasing (`SlotPhases`), `inflight` is the number of occupants and nodes that
  left the map have none (`SlotsAccounted`), and no node has more than
  `Capacity` occupants. The capacity alone is not inductive: `Select` tests the
  counter, so the counter must be exact, and it is exact only because a slot is
  given back once, which the phases say, and because a refresh keeps nodes with
  slots out. One step per action; the counting rests on lemmas about adding
  one worker to, or removing one from, a finite set.
* `Accounting`, `CapacityNeverExceeded`, `TypeCorrect`: its parts.
* `PoolFollowsSources`: `Spec => []PoolMatchesSources`. A refresh installs what it
  has just loaded, and every other step changes no membership but that of a
  drained node whose last slot is given back, which no source lists.
* `ManagerImplementsLeases`: `Spec => LeasesSpec`, every step of the manager is a
  `Take`, a `Return` or a stutter of `LeasePool` with `holder <- on`.

`ProtocolRuntimeProofs`, from `RuntimeAssumption` (finitely many threads and
processes): `RefsCountHolders`, `LeasesAreSafe`, `NoOrphans`, `WakeUpsNotLost`, the four
properties of `runtimes`, from `CacheInv`. It says where an entry can be: cached at one
node and nowhere else (`Places`), with a thread that will stop it (`Taken`), or
being installed by its one starter, unknown to everybody else (`Installing`). A
reference count is exact only because a thread that holds a cached entry holds the
one at its own node, which is what `release` looks up. `NoOrphans` needs that no
thread installs over a cached entry: before a shutdown every starter has its node
marked and no other starter has that node (`OneStarter`). `WakeUpsNotLost` holds after
a shutdown too, because a mark always has a starter (`Marks`).

`RegistrationFlowProofs`, the batch from `FlowAssumption`: `FlowInvariant` and its
consequences `CountersAgree`, `ConfirmedOnce`, `ReturnedAreUnused` and `ReplaysHaveReason`.
`FlowInv` has the stage mark under which each operation works (`FlowShapes` with
`StageOf`), because what a failure is counted as, and whether it is retried, depends on the
mark it leaves; that an account which exists is about to be counted
(`ConfirmedCounted`); what can have been submitted under a first lease (`FirstLease`),
without which a later replay could not be told from a first one; and that a mailbox in
hand before its address is sent is unused (`UnusedMailbox`). `Tallied` says which rows
each counter counts, and that a batch ends at its first fatal or cancelled attempt.

The same module, the batch with its mailboxes from `SelfAssumption`: `BatchIsFlow` and
`BatchIsPoolUser`, `BatchSpec => Spec` and `BatchSpec => MailboxSpec`. All that is proved of
the flow and of the pool therefore holds when they are put together as `batch` checks
them.

The same module, the pool of mailboxes from `PoolAssumption`:

* `MailboxInvariant` (`AccountInv`, the types with `PhaseMine`, `OneUser` and
  `SubmittedNotReused`), and its parts `OneUserEach` and `NeverReused`. Neither property
  is inductive without the other: that a submitted account is not offered again
  follows from its not being on offer while in use.
* `SessionsClosed`: `MailboxSpec => []NoSessionLeft`, from `SessionsOwned`: a session is open
  for a live handle, or for a worker that must still close it or hand it over. The
  second case is the one that matters: a runtime may be closed while an IMAP login is
  under way, and the worker finds out afterwards.

`AccountStoreProofs`, from `StoreAssumption`:

* `StoreInvariant`: `Spec => []StoreInv`. What left the table is under a tombstone
  and no tombstone is in the table (`Buried`). That alone is not inductive:
  replacing a session could give a row an identity some tombstone names, or one
  that another row has. It cannot, because the session a job is about to store
  occurs in no row, tombstone, file, queue or half-read import yet (`NewSession`),
  which holds since all of those only have sessions xAI issued before
  (`SessionsIssued`). Rows are distinct (`DistinctRows`), so deleting one removes
  its identity from the table. `Known` collects the places an identity can come
  from; most steps make nothing known, and one lemma (`NothingNew`) covers them.
* `RemovedStaysRemoved`: `Spec => []NoResurrection`, a consequence.
* `TasksExclude`: `Spec => []OneTask`, from the fact that a job that runs is the
  web's maintenance and found no registration when it started.
* `ForeignNeedsDeletion`: `Spec => ForeignSessionNeedsDeletion`. Until one of the rows a job
  has read is deleted, the rows under those numbers are the accounts it has read
  (`JobTrue`); afterwards a number may belong to someone else.
* `SkippedHasNothing`: `Spec => []SkippedFilesImported`, from `FileInv`: who holds the lock of
  each file (`Locked`), and what an importer knows of it: that it holds what was read,
  and, once that is in the table, nothing left to import, unless it was written
  since (`ReadersTrue`).
* `SavedIsKept`: `Spec => []SavedNotLost`, from `SavedInv`. A registration's session is the
  first one of its email (`FirstSessions`), and a job takes a line with that session
  out of a file only after the table has replaced it (`ReplacedIsPast`); what retry-pending drops
  from the queue is in the TXT file or is kept (`Moved`).

`FinishingProofs`, from `AccountsAssumption`, `RiskAssumption` and `PoolsAssumption`:
`DeniedStaysRecorded`, `RecoveryIdempotent`, `PublishedIsKept`, `RowsTellTheTruth` and
`TokensAreKept`, all five properties of `finishing`. Three invariants carry them. The
rows a recovery has yet to move are in the pending file, and what it has seen of
the quarantine is still there. Who holds the lock of the local file has read what is
in it. A token is in a pool only of an account that passed the gate and was saved or
queued, and a status is written from results that were true when they were made,
which no later step can undo, because tokens stay.

`CpaMintProofs`, from `MintAssumption`: `CredentialIsOwn` and `BrowsersAccounted`, from
`MintInv`: whatever a polling thread may still put into the box is the token of the
account that approved the code, and this is the account of the worker as long as the
box is its own; a browser that runs belongs to the registry, or could not be closed.

`ControlPlaneProofs`, from `RunAssumption` and `ControlAssumption`:

* `InterfaceNotLocked`, `StopReachesJob`, `RunKeepsConfig`: `GateInv` says that the gate lets
  one of registration, check and reauthentication through, so that a request that
  has begun, or a thread that is alive, is the only one.
* `FinalRowIsFinal`: `RowInv` says that no worker is active once the row is being finished.
* `RowIsTrue`, `ProgressNeverBack`: `CountInv`. What was published is never ahead of the
  snapshots, and a snapshot never ahead of its worker's tally, with which it agrees
  once the worker has left (`Behind`). A total that a worker is about to publish is no
  less than the published one, because the callback runs under a lock and a serial
  batch has one worker (`Serial`, `Publishing`). Why a worker left its loop
  (`LeftForReason`) is what "completed" and "cancelled" report. The sums over workers are
  recursive functions on 0..MaxThreads; that such a function exists, and that a sum
  grows when its terms do (`SumsExist`, `SumGrows`), is derived from the
  well-foundedness of the order of the numbers.
* `ConsoleRowIsTrue`: the same of the command line, `ConsoleSpec => []FinishedRowTrue`,
  where Ctrl+C may break a serial attempt off.

`MailCodesProofs`, from `OutlookAssumption`: `OldCodesStayBehind` and `NewCodesStayAhead`,
for any folders, mails and UIDs, from `OutlookInv`. UIDs and times are given in order
and no cursor is ahead of them (`Numbering`); old mail is behind the IMAP cursor of
its folder while the `UIDVALIDITY` is the same (`OldBehind`). Both properties fail to be
inductive in the middle of a folder: while the mails it listed are fetched one by
one, a code among them must still be among those left (`Fetching`, `Reading`), and one that
arrived meanwhile must be newer than all that were listed. That a set of bounded
numbers has a largest is derived from the well-foundedness of their order.

The same module, the mail APIs from `PollingAssumption`: `ReadableCodeIsFound` and
`TokenGivenTime`, for any letters, offsets and timings, from `PollInv`. How long a letter
has been readable, together with the time until its detail may be requested again, is
at most the longest delay since `now` (`Backoff`), and a letter that a round has passed
over was not due yet (`PassedOver`); the delays are powers of two, of which only
the cap is needed. While a rejected public token is being retried, the last of the
requests that are left is late enough to give up after it (`Waiting`), which the
preflight and the recovery have in common although one waits for the whole
convergence time and the other at most for what is left of the wait for the code.

Only model-checked: the liveness properties `AcquireEnds`, `BatchEnds` and
`CancelEndsMint`, since the prover has no rule for fairness. The statements of the
documentation that the program does not keep, `CodeNeverReplayed`,
`AddressNeverReplayed` and `InterruptStops`, are refuted by TLC.

## 6. Not modelled, and why

* Proxy pool: health, score tiers and growing cooldowns as numbers, the health file
  and the replacement of the singleton manager (`proxy_pool_v3.py:926`); that at most
  one failure probe per node runs (`:844`).
* Flow: a report of a suspected transport failure that itself raises
  (`registration_flow.py:557`); what a page looks like.
* Runtimes: after a shutdown nothing is promised of the processes. A thread that was
  starting a runtime installs it into the cleared cache, where nobody stops it
  (`proxy_protocol_runtime.py:352`); `NoneLeftBehind` and `LeasedNotStopped` end with the
  shutdown, and only `WaitersHaveStarter` goes beyond it.
* Outlook pool: the rotation of refresh tokens over the credential file
  (`outlook_mailbox_pool.py:411`), the moment when the pool looks exhausted while an
  account is about to come back (`:269`).
* Reauthentication: a login opens a browser of its own and is taken to end with a
  session xAI has just issued, so that a replaced session equal to the new one, which
  gets no tombstone (`storage/database.py:701`), does not come about.
* Storage: schema migrations, rows left `running` by a process that died
  (`storage/database.py:610`), a line appended only in part
  (`account_outputs.py:19`).
* Mail: the clocks of the host and of Graph are one. The code compares the time a mail
  was received with the host's clock less 15 seconds (`outlook_mail.py:674`, `:846`); a
  host that is ahead of Graph by more than the time a code takes to arrive and those
  15 seconds would skip it, one that is behind would let older mail pass, and
  `NothingSkipped` and `OldCodeOnlyByMove` say nothing of them.
* Mail: the creation of addresses, the rotation of domains, the parsing of mails and
  codes, paging, the debugging client.
* CPA: an error of the browser flow after which the polling thread alone decides
  (`cpa_xai/browser_confirm.py:654`). Of the errors that are raised only "page is None"
  is one, and the page has just been acquired.
* CPA: bridges, protocol-level login, the shape of the credential.
* Web: static files, log streams, lists and exports, which only read.
* The bridge, preflight, browser start, configuration, frontend and release tooling:
  stateless, or one process each whose start and stop are outcomes elsewhere.

A partial write of a line, a clock that goes back and a disk that loses a renamed
file are outside all models.

## 7. Plan

The parts listed as modelled or partly modelled above are done. What would come
next, in this order:

1. `ProxyFeedback`: failure counts and cooldowns as numbers, the dropped failure
   probe, the choice among tiers against a reference definition.
2. The rotation of Outlook refresh tokens: compare and swap on the credential file.
3. Abstract specifications for more components: what `acquire` and `release` promise of
   a runtime, and what the accounts table with its files promises of an account, each
   with a refinement like that of `LeasePool`.
