# TG-SignPulse: a TLA+ specification of its core

TG-SignPulse runs Telegram accounts for their owner: it executes sign-in tasks by hand and by
schedule, listens for keywords, asks a semantic service for decisions, pushes notifications,
and keeps accounts, sessions, history and backups on one disk. The backend is **one asyncio
event loop** (FastAPI, one worker), the thread pool that FastAPI uses for its synchronous
routes, and files; nearly every hard behaviour comes from coroutines that interleave at their
awaits, from cancellation at any of these awaits, and from the few threads beside the loop.

This directory models that core, checks it with TLC, and proves its main safety properties
with TLAPS. Paths below are relative to the repository (`backend/`, `tg_signer/`).

## 1. Inventory

| Component | State | Operations | Hard behaviour | What makes it correct |
|---|---|---|---|---|
| Sign task runs (`services/sign_tasks.py`) | `_active_tasks`, `_background_run_tasks`, `_run_statuses`, cleanup timers, `_draining` | start_task_run, run_task_with_logs, cancel_task_run (pool thread), drain | duplicates, a cancel before, during and after the run, a drain over a snapshot | one run per task; the handle, the status and the history belong to the right run |
| Runner (`services/sign_task_runner.py`) | one context per run: phase, lease, outcome | admission, lock, cooldown, execution with retries, error handling, history, notification, finalizer | CancelledError at any await | no path leaks the lock or the active flag; history, or an error in the run's event, tells what happened |
| Account locks (`utils/account_locks.py`) | one `asyncio.Lock` per account, found by two weak tables; leases, `_HELD_ACCOUNT_NAMES` | acquire, release by the owner, several in order, force_release | lock held across requests (login), re-entry, renames of an account while something waits | one user of an account session at a time; no deadlock |
| Keyword monitor (`services/keyword_monitor/`) | `_handler_refs`, `_rules`, `_active_key`, `_lock`, seen watermark | restart_from_tasks, stop, message handling | restarts that overlap with stops, failures half way | one listener per account, none forgotten, the last edit wins, every restart ends; no message is acted on twice |
| Account lifecycle (`services/account_lifecycle.py`) | staging directory, snapshots, `_change_lock` | preview, apply (rename, delete), rollback | holds account locks while it restarts the monitor; partial failure | files never move under an open client; all or nothing |
| Client registry (`tg_signer/core/client.py`) | `_CLIENT_INSTANCES`, `_CLIENT_REFS`, locks per loop | get, `__aenter__`, `__aexit__`, close by name | forced close against counted exits | a client closes with its last user |
| Semantic breaker and client (`tg_signer/semantic/`) | state, failures, generation, probe flag; leases | acquire, record, release; query_choice | late answers, cancelled probes | one probe, late answers change nothing, never stuck half open |
| Semantic service (`tg_signer/semantic/service.py`) | budgets per run and minute, semaphore, cache | evaluate, finish_run | check and consume around awaits | budgets hold |
| Notification outbox (`services/notification_outbox.py`) | one SQLite row per notice and channel | enqueue, deliver (two transactions), reconcile | crash between the transactions, lost answers, full table | at most one acceptance; receipts do not lie |
| Background jobs (`services/background_job.py`, `account_status_jobs.py`) | job in memory and on disk, its asyncio task | start, progress, cancel (pool thread), restart | cancel races completion; crash | one active job; final is final |
| Logins (`services/telegram/login_*.py`) | sessions with client, lock and lease | start, verify, QR poll, expiry | requests hand a lock on; takeover of residues | nobody's lock is released by another |
| Task configurations (`services/sign_task_crud.py`, `scheduler/`) | one file per account, cache, tombstones, jobs | create, update, delete, toggle, list, expand `*`, sync | pool threads beside the synchronisation of the jobs | the jobs are those of the enabled copies |
| History (`services/sign_task_history_*.py`) | one file per task, an index | append, trim, rebuild | pool threads beside the loop; files have locks, the index has none; crash | no recorded run is lost; index and files agree, or do after a rebuild |
| Scheduler (`scheduler/`) | APScheduler jobs, compensations, cooldowns, file lock | sync_jobs, fire, draw a moment, compensate, reschedule, edit | synchronisations, edits and restarts between a plan and its moment; several processes on one data directory | the run of a window is neither lost nor moved out of it; one process schedules |
| Log streams, history events (`task_log_broadcaster.py`, `sign_history_events.py`) | subscribers, ring buffers, counters | subscribe with replay, publish from threads | replay against publication, overflow | order; losses are counted |
| Stream tickets, TTL cache | tickets, expiry | issue, consume | concurrent consumption | redeemed once |
| Proxy breaker (`proxy_circuit_breaker.py`) | state file shared by processes, memory of each, probe lease | get_state, record, is_available | late results, lost updates between processes, a file that is torn or cannot be read | a proxy that tripped is used again only after a success, unless the trip is lost from the file |
| Flood backoff, keepalive | cooldown per account | record, check | overlapping cooldowns | never shorter than the longest |
| Rate limits, auth (`core/`) | bounded buckets | hit, block, prune | pruning under load | a blocked key stays blocked |
| Plugins (`tg_signer/core/plugin_*.py`, `services/plugins.py`) | worker processes, pending requests; directories, files and backups of plugins | call, crash, kill; install, update, upload, edit, remove | result, exit, timeout and cancel race; a stop between two file operations | counted once, nothing begins after the end; an update never loses the old version |
| Flow engine (`tg_signer/core/flow_*.py`) | node states, receipts, event bus | step, retry, cancel, wait for an answer | three layers that retry what may have happened; lost events | unknown operations are not replayed; a success is an answer |
| Restore, backup (`api/routes/ops.py`, `webdav_client.py`) | archives, staging and old directory, the stopped services, the maintenance flag | stage, wait for requests, stop, swap, start, roll back | requests during the swap; a failure or a stop between two moves | nobody has the data open while it moves; it comes back as a whole |
| Signer: actions, matchers (`tg_signer/core/signer_*.py`) | cache of the chat's messages, flow attempt, last successful step | send, click, solve; retry a step, retry a flow | answers that come at once, late or never; old successes in the chat; cancellation between two buttons | a success is a new one; no step that is done is done again |
| AI tools, config, routes, frontend, CLI | | | mostly I/O and data | |

How they meet: a scheduled, manual or ChatOps trigger starts a **run**; the run refreshes the
**keyword monitor**, takes the **account lock**, uses the shared **client**, may ask the
**semantic service**, writes **history**, publishes **logs**, sends its notice through the
**outbox**. **Account changes** and **restore** stop all of that, change files and start it
again. `PROJECT.json` lists every component with its status and every hazard with its line.

## 2. What is modelled

| Module | Models | Abstract specification | Proofs |
|---|---|---|---|
| `SignTaskRun` | run manager, runner, account locks, statuses, drain | `AccountExecution` | `RunProofs` |
| `SemanticBreaker` | breaker, leases, how query_choice reports | `BreakerContract` | `SemanticBreakerProofs` |
| `NotificationOutbox` | outbox, send over HTTP, provider, operator, crash | `DeliveryLedger` | `NotificationOutboxProofs` |
| `KeywordMonitor` | restarts, stops, account changes, sign runs around the listeners | | `KeywordMonitorProofs` |
| `LoginSession` | logins by phone and QR as holders of account locks, beside sign runs | | `AccountProofs` |
| `BackgroundJob` | batch checks: memory, file, coroutine, cancel thread, restart | | `ServiceProofs` |
| `ClientRegistry` | the shared client: cache, count, lock, close by name | | `ServiceProofs` |
| `AccountChange` | the files of a rename or delete, rollback, crash | | `FileProofs` |
| `TaskConfigs` | copies, tombstones, cached list and jobs of a shared task | | `FileProofs` |
| `LogStream` | the live log of a run and its web socket | | `MessageProofs` |
| `FlowOperation` | retries of a flow's nodes and the operation receipts | | `MessageProofs` |
| `FlowReply` | the event bus and the wait for the bot's answer | | `MessageProofs` |
| `PluginHost` | one execution of a plugin in its process | | `ServiceProofs` |
| `PluginCatalog` | the plugins on disk and in the registry | | `FileProofs` |
| `ProxyBreaker` | the circuit breaker of a proxy in its shared file | | `ServiceProofs` |
| `BackupRestore` | the online restore of a backup: directories, services, requests, rollback | | `FileProofs` |
| `RunHistory` | history files, their index and its cache | | `FileProofs` |
| `MonitorMessages` | how the keyword monitor recognises messages it has had: watermark, window, file | | `MessageProofs` |
| `RangeSchedule` | the jobs of one task: cron, one-shot, compensation, cooldown | | `RunProofs` |
| `RunChain` | the cooldown between the runs of an account, and the tasks they chain | | `RunProofs` |
| `AccountLocks` | the lock objects of the accounts and the two tables that find them, through renames and deletes | | `AccountProofs` |
| `BotConversation` | the actions of a chat, their retries, the handler and the history of the chat | | `MessageProofs` |

`MC*` modules declare the model values and functions of the instances; each `.cfg` is one run.
`MCProgress`, `MCServices` and `MCOperations` check several components in one run: they share no variable, so a
behaviour of such a module chooses a `component` in its initial state, takes the steps of that
one and leaves the others at one initial state. The states of such a run are the union of the
states of its components, never their product; nothing is said of their composition, which
would add nothing because no component reads a variable of another. The fairness of a component is assumed in
the behaviours that chose it (`<>[](component = ...) => ...Fairness`, where `component` never
changes). Where components do share state in the program they are in one module: sign runs are
part of `SignTaskRun`, `KeywordMonitor`, `LoginSession` and `AccountLocks`, account changes of
`KeywordMonitor` and `AccountLocks`.

Definitions marked *(seeded fault)* are not part of the specifications: they are the plausible
bugs that `PROJECT.json` ("mutants") puts in place of a definition to see that a property notices.
Definitions marked *(does not hold)* are checked by no run that expects them to hold; they state what
one would wish for, and the text below says how the code breaks them.

### SignTaskRun

An action is what the loop executes between two awaits of one run, so the values of `pc` are
the awaits: `created` (not yet stepped), `checking`, `waiting` (for the lock), `cooling`,
`executing`, `erring`, `fetching`, `notifying`, `stopping`, `done`. `fresh` is the part of the
ready queue that matters: new coroutines take their first step in the order of their creation,
and one that is cancelled before it never runs any of its code. `Task.cancel()` sets
`cancelReq`; the `Cancel...` actions deliver it at the await the run is suspended at, each with
what the handlers there do (`CancelSeen`: the runner knows and writes no history; later ones are
not noticed). `cancel_task_run` is a synchronous route, so its three steps (`CancelRead`,
`CancelSend`, `CancelMark`) interleave with the loop. The drain is a snapshot of the handles, a
timeout and a resumption after a restore.

Two properties are stated by run and not by task. `StatusBelongsToActiveRun` speaks of the entry of each *run* at work: that the entry of an active task be "running"
**does not hold** while the admitted run has yet to take its first step, because two starts before it leave the second's entry,
and a cleanup timer may remove it between. `DrainLeavesNoRun` speaks of the *handles*: that the drain leave no active task **does not hold** even
with manual runs alone, because a duplicate that is refused after the run in progress has begun takes away the handle of that run, and the drain misses it
(see `SignTaskRunLostHandle`).

What a run does on Telegram is its outcome (success, failed, timeout); the cooldown is an await
of any length; logs and artifacts are left out. `RunChain` has the cooldown with a clock, and the chained tasks.
The finalizer swallows a failure of `_runner_save_run_info` (`sign_task_runner.py:1177-1196`): the run goes on to
success or failed, with no record and with the error as `persistence_error` in its event (`unsaved`; `MaxUnsaved` bounds how many
runs fail to save). `HistoryMatchesFate` says that a run which ended otherwise than cancelled has a record or is unsaved, and never both.

### SemanticBreaker

`breaker` is the state, count, generation and probe flag of `CircuitBreaker`, with a history
variable inside the record for the trial under way; `lease` is what each concurrent call holds.
`Cool` is the passing of the open period. Each way `query_choice` can end (success, failure,
error of our own, cancellation, budget exhausted) reports or releases exactly as its
`finally` blocks do. `allow_request` and `reset` are used by tests only and are not modelled.

### NotificationOutbox

One row per notice; `Claim` and `Record` are the two `BEGIN IMMEDIATE` transactions, so they are
atomic; between them the request travels (`wire`) and the provider may accept or refuse it even
when the caller has given up (`Cancel`) or died (`Crash`). The operator reconciles on evidence,
as the docstring demands: the model lets them act only when no attempt is in flight, and truly.
Retention (`Age`) makes a settled row replaceable: uniqueness is promised within the horizon.

### KeywordMonitor

Processes are executions of `restart_from_tasks`, of `stop()` alone, of
`apply_account_change_plan` and of sign runs. `lists` holds every list `_handler_refs` has
named, because a `stop()` goes on over the list it began with while others rebind the attribute;
`users` is the reference count of the client of an account; `job` is the local state of a
process. Rules are reduced to the set of accounts that have one, so `_active_key` is a set of at
most one set of accounts. The files of an account move in one step, which may also leave them
as they were (the rollback). A client that is rebuilt because it had no updates is the same
client.

### LoginSession

A login is several requests that hand on one account lock; `holder` is who took the lock last,
`owned` the leases that say "mine": `asyncio.Lock` has no owner, so a release opens the lock
whoever holds it, and the model lets it. A start sweeps expired sessions, disposes of residual
ones of its account (popping, stopping their clients and forcing their locks open), acquires with
a timeout, sends the code or shows the QR picture; the phone verification, the QR password, the
polls and the expiry watcher continue. `Forgotten` is the `WeakValueDictionary` that forgets an
unreferenced lock. `Clashes` holds the pairs of account names of which one with `_` is a prefix of the
other's session keys, `MaxStarting` bounds the starts in progress; both are as the code allows them.

Nothing serialises the starts, so two of them may look up one residual session, and the second forced release opens the lock that a sign
run, or the first start, has taken in between; so does the residual lookup of `a` that finds the sessions of `a_b`. `robbed` (history) names the flows
that have lost their lock to a takeover. `LockKept` says that this is the *only* way to lose it: no other release, time-out, expiry or clean-up opens the lock of
another one, and a lease that was robbed says "mine" without harm until it is released, when it may rob the next owner. What the comment of `start_login` promises,
`OnlyOwnLocks`, is violated (run `LoginLockForced`).

`qr` is what is known of the scan and `moved` holds the QR logins whose deadline is later than their watcher knows. A poll of a scanned login and a password request
push the deadline 300 s on, and the watcher, when it wakes, sleeps again. `QrGivesBack` therefore says: the lock of a QR login is given back, or somebody keeps moving
its deadline for ever (`KeptAlive`); polls of a code that nobody has scanned do not count. `RunGetsTurn` does not hold: an abandoned
phone login keeps its account until somebody starts another login. The tables are keyed by account and phone number; the model has one number for
each account. Polls that overlap count as one.

### BackgroundJob

`status` is the entry in memory, `saved` the file, `body` the coroutine: `created`, `checking` an
account, `sleeping` between two, `closing` and `saving` (the two halves of a final status), `ended`
(task done, its callback not yet called), `gone`. The cancel request (`request`) runs in a pool thread
and interleaves with every statement of the loop: `ReadStatus`, `WriteStatus`, `SaveJob`, `KillTask`. A
restart loses memory and coroutines and recovers the files as failed. `JobsTruthful` holds in spite of the
race; `ActiveHasBody` does not: a cancel that overwrites a final status leaves a job "canceling"
that nothing ends, and every later batch check is refused until the next restart.

### ClientRegistry

A user takes the cached client (`GetClient`), enters it (`Enter` to `Connects` or
`ConnectFails`), uses it, and exits. Everyone looks up the lock of the account when they need it,
and `close_client_by_name` replaces it: `lockId` is the lock in the table, `use[u].lock` the one a
user asked for, so that users of the old and of the new lock overlap. `SharedSafely` holds until the first
close by name; after it the count and the clients do not belong together any more (`closes = 0 =>`).
`UserIsConnected` does not hold even before: a user may take the client, be overtaken by the exit of the last
user, and meet it while `stop()` is going on.

### AccountChange

What `KeywordMonitor` has as one step, file by file: `disk` is what is at the old and at the new path
of each item, `staged` the copies, `created` the destinations that a rollback removes. A step may
fail before or after its effect, a write may tear the file, somebody else may take a destination
after the plan, and the process may stop anywhere. `ChangeIsSafe` is all or nothing for a change that
ends, and "each file is complete somewhere" for one that does not: a crash leaves the staging directory,
which nothing reads at the next start.

### TaskConfigs

Pool threads delete, update and toggle; they hold path locks where the code does. The
synchronisation is one coroutine on the loop, but each file operation in it is a step, because threads run
beside it. `unsynced` remembers that something changed since the last synchronisation began, so that
`SyncSettlesJobs` says: a synchronisation that saw the last change leaves exactly the jobs of the enabled
copies. It speaks of a quiet synchronisation only: what one leaves that meets a change is for the next one to settle. A toggle
(`Toggle`) writes its flag and fails: `set_task_enabled_for_account` calls `invalidate_tasks_cache(account_name=...)` (`sign_task_crud.py:332`), and
the only definition of that method takes no argument (`sign_tasks.py:296`), so the request ends with a `TypeError` and the job stays as it was until the next synchronisation.

### LogStream

The run publishes from the loop, a cancel request from its thread (`Store`, `PostLine`,
`DeliverPosted`); the web socket subscribes, replays the history, changes from the stream of the task to that of the
run, drops duplicates and sends. Only sequence numbers are kept of an event. A replay and the stream of a task are the history of the
broadcaster, a deque of 1000 entries (`StreamHistory`): what has left it before a subscription is neither replayed nor counted (`evicted`, a history variable), because
only the queue of a subscriber counts what it drops. `ReaderSeesAll`: no line
twice; after "done", every line but those that a full queue counted and those the history had already evicted. Deliveries one after the other leave the last
`QueueSize` entries (`Latest`), so a replay is one step; what is sent of a batch are the events that were neither sent
before nor come earlier in it (`Unsent`), in their order. The eviction of whole streams (`max_streams`, 200) is not modelled.

### FlowOperation and FlowReply

`FlowOperation`: whole-flow attempts, the retry loop of a node and the single retry of the adapter, over a chain of nodes;
`receipt` and `sideEffect` are what the layers look at before they call again, `sent` and `fate` what Telegram saw.
`SentOnce` does not hold: the timeout of the engine cancels a call, and the retry after a `TimeoutError` looks at attributes that
nothing sets; `ReplayOnlyAfterTimeout` says that this is the only way (with operations that are
marked after their answer, the constant `MarkedLate`), `UnknownReported` that a flow which ended well has told of every
operation with an unknown fate; `NoSilentReplay` is both. Conditions and variables of a graph decide which node comes next: the model
lets any guard skip a node.

`FlowReply`: messages and edits of the bot, the bounded history and queue of the bus, the watermark of the
last own message, resends. A success rests on an event after the last operation, and no event of that
attempt was missed. The events of the bot are numbered, so the history is what the numbers say (`History`, `Evicted`), and the queue the places of
what it holds. `GapReportedUnknown` does not hold: `docs/reference/architecture.md` says that a delivery gap is
reported as unknown; the node fails with it. The 300 second life of buffered events and a retry that enters the
flow at an earlier node (`retry_entry_node_id`) are not modelled.

### PluginHost and PluginCatalog

`PluginHost`: one execution, the pipe as a sequence of lines, one host task per operation. A plugin may leave
operations under way when it returns, and the process may exit at any time. `CleanupAll` is the end of the application.
`PluginCatalog`: a plugin can lie on disk twice (directory and file), the registry is what a reload found; handlers do not interleave
(they do not await after the download) but the market update is cut into its file operations, because a copy may fail and the process stop between two.
`OldVersionKept` holds; `FailedUpdateRestores` does not: a copy that fails half-way leaves the old version
in a `.bak_` directory that nothing reads. Enabling, configuration and diagnostics of plugins are not modelled.

### ProxyBreaker

The entry of a proxy in the state file (`shared`) and in the memory of each process (`recalled`), with one file lock around each access but not around the two of
`get_state`: `Ask` and `Poll` read, `Reopen` writes what the process remembers, whatever the file holds by then. The cooldown is an event, the probe lease a file lock that the
operating system releases with its process. `_load_shared_state` reads a file that is missing, torn or not JSON as `{}`, and gives up on a lock it does not
get in two seconds: each of these is `NoEntry`, or a choice in `Looks` and `RecordFailure`, and `get_state` then goes by the memory of its process. A write may fail, with the file as it was or torn
(`WriteFails`), the update of another proxy's entry may rebuild a file it cannot read (`Rebuilt`), and a process may stop at any time, in the middle of a write too, and start again with an empty memory
(`ProcessStops`).

So the breaker fails **open** where nothing is known any more: a new process with an unreadable file is healthy. `trips`, `cooled`, `tripped`, `aware` and `entryLost` are
history variables that say when. `FailsClosed` speaks of the processes that have recorded or read the last trip since they started (`aware`), while that trip has not been torn out of the file or
overwritten unread (`entryLost`): they let no call through before a success, and begin no probe before a full cooldown, whatever the file does to their reads. It is checked for three calls of two processes;
the file may be there from an earlier run, with two failures counted. The cache of probe results is not modelled.

### BackupRestore

`place` tells which entries are in the data, staging, old and failed directories; `swap` is the step of
`_activate_staged_restore`, `running` the services, `moved` and `healthy` its variables. In the initial state the
directory can be renamed (two renames) or is a mount point, whose entries `_swap_dir_contents` moves one by one
(`renames`). Any step may fail or be cancelled, a rollback too, and the process may stop between any two
(`CrashDuringRestore`). The other requests are counted as the middleware does; sign runs begin only while they are admitted.
`RestoreIsSafe` is three statements: entries move only while nothing runs and no other request is served; whenever
requests are served again the data is the old or the new as a whole; until the services run over the new data
every old entry still exists. Two things it does not say. With a mount point, an exception during the *first* swap comes before
`moved = True`, so that nothing is rolled back: the services start over the entries that are left, the maintenance ends, and the rest
lies in the old directory (`HalfMoved`, the exception in `WholeWhenServed`; `NeverHalfMoved` does not hold). And a stop of the process between
the moves leaves the old data in the old directory only, which nothing reads at the next start. What running services write, and
the scheduler lock, which lies in the data directory and moves with it, are left out.

### MonitorMessages

One chat of one account. A message may be delivered at any time, in any order and any number of times
(two are enough to see a repetition). `top`, `baseline`, `recent` are `_seen`, `_seen_baseline`, `_seen_window`; `filed` is `seen.json`,
written when 30 seconds have passed (a choice) and at every stop. `lost` is a history variable: what the monitor cannot know any more after a crash,
a failed write or the removal of the last rule of the account. `TakenOnce`: nothing else is taken twice, except behind as many newer messages as the window keeps.
`LateOnesTaken` does not hold: every restart, also one for an edit of another account's rules, makes the watermark the baseline,
so that a message that arrives after a newer one of its chat and after a restart is dropped although nobody acted on it.

### RunHistory

Each history file is one task of its own account; a record is a number, given in the order in which runs are recorded. Files, index and cache keep
their records in that order (a new one goes to the front of a file, to the end of the index, and a removal leaves the order), so a set of records says what each holds,
and `NewestRuns(S, n)` what a limit leaves of it; a line that an overlap writes twice counts once. The loop records runs, cleans expired files and lists; pool
threads delete a record, clear an account, clear everything and list. `doing` is what a thread is in the middle of, with the copy it has read,
so that every read and write of a file is a step of its own. `stored` and `gone` remember what was written and
removed, `crossed` that operations overlapped, or that one failed or was cut off by a stop of the process; a rebuild with nothing beside it clears it again. `HistoryIsKept`: a
recorded run stays in its file until it is removed or displaced, whatever overlaps (`RecordsKept`, thanks to the path lock); and index, cache
and files agree when nothing has crossed (`IndexAgrees`). Overlaps do break the index: a rewrite writes back a copy that lacks the line
appended meanwhile. Two more wishes fail. `GoneStaysGone`: the clear of everything takes no lock, so a record or a delete that has already
loaded a file writes the cleared records back. `RecentIsNewest`: the cache of recent lines is used whenever it is not empty, and
`_prepend_memory` starts it with the first run after a restart (or after a delete), `_sync_memory` with as few lines as the first caller asked for; from
then on "recent logs" shows only these and later runs, although the index has more, until a delete or a restart empties the cache again. A history file that was corrupted from outside, which reads as empty and is
then overwritten, is not modelled.

### BotConversation

`_run_classic_chat` and `wait_for`: `attempt`, `index`, `done` and `tries` are the counters of the retries, `deed` is what the current
action is doing. A message of the bot is a prompt or a success, in one of two versions; the handler (`Hear`) fills the cache when it likes, so an
action may find its button there or in the history. Which prompt has the button, or a question that can be answered, and how long a wait
lasts, are choices. `Enders` are the actions with `stop_flow_on_terminal`, `Lenient` those with `continue_on_error`.
`ConversationIsSafe` has three parts. `SuccessIsNew`: a success that counts is a message changed since the snapshot that precedes the text or
the click, if the history could be read. `RepliesSeen`: a reply that comes before the call returns is not missed. `DoneIsNotRepeated`:
without `SIGN_TASK_RETRY_BACKOFF_STEPS` a later attempt begins at the step that failed. What it does not say: a text whose sending timed out is sent
again, and a success counts whoever has written it. Two things are left out: the skipping of actions whose answer is already there, and a bot that edits a success again. Three wishes fail. `OldSuccessIgnored`: when the history cannot be
read for a snapshot (a warning is all that follows), it has the cache alone, which lacks what was there before the run; an old success then looks changed.
`CancelEndsRun`: once the first button of an answer is clicked, a cancellation becomes a `SequenceClickPartialError`, which
the attempts take for a failure, and the run goes on. `BrokenAnswerEnds`: that error is marked as not retryable, but
only the retry of a step looks at the mark; the next attempt clicks the whole answer again.

### RangeSchedule

The jobs of one task. `cron` and `shot` are the APScheduler jobs, `comp` and `adapt` the tables
`_RANGE_COMPENSATION_RUNS` and `_ADAPTIVE_NEXT_RUNS`, `wraps` the executions of `_job_run_sign_task`, each between its start
(`fresh`), its sleep and its run; `edit` is what the pool thread of an edit is in the middle of. The wrapper, `sync_jobs` for one task, and the
three parts of `add_or_update_sign_task_job` are steps; the clock has `Day` ticks a day and waits for the jobs of its tick. `settled` remembers that a
synchronisation came after the last edit, which every edit and every start causes. `ScheduleIsKept` is three statements: inside its window a range
task has succeeded, has been tried, is at work or is planned before the end of the window (`WindowCovered`); it never starts outside
(`StartsInWindow`); and a cooldown is waited for (`CooldownWaited`). A wrapper that begins when its window is already over (a scheduler that was paused, a window edited away) draws
no moment: it runs at once, as `max(0, ...)` in the code has it. `Horizon` is at least one day, so that the clock has a past. A range task with adaptive cooldown is
outside the first two: its wrapper draws another delay behind the cooldown, and a past cooldown in the table keeps a synchronisation from compensating.

What does not hold, with the constants that show it: with `Late`, a synchronisation that meets a compensation which is due and has not fired (the loop is
behind, or a restore has paused the scheduler and synchronises before it goes on) drops it and plans none: the window is missed unless another synchronisation
comes. With `WindowEdits`, a one-shot drawn for the old window stays and runs outside the new one. Not in the model, but in the code: with a jitter, any
synchronisation between the time of a cron job and its jittered start moves the job to the next day.

### RunChain

`_runner_acquire_lock`, `_runner_finalize` and `_runner_trigger_chained_task` of all tasks of one account, with a clock. A run reads `lastEnd` under the lock
and waits; it leaves the lock first and records its end afterwards, without an await in between. The exception is an invalid session, which is
reported first (`WorkMeetsInvalidSession`): meanwhile the next run may start without a cooldown, which `CooldownKept` excepts. `waiting` are the chained runs in their delay; the configuration
may change at any time, so the next task is a choice. `ChainsEnd`: one trigger leads to at most `MaxDepth` runs.

### AccountLocks

The other modules take for granted that an account has one lock. Here locks are objects:
`lockRegistry` is `_ACCOUNT_LOCKS`, `table` the `_account_locks` of the sign task service, and
`claims` what each party has a reference to, because it waits for a lock or holds it; `Remembers`
lets a weak table forget the rest. A sign run asks the table first (`RunLock`); a chat refresh asks
the registry and leaves its lock in the table; checks, imports, logins and deletes ask the registry
only; a change asks it for its two names in order, each when it is its turn. `MoveEnds` takes the
entry of the old name along in the table.

`OneAtATime`, the promise of the registry (`account_locks.py:5-6`), **does not hold**: a refresh
waits for the lock of an account while it is renamed, the entry of the table goes to the new name and
survives, a sign run of the new name finds it there (`sign_task_runner.py:1314`), and whoever asks
the registry for the new name gets a new lock; both work on the account. `ApartUnlessCarried` says
that there is no other way: two parties work on one account only if one is a sign run with a lock
that a rename has carried over (`carried`, a history variable). `LockObjects` are enough that a
lookup always finds a fresh one (`LocksAssumption`); the module chooses one that nobody has a
reference to.

## 3. Runs

Every bound below is named in the `.cfg`; symmetry is used only in runs without liveness.

| Run | Instance | Shows |
|---|---|---|
| `SignTaskRunSafety` | 1 account, 2 tasks, 2 manual + 1 direct run, 1 cancel | account exclusive, one run per task, no leaked lock, history agrees with the fate of each run, also of one that cannot be saved, refinement of `AccountExecution` |
| `SignTaskRunLive` | 2 tasks, 2 manual runs, 1 drain | the polled status is that of the active run, the drain leaves no run, runs end, statuses settle, executions end |
| `Operations` | monitor: 2 accounts, 2 edits, 1 sign run, 1 stop and 1 rename; schedule: 6 ticks in days of 4, a window within a day and one over midnight, 2 wrappers, 1 edit, 1 restart; runs: 3 tasks, 2 at a time, 2 triggers, depth 2, 6 ticks; locks: 2 names, a sign run, another user (refresh, check, import, delete) and a change at a time, each as often as it likes | files move only under closed clients; windows are covered and kept, cooldowns waited for; runs of an account are paced and chains end; two users of an account are apart unless a rename has carried a lock over |
| `Progress` | monitor: 2 accounts, 2 edits, 1 sign run; breaker: 3 calls, threshold 3, 4 generations; logins: 1 phone, 1 QR, 1 sign run of one account; 3 phone logins, two starting at a time, and 1 sign run of two accounts whose names clash | handlers exact, the last edit wins, every restart ends; the breaker keeps its contract, every trial ends; only a takeover robs who works of the lock, a QR login gives it back unless it is kept alive |
| `Services` | outbox: 4 calls of 3 notices, 2 rows; log: 4 events, history and queue of 2; flow: 3 nodes, 2 attempts of 2 tries; reply: 3 events, history of 2, queue of 1; plugin: 2 operations; catalog: 1 plugin, 4 texts; proxy: 3 calls of 2 processes; jobs: 2, one restart; client: 2 users, 3 clients, 1 close; change: one item of each kind, 2 own tasks; tasks: 2 accounts, a delete, an update, a toggle; restore: 2 entries each, one common name, 2 requests; messages: 4, a window of 3 cut to 2; history: 2 files of one record, an index and a cache of one line, 2 runs, one pool thread; conversation: a text, a button and an answer of 2 buttons, 2 attempts, 2 messages of the bot | the ledger and the receipts of the outbox, and the properties named in section 2 |

Why these bounds are enough to meet the hazards: with two tasks of one account the locked
section is contended by different tasks and the admission check by equal ones; three runs give
an owner, a waiter and a duplicate; a second cancel or drain meets the same states as the first.
Three calls give the breaker a late one, a trial and a third; four generations let a lease be
stale by more than one. Two calls of one notice are a retry, the third notice does not fit in two
rows. Two restarts and a third user of an account give every order of the monitor and account
locks; the names of accounts are numbers because the code sorts them. Three calls of a proxy, whose file may already count two failures, are one that
trips it, one that probes and a late one, and two processes are one that writes the file and one that trusts its memory; three phone logins are a residual session and two starts that find it; a log of four events overflows a queue of two after a replay, and a history of two before it; two entries on each side are one that replaces
and one that does not, and a swap that can stop half-way; four messages overflow the window; the second run displaces the first of its task and trims the index; three texts of a
plugin are the old version, a failed update and a second one; two tries in each of three layers let
every pair of layers repeat a node; three events meet a full queue and a history that has lost one; with two
messages of the bot an old one and a new one stand beside each other, and each may be edited once. Six ticks contain the rest of a window, a whole one and
the start of the next; two runs at a time and a chained third are an owner, a waiter and one that is on its way.

The runs that find a **disagreement between the code and its own statements** (each has a
finding in `PROJECT.json` with the quoted line):

| Run | Property | What happens |
|---|---|---|
| `SignTaskRunLostHandle` | `ActiveRunIsCancellable` | a rejected duplicate takes the handle of the run in progress away: no cancel and no drain finds it |
| `SignTaskRunLateCancel` | `CancelledLeavesNoHistory` | a cancel in the finalizer ends as cancelled, with history |
| `SignTaskRunWrongCancel` | `OnlyRequestedRunCancelled` | a request for a finished run cancels the run in progress |
| `SignTaskRunStuck` | `RunStatusSettles` | a cancel before the first step leaves `running` for ever |
| `KeywordMonitorLostHandlers` | `Tracked` | a stop() outside the monitor lock forgets new handlers |
| `KeywordMonitorLockCycle` | `NoLockCycle` | a restart and an account change wait for each other |
| `LoginLockForced` | `OnlyOwnLocks` | a second takeover of one residual login opens the lock of a sign run at work |

Deadlock is not checked where the program may stop: `Operations` (the lock cycle above, and clocks that end), `Services` (logs, flows,
uploads and plugin calls end, and so do their behaviours) and `Progress` (a phone login waits for its user).
`SignTaskRunLive` and `Progress` check instead that every run, restart and trial ends, and every QR login that is not kept alive.

### Fairness

- Weak fairness of each coroutine step: asyncio runs every ready callback, and each external
  wait in the modelled awaits ends (Telegram calls and the semantic client have timeouts, a
  connection attempt succeeds or fails).
- Strong fairness of taking a lock: `asyncio.Lock` is first come, first served, so a waiter is
  served although the lock is taken and released infinitely often.
- The watcher of a QR login is a task of the loop and therefore fair: each sleep ends, and it wakes up again. Whether it then ends the login is not assumed: polls may have moved the deadline.
- Timers, cancellations, crashes, operators, users and triggers are not fair: they need not happen.

## 4. Proofs

All theorems hold for every value of the constants under the named assumptions, checked by
`tlapm` to the last leaf. The proofs of several modules share a file, one part for each: `RunProofs` (runs, chains, schedules), `AccountProofs` (locks, logins),
`FileProofs` (restore, plugins, changes of accounts, configurations, run history), `ServiceProofs` (jobs, clients, plugin host, proxies), `MessageProofs` (flows, replies, messages, conversations, the live log), and one each
for the breaker, the outbox and the monitor.

Each invariant below was checked by TLC on small instances before it was proved. Three theorems have a hypothesis on the constants besides the assumption of their module:
it says which of the behaviours the code has are left out because the property fails with them, and section 2 says how it fails. `StatusIsOwn`,
`ListenersAreFollowed` and `SchedulesAreKept` are the ones; the runs check the properties under the same hypotheses.

- **SignTaskRun** (`RunProofs`; `ConstantsAssumption`). `TypeInv` adds to the types that a created run has a
  task and a served cancel request a key. `LockInv` is the strengthening for mutual exclusion: a
  run is inside its section exactly when its lease owns the lock, a lock is closed exactly when
  some run is inside, and never two. It is needed because the finalizer and the `async with` both
  release: only the lease tells that the second release is void. `AccountsExclusive` and
  `LocksNotLeaked` (together `LockTruthful`) follow. The lemma `SectionStep` sorts the steps by what they do to the sections:
  one acquires a lock (`AcquireLock`), one ends a section (`Leaves`), all others leave the
  sections alone (`Stays`); with `LeaseInv` (a run that waits has had no lock before) the three map
  to the two actions of `AccountExecution` and to stutters: `ImplementsExecution`.
  `HistoryTruthful` needs `Fate`: through the locked section and the error handler nothing is
  recorded and no cancel has been seen, and afterwards a seen cancel, a record and a save that failed exclude each
  other. `TasksExclusive` is inductive with the types. `StatusIsOwn` and `DrainsAreComplete` rest on it: a step of another run changes the entry and the handle
  of its own task only, and no two runs that work share one (`OtherTask`), so each step is one of a few shapes (`Phased`, `Settles`, `WorkingKeepsStatus`). `StatusIsOwn` has the
  hypothesis `MaxCancels = 0`, which the run `SignTaskRunLive` has too: `CancelMark` writes "canceling" over whatever the entry says by then. `DrainsAreComplete` has none; its
  invariant `Drained` is that a registered run in progress is in the snapshot the drain waits for, which begins with no run admitted any more.
- **SemanticBreaker** (`ConstantsAssumption`). `Inv` ties each held lease to the generation and
  the state it was taken in: leases are never of a later generation, at most one held lease
  is a trial of the current generation, and exactly then the flag is set. From it: the flag is
  exact, a closed breaker is below its threshold, generations only grow, and each step is a step
  or a stutter of `BreakerContract`.
- **NotificationOutbox** (`ConstantsAssumption`). `Inv` adds `Requests`: what the program counter
  and the wire of a call say of each other and of its row. From it: truthful receipts,
  durable claims, capacity (a counting argument on the rows), and the refinement of
  `DeliveryLedger`.
- **KeywordMonitor** (`ConstantsAssumption`). `TypeInv` adds `Placed`: a stop is at a listener of
  the list it began with, a restart has an account left to start. It rests on `Grown` (lists are
  extended and never shortened, so that an index stays good while others register) and on
  well-founded induction for the least account. `SessionsQuiet` needs `Mine`, what a process owns
  in each phase: a change has its accounts from before its `stop()` to its end, a process at the
  await of a client has the lock of that account, and a change that moves files has nobody at its
  client. Each step keeps its own `Mine` (`StepMine`) and touches neither the locks of the others
  nor, but for giving clients back, what is under them (`Respects`), so theirs are kept too
  (`OthersKeep`).
- **BackupRestore** (`FileProofs`; `BackupAssumption`). `BackupInv` adds two parts to the types. `Control` ties the
  step of the restore to the maintenance, to the last request and to the services that run: those before
  `position` are stopped, or started. `Layout` says where the entries of the old and of the new data are at
  each step; a swap by entries keeps its generation in two directories without overlap (`Split`), because
  two entries of one generation have two names (`EntryMoves`). A rollback and a stop of the process need
  nothing more than what `Layout` says of the step they begin in: `RestoreIsSafe`.
- **BackgroundJob** (`ServiceProofs`; `JobAssumption`). `JobInv` adds to the types and to `JobsTruthful` that a job whose coroutine works
  has an active entry (`Working`): so a start finds none at work, and the trim of the history takes no entry of one. `Counting` says how
  many accounts a job has checked at each step, `Copied` the same of the copy that the pool thread is about to save, without which
  a late save could tell of a completion that never was.
- **ClientRegistry** (`ServiceProofs`; `ClientAssumption`). `ClientInv` adds to the types what holds until somebody closes the client by
  name (`Alone`): there is one lock, held exactly by whoever connects or stops the client, the count is that of the users
  inside, and it is zero while the last user stops the client, so that the reset in `Stopped` takes nothing away. A close by
  name ends all three for good; the types remain, among them that the count is never negative.
- **AccountLocks** (`AccountProofs`; `LocksAssumption`). `LocksInv` says that the registry knows every lock anybody claims, under the name it is claimed for, but for sign
  runs with a carried one (`Claimed`); the same of the entries of the table (`Tabled`); a lock has one holder (`OneHolder`); and a change has its first lock when it
  waits for the second (`HasFirst`), which is why a delete, whose two names are one, may count its lock twice. A lookup only extends the registry
  (`RegistryGrows`) and forgetting spares what is claimed (`RegistryKeeps`); two who work on one account and are not carried have the lock of the registry, so the same
  lock: `LocksApart`. `LocksTyped` adds what the claims and the moves name (`Named`), without which a change could hold a lock of no account.

- **KeywordMonitor, edits alone** (`EditsOnly`: no `stop()` and no account change beside the restarts, as the two violation runs of the monitor require). `ListenersAreFollowed` needs four parts: one restart at
  a time has the monitor (`Turns`); the list names an account once (`Distinct`); a key, where there is one, names exactly the accounts of the list (`Knows`); and unless an edit waits, rules and key are those
  of the task files (`Follows`). `Clients` adds what the listeners on the clients are at each phase of the restart that has the monitor: those of the list from the place the stop has reached, and the one being started.
- **RunChain** (`ChainAssumption`). `Paced`: whoever is in the section, or has left it and not reported, has waited since the last end, unless that one had an invalid session. `Links`: the runs and the delayed
  triggers of a chain have pairwise different visited tasks, and each has one task more than the one it came from. The name of nobody must not be a slot, hence `"nobody" \notin RunSlots`.
- **RangeSchedule** (`ScheduleAssumption`). The windows may go over midnight and the day may have any length, so that the provers meet `%` by a parameter, which they cannot compute with. All times are therefore
  told by how long after the start of its window a moment is (`Offset`), and a few lemmas say all that is needed of it: it is unique (`RestUnique`), and it grows with the clock until a window begins again. Types and
  order (`PlanInv`) hold always: `ScheduleTyped`. `WindowInv` holds under `Punctual` (`~Late /\ ~WindowEdits`): what was chosen lies in a window (`ChosenWithin`), who wakes or fires does so in one
  (`WakesWithin`, `FiresWithin`), a task that is planned for has a cron job before its next window (`NextIsNear`), and in an open window it was tried or will be (`NotMissed`). Both parts of the hypothesis are needed, see `RangeSchedule` above.
- **LoginSession** (`LoginAssumption`). `LoginInv` adds to the types which sessions are live at each stage (`Stages`) and that the lease of a login or a run is that of the present holder of the lock, unless a takeover has robbed it (`Owns`).
  `LockIsKept` holds for any number of overlapping starts and any clashes of names: what a takeover or a robbed lease opens is another flow's lock only if that flow becomes robbed in the same step.
- **AccountChange** (`ChangeAssumption`: the four kinds of files are disjoint). `Copied`: a path is touched only after its original is staged; `Planned` says of each file what is at its two paths at each phase, one conjunct for each kind; `RollingBack`
  and `OwnDestinations` the same of a rollback, which removes only what the change created; `ChangeTyped` follows.
- **PluginCatalog** (`CatalogAssumption`). The texts are numbered (`Numbered`), so that newer is greater; what an update has displaced is in a backup as long as the new one has not registered (`SetAsideKept`, `Away`).
- **TaskConfigs** (`TasksAssumption`). The path locks are those of the updates under way (`LockedByUpdates`); as long as nothing has changed since, what a synchronisation has read at each of its steps is what the copies say (`SyncKnows`).
- **PluginHost** (`HostAssumption`: a plugin asks for finitely many operations). Every exit of an execution goes through one point (`Leaves`), which counts it, cancels its operations and unregisters it; before it nothing is counted, and after it nothing begins. `HostTyped` counts the lines of the pipe by the calls that were made, the calls given up and the result (`Piped`): a call is in the pipe once and before it has a task.
- **ProxyBreaker** (`ProxyAssumption`), for any number of processes. `Sound` says of any entry, in the file or in a memory, how its count, its state and its trip belong together; `SaysTripped`, that it tells of the last trip;
  `TripStands`, that as long as a trip stands and is not lost the file and the memory of each process aware of it tell of it, or of its half-open state once its cooldown is over; `ProxyCalls`, what a call at each stage has seen. A memory that is aware can then answer for a file
  that cannot be read: `ProxyFailsClosed`.
- **FlowOperation** (`FlowOperationAssumption`). A request that may have reached Telegram leaves a mark which every exit of its call keeps (`MarkKept`) or turns into a receipt (`ReceiptTold`); nodes ahead have sent nothing (`AheadUnsent`);
  what is unknown has been told (`UnknownTold`). Each layer looks at the mark before it calls again.
- **FlowReply** (`ReplyAssumption`). Whatever was told after the watermark is later than the operation (`NewerIsLater`); while the wait goes on nothing behind it has been lost (`NothingMissed`), and a wait that was confirmed has read to the end (`Settled`). `ReplyTyped` adds the bound of the queue and that an operation was begun once more than it was resent, at most (`Sized`).
- **MonitorMessages** (`MessagesAssumption`). A message that was had, and whose trace is not lost, is below the baseline, in the window, or older than all the window keeps (`Recognised`). The trim of the window is the difficult step: it needs the least
  element of a set of numbers (well-founded induction) and that what is cut off is older than what stays.
- **BotConversation** (`ConversationAssumption`). The cache and the snapshot know nothing newer than the chat has (`Chats`); what was written since the snapshot differs from it and, if the history could be read, nothing else does (`Shots`);
  each step of the work belongs to one kind of action (`Kinds`); an attempt begins behind what is done (`Positions`).
- **LogStream** (`LogAssumption`). `LogCount`: each event of the run was shown, is in the queue, or was counted when a full queue dropped it, or had left the history before the subscription (`evicted`, by `BeforeIs`); between two subscriptions the same of the events up to the last one sent, which is where
  the replay begins. That this last one is not ahead of events still to come needs `LogOrder`: the own events of a run are queued in their order, and before the change of streams no event of the thread is ahead of its time. `LogEnds`: "done" is the last
  event of the run, and a reader that was sent it is closed. Duplicates are taken out by counting, not by a fold: the k-th event sent is the k-th new one of the batch (`ForwardedIs`), found as the least index with k new ones up to it (`RankIsOnto`, `LeastIndex`).
- **RunHistory** (`HistoryAssumption`: the limits are positive, and the cache is no larger than the index). `HistoryKept` has two parts. The files: whoever is about
  to write a file has its lock and a copy of all the file still has (`HasLoaded`), since only an unlink, which takes no lock, can change it meanwhile; so a store loses no
  record but those a limit cuts off, and these have that many newer runs of the task (`CutOff`), because runs are numbered (`RunsNumbered`). The index: as long as nothing has crossed, one
  thread works at a time (`Alone`), and `AtWork` says of each step by how much files, index and cache may still differ: a line that is not
  yet written (`append`, `prepend`), lines not yet removed (`lines`, `rewrite`), a cache not yet forgotten, files not yet unlinked. The cache may hold fewer than the newest lines
  but never skips one (`TopOf`), and no more than the index keeps (`Few`), which is why trimming the index leaves no line of the cache behind.
  A rebuild alone restores the invariant from the files, whatever had crossed before.

Only model-checked, and why:

- all liveness properties and the fair refinements (`EveryRunSettles`, `ExecutionFairSpec`, `EveryRestartEnds`, `ContractFairSpec`, `QrGivesBack`): fairness and ENABLED are out of the prover's reach;
- `ProgressTyped`, `ServicesTyped` and `OperationsTyped`, which only put the type invariants of the components side by side; those are proved, one by one.

`Tracked` is checked without a `stop()` outside the restarts, for the reason that
`KeywordMonitorLostHandlers` shows.

## 5. What is left

Worth modelling next: the continued actions of the keyword monitor and their rate; the parallel branches of a flow; the pictures and plugins of a conversation; the budgets of the semantic service; the file lock between schedulers. Worth proving next: that the composed specifications of the `MC` modules keep the invariants of their parts, which now are theorems of the parts alone.

Not modelled: message formats, matching rules, AI tools, the dice, pictures and plugin actions of the signer, configuration and compatibility layers, the import and export of sessions, ChatOps, the frontend and the
command line (more than half of the repository's lines): their difficulty is in data and I/O, not in orders of steps. The stream tickets, flood backoff and rate limits are tables under one lock, whose operations are
single steps: a model would restate them.
