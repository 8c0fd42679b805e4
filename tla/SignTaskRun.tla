---------------------------- MODULE SignTaskRun ----------------------------
(***************************************************************************)
(* The life of sign-task runs inside SignTaskService                       *)
(* (backend/services/sign_tasks.py) and the runner it calls                *)
(* (backend/services/sign_task_runner.py): start, rejection of duplicates, *)
(* account lock, execution, finalization, cancellation, status cleanup and *)
(* the drain that precedes a shutdown or an online restore.                *)
(*                                                                         *)
(* Every run is one coroutine of the asyncio event loop.  An action is what*)
(* the loop executes between two suspension points of that coroutine, so   *)
(* the values of pc are the awaits.  Only the cancel route runs outside the*)
(* loop: it is a synchronous FastAPI route, so its body is executed by a   *)
(* thread of the pool and interleaves with the loop between any two of its *)
(* accesses (CancelRead, CancelSend, CancelMark).                          *)
(***************************************************************************)
EXTENDS Naturals, Sequences, FiniteSets

CONSTANTS
  Accounts,     \* Telegram accounts, each with one asyncio.Lock
  Tasks,        \* task keys (account_name, task_name)
  AccountOf,    \* the account of a task key
  HttpRuns,     \* run_ids handed out by start_task_run
  DirectRuns,   \* run_task_with_logs called by the scheduler or ChatOps
  None,         \* an absent dictionary entry
  MaxCancels,   \* bound: cancel requests
  MaxDrains,    \* bound: drains (one shutdown, or restores)
  MaxUnsaved    \* bound: saves of a record that fail

Runs == HttpRuns \cup DirectRuns

ASSUME ConstantsAssumption ==
  /\ AccountOf \in [Tasks -> Accounts]
  /\ HttpRuns \cap DirectRuns = {}
  /\ None \notin Runs \cup Tasks
  /\ MaxCancels \in Nat /\ MaxDrains \in Nat /\ MaxUnsaved \in Nat

VARIABLES
  pc,         \* the await each run is suspended at
  task,       \* the task key of each run
  lease,      \* the run's AccountLockLease: not yet acquired, owned, released
  locked,     \* the account's asyncio.Lock
  outcome,    \* result of the execution
  interrupt,  \* where a CancelledError hit the run, if one did
  fresh,      \* created coroutines, in the order the loop will step them first
  cancelReq,  \* Task.cancel() was called and is not yet delivered
  active,     \* _active_tasks
  handle,     \* _background_run_tasks
  status,     \* _run_statuses
  timer,      \* _run_status_cleanup_tasks
  history,    \* runs whose record _save_run_info wrote
  unsaved,    \* runs whose context holds a persistence_error
  req,        \* the cancel request being served by a pool thread
  cancels,    \* cancel requests served so far
  drain,      \* progress of begin_shutdown / drain_background_runs
  drainSet,   \* the snapshot of handles that the drain waits for
  drains      \* drains begun so far

runVars    == <<pc, task, lease, locked, outcome, interrupt, history, unsaved>>
registry   == <<active, handle, status, timer>>
cancelVars == <<req, cancels>>
drainVars  == <<drain, drainSet, drains>>
vars == <<runVars, fresh, cancelReq, registry, cancelVars, drainVars>>

-----------------------------------------------------------------------------
(* Types *)

\* From the mark in _active_tasks to its removal by the finalizer.
Working == {"checking", "waiting", "cooling", "executing", "erring",
            "fetching", "notifying"}
Holding == {"cooling", "executing"}
PCs == {"unused", "created", "stopping", "done"} \cup Working
TerminalStates == {"finished", "timeout", "cancelled"}
Outcomes == {"none", "success", "failed", "timeout"}
RunStatus == [run : HttpRuns, state : {"running"} \cup TerminalStates]
CancelRequest == [pc : {"idle", "read", "sent"}, key : Tasks \cup {None},
                  run : HttpRuns \cup {None}, seen : HttpRuns \cup {None}]
Idle == [pc |-> "idle", key |-> None, run |-> None, seen |-> None]

Init ==
  /\ pc = [r \in Runs |-> "unused"]
  /\ task = [r \in Runs |-> None]
  /\ lease = [r \in Runs |-> "new"]
  /\ locked = [a \in Accounts |-> FALSE]
  /\ outcome = [r \in Runs |-> "none"]
  /\ interrupt = [r \in Runs |-> "none"]
  /\ fresh = <<>>
  /\ cancelReq = [r \in Runs |-> FALSE]
  /\ active = [k \in Tasks |-> FALSE]
  /\ handle = [k \in Tasks |-> None]
  /\ status = [k \in Tasks |-> None]
  /\ timer = [k \in Tasks |-> FALSE]
  /\ history = {} /\ unsaved = {}
  /\ req = Idle /\ cancels = 0
  /\ drain = "up" /\ drainSet = {} /\ drains = 0

-----------------------------------------------------------------------------
(* Helpers *)

\* The loop gives new coroutines their first step in the order of creation.
FirstStep(r) ==
  /\ pc[r] = "created" /\ fresh # <<>> /\ Head(fresh) = r
  /\ fresh' = Tail(fresh)

\* _draining is set by begin_shutdown and cleared when a restore has ended.
Draining == drain # "up"

\* (seeded faults) is_task_running looking at the run statuses only, or at
\* _active_tasks only.
IsTaskRunningByStatus(r, k) ==
  status[k] # None /\ status[k].state = "running" /\ status[k].run # r
IsTaskRunningByFlag(r, k) == active[k]

\* is_task_running(task_name, account_name, run_id): a direct run has no
\* run_id, so any running status blocks it.
IsTaskRunning(r, k) ==
  \/ active[k]
  \/ status[k] # None /\ status[k].state = "running" /\ status[k].run # r

\* (seeded fault) without the early return for a run that has no run_id
PhaseUpdatedAlways(r) ==
  [status EXCEPT ![task[r]] = [run |-> r, state |-> "running"]]

\* _update_run_phase: whatever the entry held becomes "running" under run_id.
PhaseUpdated(r) ==
  IF r \in HttpRuns
  THEN [status EXCEPT ![task[r]] = [run |-> r, state |-> "running"]]
  ELSE status

\* (seeded faults) release() of the raw lock, and no release at all
ReleasedBlindly(r) == [locked EXCEPT ![AccountOf[task[r]]] = FALSE]
ReleasedNever(r) == locked

\* AccountLockLease.release: only a lease that owns the lock opens it.
Released(r) ==
  IF lease[r] = "owned"
  THEN [locked EXCEPT ![AccountOf[task[r]]] = FALSE]
  ELSE locked

\* resolve the terminal state as the coroutine runner() of start_task_run does
TerminalState(r, hit) ==
  IF hit # "none" THEN "cancelled"
  ELSE IF outcome[r] = "timeout" THEN "timeout" ELSE "finished"

\* (seeded fault) runner() without its except asyncio.CancelledError
EndRunUnlessCancelled(r, hit) ==
  LET k == task[r]
      mine == r \in HttpRuns /\ status[k] # None /\ status[k].run = r /\ hit = "none"
  IN /\ pc' = [pc EXCEPT ![r] = "done"]
     /\ interrupt' = [interrupt EXCEPT ![r] = hit]
     /\ status' = IF mine
                  THEN [status EXCEPT ![k] =
                          [run |-> r, state |-> TerminalState(r, hit)]]
                  ELSE status
     /\ timer' = [timer EXCEPT ![k] = @ \/ mine]
     /\ handle' = [handle EXCEPT ![k] = IF @ = r THEN None ELSE @]

\* The end of runner() and of run_task_with_logs: the run's own entry gets its
\* terminal state and a cleanup timer, its own handle is removed.
EndRun(r, hit) ==
  LET k == task[r]
      mine == r \in HttpRuns /\ status[k] # None /\ status[k].run = r
  IN /\ pc' = [pc EXCEPT ![r] = "done"]
     /\ interrupt' = [interrupt EXCEPT ![r] = hit]
     /\ status' = IF mine
                  THEN [status EXCEPT ![k] =
                          [run |-> r, state |-> TerminalState(r, hit)]]
                  ELSE status
     /\ timer' = [timer EXCEPT ![k] = @ \/ mine]
     /\ handle' = [handle EXCEPT ![k] = IF @ = r THEN None ELSE @]

\* (seeded fault) the handler of a failed save keeps nothing of the exception
SavesSilently(r) ==
  /\ history' \in {history, history \cup {r}}
  /\ unsaved' = unsaved

\* _runner_save_run_info inside its try: the record is written, or the exception is
\* kept as the persistence_error of the run, which goes on.  Nothing after the
\* replacement of the file can raise.
Saves(r) ==
  \/ history' = history \cup {r} /\ unsaved' = unsaved
  \/ /\ Cardinality(unsaved) < MaxUnsaved
     /\ history' = history /\ unsaved' = unsaved \cup {r}

\* _runner_finalize up to its first await, for a run whose context is not marked
\* cancelled: a successful run first fetches the target's last message, any
\* other saves its record.
Finalize(r, result) ==
  /\ outcome' = [outcome EXCEPT ![r] = result]
  /\ status' = IF lease[r] = "new" THEN status ELSE PhaseUpdated(r)
  /\ \/ /\ result = "success"
        /\ pc' = [pc EXCEPT ![r] = "fetching"]
        /\ UNCHANGED <<history, unsaved>>
     \/ /\ result # "success"
        /\ pc' = [pc EXCEPT ![r] = "notifying"]
        /\ Saves(r)

\* The finally block of _runner_finalize up to the stop of the client.
FinalizeTail(r) ==
  /\ pc' = [pc EXCEPT ![r] = "stopping"]
  /\ locked' = Released(r)
  /\ lease' = [lease EXCEPT ![r] = IF @ = "owned" THEN "released" ELSE @]
  /\ active' = [active EXCEPT ![task[r]] = FALSE]
  /\ handle' = [handle EXCEPT ![task[r]] = None]

-----------------------------------------------------------------------------
(* Steps of the event loop: starting a run *)

\* start_task_run: publishes a running status and schedules runner().  With the
\* task already active it only returns the existing status, so it is disabled.
StartTaskRun(r, k) ==
  /\ ~Draining
  /\ pc[r] = "unused" /\ ~active[k]
  /\ pc' = [pc EXCEPT ![r] = "created"]
  /\ fresh' = Append(fresh, r)
  /\ task' = [task EXCEPT ![r] = k]
  /\ status' = [status EXCEPT ![k] = [run |-> r, state |-> "running"]]
  /\ handle' = [handle EXCEPT ![k] = r]
  /\ UNCHANGED <<lease, locked, outcome, interrupt, history, unsaved, cancelReq,
                 active, timer, cancelVars, drainVars>>

\* The scheduler's job or ChatOps' /run creates a coroutine that is about to
\* call run_task_with_logs.
Trigger(r, k) ==
  /\ pc[r] = "unused"
  /\ pc' = [pc EXCEPT ![r] = "created"]
  /\ fresh' = Append(fresh, r)
  /\ task' = [task EXCEPT ![r] = k]
  /\ UNCHANGED <<lease, locked, outcome, interrupt, history, unsaved, cancelReq,
                 registry, cancelVars, drainVars>>

\* run_task_with_logs while draining raises before anything is registered.
Refuse(r) ==
  /\ FirstStep(r) /\ ~cancelReq[r]
  /\ Draining
  /\ EndRun(r, "none")
  /\ UNCHANGED <<task, lease, locked, outcome, history, unsaved, cancelReq, active,
                 cancelVars, drainVars>>

\* run_task_with_logs registers the coroutine, execute_sign_task finds the task
\* running and returns, and the finally block removes the handle: one step of
\* the loop, in which the handle of the run in progress is lost.
RejectDuplicate(r) ==
  LET k == task[r]
      mine == r \in HttpRuns /\ status[k] # None /\ status[k].run = r
  IN /\ FirstStep(r) /\ ~cancelReq[r]
     /\ ~Draining /\ IsTaskRunning(r, k)
     /\ pc' = [pc EXCEPT ![r] = "done"]
     /\ status' = IF mine
                  THEN [status EXCEPT ![k] = [run |-> r, state |-> "finished"]]
                  ELSE status
     /\ timer' = [timer EXCEPT ![k] = @ \/ mine]
     /\ handle' = [handle EXCEPT ![k] = None]
     /\ UNCHANGED <<task, lease, locked, outcome, interrupt, history, unsaved,
                    cancelReq, active, cancelVars, drainVars>>

\* run_task_with_logs and execute_sign_task up to the account check: the handle
\* is registered and the task marked active in the step that checked it.
BeginExecute(r) ==
  LET k == task[r]
  IN /\ FirstStep(r) /\ ~cancelReq[r]
     /\ ~Draining /\ ~IsTaskRunning(r, k)
     /\ active' = [active EXCEPT ![k] = TRUE]
     /\ handle' = [handle EXCEPT ![k] = r]
     /\ UNCHANGED <<task, lease, locked, interrupt, cancelReq, timer,
                    cancelVars, drainVars>>
     /\ \/ /\ pc' = [pc EXCEPT ![r] = "checking"]
           /\ status' = PhaseUpdated(r)
           /\ UNCHANGED <<outcome, history, unsaved>>
        \* the configuration cannot be loaded, or the account is in FloodWait
        \* cooldown: finalized without waiting for the lock
        \/ /\ pc' = [pc EXCEPT ![r] = "notifying"]
           /\ outcome' = [outcome EXCEPT ![r] = "failed"]
           /\ Saves(r)
           /\ status' \in {status, PhaseUpdated(r)}

-----------------------------------------------------------------------------
(* Steps of the event loop: checking, locking, executing, finalizing *)

\* check_account_before_task (and the refresh of the keyword monitor) answered.
AccountChecked(r) ==
  /\ pc[r] = "checking" /\ ~cancelReq[r]
  /\ UNCHANGED <<fresh, task, lease, locked, interrupt, cancelReq, active,
                 handle, timer, cancelVars, drainVars>>
  /\ \/ /\ pc' = [pc EXCEPT ![r] = "waiting"]
        /\ status' = PhaseUpdated(r)
        /\ UNCHANGED <<fresh, outcome, history, unsaved>>
     \* the login is invalid: straight to the finalizer
     \/ Finalize(r, "failed")

\* async with account_lock: the run holds the account through the cooldown
\* sleep, the preparation and the whole execution.
AcquireLock(r) ==
  LET a == AccountOf[task[r]]
  IN /\ pc[r] = "waiting" /\ ~cancelReq[r]
     /\ ~locked[a]
     /\ locked' = [locked EXCEPT ![a] = TRUE]
     /\ lease' = [lease EXCEPT ![r] = "owned"]
     /\ pc' = [pc EXCEPT ![r] = "cooling"]
     /\ status' = PhaseUpdated(r)
     /\ UNCHANGED <<fresh, task, outcome, interrupt, history, unsaved, cancelReq,
                    active, handle, timer, cancelVars, drainVars>>

\* _runner_prepare_execution, after the credentials and the proxy were checked.
Prepare(r) ==
  /\ pc[r] = "cooling" /\ ~cancelReq[r]
  /\ pc' = [pc EXCEPT ![r] = "executing"]
  /\ status' = PhaseUpdated(r)
  /\ UNCHANGED <<fresh, task, lease, locked, outcome, interrupt, history, unsaved,
                 cancelReq, active, handle, timer, cancelVars, drainVars>>

\* The body of the async with returned or raised: the lock is released, and the
\* finalizer starts unless _runner_handle_error awaits mark_account_invalid.
Executed(r) ==
  /\ pc[r] \in Holding /\ ~cancelReq[r]
  /\ locked' = Released(r)
  /\ lease' = [lease EXCEPT ![r] = "released"]
  /\ UNCHANGED <<fresh, task, interrupt, cancelReq, active, handle, timer,
                 cancelVars, drainVars>>
  /\ \/ Finalize(r, "failed")
     \/ /\ pc[r] = "executing"
        /\ \E result \in {"success", "timeout"} : Finalize(r, result)
     \/ /\ pc' = [pc EXCEPT ![r] = "erring"]
        /\ UNCHANGED <<fresh, outcome, status, history, unsaved>>

\* mark_account_invalid has notified: the failed run is finalized.
ErrorHandled(r) ==
  /\ pc[r] = "erring" /\ ~cancelReq[r]
  /\ Finalize(r, "failed")
  /\ UNCHANGED <<fresh, task, lease, locked, interrupt, cancelReq, active,
                 handle, timer, cancelVars, drainVars>>

\* _runner_fetch_target_message is over: the record is saved, or the save fails,
\* and the notification is sent in both cases.
TargetFetched(r) ==
  /\ pc[r] = "fetching" /\ ~cancelReq[r]
  /\ pc' = [pc EXCEPT ![r] = "notifying"]
  /\ Saves(r)
  /\ UNCHANGED <<fresh, task, lease, locked, outcome, interrupt, cancelReq,
                 registry, cancelVars, drainVars>>

\* _runner_send_notifications is over: the finally block of the finalizer.
Notified(r) ==
  /\ pc[r] = "notifying" /\ ~cancelReq[r]
  /\ FinalizeTail(r)
  /\ UNCHANGED <<fresh, task, outcome, interrupt, history, unsaved, cancelReq, status,
                 timer, cancelVars, drainVars>>

\* app.stop() is over (or was not needed): the coroutine returns.
ClientStopped(r) ==
  /\ pc[r] = "stopping" /\ ~cancelReq[r]
  /\ EndRun(r, interrupt[r])
  /\ UNCHANGED <<fresh, task, lease, locked, outcome, history, unsaved, cancelReq,
                 active, cancelVars, drainVars>>

-----------------------------------------------------------------------------
(* Steps of the event loop: a CancelledError is thrown at the run's await *)

\* A coroutine cancelled before its first step is closed without running: no
\* except clause, no finalizer, no terminal status.
CancelUnstarted(r) ==
  /\ FirstStep(r) /\ cancelReq[r]
  /\ pc' = [pc EXCEPT ![r] = "done"]
  /\ cancelReq' = [cancelReq EXCEPT ![r] = FALSE]
  /\ UNCHANGED <<task, lease, locked, outcome, interrupt, history, unsaved, registry,
                 cancelVars, drainVars>>

\* (seeded fault) the execution swallows the CancelledError
CancelSeenSwallowed(r) ==
  /\ pc[r] \in {"checking", "waiting"} /\ cancelReq[r]
  /\ cancelReq' = [cancelReq EXCEPT ![r] = FALSE]
  /\ interrupt' = [interrupt EXCEPT ![r] = "seen"]
  /\ status' = IF lease[r] = "new" THEN status ELSE PhaseUpdated(r)
  /\ FinalizeTail(r)
  /\ UNCHANGED <<fresh, task, outcome, history, unsaved, timer, cancelVars, drainVars>>

\* The except clause of execute_sign_task marks the context cancelled; the
\* finalizer then neither saves nor notifies.
CancelSeen(r) ==
  /\ pc[r] \in {"checking", "waiting"} \cup Holding /\ cancelReq[r]
  /\ cancelReq' = [cancelReq EXCEPT ![r] = FALSE]
  /\ interrupt' = [interrupt EXCEPT ![r] = "seen"]
  /\ status' = IF lease[r] = "new" THEN status ELSE PhaseUpdated(r)
  /\ FinalizeTail(r)
  /\ UNCHANGED <<fresh, task, outcome, history, unsaved, timer, cancelVars, drainVars>>

\* Inside _runner_handle_error nothing catches it: the finalizer runs as for a
\* failed run that was never cancelled.
CancelErring(r) ==
  /\ pc[r] = "erring" /\ cancelReq[r]
  /\ cancelReq' = [cancelReq EXCEPT ![r] = FALSE]
  /\ interrupt' = [interrupt EXCEPT ![r] = "late"]
  /\ Finalize(r, "failed")
  /\ UNCHANGED <<fresh, task, lease, locked, active, handle, timer,
                 cancelVars, drainVars>>

\* Inside the finalizer it skips what is left of the try block.
CancelFinalizing(r) ==
  /\ pc[r] \in {"fetching", "notifying"} /\ cancelReq[r]
  /\ cancelReq' = [cancelReq EXCEPT ![r] = FALSE]
  /\ interrupt' = [interrupt EXCEPT ![r] = "late"]
  /\ FinalizeTail(r)
  /\ UNCHANGED <<fresh, task, outcome, history, unsaved, status, timer, cancelVars,
                 drainVars>>

CancelStopping(r) ==
  /\ pc[r] = "stopping" /\ cancelReq[r]
  /\ cancelReq' = [cancelReq EXCEPT ![r] = FALSE]
  /\ EndRun(r, IF interrupt[r] = "none" THEN "late" ELSE interrupt[r])
  /\ UNCHANGED <<fresh, task, lease, locked, outcome, history, unsaved, active,
                 cancelVars, drainVars>>

-----------------------------------------------------------------------------
(* Steps of the pool thread that executes cancel_task_run *)

\* Reads the status; a request for another run_id than the stored one is
\* answered with an error and changes nothing.
CancelRead(k, id) ==
  /\ req.pc = "idle" /\ cancels < MaxCancels
  /\ id # None => task[id] = k
  /\ ~(id # None /\ status[k] # None /\ status[k].run # id)
  /\ req' = [pc |-> "read", key |-> k, run |-> id,
             seen |-> IF status[k] = None THEN None ELSE status[k].run]
  /\ cancels' = cancels + 1
  /\ UNCHANGED <<fresh, runVars, cancelReq, registry, drainVars>>

\* Looks up the handle and calls Task.cancel() on it.
CancelSend ==
  LET bg == handle[req.key]
  IN /\ req.pc = "read"
     /\ IF bg # None /\ pc[bg] # "done"
        THEN /\ cancelReq' = [cancelReq EXCEPT ![bg] = TRUE]
             /\ req' = [req EXCEPT !.pc = "sent"]
        ELSE cancelReq' = cancelReq /\ req' = Idle
     /\ UNCHANGED <<fresh, runVars, registry, cancels, drainVars>>

\* _update_run_phase(CANCEL_REQUESTED) under the requested or the read run_id.
CancelMark ==
  LET id == IF req.run # None THEN req.run ELSE req.seen
  IN /\ req.pc = "sent"
     /\ req' = Idle
     /\ status' = IF id = None THEN status
                  ELSE [status EXCEPT ![req.key] =
                          [run |-> id, state |-> "running"]]
     /\ UNCHANGED <<fresh, runVars, cancelReq, active, handle, timer, cancels,
                    drainVars>>

-----------------------------------------------------------------------------
(* Timers, shutdown and restore *)

\* The deferred cleanup of a run status: RUN_STATUS_CLEANUP_DELAY_SECONDS later
\* the entry is dropped, whatever run it then belongs to, unless the task is
\* active again.
StatusCleanup(k) ==
  /\ timer[k]
  /\ timer' = [timer EXCEPT ![k] = FALSE]
  /\ status' = IF active[k] THEN status ELSE [status EXCEPT ![k] = None]
  /\ UNCHANGED <<fresh, runVars, cancelReq, active, handle, cancelVars,
                 drainVars>>

BeginShutdown ==
  /\ drain = "up" /\ drains < MaxDrains
  /\ drain' = "closing" /\ drains' = drains + 1
  /\ UNCHANGED <<fresh, runVars, cancelReq, registry, cancelVars, drainSet>>

\* drain_background_runs takes its snapshot of the handles.
DrainSnapshot ==
  /\ drain = "closing"
  /\ drain' = "draining"
  /\ drainSet' = {r \in Runs : pc[r] # "done" /\ \E k \in Tasks : handle[k] = r}
  /\ UNCHANGED <<fresh, runVars, cancelReq, registry, cancelVars, drains>>

\* The drain's timeout cancels what is left.  It is 15 seconds, by when the loop
\* has given every coroutine its first step.
DrainTimeout ==
  /\ drain = "draining"
  /\ \E r \in drainSet : pc[r] # "done"
  /\ \A r \in drainSet : pc[r] # "created"
  /\ drain' = "cancelling"
  /\ cancelReq' = [r \in Runs |->
                     cancelReq[r] \/ (r \in drainSet /\ pc[r] # "done")]
  /\ UNCHANGED <<fresh, runVars, registry, cancelVars, drainSet, drains>>

\* (seeded fault) the drain does not await what it has cancelled
DrainDoneEarly ==
  /\ drain \in {"draining", "cancelling"}
  /\ drain = "draining" => \A r \in drainSet : pc[r] = "done"
  /\ drain' = "drained" /\ drainSet' = {}
  /\ UNCHANGED <<fresh, runVars, cancelReq, registry, cancelVars, drains>>

DrainDone ==
  /\ drain \in {"draining", "cancelling"}
  /\ \A r \in drainSet : pc[r] = "done"
  /\ drain' = "drained" /\ drainSet' = {}
  /\ UNCHANGED <<fresh, runVars, cancelReq, registry, cancelVars, drains>>

\* _start_restore_services: the data directory was replaced, runs are admitted.
Resume ==
  /\ drain = "drained"
  /\ drain' = "up"
  /\ UNCHANGED <<fresh, runVars, cancelReq, registry, cancelVars, drainSet,
                 drains>>

-----------------------------------------------------------------------------
(* The specification *)

\* Nothing is left to do (not a step of the program).
Quiescent ==
  /\ \A r \in Runs : pc[r] \in {"unused", "done"}
  /\ req = Idle /\ \A k \in Tasks : ~timer[k]
  /\ UNCHANGED vars

Start(r) == \E k \in Tasks :
  (r \in HttpRuns /\ StartTaskRun(r, k)) \/ (r \in DirectRuns /\ Trigger(r, k))

\* What the coroutine itself does once it was created.
Advance(r) ==
  \/ Refuse(r) \/ RejectDuplicate(r) \/ BeginExecute(r) \/ AccountChecked(r)
  \/ Prepare(r) \/ Executed(r) \/ ErrorHandled(r) \/ TargetFetched(r)
  \/ Notified(r) \/ ClientStopped(r)
  \/ CancelUnstarted(r) \/ CancelSeen(r) \/ CancelErring(r)
  \/ CancelFinalizing(r) \/ CancelStopping(r)

Cancelling ==
  \/ \E k \in Tasks, id \in HttpRuns \cup {None} : CancelRead(k, id)
  \/ CancelSend \/ CancelMark

Drain == BeginShutdown \/ DrainSnapshot \/ DrainTimeout \/ DrainDone \/ Resume

Next ==
  \/ \E r \in Runs : Start(r) \/ Advance(r) \/ AcquireLock(r)
  \/ Cancelling
  \/ \E k \in Tasks : StatusCleanup(k)
  \/ Drain
  \/ Quiescent

Spec == Init /\ [][Next]_vars

(* The event loop steps every ready coroutine, and every await of a run ends:  *)
(* the account check and the fetch have timeouts, run_once runs under wait_for,*)
(* HTTP calls have timeouts.  asyncio.Lock serves its waiters in FIFO order,   *)
(* hence strong fairness for the lock.  A pool thread finishes its request and *)
(* a timer fires.                                                              *)
FairSpec ==
  /\ Spec
  /\ \A r \in Runs : WF_vars(Advance(r)) /\ SF_vars(AcquireLock(r))
  /\ WF_vars(CancelSend \/ CancelMark)
  /\ \A k \in Tasks : WF_vars(StatusCleanup(k))
  /\ WF_vars(DrainSnapshot \/ DrainTimeout \/ DrainDone)

-----------------------------------------------------------------------------
(* Properties *)

\* Every variable keeps to the shape of the dictionary or coroutine state it
\* stands for.
TypeOK ==
  /\ pc \in [Runs -> PCs]
  /\ task \in [Runs -> Tasks \cup {None}]
  /\ lease \in [Runs -> {"new", "owned", "released"}]
  /\ locked \in [Accounts -> BOOLEAN]
  /\ outcome \in [Runs -> Outcomes]
  /\ interrupt \in [Runs -> {"none", "seen", "late"}]
  /\ fresh \in Seq(Runs)
  /\ cancelReq \in [Runs -> BOOLEAN]
  /\ active \in [Tasks -> BOOLEAN]
  /\ handle \in [Tasks -> Runs \cup {None}]
  /\ status \in [Tasks -> RunStatus \cup {None}]
  /\ timer \in [Tasks -> BOOLEAN]
  /\ history \subseteq Runs /\ unsaved \subseteq Runs
  /\ req \in CancelRequest /\ cancels \in Nat
  /\ drain \in {"up", "closing", "draining", "cancelling", "drained"}
  /\ drainSet \subseteq Runs /\ drains \in Nat

\* Account mutual exclusion (account_locks.py: one lock per account protects the
\* client session): two runs of one account never execute at the same time,
\* however they were started, cancelled or finalized.
AccountExclusive ==
  \A r, s \in Runs :
    /\ pc[r] \in Holding /\ pc[s] \in Holding
    /\ AccountOf[task[r]] = AccountOf[task[s]]
    => r = s

\* A task has at most one run between its admission and its finalization, and
\* _active_tasks says so exactly: no duplicate slips in, and no cancelled or
\* failed run leaves its task marked active for ever.
OneRunPerTask ==
  /\ \A r, s \in Runs :
       /\ pc[r] \in Working /\ pc[s] \in Working /\ task[r] = task[s]
       => r = s
  /\ \A k \in Tasks : active[k] <=> \E r \in Runs : pc[r] \in Working /\ task[r] = k

\* No path out of the locked section (return, error, timeout, CancelledError at
\* any await) leaves the account's lock closed behind a run that is gone.
LockNotLeaked ==
  \A a \in Accounts :
    locked[a] => \E r \in Runs : pc[r] \in Holding /\ AccountOf[task[r]] = a

\* Both: the lock of an account has exactly one run behind it whenever it is closed,
\* whichever of the two releases (section and finalizer) comes first.
LockTruthful == AccountExclusive /\ LockNotLeaked

\* The history tells what happened: a run that ended uninterrupted after it was
\* admitted either has its record or hands on why it was not saved (the
\* persistence_error in its result), never both; for one that was cancelled before
\* its finalizer no record was written and none was tried.
HistoryMatchesFate ==
  \A r \in Runs : pc[r] = "done" =>
    /\ interrupt[r] = "none" /\ outcome[r] # "none" =>
         (r \in history <=> r \notin unsaved)
    /\ interrupt[r] = "seen" => r \notin history \cup unsaved

\* While a manual run works and nobody cancels, the entry that the panel polls
\* is that run's, and it is "running", until the run publishes its end; then no
\* other run's entry is "running" there: neither a rejected duplicate, nor the
\* end of an earlier run, nor a cleanup timer replaces it.
StatusBelongsToActiveRun ==
  \A r \in HttpRuns :
    LET entry == status[task[r]] IN
    /\ pc[r] \in Working \ {"notifying"} => entry = [run |-> r, state |-> "running"]
    /\ pc[r] = "notifying" /\ entry # None => entry.run = r \/ entry.state # "running"

\* Every run that was created ends: no await is entered that nothing ends, and
\* the account lock is handed on after every kind of exit.
EveryRunEnds == \A r \in Runs : pc[r] # "unused" ~> pc[r] = "done"

\* The run status that the panel polls does not stay "running" for ever
\* (sign_task_runner.py: the early exits guarantee that a terminal state is
\* reached).
RunStatusSettles ==
  \A k \in Tasks :
    (status[k] # None /\ status[k].state = "running")
      ~> (status[k] = None \/ status[k].state # "running")

\* Every run ends, and what the panel shows of it ends with it.
EveryRunSettles == EveryRunEnds /\ RunStatusSettles

\* An active run can be cancelled: its coroutine is the registered handle
\* (_register_background_run: scheduler, ChatOps and manual runs alike).
ActiveRunIsCancellable ==
  \A r \in Runs : pc[r] \in Working => handle[task[r]] = r

\* After the drain no run in progress is a registered handle: it has ended or
\* was cancelled (drain_background_runs).  What it can leave is a run whose
\* handle a rejected duplicate has taken away, see ActiveRunIsCancellable.
DrainLeavesNoRun ==
  drain = "drained" => \A r \in Runs : pc[r] \in Working => handle[task[r]] # r

\* A run that ends as cancelled has written no history (_runner_finalize: a
\* cancelled task writes no history and sends no notification).
CancelledLeavesNoHistory ==
  \A k \in Tasks :
    status[k] # None /\ status[k].state = "cancelled" => status[k].run \notin history

\* A cancel request that names a run_id cancels that run or none
\* (cancel_task_run answers "run_id does not match the current run").
OnlyRequestedRunCancelled ==
  [][\A r \in Runs : CancelSend /\ req.run # None /\ cancelReq'[r] /\ ~cancelReq[r]
       => r = req.run]_vars

\* The run manager implements the promise of AccountExecution: the owner of an
\* account is the run inside its async with, a run has run once its lease is not
\* new.
Owner == [a \in Accounts |->
           IF \E r \in Runs : pc[r] \in Holding /\ AccountOf[task[r]] = a
           THEN CHOOSE r \in Runs : pc[r] \in Holding /\ AccountOf[task[r]] = a
           ELSE None]
Ran == {r \in Runs : lease[r] # "new"}

Execution == INSTANCE AccountExecution
               WITH Nobody <- None, owner <- Owner, ran <- Ran
ExecutionSpec == Execution!Spec
ExecutionFairSpec == Execution!FairSpec

=============================================================================
