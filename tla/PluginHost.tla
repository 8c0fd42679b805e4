----------------------------- MODULE PluginHost -----------------------------
(***************************************************************************)
(* One execution of a plugin in its own process                            *)
(* (plugin_host.py PluginProcessHost, plugin_worker.py run_worker_loop):   *)
(* the worker asks for Telegram operations over a pipe, the host runs each *)
(* in a task of its own, and the result, the exit of the process, the      *)
(* timeout and the cancellation of the caller race for the end.            *)
(***************************************************************************)
EXTENDS Naturals, Sequences, FiniteSets

CONSTANTS HostCalls   \* the operations the plugin may ask for

ASSUME HostAssumption == IsFiniteSet(HostCalls)

VARIABLES
  hostAt,     \* where PluginProcessHost.execute is
  worker,     \* the process: "none", "alive", "gone"
  registered, \* the process is in _active_worker_processes
  pipe,       \* the lines of the worker's stdout not read by the host
  asking,     \* the calls of the plugin, as the worker sees them
  task,       \* the host's task of each call
  begun,      \* the calls whose operation was begun on Telegram
  future,     \* result_future
  endedBy,    \* what ended the execution
  records     \* PluginRegistry.record_execution
hostVars == <<hostAt, worker, registered, pipe, asking, task, begun, future, endedBy,
              records>>

HostInit ==
  /\ hostAt = "spawning" /\ worker = "none" /\ registered = FALSE
  /\ pipe = <<>>
  /\ asking = [c \in HostCalls |-> "no"] /\ task = [c \in HostCalls |-> "none"]
  /\ begun = {} /\ future = "none" /\ endedBy = "none" /\ records = <<>>

(* (seeded faults) the success counted before the result is taken; the      *)
(* tasks of the calls left to themselves at the end                         *)
CountsFirst(result) == IF result = "error" THEN <<"success", "failure">> ELSE <<"success">>
LeavesTasks == task

Listening == hostAt \in {"waiting", "draining"}

-----------------------------------------------------------------------------
(* The host starts the worker and writes its first line. *)

Spawn ==
  /\ hostAt = "spawning"
  /\ hostAt' = "writing" /\ worker' = "alive" /\ registered' = TRUE
  /\ UNCHANGED <<pipe, asking, task, begun, future, endedBy, records>>

InitWritten ==
  /\ hostAt = "writing"
  /\ hostAt' = "waiting"
  /\ UNCHANGED <<worker, registered, pipe, asking, task, begun, future, endedBy, records>>

-----------------------------------------------------------------------------
(* The worker: a handler may await an operation or leave it to a task, give *)
(* one up, return or raise with operations under way, and exit without.     *)

WorkerTells(line) == pipe' = Append(pipe, line)
Running == worker = "alive" /\ hostAt # "writing"
Returned == \E i \in DOMAIN pipe : pipe[i][1] = "return"

WorkerCalls(c) ==
  /\ Running /\ asking[c] = "no" /\ ~Returned /\ future = "none"
  /\ asking' = [asking EXCEPT ![c] = "pending"]
  /\ WorkerTells(<<"call", c>>)
  /\ UNCHANGED <<hostAt, worker, registered, task, begun, future, endedBy, records>>

WorkerCancels(c) ==
  /\ Running /\ asking[c] = "pending" /\ ~Returned /\ future = "none"
  /\ asking' = [asking EXCEPT ![c] = "abandoned"]
  /\ WorkerTells(<<"call_cancel", c>>)
  /\ UNCHANGED <<hostAt, worker, registered, task, begun, future, endedBy, records>>

WorkerReturns ==
  /\ Running /\ ~Returned /\ future = "none"
  /\ \E result \in {"ok", "error"} : WorkerTells(<<"return", result>>)
  /\ UNCHANGED <<hostAt, worker, registered, asking, task, begun, future, endedBy, records>>

WorkerExits ==
  /\ worker = "alive"
  /\ worker' = "gone"
  /\ UNCHANGED <<hostAt, registered, pipe, asking, task, begun, future, endedBy, records>>

-----------------------------------------------------------------------------
(* stdout_reader and the tasks of dispatch_rpc_call. *)

\* A call gets a task; call_cancel cancels one still under way.
ReadLine ==
  /\ Listening /\ pipe # <<>>
  /\ pipe' = Tail(pipe)
  /\ LET kind == Head(pipe)[1]
         what == Head(pipe)[2]
     IN CASE kind = "call" ->
               /\ task' = [task EXCEPT ![what] = "created"]
               /\ UNCHANGED future
          [] kind = "call_cancel" ->
               /\ task' = [task EXCEPT ![what] =
                             IF @ \in {"created", "running"} THEN "cancelled" ELSE @]
               /\ UNCHANGED future
          [] kind = "return" ->
               /\ future' = IF future = "none" THEN what ELSE future
               /\ UNCHANGED task
  /\ UNCHANGED <<hostAt, worker, registered, asking, begun, endedBy, records>>

\* The grant is checked, the side effect marked, the operation begun.
BeginOperation(c) ==
  /\ task[c] = "created"
  /\ \/ /\ task' = [task EXCEPT ![c] = "running"]
        /\ begun' = begun \cup {c}
     \/ /\ task' = [task EXCEPT ![c] = "done"]      \* PLUGIN_CAPABILITY_DENIED
        /\ UNCHANGED begun
  /\ UNCHANGED <<hostAt, worker, registered, pipe, asking, future, endedBy, records>>

\* A result, an error or the 15 seconds; the worker hears of it if it can.
EndOperation(c) ==
  /\ task[c] = "running"
  /\ task' = [task EXCEPT ![c] = "done"]
  /\ asking' = IF worker = "alive" /\ asking[c] = "pending"
               THEN [asking EXCEPT ![c] = "answered"] ELSE asking
  /\ UNCHANGED <<hostAt, worker, registered, pipe, begun, future, endedBy, records>>

-----------------------------------------------------------------------------
(* The end of the execution. *)

\* The result is taken before it is counted: an error counts once, in execute.
CountedFor(result) == IF result = "error" THEN <<"failure">> ELSE <<"success">>

CancelledTasks == [c \in HostCalls |-> IF task[c] \in {"created", "running"}
                                   THEN "cancelled" ELSE task[c]]

\* The way out counts, and its finally block cancels the tasks and the readers
\* before the first await.
Leaves(why, counted) ==
  /\ hostAt' = "killing" /\ endedBy' = why
  /\ records' = records \o counted
  /\ task' = CancelledTasks
  /\ UNCHANGED <<worker, registered, pipe, asking, begun, future>>

TakeResult ==
  /\ hostAt = "waiting" /\ future # "none"
  /\ Leaves(future, CountedFor(future))

\* The process exited: half a second for what is still in the pipe.
SeeExit ==
  /\ hostAt = "waiting" /\ worker = "gone" /\ future = "none"
  /\ hostAt' = "draining"
  /\ UNCHANGED <<worker, registered, pipe, asking, task, begun, future, endedBy, records>>

Drained ==
  /\ hostAt = "draining"
  /\ IF future # "none" THEN Leaves(future, CountedFor(future))
     ELSE Leaves("error", <<"failure">>)

TimesOut ==
  /\ hostAt \in {"writing", "waiting"}
  /\ future = "none" \/ hostAt = "writing"
  /\ Leaves("timeout", <<"failure">>)

\* CancelledError is no Exception: execute does not count it.  While the pipe
\* drains, a cancellation is swallowed and the execution ends as in Drained.
Cancelled ==
  /\ hostAt \in {"writing", "waiting"}
  /\ Leaves("cancelled", <<>>)

\* kill_process_tree, a second at most for the process, unregistered.
Kill ==
  /\ hostAt = "killing"
  /\ worker' = "gone" /\ registered' = FALSE
  /\ hostAt' = "ended"
  /\ UNCHANGED <<pipe, asking, task, begun, future, endedBy, records>>

\* cleanup_all_worker_processes, when the application stops.
CleanupAll ==
  /\ registered
  /\ worker' = "gone" /\ registered' = FALSE
  /\ UNCHANGED <<hostAt, pipe, asking, task, begun, future, endedBy, records>>

HostNext ==
  \/ Spawn \/ InitWritten \/ WorkerReturns \/ WorkerExits \/ ReadLine
  \/ \E c \in HostCalls : WorkerCalls(c) \/ WorkerCancels(c) \/ BeginOperation(c)
                      \/ EndOperation(c)
  \/ TakeResult \/ SeeExit \/ Drained \/ TimesOut \/ Cancelled
  \/ Kill \/ CleanupAll

HostSpec == HostInit /\ [][HostNext]_hostVars

-----------------------------------------------------------------------------
(* A call has a task only when the plugin asked for it, and what was begun  *)
(* had one; the process is registered no longer than its host lives.        *)
HostTypeOK ==
  /\ hostAt \in {"spawning", "writing", "waiting", "draining", "killing", "ended"}
  /\ worker \in {"none", "alive", "gone"} /\ registered \in BOOLEAN
  /\ future \in {"none", "ok", "error"} /\ Len(pipe) <= 2 * Cardinality(HostCalls) + 1
  /\ \A c \in HostCalls : asking[c] = "no" => task[c] = "none"
  /\ begun \subseteq {c \in HostCalls : task[c] \in {"running", "done", "cancelled"}}
  /\ registered => hostAt \notin {"spawning", "ended"}

(* An execution is counted once, as what it was, whichever of the result,   *)
(* the exit and the timeout won; a cancelled one is not counted.            *)
CountedOnce ==
  hostAt \in {"killing", "ended"} =>
    records = CASE endedBy = "cancelled" -> <<>>
                [] endedBy = "ok" -> <<"success">>
                [] OTHER -> <<"failure">>

(* No operation of a plugin begins once its execution is being torn down,   *)
(* and the execution leaves neither a process nor its registration behind.  *)
QuietAfterEnd ==
  [][/\ hostAt \in {"killing", "ended"} => begun' = begun
     /\ hostAt' = "ended" => worker' = "gone" /\ ~registered']_hostVars
=============================================================================
