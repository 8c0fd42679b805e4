--------------------------- MODULE KeywordMonitor ---------------------------
(***************************************************************************)
(* The keyword listeners (backend/services/keyword_monitor/runtime.py) and *)
(* the changes of accounts (backend/services/account_lifecycle.py), which  *)
(* meet on three kinds of locks: the lock of the monitor, the lock of the  *)
(* account changes and the locks of the accounts                           *)
(* (backend/utils/account_locks.py), which the sign runs hold too.         *)
(*                                                                         *)
(* The processes are executions of restart_from_tasks after an edit of the *)
(* tasks (Restarts), of stop() alone (Stops: restore and shutdown), of     *)
(* apply_account_change_plan (Changes), and sign runs (Runs).  A step goes *)
(* from one await to the next.                                             *)
(***************************************************************************)
EXTENDS Naturals, Sequences, FiniteSets

CONSTANTS
  Accounts,  \* account names, as numbers: their order is the order of the names
  Restarts, Stops, Changes, Runs,
  Old, New,  \* the account that a change renames, or deletes (New = Old)
  Nobody     \* the owner of a free lock

Procs == Restarts \cup Stops \cup Changes \cup Runs

ASSUME ConstantsAssumption ==
  /\ Accounts \subseteq Nat /\ IsFiniteSet(Accounts)
  /\ Old \in [Changes -> Accounts] /\ New \in [Changes -> Accounts]
  /\ Nobody \notin Procs
  /\ Changes \cap (Restarts \cup Stops \cup Runs) = {}

VARIABLES
  disk,       \* accounts with a listen rule in the task files
  monitor,    \* owner of KeywordMonitorService._lock
  changing,   \* owner of account_lifecycle._change_lock
  lock,       \* owner of each account lock
  lists,      \* the lists _handler_refs has named; the last is the current one
  key,        \* _active_key: {the accounts of the active rules}, {} for ""
  listeners,  \* handlers registered on clients: <<account, process>>
  users,      \* _CLIENT_REFS: references to the client of each account
  pc,         \* where each process is
  job         \* its local variables
vars == <<disk, monitor, changing, lock, lists, key, listeners, users, pc, job>>

\* The rules a restart has loaded, the accounts it has yet to start and those it
\* has started; the list a stop goes through, and how far it is.
Job == [rules : SUBSET Accounts, todo : SUBSET Accounts,
        started : SUBSET Accounts, list : Nat, index : Nat]

Init ==
  /\ disk \in SUBSET Accounts
  /\ monitor = Nobody /\ changing = Nobody
  /\ lock = [a \in Accounts |-> Nobody]
  /\ lists = << <<>> >> /\ key = {}
  /\ listeners = {} /\ users = [a \in Accounts |-> 0]
  /\ pc = [p \in Procs |-> "idle"]
  /\ job = [p \in Procs |-> [rules |-> {}, todo |-> {}, started |-> {},
                             list |-> 0, index |-> 0]]

Current == lists[Len(lists)]
Least(S) == CHOOSE a \in S : \A b \in S : a <= b
Goto(p, label) == pc' = [pc EXCEPT ![p] = label]

-----------------------------------------------------------------------------
(* Account locks and clients *)

\* The locks of a change, which its own steps do not take again
\* (_HELD_ACCOUNT_NAMES).
Held(p) == IF p \in Changes THEN {Old[p], New[p]} ELSE {}

\* (seeded fault) the lock of the account is not waited for
CanEnterAlways(p, a) == TRUE

\* account_lock_context
CanEnter(p, a) == a \in Held(p) \/ lock[a] = Nobody
Entered(p, a) == IF a \in Held(p) THEN lock ELSE [lock EXCEPT ![a] = p]
Left(p, a) == IF a \in Held(p) THEN lock ELSE [lock EXCEPT ![a] = Nobody]

\* Client.__aexit__: the last reference closes the client, with its handlers.
GiveBack(a) ==
  /\ users' = [users EXCEPT ![a] = IF @ > 0 THEN @ - 1 ELSE 0]
  /\ listeners' = IF users[a] > 1 THEN listeners
                  ELSE {h \in listeners : h[1] # a}

\* close_client_by_name
Close(a) ==
  /\ users' = [users EXCEPT ![a] = 0]
  /\ listeners' = {h \in listeners : h[1] # a}

-----------------------------------------------------------------------------
(* KeywordMonitorService.stop *)

\* The end of stop() and what its caller does next: a restart goes on to start
\* the accounts of rs, a change to close the client, stop() alone returns.
StopEnds(p, rs) ==
  /\ lists' = Append(lists, <<>>)
  /\ IF monitor # p
     THEN /\ Goto(p, IF p \in Changes THEN "closing" ELSE "done")
          /\ key' = {} /\ job' = job /\ monitor' = monitor
     ELSE IF rs = {}
     THEN /\ Goto(p, "restarted")
          /\ key' = {{}} /\ job' = job /\ monitor' = Nobody
     ELSE /\ Goto(p, "starting")
          /\ key' = {} /\ monitor' = monitor
          /\ job' = [job EXCEPT ![p] = [@ EXCEPT !.rules = rs, !.todo = rs,
                                               !.started = {}]]

\* stop() runs to the lock of its first account, or to its end.
StopBegins(p, rs) ==
  IF Current = <<>> THEN StopEnds(p, rs)
  ELSE /\ Goto(p, "stopping")
       /\ job' = [job EXCEPT ![p] = [@ EXCEPT !.rules = rs, !.list = Len(lists),
                                            !.index = 1]]
       /\ UNCHANGED <<lists, key, monitor>>

Entry(p) == lists[job[p].list][job[p].index]

\* The lock of the account is taken and the handlers are removed.
StopListener(p) ==
  /\ pc[p] = "stopping" /\ CanEnter(p, Entry(p)[1])
  /\ lock' = Entered(p, Entry(p)[1])
  /\ listeners' = listeners \ {Entry(p)}
  /\ Goto(p, "exiting")
  /\ UNCHANGED <<disk, monitor, changing, lists, key, users, job>>

\* (seeded fault) the loop goes one entry too far
MoreOrEnd(p) == job[p].index <= Len(lists[job[p].list])

More(p) == job[p].index < Len(lists[job[p].list])

\* The client has been given back; the loop goes on over the list it began with.
ListenerStopped(p) ==
  /\ pc[p] = "exiting"
  /\ lock' = Left(p, Entry(p)[1])
  /\ GiveBack(Entry(p)[1])
  /\ IF More(p)
     THEN /\ Goto(p, "stopping")
          /\ job' = [job EXCEPT ![p].index = @ + 1]
          /\ UNCHANGED <<lists, key, monitor>>
     ELSE StopEnds(p, job[p].rules)
  /\ UNCHANGED <<disk, changing>>

\* stop() outside any restart: restore and shutdown.
Stop(p) ==
  /\ p \in Stops /\ pc[p] = "idle"
  /\ StopBegins(p, {})
  /\ UNCHANGED <<disk, changing, lock, listeners, users>>

-----------------------------------------------------------------------------
(* KeywordMonitorService.restart_from_tasks *)

\* An edit of the tasks, whose route restarts the listeners in the background.
Edit(p) ==
  /\ p \in Restarts /\ pc[p] = "idle"
  /\ \E a \in Accounts : disk' \in {disk, disk \cup {a}, disk \ {a}}
  /\ Goto(p, "restarting")
  /\ UNCHANGED <<monitor, changing, lock, lists, key, listeners, users, job>>

\* (seeded fault) the restarts do not exclude each other
EnterRestartUnlocked(p) ==
  /\ pc[p] = "restarting"
  /\ monitor' = p
  /\ Goto(p, "loading")
  /\ UNCHANGED <<disk, changing, lock, lists, key, listeners, users, job>>

\* The lock of the monitor is taken.
EnterRestart(p) ==
  /\ pc[p] = "restarting" /\ monitor = Nobody
  /\ monitor' = p
  /\ Goto(p, "loading")
  /\ UNCHANGED <<disk, changing, lock, lists, key, listeners, users, job>>

\* _handlers_are_active_for
Active(rs) ==
  IF rs = {} THEN Current = <<>>
  ELSE \A a \in rs : users[a] > 0 /\ \E i \in DOMAIN Current : Current[i][1] = a

UpToDate == key = {disk} /\ Active(disk)

\* The rules are loaded; when they are the active ones, nothing is done.
Load(p) ==
  /\ pc[p] = "loading"
  /\ IF UpToDate
     THEN /\ monitor' = Nobody
          /\ Goto(p, "restarted")
          /\ UNCHANGED <<lists, key, job>>
     ELSE StopBegins(p, disk)
  /\ UNCHANGED <<disk, changing, lock, listeners, users>>


NewKey(p, started) == IF started = job[p].rules THEN {started} ELSE {}

\* The restart goes on after account a, or ends.
GoOn(p, a, started) ==
  LET rest == job[p].todo \ {a}
  IN /\ job' = [job EXCEPT ![p] = [@ EXCEPT !.todo = rest, !.started = started]]
     /\ IF rest # {} THEN Goto(p, "starting") /\ UNCHANGED <<key, monitor>>
        ELSE /\ Goto(p, "restarted")
             /\ monitor' = Nobody
             /\ key' = NewKey(p, started)

\* No usable proxy or session: the account is left out.
SkipAccount(p) ==
  /\ pc[p] = "starting"
  /\ GoOn(p, Least(job[p].todo), job[p].started)
  /\ UNCHANGED <<disk, changing, lock, lists, listeners, users>>

\* The lock of the account is taken, the handlers are registered.
StartListener(p) ==
  LET a == Least(job[p].todo)
  IN /\ pc[p] = "starting" /\ CanEnter(p, a)
     /\ lock' = Entered(p, a)
     /\ listeners' = listeners \cup {<<a, p>>}
     /\ Goto(p, "connecting")
     /\ UNCHANGED <<disk, monitor, changing, lists, key, users, job>>

\* Client.__aenter__ has succeeded.
Connected(p) ==
  LET a == Least(job[p].todo)
  IN /\ pc[p] = "connecting"
     /\ lock' = Left(p, a)
     /\ users' = [users EXCEPT ![a] = @ + 1]
     /\ lists' = [lists EXCEPT ![Len(lists)] = Append(@, <<a, p>>)]
     /\ GoOn(p, a, job[p].started \cup {a})
     /\ UNCHANGED <<disk, changing, listeners>>

\* (seeded fault) the same account again
ConnectFailedRetries(p) ==
  LET a == Least(job[p].todo)
  IN /\ pc[p] = "connecting"
     /\ lock' = Left(p, a)
     /\ Close(a)
     /\ Goto(p, "starting")
     /\ UNCHANGED <<disk, monitor, changing, lists, key, job>>

\* Client.__aenter__ has failed: the client is closed by name.
ConnectFailed(p) ==
  LET a == Least(job[p].todo)
  IN /\ pc[p] = "connecting"
     /\ lock' = Left(p, a)
     /\ Close(a)
     /\ GoOn(p, a, job[p].started)
     /\ UNCHANGED <<disk, changing, lists>>

\* restart_from_tasks returns to its caller.
Restarted(p) ==
  /\ pc[p] = "restarted" /\ p \in Restarts
  /\ Goto(p, "done")
  /\ UNCHANGED <<disk, monitor, changing, lock, lists, key, listeners, users, job>>

-----------------------------------------------------------------------------
(* apply_account_change_plan *)

Wanted(c) == {a \in Held(c) : lock[a] # c}
Freed(c) == [a \in Accounts |-> IF lock[a] = c THEN Nobody ELSE lock[a]]

BeginChange(c) ==
  /\ c \in Changes /\ pc[c] = "idle" /\ changing = Nobody
  /\ changing' = c
  /\ Goto(c, "locking")
  /\ UNCHANGED <<disk, monitor, lock, lists, key, listeners, users, job>>

\* acquire_multi_account_locks: one lock after the other, in the order of the
\* names; with the last one the plan is checked again and the monitor stopped.
LockAccount(c) ==
  LET a == Least(Wanted(c))
  IN /\ pc[c] = "locking" /\ lock[a] = Nobody
     /\ lock' = [lock EXCEPT ![a] = c]
     /\ IF Wanted(c) = {a} THEN StopBegins(c, {})
        ELSE UNCHANGED <<monitor, lists, key, pc, job>>
     /\ UNCHANGED <<disk, changing, listeners, users>>

\* A lock is not free in time, or the plan is stale or the account busy.
RefuseChange(c) ==
  /\ pc[c] = "locking"
  /\ lock' = Freed(c) /\ changing' = Nobody
  /\ Goto(c, "done")
  /\ UNCHANGED <<disk, monitor, lists, key, listeners, users, job>>

\* The client is closed and the files are moved, or put back after a failure;
\* then the listeners are restarted.
ChangeFiles(c) ==
  /\ pc[c] = "closing"
  /\ Close(Old[c])
  /\ disk' \in {disk, (disk \ {Old[c]})
                      \cup {a \in {New[c]} : a # Old[c] /\ Old[c] \in disk}}
  /\ Goto(c, "restarting")
  /\ UNCHANGED <<monitor, changing, lock, lists, key, job>>

EndChange(c) ==
  /\ pc[c] = "restarted" /\ c \in Changes
  /\ lock' = Freed(c) /\ changing' = Nobody
  /\ Goto(c, "done")
  /\ UNCHANGED <<disk, monitor, lists, key, listeners, users, job>>

-----------------------------------------------------------------------------
(* Sign runs *)

BeginRun(u) ==
  /\ u \in Runs /\ pc[u] = "idle"
  /\ \E a \in Accounts :
       /\ lock[a] = Nobody
       /\ lock' = [lock EXCEPT ![a] = u]
       /\ users' = [users EXCEPT ![a] = @ + 1]
  /\ Goto(u, "running")
  /\ UNCHANGED <<disk, monitor, changing, lists, key, listeners, job>>

EndRun(u) ==
  /\ pc[u] = "running"
  /\ \E a \in Accounts : lock[a] = u /\ GiveBack(a)
  /\ lock' = Freed(u)
  /\ Goto(u, "done")
  /\ UNCHANGED <<disk, monitor, changing, lists, key, job>>

\* All processes are over: only a stutter is left.
Over == (\A p \in Procs : pc[p] = "done") /\ UNCHANGED vars

Monitoring(p) ==
  \/ StopListener(p) \/ ListenerStopped(p) \/ EnterRestart(p) \/ Load(p)
  \/ SkipAccount(p) \/ StartListener(p) \/ Connected(p) \/ ConnectFailed(p)
  \/ Restarted(p)
Changing(c) ==
  LockAccount(c) \/ RefuseChange(c) \/ ChangeFiles(c) \/ EndChange(c)

Next ==
  \/ \E p \in Procs : Monitoring(p) \/ Stop(p) \/ Edit(p)
  \/ \E c \in Changes : BeginChange(c) \/ Changing(c)
  \/ \E u \in Runs : BeginRun(u) \/ EndRun(u)
  \/ Over

Spec == Init /\ [][Next]_vars

\* The event loop runs every coroutine that can go on, asyncio.Lock serves its
\* waiters in their order, connections and sign runs end (both have timeouts).
MonitorFairness ==
  /\ \A p \in Restarts \cup Stops :
       /\ WF_vars(Monitoring(p))
       /\ SF_vars(StopListener(p) \/ EnterRestart(p) \/ StartListener(p))
  /\ \A u \in Runs : WF_vars(EndRun(u))

FairSpec == Spec /\ MonitorFairness

-----------------------------------------------------------------------------
(* Properties *)

\* Every variable has its type, and a stop() in progress is at a listener of the
\* list it began with (runtime.py: the loop of stop()).
TypeOK ==
  /\ disk \in SUBSET Accounts
  /\ monitor \in Restarts \cup Changes \cup {Nobody}
  /\ changing \in Changes \cup {Nobody}
  /\ lock \in [Accounts -> Procs \cup {Nobody}]
  /\ key \in SUBSET SUBSET Accounts
  /\ listeners \in SUBSET (Accounts \X Procs)
  /\ users \in [Accounts -> Nat]
  /\ job \in [Procs -> Job]
  /\ \A p \in Procs : pc[p] \in {"stopping", "exiting"}
                        => job[p].index \in DOMAIN lists[job[p].list]

\* However many edits restart the listeners at once, no account has two
\* listeners: a message would be answered twice (restart_from_tasks).
OneListener ==
  \A g, h \in listeners : g[1] = h[1] => g = h

\* No restart, stop or change is between its first and its last step.
Quiet ==
  \A p \in Procs :
    pc[p] \in {"idle", "restarting", "restarted", "running", "done"}

\* Between restarts, the listeners registered on the clients are those in
\* _handler_refs: the next stop() finds each of them, and removes them all.
Tracked == Quiet => listeners = {Current[i] : i \in DOMAIN Current}

\* When _active_key names rules, every account of theirs has a tracked listener
\* on a client in use: an equal key lets restart_from_tasks return early.
KeyTruthful ==
  Quiet => \A rs \in key : \A a \in rs :
             users[a] > 0 /\ \E i \in DOMAIN Current : Current[i][1] = a

\* What the service knows of its listeners is true, as one invariant.
HandlersExact == OneListener /\ Tracked /\ KeyTruthful

\* When every restart that an edit caused is over, whatever their order, the
\* listeners are those of the task files, and a key names exactly their rules.
LastEditWins ==
  (\A p \in Procs : pc[p] \in {"idle", "running", "done"})
    => key \subseteq {disk} /\ \A h \in listeners : h[1] \in disk

\* Both, of the listeners that edits restart at once.
ListenersFollow == HandlersExact /\ LastEditWins

\* From the change of the files until the listeners restart, nobody has a client
\* of the old account open: no session file is moved under a live client
\* (apply_account_change_plan, the comment on WAL sidecars).
SessionQuiet ==
  \A c \in Changes :
    pc[c] \in {"restarting", "loading"}
      => users[Old[c]] = 0 /\ \A h \in listeners : h[1] # Old[c]

\* A change that waits for the monitor while it holds its accounts never meets a
\* restart that holds the monitor and waits for one of these accounts (the
\* locking rule of account_locks.py, against deadlocks).
NoLockCycle ==
  ~ \E p \in Restarts, c \in Changes :
      /\ monitor = p /\ pc[c] = "restarting"
      /\ \/ pc[p] = "starting" /\ lock[Least(job[p].todo)] = c
         \/ pc[p] = "stopping" /\ lock[Entry(p)[1]] = c

\* Without account changes, every restart comes to its end, although it waits
\* for the monitor, for sign runs and for other restarts and stops.
EveryRestartEnds ==
  \A p \in Restarts : pc[p] = "restarting" ~> pc[p] = "done"

=============================================================================
