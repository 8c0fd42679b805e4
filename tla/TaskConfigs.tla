---------------------------- MODULE TaskConfigs ----------------------------
(***************************************************************************)
(* The copies of one shared sign task, <signs>/<account>/<task>/config.json,*)
(* and its scheduler jobs: create, update, delete and toggle of            *)
(* backend/services/sign_task_crud.py (requests in pool threads), the      *)
(* expansion of the account wildcard "*" and the job synchronisation of    *)
(* backend/scheduler (one coroutine on the event loop, without an await).  *)
(*                                                                         *)
(* account_names is ["*"], alone or beside names.  Threads interleave at   *)
(* the path locks and between the file, the tombstone table and the jobs.  *)
(***************************************************************************)
EXTENDS FiniteSets

CONSTANTS
  Owners,    \* account names that are registered
  Deletes, Updates, Toggles,  \* requests, each a thread
  StarOnly   \* account_names is ["*"], with nothing beside it

ASSUME TasksAssumption == IsFiniteSet(Owners) /\ StarOnly \in BOOLEAN

Requests == Deletes \cup Updates \cup Toggles

VARIABLES
  copy,     \* config.json of each account: "none", "on" or "off" (enabled)
  starred,  \* accounts whose copy carries "*"
  tombs,    \* WildcardTombstoneModel: copies that were deleted
  jobs,     \* accounts with a scheduler job for the task
  listed,   \* the cached list: accounts whose copy the last scan saw
  pathLock, \* accounts whose path lock is held, by an update
  at,       \* where each request is
  work,     \* the accounts it has yet to treat, and those it took first
  read,     \* what the stripping of a delete read of a copy
  sync,     \* sync_jobs: where it is and what it has read
  wanted,   \* a sync was scheduled behind a response
  unsynced  \* a change was made since the last sync began
tasksVars == <<copy, starred, tombs, jobs, listed, pathLock, at, work, read, sync,
               wanted, unsynced>>

Present == {a \in Owners : copy[a] # "none"}
Enabled == {a \in Owners : copy[a] = "on"}
NoSync == [step |-> "idle", existing |-> {}, base |-> {}, todo |-> {}, on |-> {},
           off |-> {}]

\* One account has the task with the wildcard; the others were registered since.
TasksInit ==
  /\ \E a \in Owners : /\ copy = [b \in Owners |-> IF b = a THEN "on" ELSE "none"]
                       /\ starred = {a} /\ jobs = {a} /\ listed = {a}
  /\ tombs = {} /\ pathLock = {}
  /\ at = [r \in Requests |-> "new"]
  /\ work = [r \in Requests |-> [todo |-> {}, taken |-> {}]]
  /\ read = [r \in Requests |-> "none"]
  /\ sync = NoSync /\ wanted = TRUE /\ unsynced = TRUE

Go(r, s) == at' = [at EXCEPT ![r] = s]
Todo(r, S) == work' = [work EXCEPT ![r].todo = S]

-----------------------------------------------------------------------------
(* delete_task *)

\* The related copies are those of the cached list.
DeleteBegins(d) ==
  /\ at[d] = "new" /\ listed # {}
  /\ Go(d, "removing")
  /\ work' = [work EXCEPT ![d] = [todo |-> listed, taken |-> listed]]
  /\ UNCHANGED <<copy, starred, tombs, jobs, listed, pathLock, read, sync, wanted, unsynced>>

\* Under the lock of its path the directory of a copy is removed ...
RemoveCopy(d, a) ==
  /\ at[d] = "removing" /\ a \in work[d].todo /\ a \notin pathLock
  /\ Go(d, "marking") /\ Todo(d, work[d].todo \ {a})
  /\ copy' = [copy EXCEPT ![a] = "none"]
  /\ starred' = starred \ {a}
  /\ read' = [read EXCEPT ![d] = a]
  /\ unsynced' = TRUE
  /\ UNCHANGED <<tombs, jobs, listed, pathLock, sync, wanted>>

\* ... and after the lock its job, its run state and its tombstone.
MarkRemoved(d) ==
  /\ at[d] = "marking"
  /\ Go(d, IF work[d].todo = {} THEN "stripping" ELSE "removing")
  /\ IF work[d].todo = {} THEN Todo(d, Owners \ work[d].taken) ELSE UNCHANGED work
  /\ jobs' = jobs \ {read[d]}
  /\ tombs' = tombs \cup {read[d]}
  /\ unsynced' = TRUE
  /\ UNCHANGED <<copy, starred, listed, pathLock, read, sync, wanted>>

\* _strip_wildcard_marker reads a copy without its lock ...
StripReads(d, a) ==
  /\ at[d] = "stripping" /\ a \in work[d].todo
  /\ IF a \in starred
     THEN /\ read' = [read EXCEPT ![d] = <<a, copy[a]>>]
          /\ Go(d, "writing") /\ UNCHANGED work
     ELSE /\ Todo(d, work[d].todo \ {a})
          /\ UNCHANGED <<read, at>>
  /\ UNCHANGED <<copy, starred, tombs, jobs, listed, pathLock, sync, wanted, unsynced>>

\* ... and under it writes what it read without "*", or removes a copy that would
\* be left without an account.
StripWrites(d) ==
  LET a == read[d][1]
  IN /\ at[d] = "writing" /\ a \notin pathLock
     /\ copy' = [copy EXCEPT ![a] = IF StarOnly THEN "none" ELSE read[d][2]]
     /\ starred' = starred \ {a}
     /\ Go(d, "stripping") /\ Todo(d, work[d].todo \ {a})
     /\ unsynced' = TRUE
     /\ UNCHANGED <<tombs, jobs, listed, pathLock, read, sync, wanted>>

\* _wildcard_delete_verified; only a delete that succeeded schedules a sync.
DeleteEnds(d) ==
  /\ at[d] = "stripping" /\ work[d].todo = {}
  /\ Go(d, "done")
  /\ IF work[d].taken \cap (Present \cup jobs) = {}
     THEN listed' = Present /\ wanted' = TRUE
     ELSE UNCHANGED <<listed, wanted>>
  /\ UNCHANGED <<copy, starred, tombs, jobs, pathLock, work, read, sync, unsynced>>

-----------------------------------------------------------------------------
(* update_task and toggle_task_enabled *)

\* The locks of the listed copies (in the order of their paths: no two updates
\* wait for each other), held until the update returns.
UpdateBegins(u) ==
  /\ at[u] = "new" /\ listed # {} /\ listed \cap pathLock = {}
  /\ pathLock' = pathLock \cup listed
  /\ \E e \in {"on", "off"} : Go(u, e)
  /\ work' = [work EXCEPT ![u] = [todo |-> Owners, taken |-> listed]]
  /\ UNCHANGED <<copy, starred, tombs, jobs, listed, read, sync, wanted, unsynced>>

\* "*" stands for every account: each gets the configuration, loses its tombstone
\* and has its job put in order.
UpdateWrites(u, a) ==
  /\ at[u] \in {"on", "off"} /\ a \in work[u].todo
  /\ a \in work[u].taken \/ a \notin pathLock
  /\ copy' = [copy EXCEPT ![a] = at[u]]
  /\ starred' = starred \cup {a}
  /\ tombs' = tombs \ {a}
  /\ jobs' = IF at[u] = "on" THEN jobs \cup {a} ELSE jobs \ {a}
  /\ Todo(u, work[u].todo \ {a})
  /\ unsynced' = TRUE
  /\ UNCHANGED <<listed, pathLock, at, read, sync, wanted>>

UpdateEnds(u) ==
  /\ at[u] \in {"on", "off"} /\ work[u].todo = {}
  /\ Go(u, "done")
  /\ pathLock' = pathLock \ work[u].taken
  /\ listed' = Present
  /\ wanted' = TRUE
  /\ UNCHANGED <<copy, starred, tombs, jobs, work, read, sync, unsynced>>

\* toggle_task_enabled writes the flipped flag under the lock; then it calls
\* invalidate_tasks_cache with an argument that method does not take, and the
\* request fails before the job is updated and before a sync is scheduled.
Toggle(t, a) ==
  /\ at[t] = "new" /\ copy[a] # "none" /\ a \notin pathLock
  /\ copy' = [copy EXCEPT ![a] = IF @ = "on" THEN "off" ELSE "on"]
  /\ unsynced' = TRUE
  /\ Go(t, "done")
  /\ UNCHANGED <<starred, tombs, jobs, listed, pathLock, work, read, sync, wanted>>

-----------------------------------------------------------------------------
(* sync_jobs *)

\* The jobs that exist, the copies that carry "*" and the tombstones are read.
SyncBegins ==
  /\ sync.step = "idle" /\ wanted
  /\ sync' = [NoSync EXCEPT !.step = "expanding", !.existing = jobs,
                            !.base = {copy[a] : a \in starred},
                            !.todo = IF starred = {} THEN {} ELSE Owners \ tombs]
  /\ wanted' = FALSE /\ unsynced' = FALSE
  /\ UNCHANGED <<copy, starred, tombs, jobs, listed, pathLock, at, work, read>>

\* _expand_wildcard_tasks: an account without a copy gets one.
Expand(a) ==
  /\ sync.step = "expanding" /\ a \in sync.todo /\ a \notin pathLock
  /\ sync' = [sync EXCEPT !.todo = @ \ {a}]
  /\ IF copy[a] # "none" THEN UNCHANGED <<copy, starred>>
     ELSE /\ \E c \in sync.base : copy' = [copy EXCEPT ![a] = c]
          /\ starred' = starred \cup {a}
  /\ UNCHANGED <<tombs, jobs, listed, pathLock, at, work, read, wanted, unsynced>>

\* list_tasks(force_refresh=True)
SyncLists ==
  /\ sync.step = "expanding" /\ sync.todo = {}
  /\ sync' = [sync EXCEPT !.step = "scheduling", !.on = Enabled,
                          !.off = Present \ Enabled]
  /\ listed' = Present
  /\ UNCHANGED <<copy, starred, tombs, jobs, pathLock, at, work, read, wanted, unsynced>>

\* (seeded fault) the jobs of tasks that are gone are not removed
ScheduleNoObsolete(s) == (jobs \cup s.on) \ (s.existing \cap s.off)

\* An enabled task gets a job unless it had one, which is rescheduled: that fails
\* without effect when the job has been removed since; jobs that existed are
\* removed when their task is disabled or gone.
Scheduled(s) ==
  (jobs \cup (s.on \ s.existing)) \ ((s.existing \cap s.off) \cup (s.existing \ (s.on \cup s.off)))

SyncSchedules ==
  /\ sync.step = "scheduling"
  /\ jobs' = Scheduled(sync)
  /\ sync' = NoSync
  /\ UNCHANGED <<copy, starred, tombs, listed, pathLock, at, work, read, wanted, unsynced>>

\* Every request was answered (not a step of the program).
TasksRest ==
  /\ \A r \in Requests : at[r] = "done" \/ listed = {}
  /\ sync.step = "idle" /\ ~wanted
  /\ UNCHANGED tasksVars

TasksNext ==
  \/ \E d \in Deletes :
       \/ DeleteBegins(d) \/ MarkRemoved(d) \/ StripWrites(d) \/ DeleteEnds(d)
       \/ \E a \in Owners : RemoveCopy(d, a) \/ StripReads(d, a)
  \/ \E u \in Updates :
       \/ UpdateBegins(u) \/ UpdateEnds(u)
       \/ \E a \in Owners : UpdateWrites(u, a)
  \/ \E t \in Toggles, a \in Owners : Toggle(t, a)
  \/ SyncBegins \/ SyncLists \/ SyncSchedules
  \/ \E a \in Owners : Expand(a)
  \/ TasksRest

TasksSpec == TasksInit /\ [][TasksNext]_tasksVars

-----------------------------------------------------------------------------
(* Properties *)

\* A copy with the wildcard is a copy, path locks are held by updates, and a sync
\* has read copies of the accounts only.
TasksTypeOK ==
  /\ copy \in [Owners -> {"none", "on", "off"}] /\ starred \subseteq Present
  /\ {tombs, jobs, listed, pathLock} \subseteq SUBSET Owners
  /\ pathLock = UNION {work[u].taken : u \in {v \in Updates : at[v] \in {"on", "off"}}}
  /\ sync.step \in {"idle", "expanding", "scheduling"}
  /\ sync.on \cap sync.off = {} /\ sync.on \cup sync.off \subseteq Owners
  /\ wanted \in BOOLEAN /\ unsynced \in BOOLEAN

AllAnswered == \A r \in Requests : at[r] \in {"new", "done"}

\* A sync that began after the last change leaves exactly the jobs of the enabled
\* copies, whatever deletes, updates, toggles and earlier syncs overlapped.
SyncSettlesJobs ==
  AllAnswered /\ sync.step = "idle" /\ ~unsynced => jobs = Enabled
=============================================================================
