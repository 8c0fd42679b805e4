------------------------------ MODULE RunChain ------------------------------
(***************************************************************************)
(* The pace of the runs of one account: they hold its lock one at a time,  *)
(* wait under it for the cooldown since the end of the last one            *)
(* (_runner_acquire_lock, _runner_finalize), and a run that succeeds may   *)
(* start another task behind it (_runner_trigger_chained_task).            *)
(*                                                                         *)
(* The configuration may be edited while runs are on their way: which task *)
(* is next is a choice each time.  Time is a clock.                        *)
(***************************************************************************)
EXTENDS Naturals, FiniteSets

CONSTANTS
  ChainTasks, \* the tasks of the account
  RunSlots,   \* runs at a time (a bound)
  Cooldown,   \* account_cooldown
  ChainDelay, \* next_task_delay_seconds
  MaxDepth,   \* MAX_CHAIN_DEPTH
  MaxTriggers, LastTick  \* (bounds)

ASSUME ChainAssumption ==
  /\ IsFiniteSet(ChainTasks) /\ {Cooldown, ChainDelay, MaxTriggers, LastTick} \subseteq Nat
  /\ MaxDepth \in Nat \ {0} /\ "nobody" \notin RunSlots

VARIABLES
  clock,
  pace,    \* the runs: where they are, task, visited_chain, trigger, and a time
  waiting, \* the chained runs that wait for their delay
  holder,  \* the run that holds the account lock
  lastEnd, \* _account_last_run_end, or 0
  section, \* (history) the end of the last section, and whether it met an invalid session
  started, \* (history) the runs that each trigger has led to
  triggers
chainVars == <<clock, pace, waiting, holder, lastEnd, section, started, triggers>>

Nowhere == [at |-> "none", task |-> "-", visited |-> {}, root |-> 0, time |-> 0]
Nobody0 == "nobody"

ChainInit ==
  /\ clock = 1 /\ pace = [r \in RunSlots |-> Nowhere] /\ waiting = {}
  /\ holder = Nobody0 /\ lastEnd = 0 /\ section = [end |-> 0, invalid |-> FALSE]
  /\ started = [i \in 1..MaxTriggers |-> 0] /\ triggers = 0

\* _active_tasks: a task that runs already is not started again.
RunsNow(t) == \E r \in RunSlots : pace[r].at # "none" /\ pace[r].task = t
Goes(r, where, time) == pace' = [pace EXCEPT ![r].at = where, ![r].time = time]

Elapse ==
  /\ clock < LastTick
  /\ clock' = clock + 1
  /\ UNCHANGED <<pace, waiting, holder, lastEnd, section, started, triggers>>

-----------------------------------------------------------------------------
(* start_task_run *)

Starts(r, t, visited, root) ==
  IF RunsNow(t) THEN UNCHANGED <<pace, started>>
  ELSE /\ pace' = [pace EXCEPT ![r] = [at |-> "queued", task |-> t, visited |-> visited,
                                       root |-> root, time |-> 0]]
       /\ started' = [started EXCEPT ![root] = @ + 1]

TriggerRun(r, t) ==
  /\ pace[r] = Nowhere /\ triggers < MaxTriggers /\ ~RunsNow(t)
  /\ Starts(r, t, {}, triggers + 1)
  /\ triggers' = triggers + 1
  /\ UNCHANGED <<clock, waiting, holder, lastEnd, section>>

ChainFires(r, c) ==
  /\ pace[r] = Nowhere /\ c \in waiting /\ c.due <= clock
  /\ Starts(r, c.task, c.visited, c.root)
  /\ waiting' = waiting \ {c}
  /\ UNCHANGED <<clock, holder, lastEnd, section, triggers>>

-----------------------------------------------------------------------------
(* _runner_acquire_lock *)

\* The wait is computed once, from the end that is recorded now.
Acquire(r) ==
  /\ pace[r].at = "queued" /\ holder = Nobody0
  /\ holder' = r
  /\ IF lastEnd # 0 /\ clock < lastEnd + Cooldown
     THEN Goes(r, "cooling", lastEnd + Cooldown)
     ELSE Goes(r, "working", clock)
  /\ UNCHANGED <<clock, waiting, lastEnd, section, started, triggers>>

Cooled(r) ==
  /\ pace[r].at = "cooling" /\ pace[r].time <= clock
  /\ Goes(r, "working", clock)
  /\ UNCHANGED <<clock, waiting, holder, lastEnd, section, started, triggers>>

\* (seeded fault) the end is not recorded before the finalizer awaits
WorksLate(r) ==
  /\ pace[r].at = "working"
  /\ \E o \in {"succeeded", "failed"} : Goes(r, o, clock)
  /\ holder' = Nobody0 /\ UNCHANGED lastEnd
  /\ section' = [end |-> clock, invalid |-> FALSE]
  /\ UNCHANGED <<clock, waiting, started, triggers>>

\* The lock is released on the way out and the end is recorded before anything is
\* awaited ...
Works(r) ==
  /\ pace[r].at = "working"
  /\ \E o \in {"succeeded", "failed"} : Goes(r, o, clock)
  /\ holder' = Nobody0 /\ lastEnd' = clock
  /\ section' = [end |-> clock, invalid |-> FALSE]
  /\ UNCHANGED <<clock, waiting, started, triggers>>

\* ... but for an invalid session, which is reported first (_runner_handle_error).
WorkMeetsInvalidSession(r) ==
  /\ pace[r].at = "working"
  /\ Goes(r, "reporting", clock)
  /\ holder' = Nobody0
  /\ section' = [end |-> clock, invalid |-> TRUE]
  /\ UNCHANGED <<clock, waiting, lastEnd, started, triggers>>

Reported(r) ==
  /\ pace[r].at = "reporting"
  /\ Goes(r, "failed", clock)
  /\ lastEnd' = clock
  /\ UNCHANGED <<clock, waiting, holder, section, started, triggers>>

\* (seeded fault) a run that is cancelled during its cooldown keeps the lock
GivesUpHolding(r) ==
  /\ pace[r].at \in {"queued", "cooling", "working"}
  /\ Goes(r, "failed", clock)
  /\ holder' = IF pace[r].at = "working" THEN Nobody0 ELSE holder
  /\ lastEnd' = clock
  /\ section' = IF pace[r].at = "working" THEN [end |-> clock, invalid |-> FALSE] ELSE section
  /\ UNCHANGED <<clock, waiting, started, triggers>>

\* A run that is cancelled, or that ends before its turn, records an end as well.
GivesUp(r) ==
  /\ pace[r].at \in {"queued", "cooling", "working"}
  /\ Goes(r, "failed", clock)
  /\ holder' = IF holder = r THEN Nobody0 ELSE holder
  /\ lastEnd' = clock
  /\ section' = IF pace[r].at = "working" THEN [end |-> clock, invalid |-> FALSE] ELSE section
  /\ UNCHANGED <<clock, waiting, started, triggers>>

-----------------------------------------------------------------------------
(* The end of _runner_finalize *)

Visited(r) == pace[r].visited \cup {pace[r].task}
Nexts(r) ==
  IF pace[r].at = "succeeded" /\ Cardinality(Visited(r)) < MaxDepth
  THEN ChainTasks \ Visited(r) ELSE {}

Finishes(r) ==
  /\ pace[r].at \in {"succeeded", "failed"}
  /\ pace' = [pace EXCEPT ![r] = Nowhere]
  /\ \/ UNCHANGED waiting
     \/ \E t \in Nexts(r) :
          waiting' = waiting \cup {[task |-> t, visited |-> Visited(r), root |-> pace[r].root,
                                    due |-> clock + ChainDelay]}
  /\ UNCHANGED <<clock, holder, lastEnd, section, started, triggers>>

ChainNext ==
  \/ Elapse
  \/ \E r \in RunSlots :
       \/ Acquire(r) \/ Cooled(r) \/ Works(r) \/ WorkMeetsInvalidSession(r) \/ Reported(r)
       \/ GivesUp(r) \/ Finishes(r)
       \/ \E t \in ChainTasks : TriggerRun(r, t)
       \/ \E c \in waiting : ChainFires(r, c)

ChainSpec == ChainInit /\ [][ChainNext]_chainVars

-----------------------------------------------------------------------------
(* Properties *)

\* The lock is held by the run in its section, and no end lies in the future.
ChainTypeOK ==
  /\ \A r \in RunSlots : (holder = r) = (pace[r].at \in {"cooling", "working"})
  /\ holder \in RunSlots \cup {Nobody0} /\ {lastEnd, section.end} \subseteq 0..clock
  /\ triggers \in 0..MaxTriggers

\* Two sections of an account are the cooldown apart, whatever runs are queued,
\* chained, cancelled or finalized beside them; an end that is still being reported
\* as an invalid session does not count.
CooldownKept ==
  \A r \in RunSlots : pace[r].at = "working" /\ section.end # 0 /\ ~section.invalid =>
    pace[r].time >= section.end + Cooldown

\* One trigger leads to a chain of at most MaxDepth runs, each of another task,
\* however the configuration was edited meanwhile.
ChainsEnd ==
  \A i \in 1..MaxTriggers : started[i] <= MaxDepth /\ started[i] <= Cardinality(ChainTasks)

RunsArePaced == CooldownKept /\ ChainsEnd
=============================================================================
