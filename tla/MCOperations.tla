---------------------------- MODULE MCOperations ----------------------------
(***************************************************************************)
(* The operations around the sign runs of an account, side by side: a      *)
(* change of the account among restarts of the monitor, the schedule of a  *)
(* task, the pace of the runs, and the locks that keep the users of an     *)
(* account apart.  They share no state: a behaviour is one of the          *)
(* component it has chosen.                                                *)
(***************************************************************************)
EXTENDS KeywordMonitor, RangeSchedule, RunChain, AccountLocks

CONSTANTS r1, r2, s1, c1, u1 \* keyword monitor: restarts, a stop, a change, a run
VARIABLE component
allVars == <<component, vars, scheduleVars, chainVars, locksVars>>

MCOld == [c \in Changes |-> 1]
MCNew == [c \in Changes |-> 2]
MCWindows == {<<1, 3>>, <<3, 1>>} \* one within a day, one over midnight

Others(c) ==
  /\ component = c /\ UNCHANGED component
  /\ IF c = "monitor" THEN TRUE ELSE UNCHANGED vars
  /\ IF c = "schedule" THEN TRUE ELSE UNCHANGED scheduleVars
  /\ IF c = "chain" THEN TRUE ELSE UNCHANGED chainVars
  /\ IF c = "locks" THEN TRUE ELSE UNCHANGED locksVars

OperationsInit ==
  /\ component \in {"monitor", "schedule", "chain", "locks"}
  /\ Init /\ ScheduleInit /\ ChainInit /\ LocksInit
  /\ component # "monitor" => disk = {}
  /\ component # "schedule" => ~adaptive /\ mode = "fixed" /\ window = <<1, 3>>
  /\ component # "locks" => existing = {}

OperationsNext ==
  \/ Others("monitor") /\ Next
  \/ Others("schedule") /\ ScheduleNext
  \/ Others("chain") /\ ChainNext
  \/ Others("locks") /\ LocksNext

OperationsSpec == OperationsInit /\ [][OperationsNext]_allVars

\* The type invariants of the components that no other run checks.
OperationsTyped == ScheduleTypeOK /\ ChainTypeOK /\ LocksTypeOK
=============================================================================
