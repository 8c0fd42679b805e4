--------------------------- MODULE RangeSchedule ---------------------------
(***************************************************************************)
(* When a sign task runs: the APScheduler jobs of one task and the tables  *)
(* that backend/scheduler/__init__.py keeps beside them.  A task of mode   *)
(* "fixed" has a cron job; one of mode "range" has a cron job at the start *)
(* of its window, whose wrapper draws a moment of the window and leaves a  *)
(* one-shot job for it; a window that was entered without a run is made up *)
(* for ("compensation"); an answer of the bot may ask for a cooldown.      *)
(*                                                                         *)
(* Time is a clock of Day ticks a day: a cron job fires when its tick      *)
(* begins (there is no jitter), a drawn moment is anywhere in its tick.    *)
(* sync_jobs is one step of the event loop; an edit runs in a pool thread  *)
(* beside it.  Jobs fire within the tick in which they are due.            *)
(***************************************************************************)
EXTENDS Integers

CONSTANTS
  Day, Horizon,  \* ticks of a day; the last tick (a bound)
  Windows,       \* pairs of hours <<range_start, range_end>>
  FixedAt,       \* sign_at
  Cooldowns,     \* the cooldowns that answers ask for
  Wrappers,      \* executions of _job_run_sign_task (a bound)
  MaxEdits, MaxRestarts, \* (bounds)
  Late,          \* a sync or an edit may come between a job's time and its start: the
                 \* event loop is behind, or a restore has paused the scheduler
  WindowEdits    \* an edit may change the window

ASSUME ScheduleAssumption ==
  /\ Day \in Nat \ {0} /\ Horizon \in Nat /\ Horizon >= Day /\ FixedAt \in 0..Day - 1
  /\ Windows \subseteq (0..Day - 1) \X (0..Day - 1)
  /\ Cooldowns \subseteq Nat \ {0} /\ {MaxEdits, MaxRestarts} \subseteq Nat
  /\ {Late, WindowEdits} \subseteq BOOLEAN

VARIABLES
  now,
  mode,     \* config.json: "off" (disabled), "fixed" or "range"
  window,   \* range_start and range_end
  adaptive, \* adaptive_schedule_enabled
  cron,     \* next_run_time and hour of the job "sign-<account>-<task>"
  shot,     \* time of the job "range-oneshot-<account>-<task>-...", or 0
  comp,     \* _RANGE_COMPENSATION_RUNS, or 0
  adapt,    \* _ADAPTIVE_NEXT_RUNS, or 0
  wraps,    \* the wrappers
  last,     \* last_run
  edit,     \* where an edit is, and the compensation it has computed
  settled,  \* a sync came after the last edit and the last start
  began,    \* (history) the last call of run_task_with_logs, and whether as a range task
  edits, restarts
plan == <<cron, shot, comp, adapt>>
config == <<mode, window, adaptive>>
bounds == <<edits, restarts>>
scheduleVars == <<now, config, plan, wraps, last, edit, settled, began, bounds>>

NoJob == [next |-> 0, hour |-> 0]
IdleWrap == [at |-> "idle", direct |-> FALSE]
NoEdit == [at |-> "none", comp |-> 0]

ScheduleInit ==
  /\ now = Day /\ window \in Windows /\ mode \in {"fixed", "range"} /\ adaptive \in BOOLEAN
  /\ cron = NoJob /\ shot = 0 /\ comp = 0 /\ adapt = 0
  /\ wraps = [w \in Wrappers |-> IdleWrap]
  /\ last = [time |-> 0, success |-> FALSE] /\ began = [time |-> 0, ranged |-> FALSE]
  /\ edit = NoEdit /\ settled = FALSE /\ edits = 0 /\ restarts = 0

-----------------------------------------------------------------------------
(* Triggers and windows *)

\* A cron trigger of one hour: its first time after t.
NextAt(hour, t) == CHOOSE u \in t + 1..t + Day : u % Day = hour
TriggerHour == IF mode = "range" THEN window[1] ELSE FixedAt
NewJob == [next |-> NextAt(TriggerHour, now), hour |-> TriggerHour]

Midnight(t) == t - (t % Day)

\* _get_range_window; a window that ends before it starts is one over midnight.
WindowAt(t) ==
  LET start == Midnight(t) + window[1]
      end == Midnight(t) + window[2]
  IN IF end > start THEN <<start, end>>
     ELSE IF t < end THEN <<start - Day, end>>
     ELSE <<start, end + Day>>

\* _compute_range_task_compensation: the moments that it draws from; it keeps some
\* seconds away from the end of the window.
InWindow(t) == WindowAt(t)[1] <= t /\ t < WindowAt(t)[2]
DoneInWindow == last.success /\ last.time >= WindowAt(now)[1]
Compensations ==
  IF mode = "range" /\ InWindow(now) /\ shot = 0 /\ ~DoneInWindow
  THEN now..WindowAt(now)[2] - 1 ELSE {}

CronDue == cron.next = now /\ comp # now
Fresh == \E w \in Wrappers : wraps[w].at = "fresh"
FreshJob == \E w \in Wrappers : wraps[w] = [at |-> "fresh", direct |-> FALSE]
Sleeping == \E w \in Wrappers : wraps[w].at = "sleep"
Put(w, v) == wraps' = [wraps EXCEPT ![w] = v]

-----------------------------------------------------------------------------
(* The clock and the jobs *)

Tick ==
  /\ now < Horizon /\ now \notin {cron.next, shot} /\ ~Fresh /\ ~Sleeping /\ edit.at = "none"
  /\ now' = now + 1
  /\ UNCHANGED <<config, plan, wraps, last, edit, settled, began, bounds>>

JobFires(w) ==
  /\ cron.next = now /\ wraps[w] = IdleWrap
  /\ cron' = [cron EXCEPT !.next = NextAt(cron.hour, now)]
  /\ Put(w, [at |-> "fresh", direct |-> FALSE])
  /\ UNCHANGED <<now, config, shot, comp, adapt, last, edit, settled, began, bounds>>

ShotFires(w) ==
  /\ shot = now /\ wraps[w] = IdleWrap
  /\ shot' = 0
  /\ Put(w, [at |-> "fresh", direct |-> TRUE])
  /\ UNCHANGED <<now, config, cron, comp, adapt, last, edit, settled, began, bounds>>

-----------------------------------------------------------------------------
(* _job_run_sign_task *)

\* run_task_with_logs: a task that is running is not run a second time.
Running == \E w \in Wrappers : wraps[w].at = "run"
StartRun(w) ==
  /\ Put(w, IF Running THEN IdleWrap ELSE [wraps[w] EXCEPT !.at = "run"])
  /\ began' = [time |-> now, ranged |-> mode = "range"]

WrapDisabled(w) ==
  /\ wraps[w].at = "fresh" /\ mode = "off"
  /\ comp' = 0 /\ Put(w, IdleWrap)
  /\ UNCHANGED <<now, config, cron, shot, adapt, last, edit, settled, began, bounds>>

\* A compensation and a one-shot run at once; so does a fixed task, and only that
\* one forgets its cooldown.
WrapRuns(w) ==
  /\ wraps[w].at = "fresh" /\ mode # "off"
  /\ comp # 0 \/ wraps[w].direct \/ mode = "fixed"
  /\ StartRun(w)
  /\ comp' = 0
  /\ adapt' = IF mode = "fixed" THEN 0 ELSE adapt
  /\ UNCHANGED <<now, config, cron, shot, last, edit, settled, bounds>>

\* Otherwise a range task draws its moment, which is now if the window is over: a near
\* one is slept for, a later one becomes the one-shot job, in the place of any other.
WrapDraws(w) ==
  /\ wraps[w].at = "fresh" /\ mode = "range" /\ comp = 0 /\ ~wraps[w].direct
  /\ LET win == WindowAt(now)
     IN \E t \in now..now + (win[2] - win[1]) :
          /\ t = now \/ t <= win[2]
          /\ IF t = now THEN Put(w, [wraps[w] EXCEPT !.at = "sleep"]) /\ UNCHANGED shot
             ELSE Put(w, IdleWrap) /\ shot' = t
  /\ UNCHANGED <<now, config, cron, comp, adapt, last, edit, settled, began, bounds>>

WrapWakes(w) ==
  /\ wraps[w].at = "sleep"
  /\ StartRun(w)
  /\ UNCHANGED <<now, config, plan, last, edit, settled, bounds>>

\* reschedule_sign_task_once, then the history.
WrapEnds(w) ==
  /\ wraps[w].at = "run"
  /\ \E c \in IF adaptive THEN Cooldowns \cup {0} ELSE {0} :
       IF c = 0 THEN UNCHANGED <<cron, adapt>>
       ELSE /\ adapt' = now + c
            /\ cron' = IF cron = NoJob THEN cron ELSE [cron EXCEPT !.next = now + c]
  /\ \E s \in BOOLEAN : last' = [time |-> now, success |-> s]
  /\ Put(w, IdleWrap)
  /\ UNCHANGED <<now, config, shot, comp, edit, settled, began, bounds>>

-----------------------------------------------------------------------------
(* sync_jobs *)

\* A compensation that is to come, and one whose moment has passed: its wrapper has
\* not begun, or the job has not fired yet.
Ahead == comp > now \/ (comp = now /\ ~FreshJob)
Past == comp < now \/ (comp = now /\ (FreshJob \/ Late))

\* (seeded fault) a compensation that is planned already is not put back in its place
SyncsRangeAnew ==
  IF shot # 0 \/ comp # 0 THEN cron' = NewJob /\ UNCHANGED comp
  ELSE IF Compensations = {} THEN cron' = NewJob /\ UNCHANGED comp
  ELSE \E c \in Compensations : comp' = c /\ cron' = [NewJob EXCEPT !.next = c]

\* What it does to the job of an enabled task that has no cooldown to come.
SyncsRange ==
  IF shot # 0 THEN cron' = NewJob /\ UNCHANGED comp
  ELSE IF comp # 0
  THEN \/ Ahead /\ cron' = [NewJob EXCEPT !.next = comp] /\ UNCHANGED comp
       \/ Past /\ cron' = NewJob /\ comp' = 0
  ELSE IF Compensations = {} THEN cron' = NewJob /\ UNCHANGED comp
  ELSE \E c \in Compensations : comp' = c /\ cron' = [NewJob EXCEPT !.next = c]

SyncsEnabled ==
  IF adapt # 0
  THEN /\ cron' = IF adapt > now THEN [NewJob EXCEPT !.next = adapt] ELSE NewJob
       /\ adapt' = IF adapt > now THEN adapt ELSE 0
       /\ UNCHANGED comp
  ELSE /\ UNCHANGED adapt
       /\ IF mode = "range" THEN SyncsRange ELSE cron' = NewJob /\ UNCHANGED comp

\* Every edit of any task has a sync behind it.
Sync ==
  /\ Late \/ ~CronDue
  /\ IF mode = "off" THEN cron' = NoJob /\ UNCHANGED <<comp, adapt>> ELSE SyncsEnabled
  /\ shot' = IF mode = "range" THEN shot ELSE 0
  /\ settled' = (settled \/ edit.at = "none")
  /\ UNCHANGED <<now, config, wraps, last, edit, began, bounds>>

-----------------------------------------------------------------------------
(* An edit of the task, and its job *)

EditWrites ==
  /\ edit = NoEdit /\ edits < MaxEdits /\ (Late \/ ~(CronDue \/ Fresh))
  /\ mode' \in {"off", "fixed", "range"}
  /\ window' \in (IF WindowEdits THEN Windows ELSE {window})
  /\ edit' = [edit EXCEPT !.at = "job"] /\ edits' = edits + 1 /\ settled' = FALSE
  /\ UNCHANGED <<now, adaptive, plan, wraps, last, began, restarts>>

\* remove_sign_task_job, or the first half of add_or_update_sign_task_job.
EditReplaces ==
  /\ edit.at = "job"
  /\ IF mode = "off"
     THEN cron' = NoJob /\ shot' = 0 /\ comp' = 0 /\ adapt' = 0 /\ edit' = NoEdit
     ELSE cron' = NewJob /\ edit' = [edit EXCEPT !.at = "plan"] /\ UNCHANGED <<shot, comp, adapt>>
  /\ UNCHANGED <<now, config, wraps, last, settled, began, bounds>>

EditComputes ==
  /\ edit.at = "plan"
  /\ IF Compensations = {} THEN edit' = NoEdit
     ELSE \E c \in Compensations : edit' = [at |-> "set", comp |-> c]
  /\ UNCHANGED <<now, config, plan, wraps, last, settled, began, bounds>>

EditPlans ==
  /\ edit.at = "set"
  /\ comp' = edit.comp /\ edit' = NoEdit
  /\ cron' = IF cron = NoJob THEN cron ELSE [cron EXCEPT !.next = edit.comp]
  /\ UNCHANGED <<now, config, shot, adapt, wraps, last, settled, began, bounds>>

-----------------------------------------------------------------------------
(* shutdown_scheduler, and init_scheduler of the next process; a sync follows *)

Restart ==
  /\ restarts < MaxRestarts
  /\ cron' = NoJob /\ shot' = 0 /\ comp' = 0 /\ adapt' = 0
  /\ wraps' = [w \in Wrappers |-> IdleWrap] /\ edit' = NoEdit
  /\ restarts' = restarts + 1 /\ settled' = FALSE
  /\ UNCHANGED <<now, config, last, began, edits>>

ScheduleNext ==
  \/ Tick \/ Sync \/ EditWrites \/ EditReplaces \/ EditComputes \/ EditPlans \/ Restart
  \/ \E w \in Wrappers :
       \/ JobFires(w) \/ ShotFires(w) \/ WrapDisabled(w) \/ WrapRuns(w) \/ WrapDraws(w)
       \/ WrapWakes(w) \/ WrapEnds(w)

ScheduleSpec == ScheduleInit /\ [][ScheduleNext]_scheduleVars

-----------------------------------------------------------------------------
(* Properties *)

\* Times are within reach, nothing planned is overdue, and only a wrapper of a
\* one-shot is direct.
ScheduleTypeOK ==
  /\ now \in Day..Horizon /\ window \in Windows /\ mode \in {"off", "fixed", "range"}
  /\ cron = NoJob \/ (cron.next >= now /\ cron.hour \in 0..Day - 1)
  /\ shot = 0 \/ shot >= now
  /\ {comp, adapt} \subseteq Nat
  /\ \A w \in Wrappers : /\ wraps[w].at \in {"idle", "fresh", "sleep", "run"}
                         /\ wraps[w].at = "idle" => ~wraps[w].direct
  /\ last.time <= now /\ began.time <= now
  /\ edit.at \in {"none", "job", "plan", "set"}

Settled == settled /\ edit = NoEdit

\* Inside its window a range task has succeeded, has been tried, or will be before the
\* window ends, however it was edited and restarted and however often the jobs were
\* synchronised.
WindowCovered ==
  LET end == WindowAt(now)[2]
  IN Settled /\ mode = "range" /\ InWindow(now) /\ ~adaptive =>
       \/ DoneInWindow
       \/ began.time >= WindowAt(now)[1]
       \/ \E w \in Wrappers : wraps[w] # IdleWrap
       \/ shot \in now..end \/ cron.next \in now..end

\* A range task starts within its window: at most its length after its start.
Length == ((window[2] - window[1] - 1) % Day) + 1
StartsInWindow ==
  began.ranged /\ ~adaptive => (began.time - window[1]) % Day <= Length

\* The cooldown that an answer asked for is waited for, whatever was edited or
\* synchronised since.
CooldownWaited ==
  Settled /\ cron # NoJob /\ adapt > now => cron.next = adapt

\* The three together: a task runs when it should.
ScheduleIsKept == WindowCovered /\ StartsInWindow /\ CooldownWaited
=============================================================================
