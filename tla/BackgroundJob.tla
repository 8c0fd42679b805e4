---------------------------- MODULE BackgroundJob ----------------------------
(***************************************************************************)
(* The long jobs of backend/services/background_job.py, as the batch check *)
(* of account sessions (account_status_jobs.py) uses them: a job is an     *)
(* entry in memory, a file and a coroutine.  The routes that start and run *)
(* a job are coroutines of the loop; the route that cancels one runs in a  *)
(* pool thread, beside the loop and between any two of its statements.     *)
(***************************************************************************)
EXTENDS Naturals, FiniteSets

CONSTANTS
  MaxJobs,     \* bound: jobs are numbered in the order of their creation
  MaxCrashes,  \* bound: restarts of the process
  Accounts,    \* how many accounts a job checks
  MaxHistory   \* BackgroundJobStore.max_history

ASSUME JobAssumption ==
  /\ MaxJobs \in Nat /\ MaxCrashes \in Nat
  /\ Accounts \in Nat \ {0} /\ MaxHistory \in Nat \ {0}

Jobs == 1 .. MaxJobs
Active == {"running", "canceling"}
Final == {"completed", "canceled", "failed"}

VARIABLES
  status,    \* jobs[j].status in memory, "none" when there is no entry
  saved,     \* the status in the file of the job, "none" without a file
  body,      \* where the coroutine of the job is
  checked,   \* accounts it has checked
  ending,    \* the final status it is about to give, or how its task ended
  killed,    \* jobs whose task has been cancelled
  request,   \* the cancel request in the pool thread
  crashes
jobVars == <<status, saved, body, checked, ending, killed, request, crashes>>

NoRequest == [at |-> "idle", job |-> 0, text |-> "none"]

JobInit ==
  /\ status = [j \in Jobs |-> "none"] /\ saved = [j \in Jobs |-> "none"]
  /\ body = [j \in Jobs |-> "none"] /\ checked = [j \in Jobs |-> 0]
  /\ ending = [j \in Jobs |-> "none"] /\ killed = {}
  /\ request = NoRequest /\ crashes = 0

\* The loop is inside one step of a job, between two of its statements.
Busy == \E j \in Jobs : body[j] \in {"closing", "saving"}

-----------------------------------------------------------------------------
(* The loop *)

\* (seeded fault) a second job is not refused
CanStartAlways(j) == TRUE

\* _start_lock and the search for an active job among the latest ones
CanStart(j) == \A k \in Jobs : status[k] \notin Active

\* _trim_history: the oldest entry goes, with its file.
Trimmed(f, j) == [k \in Jobs |-> IF k + MaxHistory <= j THEN "none" ELSE f[k]]

StartJob(j) ==
  /\ body[j] = "none" /\ status[j] = "none" /\ CanStart(j) /\ ~Busy
  /\ \A k \in Jobs : k < j => body[k] # "none"
  /\ status' = Trimmed([status EXCEPT ![j] = "running"], j)
  /\ saved' = Trimmed([saved EXCEPT ![j] = "running"], j)
  /\ body' = [body EXCEPT ![j] = "created"]
  /\ UNCHANGED <<checked, ending, killed, request, crashes>>

\* mark_completed: a job that is being cancelled is not completed.
JobOutcome(j) == IF status[j] = "canceling" THEN "canceled" ELSE "completed"

\* The top of the loop over the accounts: a request ends it.
NextAccount(j) ==
  IF status[j] = "canceling" \/ checked[j] = Accounts
  THEN /\ body' = [body EXCEPT ![j] = "closing"]
       /\ ending' = [ending EXCEPT ![j] = JobOutcome(j)]
  ELSE /\ body' = [body EXCEPT ![j] = "checking"] /\ UNCHANGED ending

\* The coroutine takes its first step, or goes on after the pause.
GoOnJob(j) ==
  /\ body[j] \in {"created", "sleeping"} /\ j \notin killed /\ ~Busy
  /\ NextAccount(j)
  /\ UNCHANGED <<status, saved, checked, killed, request, crashes>>

\* The check of an account has answered, or failed; the progress is saved.
\* Without a request the coroutine pauses before the next account.
AccountChecked(j) ==
  /\ body[j] = "checking" /\ j \notin killed /\ ~Busy
  /\ checked' = [checked EXCEPT ![j] = @ + 1]
  /\ IF checked[j] + 1 < Accounts /\ status[j] = "running"
     THEN body' = [body EXCEPT ![j] = "sleeping"] /\ UNCHANGED ending
     ELSE /\ body' = [body EXCEPT ![j] = "closing"]
          /\ ending' = [ending EXCEPT ![j] = JobOutcome(j)]
  /\ UNCHANGED <<status, saved, killed, request, crashes>>

\* Storing the progress fails: mark_failed.
CheckRaises(j) ==
  /\ body[j] = "checking" /\ j \notin killed /\ ~Busy
  /\ body' = [body EXCEPT ![j] = "closing"]
  /\ ending' = [ending EXCEPT ![j] = "failed"]
  /\ UNCHANGED <<status, saved, checked, killed, request, crashes>>

\* The two assignments of mark_completed and mark_failed: memory, then file.
SetFinal(j) ==
  /\ body[j] = "closing"
  /\ status' = [status EXCEPT ![j] = ending[j]]
  /\ body' = [body EXCEPT ![j] = "saving"]
  /\ UNCHANGED <<saved, checked, ending, killed, request, crashes>>

\* The coroutine returns; a cancellation that came meanwhile still counts.
SaveFinal(j) ==
  /\ body[j] = "saving"
  /\ saved' = [saved EXCEPT ![j] = ending[j]]
  /\ body' = [body EXCEPT ![j] = "ended"]
  /\ ending' = [ending EXCEPT ![j] = IF j \in killed THEN "cancelled" ELSE "returned"]
  /\ UNCHANGED <<status, checked, killed, request, crashes>>

\* CancelledError at an await, or before the first step.
JobCancelled(j) ==
  /\ j \in killed /\ body[j] \in {"created", "checking", "sleeping"} /\ ~Busy
  /\ body' = [body EXCEPT ![j] = "ended"]
  /\ ending' = [ending EXCEPT ![j] = "cancelled"]
  /\ UNCHANGED <<status, saved, checked, killed, request, crashes>>

\* The callback of the task: what is still active after a cancellation is final.
Cleanup(j) ==
  LET final == IF status[j] = "canceling" THEN "canceled" ELSE "failed"
  IN /\ body[j] = "ended" /\ ~Busy
     /\ body' = [body EXCEPT ![j] = "gone"]
     /\ IF status[j] \in Active /\ ending[j] = "cancelled"
        THEN /\ status' = [status EXCEPT ![j] = final]
             /\ saved' = [saved EXCEPT ![j] = final]
        ELSE UNCHANGED <<status, saved>>
     /\ UNCHANGED <<checked, ending, killed, request, crashes>>

-----------------------------------------------------------------------------
(* The pool thread: request_cancel, one statement after the other *)

ReadStatus(j) ==
  /\ request.at = "idle" /\ status[j] \in Active
  /\ request' = [NoRequest EXCEPT !.job = j,
                   !.at = IF status[j] = "canceling" THEN "canceling" ELSE "read"]
  /\ UNCHANGED <<status, saved, body, checked, ending, killed, crashes>>

WriteStatus ==
  /\ request.at = "read"
  /\ status' = IF status[request.job] = "none" THEN status
               ELSE [status EXCEPT ![request.job] = "canceling"]
  /\ request' = [request EXCEPT !.at = "written"]
  /\ UNCHANGED <<saved, body, checked, ending, killed, crashes>>

\* public_job_view copies the entry before the lock of the file is taken.
CopyJob ==
  /\ request.at = "written"
  /\ request' = [request EXCEPT !.at = "copied", !.text = status[request.job]]
  /\ UNCHANGED <<status, saved, body, checked, ending, killed, crashes>>

SaveJob ==
  /\ request.at = "copied"
  /\ saved' = [saved EXCEPT ![request.job] = request.text]
  /\ request' = [request EXCEPT !.at = "canceling"]
  /\ UNCHANGED <<status, body, checked, ending, killed, crashes>>

KillTask ==
  /\ request.at = "canceling"
  /\ killed' = IF body[request.job] \in {"ended", "gone"} THEN killed
               ELSE killed \cup {request.job}
  /\ request' = NoRequest
  /\ UNCHANGED <<status, saved, body, checked, ending, crashes>>

-----------------------------------------------------------------------------
\* _load_jobs: what was active when the process died has failed.
Recovered(s) == IF s \in Active THEN "failed" ELSE s

\* The process dies and starts again from the files.
Restart ==
  /\ crashes < MaxCrashes
  /\ crashes' = crashes + 1
  /\ status' = [j \in Jobs |-> Recovered(saved[j])]
  /\ saved' = [j \in Jobs |-> Recovered(saved[j])]
  /\ body' = [j \in Jobs |-> IF body[j] = "none" THEN "none" ELSE "gone"]
  /\ request' = NoRequest
  /\ UNCHANGED <<checked, ending, killed>>

JobStep(j) ==
  \/ StartJob(j) \/ GoOnJob(j) \/ AccountChecked(j) \/ CheckRaises(j)
  \/ SetFinal(j) \/ SaveFinal(j) \/ JobCancelled(j) \/ Cleanup(j)
  \/ ReadStatus(j)

JobNext ==
  \/ \E j \in Jobs : JobStep(j)
  \/ WriteStatus \/ CopyJob \/ SaveJob \/ KillTask \/ Restart

JobSpec == JobInit /\ [][JobNext]_jobVars

-----------------------------------------------------------------------------
(* Properties *)

\* An entry of the table and its file have a status of a job, and jobs are
\* checked no further than the list of accounts goes.
JobTypeOK ==
  /\ {status, saved} \subseteq [Jobs -> Active \cup Final \cup {"none"}]
  /\ body \in [Jobs -> {"none", "created", "checking", "sleeping", "closing", "saving",
                       "ended", "gone"}]
  /\ checked \in [Jobs -> 0 .. Accounts] /\ killed \subseteq Jobs
  /\ ending \in [Jobs -> Final \cup {"none", "returned", "cancelled"}]
  /\ request.at # "idle" => request.job \in Jobs
  /\ crashes \in 0 .. MaxCrashes

\* The coroutine of a job exists.
Alive(j) == body[j] \notin {"none", "gone"}

\* Two batch checks never run together, whatever is cancelled in between and
\* whatever a restart finds on disk (start_account_status_check_job).
OneJobAtATime == \A j, k \in Jobs : Alive(j) /\ Alive(k) =>
  j = k \/ "ended" \in {body[j], body[k]}

\* A job that says "completed", in memory or on disk, has checked every account:
\* a cancel request that stops the loop is never reported as a completion.
CompletedIsComplete ==
  \A j \in Jobs : "completed" \in {status[j], saved[j]} => checked[j] = Accounts

\* After a restart nothing claims to be running that has no coroutine: the file
\* of a dead job is recovered as failed (_load_jobs).
NothingRunsAfterRestart ==
  \A j \in Jobs : crashes > 0 /\ status[j] = "running" => Alive(j)

\* What a user of the job table may rely on, as one invariant.
JobsTruthful == OneJobAtATime /\ CompletedIsComplete /\ NothingRunsAfterRestart

\* An active job has a coroutine, so that it will end: the next start is refused
\* only while a batch check is really at work ("wait, or cancel it first").
ActiveHasBody == \A j \in Jobs : status[j] \in Active => Alive(j)

=============================================================================
