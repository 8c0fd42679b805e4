------------------------ MODULE ServiceProofs ------------------------
(***************************************************************************)
(* Services that many coroutines and processes share: background jobs, the *)
(* registry of Telegram clients, the executions of a plugin and the breaker *)
(* of a proxy, for any number of users of each.                            *)
(***************************************************************************)
EXTENDS BackgroundJob, ClientRegistry, PluginHost, ProxyBreaker, FiniteSetTheorems, TLAPS

-----------------------------------------------------------------------------
(***************************************************************************)
(* Background jobs                                                         *)
(*                                                                         *)
(* Working ties the coroutine of a job to its entry: as long as it works   *)
(* the entry is active, which no other start, trim or cancel changes.      *)
(* Counting says what a job has checked at each of its steps; Copied is    *)
(* the same of the copy that the pool thread is about to save.             *)
(***************************************************************************)

Statuses == Active \cup Final \cup {"none"}

\* The types, and a request that names a job.
Requests ==
  /\ request \in [at : {"idle", "read", "written", "copied", "canceling"},
                  job : 0 .. MaxJobs, text : Statuses]
  /\ request.at # "idle" => request.job \in Jobs

\* The coroutine checks accounts, or is about to give the final status.
Works(j) == body[j] \in {"created", "checking", "sleeping", "closing"}

Working ==
  \A j \in Jobs :
    /\ Works(j) => status[j] \in Active
    /\ body[j] \in {"closing", "saving"} => ending[j] \in Final
    /\ body[j] = "ended" => ending[j] \in {"returned", "cancelled"}
    /\ body[j] = "saving" => status[j] # "running"
    /\ body[j] = "ended" /\ ending[j] = "returned" => status[j] # "running"

Counting ==
  \A j \in Jobs :
    /\ body[j] = "checking" => checked[j] < Accounts
    /\ body[j] \in {"closing", "saving"} /\ ending[j] = "completed" => checked[j] = Accounts

Copied ==
  request.at = "copied" /\ request.text = "completed" => checked[request.job] = Accounts

JobInv == JobTypeOK /\ Requests /\ Working /\ Counting /\ Copied /\ JobsTruthful

-----------------------------------------------------------------------------

\* The table of a new process is empty.
LEMMA JobStarts == JobInit => JobInv
<1> SUFFICES ASSUME JobInit PROVE JobInv OBVIOUS
<1> USE JobAssumption DEF JobInit, NoRequest
<1>1. JobTypeOK BY DEF JobTypeOK
<1>2. Requests BY DEF Requests, Statuses
<1>3. Working /\ Counting /\ Copied BY DEF Working, Works, Counting, Copied
<1>4. JobsTruthful
  BY DEF JobsTruthful, OneJobAtATime, CompletedIsComplete, NothingRunsAfterRestart, Alive
<1> QED BY <1>1, <1>2, <1>3, <1>4 DEF JobInv

\* A start finds no job at work, so that the trim takes no entry of one.
LEMMA StartKeeps == ASSUME JobInv, NEW j \in Jobs, StartJob(j) PROVE JobInv'
<1> USE JobAssumption DEF JobInv, StartJob
<1>1. ~ (j + MaxHistory <= j) BY DEF Jobs
<1>2. \A k \in Jobs : ~Works(k) /\ body[k] # "saving"
  BY DEF Working, CanStart, Busy
<1>3. \A k \in Jobs : status'[k] = IF k + MaxHistory <= j THEN "none"
                                   ELSE IF k = j THEN "running" ELSE status[k]
  BY DEF Trimmed, JobTypeOK
<1>4. \A k \in Jobs : saved'[k] = IF k + MaxHistory <= j THEN "none"
                                  ELSE IF k = j THEN "running" ELSE saved[k]
  BY DEF Trimmed, JobTypeOK
<1>5. status'[j] = "running" /\ saved'[j] = "running" BY <1>1, <1>3, <1>4
<1>6. \A k \in Jobs : body'[k] = IF k = j THEN "created" ELSE body[k] BY DEF JobTypeOK
<1>7. JobTypeOK' BY DEF JobTypeOK, Trimmed, Active
<1>8. Requests' BY DEF Requests
<1> UNCHANGED <<checked, ending, killed, request, crashes>> OBVIOUS
<1> HIDE DEF StartJob
<1>9. Working'
  <2>1. \A k \in Jobs : k # j => status'[k] \in {status[k], "none"} BY <1>3
  <2>2. \A k \in Jobs : ~Works(k)' \/ k = j BY <1>2, <1>6 DEF Works
  <2> QED BY <1>2, <2>1, <2>2, <1>5, <1>6 DEF Working, Works, Active
<1>10. Counting' /\ Copied' BY <1>2, <1>6 DEF Counting, Copied, Works
<1>11. JobsTruthful'
  <2>1. OneJobAtATime'
    <3>1. \A k \in Jobs : Alive(k) => body[k] = "ended" BY <1>2 DEF Alive, Works, JobTypeOK
    <3> QED BY <3>1, <1>6 DEF OneJobAtATime, Alive
  <2>2. CompletedIsComplete'
    BY <1>3, <1>4 DEF JobsTruthful, CompletedIsComplete
  <2>3. NothingRunsAfterRestart'
    <3>1. \A k \in Jobs : status'[k] = "running" => k = j \/ status[k] = "running"
      BY <1>3
    <3> QED BY <3>1, <1>6 DEF JobsTruthful, NothingRunsAfterRestart, Alive
  <2> QED BY <2>1, <2>2, <2>3 DEF JobsTruthful
<1> QED BY <1>7, <1>8, <1>9, <1>10, <1>11

\* The steps of a coroutine that checks accounts: it says that it has completed only
\* with all of them checked.
LEMMA CheckKeeps ==
  ASSUME JobInv, NEW j \in Jobs, GoOnJob(j) \/ AccountChecked(j) \/ CheckRaises(j)
  PROVE  JobInv'
<1> USE JobAssumption DEF JobInv
<1> DEFINE Before == body[j] \in {"created", "sleeping", "checking"}
            Frame == UNCHANGED <<status, saved, killed, request, crashes>>
            Bodies == [body EXCEPT ![j] = body'[j]]
            Endings == [ending EXCEPT ![j] = ending'[j]]
            Counts == \/ checked' = checked
                      \/ body[j] = "checking" /\ checked' = [checked EXCEPT ![j] = @ + 1]
            After == body'[j] \in {"checking", "sleeping", "closing"}
<1>1. /\ Before /\ Frame /\ Counts /\ After
      /\ body' = Bodies /\ ending' = Endings /\ ending'[j] \in Final \cup {ending[j]}
  <2>1. CASE GoOnJob(j)
    <3>1. Before /\ Frame /\ UNCHANGED checked BY <2>1 DEF GoOnJob, NextAccount
    <3>2. After /\ body' = Bodies BY <2>1 DEF GoOnJob, NextAccount, JobTypeOK
    <3>3. ending' = Endings /\ ending'[j] \in Final \cup {ending[j]}
      BY <2>1 DEF GoOnJob, NextAccount, JobOutcome, JobTypeOK, Final
    <3>4. Counts BY <3>1
    <3> QED BY <3>1, <3>2, <3>3, <3>4
  <2>2. CASE AccountChecked(j)
    <3>1. Before /\ Frame /\ Counts BY <2>2 DEF AccountChecked
    <3>2. After /\ body' = Bodies BY <2>2 DEF AccountChecked, JobTypeOK
    <3>3. ending' = Endings /\ ending'[j] \in Final \cup {ending[j]}
      BY <2>2 DEF AccountChecked, JobOutcome, JobTypeOK, Final
    <3> QED BY <3>1, <3>2, <3>3
  <2>3. CASE CheckRaises(j)
    <3>1. Before /\ Frame /\ UNCHANGED checked BY <2>3 DEF CheckRaises
    <3>2. After /\ body' = Bodies BY <2>3 DEF CheckRaises, JobTypeOK
    <3>3. ending' = Endings /\ ending'[j] \in Final \cup {ending[j]}
      BY <2>3 DEF CheckRaises, JobTypeOK, Final
    <3>4. Counts BY <3>1
    <3> QED BY <3>1, <3>2, <3>3, <3>4
  <2> QED BY <2>1, <2>2, <2>3
<1>2. status[j] \in Active BY <1>1 DEF Working, Works
<1>3. checked'[j] \in 0 .. Accounts
  BY <1>1 DEF Counting, JobTypeOK
<1>4. /\ body'[j] = "checking" => checked'[j] < Accounts
      /\ body'[j] = "closing" => ending'[j] \in Final
      /\ body'[j] = "closing" /\ ending'[j] = "completed" => checked'[j] = Accounts
  <2>1. CASE GoOnJob(j)
    BY <2>1, <1>2 DEF GoOnJob, NextAccount, JobOutcome, JobTypeOK, Final, Active
  <2>2. CASE AccountChecked(j)
    BY <2>2, <1>2 DEF AccountChecked, JobOutcome, JobTypeOK, Final, Active, Counting
  <2>3. CASE CheckRaises(j) BY <2>3 DEF CheckRaises, JobTypeOK, Final
  <2> QED BY <1>1, <2>1, <2>2, <2>3 DEF GoOnJob, AccountChecked, CheckRaises
<1>5. \A k \in Jobs \ {j} :
        body'[k] = body[k] /\ ending'[k] = ending[k] /\ checked'[k] = checked[k]
  BY <1>1 DEF JobTypeOK
<1>6. body'[j] \in {"checking", "sleeping", "closing"} BY <1>1
<1>7. checked[j] = Accounts => checked'[j] = Accounts
  BY <1>1, <1>3 DEF JobTypeOK, Counting
<1>8. JobTypeOK'
  <2>1. checked' \in [Jobs -> 0 .. Accounts] BY <1>1, <1>3, <1>5 DEF JobTypeOK
  <2>2. body' \in [Jobs -> {"none", "created", "checking", "sleeping", "closing", "saving",
                           "ended", "gone"}]
    BY <1>1 DEF JobTypeOK
  <2>3. ending' \in [Jobs -> Final \cup {"none", "returned", "cancelled"}]
    BY <1>1 DEF JobTypeOK
  <2> QED BY <1>1, <2>1, <2>2, <2>3 DEF JobTypeOK
<1>9. Requests' BY <1>1 DEF Requests
<1>10. Working' BY <1>1, <1>2, <1>4, <1>5, <1>6 DEF Working, Works
<1>11. Counting' BY <1>4, <1>5, <1>6 DEF Counting
<1>12. Copied' BY <1>1, <1>5, <1>7 DEF Copied, Requests
<1>13. JobsTruthful'
  <2>1. OneJobAtATime' BY <1>1, <1>5, <1>6 DEF JobsTruthful, OneJobAtATime, Alive
  <2>2. CompletedIsComplete' BY <1>1, <1>5, <1>7 DEF JobsTruthful, CompletedIsComplete
  <2>3. NothingRunsAfterRestart'
    BY <1>1, <1>5, <1>6 DEF JobsTruthful, NothingRunsAfterRestart, Alive
  <2> QED BY <2>1, <2>2, <2>3 DEF JobsTruthful
<1> QED BY <1>8, <1>9, <1>10, <1>11, <1>12, <1>13

\* The final status and the end of a coroutine, and the callback after it.
LEMMA EndKeeps ==
  ASSUME JobInv, NEW j \in Jobs,
         SetFinal(j) \/ SaveFinal(j) \/ JobCancelled(j) \/ Cleanup(j)
  PROVE  JobInv'
<1> USE JobAssumption DEF JobInv
<1>1. CASE SetFinal(j)
  <2> USE <1>1 DEF SetFinal
  <2>1. \A k \in Jobs : /\ status'[k] = IF k = j THEN ending[j] ELSE status[k]
                        /\ body'[k] = IF k = j THEN "saving" ELSE body[k]
    BY DEF JobTypeOK
  <2>2. ending[j] \in Final BY DEF Working
  <2>3. JobTypeOK' BY <2>2 DEF JobTypeOK
  <2>4. Requests' /\ Copied' BY DEF Requests, Copied
  <2>5. Working' /\ Counting' BY <2>1, <2>2 DEF Working, Works, Counting, Final
  <2>6. JobsTruthful'
    BY <2>1, <2>2 DEF JobsTruthful, OneJobAtATime, CompletedIsComplete,
                      NothingRunsAfterRestart, Alive, Final, Counting
  <2> QED BY <2>3, <2>4, <2>5, <2>6
<1>2. CASE SaveFinal(j)
  <2> USE <1>2 DEF SaveFinal
  <2>1. \A k \in Jobs :
          /\ saved'[k] = IF k = j THEN ending[j] ELSE saved[k]
          /\ body'[k] = IF k = j THEN "ended" ELSE body[k]
          /\ k # j => ending'[k] = ending[k]
    BY DEF JobTypeOK
  <2>2. ending[j] \in Final /\ ending'[j] \in {"returned", "cancelled"}
    BY DEF Working, JobTypeOK
  <2>3. JobTypeOK' BY <2>2 DEF JobTypeOK
  <2>4. Requests' /\ Copied' BY DEF Requests, Copied
  <2>5. Working' /\ Counting' BY <2>1, <2>2 DEF Working, Works, Counting
  <2>6. JobsTruthful'
    BY <2>1, <2>2 DEF JobsTruthful, OneJobAtATime, CompletedIsComplete,
                      NothingRunsAfterRestart, Alive, Final, Counting
  <2> QED BY <2>3, <2>4, <2>5, <2>6
<1>3. CASE JobCancelled(j)
  <2> USE <1>3 DEF JobCancelled
  <2>1. \A k \in Jobs :
          /\ body'[k] = IF k = j THEN "ended" ELSE body[k]
          /\ ending'[k] = IF k = j THEN "cancelled" ELSE ending[k]
    BY DEF JobTypeOK
  <2>2. JobTypeOK' BY DEF JobTypeOK
  <2>3. Requests' /\ Copied' BY DEF Requests, Copied
  <2>4. Working' /\ Counting' BY <2>1 DEF Working, Works, Counting
  <2>5. JobsTruthful'
    BY <2>1 DEF JobsTruthful, OneJobAtATime, CompletedIsComplete,
                NothingRunsAfterRestart, Alive
  <2> QED BY <2>2, <2>3, <2>4, <2>5
<1>4. CASE Cleanup(j)
  <2> DEFINE final == IF status[j] = "canceling" THEN "canceled" ELSE "failed"
  <2> USE <1>4 DEF Cleanup
  <2>1. /\ body' = [body EXCEPT ![j] = "gone"]
        /\ UNCHANGED <<checked, ending, killed, request, crashes>>
        /\ \/ UNCHANGED <<status, saved>>
           \/ status' = [status EXCEPT ![j] = final] /\ saved' = [saved EXCEPT ![j] = final]
    OBVIOUS
  <2>2. \A k \in Jobs : /\ body'[k] = IF k = j THEN "gone" ELSE body[k]
                        /\ k # j => status'[k] = status[k]
                        /\ k # j => saved'[k] = saved[k]
    BY <2>1 DEF JobTypeOK
  <2>3. /\ status'[j] \in {status[j], final} /\ saved'[j] \in {saved[j], final}
        /\ status'[j] # "running"
    BY <2>1 DEF JobTypeOK, Working, Active
  <2>4. JobTypeOK' BY <2>1 DEF JobTypeOK, Final
  <2>5. Requests' /\ Copied' BY <2>1 DEF Requests, Copied
  <2>6. Working' /\ Counting' BY <2>1, <2>2 DEF Working, Works, Counting
  <2>7. JobsTruthful'
    BY <2>1, <2>2, <2>3 DEF JobsTruthful, OneJobAtATime, CompletedIsComplete,
                            NothingRunsAfterRestart, Alive
  <2> QED BY <2>4, <2>5, <2>6, <2>7
<1> QED BY <1>1, <1>2, <1>3, <1>4

\* The pool thread makes no entry say "running" or "completed" that did not.
LEMMA RequestKeeps ==
  ASSUME JobInv, (\E j \in Jobs : ReadStatus(j)) \/ WriteStatus \/ CopyJob \/ SaveJob \/ KillTask
  PROVE  JobInv'
<1> USE JobAssumption DEF JobInv
<1>1. ASSUME NEW j \in Jobs, ReadStatus(j) PROVE JobInv'
  <2>1. j \in 0 .. MaxJobs BY DEF Jobs
  <2> USE <1>1 DEF ReadStatus
  <2>2. PICK a \in {"read", "canceling"} : request' = [at |-> a, job |-> j, text |-> "none"]
    BY DEF NoRequest
  <2>3. JobTypeOK'
    <3>1. request'.job = j BY <2>2
    <3> QED BY <3>1 DEF JobTypeOK
  <2>4. Requests'
    <3>1. [at |-> a, job |-> j, text |-> "none"]
            \in [at : {"read", "canceling"}, job : 0 .. MaxJobs, text : {"none"}]
      BY <2>1
    <3>2. request' \in [at : {"read", "canceling"}, job : 0 .. MaxJobs, text : {"none"}]
      BY <2>2, <3>1
    <3>3. request'.job = j BY <2>2
    <3> QED BY <3>2, <3>3 DEF Requests, Statuses
  <2>5. Copied' BY <2>2 DEF Copied
  <2>6. Working' /\ Counting' BY DEF Working, Works, Counting
  <2>7. JobsTruthful'
    BY DEF JobsTruthful, OneJobAtATime, CompletedIsComplete, NothingRunsAfterRestart, Alive
  <2> QED BY <2>3, <2>4, <2>5, <2>6, <2>7
<1>2. CASE WriteStatus
  <2> USE <1>2 DEF WriteStatus
  <2>1. request.job \in Jobs BY DEF Requests
  <2>2. \A k \in Jobs : status'[k] = status[k] \/ status'[k] = "canceling"
    BY <2>1 DEF JobTypeOK
  <2>3. JobTypeOK' BY <2>1 DEF JobTypeOK, Active, Requests
  <2>4. Requests' /\ Copied' BY DEF Requests, Copied
  <2>5. Working' /\ Counting' BY <2>2 DEF Working, Works, Counting, Active
  <2>6. JobsTruthful'
    BY <2>2 DEF JobsTruthful, OneJobAtATime, CompletedIsComplete, NothingRunsAfterRestart, Alive
  <2> QED BY <2>3, <2>4, <2>5, <2>6
<1>3. CASE CopyJob
  <2> USE <1>3 DEF CopyJob
  <2>1. request.job \in Jobs BY DEF Requests
  <2>2. status[request.job] \in Statuses BY <2>1 DEF JobTypeOK, Statuses
  <2>3. JobTypeOK' /\ Requests' BY <2>1, <2>2 DEF JobTypeOK, Requests
  <2>4. Copied' BY <2>1 DEF Copied, Requests, JobsTruthful, CompletedIsComplete
  <2>5. Working' /\ Counting' BY DEF Working, Works, Counting
  <2>6. JobsTruthful'
    BY DEF JobsTruthful, OneJobAtATime, CompletedIsComplete, NothingRunsAfterRestart, Alive
  <2> QED BY <2>3, <2>4, <2>5, <2>6
<1>4. CASE SaveJob
  <2> USE <1>4 DEF SaveJob
  <2>1. request.job \in Jobs /\ request.text \in Statuses BY DEF Requests
  <2>2. \A k \in Jobs : saved'[k] = IF k = request.job THEN request.text ELSE saved[k]
    BY <2>1 DEF JobTypeOK
  <2>3. JobTypeOK' BY <2>1 DEF JobTypeOK, Statuses, Requests
  <2>4. Requests' /\ Copied' BY DEF Requests, Copied
  <2>5. Working' /\ Counting' BY DEF Working, Works, Counting
  <2>6. JobsTruthful'
    BY <2>2 DEF JobsTruthful, OneJobAtATime, CompletedIsComplete, NothingRunsAfterRestart,
                Alive, Copied
  <2> QED BY <2>3, <2>4, <2>5, <2>6
<1>5. CASE KillTask
  <2> USE <1>5 DEF KillTask
  <2>1. request.job \in Jobs BY DEF Requests
  <2>2. JobTypeOK' /\ Requests' /\ Copied'
    BY <2>1 DEF JobTypeOK, Requests, Copied, NoRequest, Statuses
  <2>3. Working' /\ Counting' BY DEF Working, Works, Counting
  <2>4. JobsTruthful'
    BY DEF JobsTruthful, OneJobAtATime, CompletedIsComplete, NothingRunsAfterRestart, Alive
  <2> QED BY <2>2, <2>3, <2>4
<1> QED BY <1>1, <1>2, <1>3, <1>4, <1>5

\* A new process finds the files, and what was active there has failed.
LEMMA RestartKeeps == ASSUME JobInv, Restart PROVE JobInv'
<1> USE JobAssumption DEF JobInv, Restart
<1>1. \A k \in Jobs :
        /\ status'[k] = Recovered(saved[k]) /\ saved'[k] = Recovered(saved[k])
        /\ body'[k] \in {"none", "gone"}
  OBVIOUS
<1>2. \A k \in Jobs : /\ Recovered(saved[k]) \in Final \cup {"none"}
                      /\ Recovered(saved[k]) = "completed" => saved[k] = "completed"
  BY DEF Recovered, JobTypeOK, Active, Final
<1>3. JobTypeOK' BY <1>2 DEF JobTypeOK, NoRequest
<1>4. Requests' /\ Copied' BY DEF Requests, Copied, NoRequest, Statuses
<1>5. Working' /\ Counting' BY <1>1 DEF Working, Works, Counting
<1>6. JobsTruthful'
  BY <1>1, <1>2 DEF JobsTruthful, OneJobAtATime, CompletedIsComplete,
                    NothingRunsAfterRestart, Alive, Final
<1> QED BY <1>3, <1>4, <1>5, <1>6

\* JobInv is inductive.
LEMMA JobSteps == JobInv /\ [JobNext]_jobVars => JobInv'
<1> SUFFICES ASSUME JobInv, [JobNext]_jobVars PROVE JobInv' OBVIOUS
<1>1. CASE UNCHANGED jobVars
  BY <1>1 DEF jobVars, JobInv, JobTypeOK, Requests, Working, Works, Counting, Copied,
              JobsTruthful, OneJobAtATime, CompletedIsComplete, NothingRunsAfterRestart, Alive
<1>2. CASE JobNext
  BY <1>2, StartKeeps, CheckKeeps, EndKeeps, RequestKeeps, RestartKeeps DEF JobNext, JobStep
<1> QED BY <1>1, <1>2

-----------------------------------------------------------------------------

\* The entries, the files and the coroutines of background_job.py have their types.
THEOREM JobTyped == JobSpec => []JobTypeOK
<1>1. JobInv => JobTypeOK BY DEF JobInv
<1> QED BY <1>1, JobStarts, JobSteps, PTL DEF JobSpec

\* start_account_status_check_job never runs two checks beside each other, a job that
\* says "completed" has checked every account, and _load_jobs leaves nothing that says
\* "running" without a coroutine: for any number of jobs, accounts and restarts.
THEOREM JobsTell == JobSpec => []JobsTruthful
<1>1. JobInv => JobsTruthful BY DEF JobInv
<1> QED BY <1>1, JobStarts, JobSteps, PTL DEF JobSpec

-----------------------------------------------------------------------------
(***************************************************************************)
(* The registry of clients                                                 *)
(*                                                                         *)
(* Until somebody closes a client by name there is one lock, held by       *)
(* whoever connects or stops the client (Alone); the count is that of the  *)
(* users inside, and nobody is inside while the last one stops the client: *)
(* what Stopped resets is zero already.                                    *)
(***************************************************************************)

Places == {"away", "got", "entering", "connecting", "using", "leaving", "stopping"}
Entries == [at : Places, client : Nat, lock : Nat]

Types ==
  /\ ClientTypeOK /\ made \in Nat
  /\ use \in [ClientUsers -> Entries]
  /\ closing \in [at : {"no", "locking", "stopping"}, lock : Nat, client : Nat]
  /\ closes \in 0 .. MaxCloses
  /\ lockId = IF closing.at = "no" THEN closes + 1 ELSE closes

Inside == At({"connecting", "using", "leaving"})

Alone ==
  closes = 0 =>
    /\ \A u \in ClientUsers : use[u].at \in {"connecting", "stopping"} <=> heldBy[1] = u
    /\ \A u \in ClientUsers : use[u].at = "stopping" => refs = 0
    /\ refs = Cardinality(Inside)

ClientInv == Types /\ Alone

-----------------------------------------------------------------------------

\* No client, no user: both hold.
LEMMA ClientStarts == ClientInit => ClientInv
<1> SUFFICES ASSUME ClientInit PROVE ClientInv OBVIOUS
<1> USE ClientAssumption DEF ClientInit, NoClient
<1>1. Types BY DEF Types, Entries, ClientTypeOK, LockIds, Places
<1>2. Inside = {} BY DEF Inside, At
<1>3. Alone BY <1>2, FS_EmptySet DEF Alone, LockIds
<1> QED BY <1>1, <1>3 DEF ClientInv

\* The types survive the steps of a user.
LEMMA UserTypes == ASSUME Types, NEW u \in ClientUsers, ClientStep(u) PROVE Types'
<1> USE ClientAssumption DEF Types
<1>1. /\ made \in Nat /\ refs \in Nat /\ instance \in 0 .. made /\ connected \subseteq 0 .. made
      /\ use[u] \in Entries
      /\ use[u].client \in 0 .. made /\ use[u].lock \in 1 .. lockId /\ lockId \in LockIds
  BY DEF ClientTypeOK
<1>2. UNCHANGED <<lockId, closing, closes>>
  BY DEF ClientStep, GetClient, Enter, EnterLocked, Connects, ConnectFails, Exit, ExitLocked,
         Stopped
<1>3. made' \in Nat /\ made <= made' /\ made' <= MaxClients /\ instance' \in 0 .. made'
  <2>1. CASE GetClient(u) BY <2>1, <1>1 DEF GetClient, ClientTypeOK
  <2>2. CASE ~GetClient(u)
    BY <2>2, <1>1 DEF ClientStep, Enter, EnterLocked, Connects, ConnectFails, Exit, ExitLocked,
                      Stopped, NoClient, ClientTypeOK
  <2> QED BY <2>1, <2>2
<1>4. refs' \in Nat
  BY <1>1 DEF ClientStep, GetClient, Enter, EnterLocked, Connects, ConnectFails, Exit,
              ExitLocked, Stopped, OneLess
<1>5. connected' \subseteq 0 .. made'
  <2>1. connected' \subseteq connected \cup {use[u].client}
    BY DEF ClientStep, GetClient, Enter, EnterLocked, Connects, ConnectFails, Exit, ExitLocked,
           Stopped
  <2> QED BY <2>1, <1>1, <1>3
<1>6. heldBy' \in [LockIds -> ClientUsers \cup {NoUser, Closer}]
  <2>1. heldBy' = heldBy \/ \E h \in {u, NoUser} : heldBy' = [heldBy EXCEPT ![use[u].lock] = h]
    BY DEF ClientStep, GetClient, Enter, EnterLocked, Connects, ConnectFails, Exit, ExitLocked,
           Stopped, Unlock
  <2> QED BY <2>1 DEF ClientTypeOK
<1>7. /\ use' = [use EXCEPT ![u] = use'[u]]
      /\ use'[u] \in Entries /\ use'[u].client \in 0 .. made' /\ use'[u].lock \in 1 .. lockId
  <2>1. CASE GetClient(u)
    <3>1. PICK c \in 0 .. made' :
            use' = [use EXCEPT ![u] = [@ EXCEPT !.at = "got", !.client = c]]
      BY <2>1, <1>1, <1>3 DEF GetClient
    <3>2. use'[u] = [use[u] EXCEPT !.at = "got", !.client = c] BY <3>1
    <3>3. c \in Nat /\ "got" \in Places BY <1>3 DEF Places
    <3>4. use'[u] \in Entries /\ use'[u].client = c /\ use'[u].lock = use[u].lock
      BY <1>1, <3>2, <3>3 DEF Entries
    <3> QED BY <3>1, <3>2, <3>4, <1>1
  <2>2. CASE Enter(u) \/ Exit(u)
    <3>1. PICK a \in Places : use' = [use EXCEPT ![u] = [@ EXCEPT !.at = a, !.lock = lockId]]
      BY <2>2 DEF Enter, Exit, Places
    <3>2. use'[u] = [use[u] EXCEPT !.at = a, !.lock = lockId] BY <3>1
    <3>3. lockId \in Nat /\ lockId \in 1 .. lockId /\ use[u].client \in 0 .. made'
      BY <1>1, <1>3 DEF LockIds
    <3>4. use'[u] \in Entries /\ use'[u].client = use[u].client /\ use'[u].lock = lockId
      BY <1>1, <3>2, <3>3 DEF Entries
    <3> QED BY <3>1, <3>2, <3>3, <3>4
  <2>3. CASE ~GetClient(u) /\ ~Enter(u) /\ ~Exit(u)
    <3>1. PICK a \in Places : use' = [use EXCEPT ![u].at = a]
      BY <2>3 DEF ClientStep, EnterLocked, Connects, ConnectFails, ExitLocked, Stopped, Goes,
                  Places
    <3>2. use'[u] \in Entries /\ use'[u].client = use[u].client /\ use'[u].lock = use[u].lock
      BY <3>1, <1>1 DEF Entries
    <3>3. use[u].client \in 0 .. made' BY <1>1, <1>3
    <3> QED BY <3>1, <3>2, <3>3, <1>1
  <2> QED BY <2>1, <2>2, <2>3
<1>8. /\ use' \in [ClientUsers -> Entries]
      /\ \A v \in ClientUsers : use'[v].client \in 0 .. made' /\ use'[v].lock \in 1 .. lockId
  <2>1. \A v \in ClientUsers : use[v].client \in 0 .. made' /\ use[v].lock \in 1 .. lockId
    BY <1>1, <1>3 DEF ClientTypeOK
  <2> QED BY <1>7, <2>1
<1> QED BY <1>2, <1>3, <1>4, <1>5, <1>6, <1>8 DEF ClientTypeOK

\* The types survive a close by name.
LEMMA CloseTypes == ASSUME Types, CloseByName \/ CloseLocked \/ CloseDone PROVE Types'
<1> USE ClientAssumption DEF Types
<1>1. CASE CloseByName
  <2>1. /\ closing' \in [at : {"locking"}, lock : Nat, client : Nat]
        /\ closing'.at = "locking" /\ closing'.lock = lockId
    BY <1>1 DEF CloseByName, ClientTypeOK, LockIds, NoClient
  <2>2. closes' \in 0 .. MaxCloses /\ lockId = closes' /\ lockId \in 1 .. lockId
    BY <1>1 DEF CloseByName, ClientTypeOK, LockIds
  <2> QED BY <1>1, <2>1, <2>2 DEF CloseByName, ClientTypeOK
<1>2. CASE CloseLocked
  <2>0. closing' = [closing EXCEPT !.at = "stopping", !.client = instance]
    BY <1>2 DEF CloseLocked
  <2>1. /\ closing' \in [at : {"no", "locking", "stopping"}, lock : Nat, client : Nat]
        /\ closing'.at = "stopping" /\ closing'.lock = closing.lock
    <3>1. instance \in Nat BY DEF ClientTypeOK
    <3> QED BY <2>0, <3>1
  <2>2. heldBy' \in [LockIds -> ClientUsers \cup {NoUser, Closer}]
    BY <1>2 DEF CloseLocked, ClientTypeOK
  <2> QED BY <1>2, <2>1, <2>2 DEF CloseLocked, ClientTypeOK
<1>3. CASE CloseDone
  <2>1. /\ closing' \in [at : {"no"}, lock : Nat, client : Nat]
        /\ closing'.at = "no" /\ closing'.lock = closing.lock
    BY <1>3 DEF CloseDone, ClientTypeOK
  <2>2. lockId' = closes + 1 /\ lockId' \in LockIds /\ \A k \in 1 .. lockId : k \in 1 .. lockId'
    BY <1>3 DEF CloseDone, ClientTypeOK, LockIds
  <2>3. heldBy' \in [LockIds -> ClientUsers \cup {NoUser, Closer}]
    BY <1>3 DEF CloseDone, ClientTypeOK
  <2> QED BY <1>3, <2>1, <2>2, <2>3 DEF CloseDone, ClientTypeOK, NoClient
<1> QED BY <1>1, <1>2, <1>3

\* Before any close by name there is one lock, which everybody has asked for.
LEMMA OneLock ==
  ASSUME Types, closes = 0
  PROVE  lockId = 1 /\ closing.at = "no" /\ 1 \in LockIds /\ \A u \in ClientUsers : use[u].lock = 1
<1> USE ClientAssumption DEF Types, ClientTypeOK, LockIds
<1>1. lockId = 1 /\ closing.at = "no" OBVIOUS
<1> QED BY <1>1

\* A user that comes in or goes out is one more or one less of a finite set.
LEMMA Counted ==
  ASSUME NEW u \in ClientUsers
  PROVE  /\ IsFiniteSet(Inside) /\ Cardinality(Inside) \in Nat
         /\ u \notin Inside => Cardinality(Inside \cup {u}) = Cardinality(Inside) + 1
         /\ u \in Inside => /\ Cardinality(Inside) >= 1
                            /\ Cardinality(Inside \ {u}) = Cardinality(Inside) - 1
<1>1. Inside \subseteq ClientUsers BY DEF Inside, At
<1>2. IsFiniteSet(Inside) BY <1>1, FS_Subset, ClientAssumption
<1>3. Cardinality(Inside) \in Nat BY <1>2, FS_CardinalityType
<1>4. u \notin Inside => Cardinality(Inside \cup {u}) = Cardinality(Inside) + 1
  BY <1>2, FS_AddElement
<1>5. ASSUME u \in Inside PROVE Cardinality(Inside \ {u}) = Cardinality(Inside) - 1
  BY <1>2, <1>5, FS_RemoveElement
<1>6. ASSUME u \in Inside PROVE Cardinality(Inside) >= 1
  BY <1>2, <1>3, <1>6, FS_EmptySet
<1> QED BY <1>2, <1>3, <1>4, <1>5, <1>6

\* Where a user goes says who is inside.
LEMMA InsideMoves ==
  ASSUME Types, NEW u \in ClientUsers, NEW p \in Places,
         \A v \in ClientUsers : v # u => use'[v].at = use[v].at, use'[u].at = p
  PROVE  Inside' = IF p \in {"connecting", "using", "leaving"} THEN Inside \cup {u}
                                                              ELSE Inside \ {u}
BY DEF Inside, At

\* The steps of a user outside the lock, and its connection.
LEMMA FreeKeeps ==
  ASSUME ClientInv, NEW u \in ClientUsers,
         GetClient(u) \/ Enter(u) \/ Exit(u) \/ Connects(u)
  PROVE  Alone'
<1> SUFFICES ASSUME closes' = 0 PROVE Alone' BY DEF Alone
<1> USE ClientAssumption DEF ClientInv
<1>1. closes = 0 /\ refs' = refs BY DEF GetClient, Enter, Exit, Connects
<1>2. lockId = 1 /\ 1 \in LockIds /\ use[u].lock = 1 BY <1>1, OneLock
<1>3. \A v \in ClientUsers : v # u => use'[v].at = use[v].at
  <2>1. \E e : use' = [use EXCEPT ![u] = e] BY DEF GetClient, Enter, Exit, Connects, Goes
  <2> QED BY <2>1 DEF Types, Entries
<1>4. \/ use[u].at = "away" /\ use'[u].at = "got" /\ heldBy' = heldBy
      \/ use[u].at = "got" /\ use'[u].at = "entering" /\ heldBy' = heldBy
      \/ use[u].at = "using" /\ use'[u].at = "leaving" /\ heldBy' = heldBy
      \/ /\ use[u].at = "connecting" /\ use'[u].at = "using"
         /\ heldBy' = [heldBy EXCEPT ![1] = NoUser]
  <2>0. use[u] \in Entries /\ \A e : use' = [use EXCEPT ![u] = e] => use'[u] = e
    BY DEF Types
  <2>1. CASE GetClient(u)
    <3>1. \E c : use' = [use EXCEPT ![u] = [@ EXCEPT !.at = "got", !.client = c]]
      BY <2>1 DEF GetClient
    <3>2. use'[u].at = "got" BY <2>0, <3>1 DEF Entries
    <3> QED BY <2>1, <3>2 DEF GetClient
  <2>2. CASE Enter(u)
    <3>1. use'[u].at = "entering" BY <2>0, <2>2 DEF Enter, Entries
    <3> QED BY <2>2, <3>1 DEF Enter
  <2>3. CASE Exit(u)
    <3>1. use'[u].at = "leaving" BY <2>0, <2>3 DEF Exit, Entries
    <3> QED BY <2>3, <3>1 DEF Exit
  <2>4. CASE Connects(u)
    <3>1. use'[u].at = "using" BY <2>0, <2>4 DEF Connects, Goes, Entries
    <3> QED BY <2>4, <3>1, <1>2 DEF Connects, Unlock
  <2> QED BY <2>1, <2>2, <2>3, <2>4
<1>5. Inside' = Inside
  <2>1. u \in Inside <=> use'[u].at \in {"using", "leaving"} BY <1>4 DEF Inside, At
  <2>2. use'[u].at \in Places \ {"connecting", "stopping"} BY <1>4 DEF Places
  <2> QED BY <1>3, <2>1, <2>2, InsideMoves
<1>6. \A v \in ClientUsers : use'[v].at \in {"connecting", "stopping"} <=> heldBy'[1] = v
  BY <1>1, <1>2, <1>3, <1>4 DEF Alone, Types, Entries, ClientTypeOK
<1>7. \A v \in ClientUsers : use'[v].at = "stopping" => refs' = 0
  BY <1>1, <1>3, <1>4 DEF Alone
<1> QED BY <1>1, <1>5, <1>6, <1>7 DEF Alone

\* With the lock free a user comes in: nobody is stopping.
LEMMA EnterKeeps == ASSUME ClientInv, NEW u \in ClientUsers, EnterLocked(u) PROVE Alone'
<1> SUFFICES ASSUME closes' = 0 PROVE Alone' BY DEF Alone
<1> USE ClientAssumption DEF ClientInv, EnterLocked
<1>1. closes = 0 OBVIOUS
<1>2. 1 \in LockIds /\ use[u].lock = 1 /\ heldBy[1] = NoUser BY <1>1, OneLock
<1>3. \A v \in ClientUsers : use[v].at \notin {"connecting", "stopping"}
  BY <1>1, <1>2 DEF Alone
<1>4. /\ \A v \in ClientUsers : v # u => use'[v].at = use[v].at
      /\ use'[u].at = IF refs = 0 THEN "connecting" ELSE "using"
      /\ heldBy' = IF refs = 0 THEN [heldBy EXCEPT ![1] = u] ELSE heldBy
  BY <1>2 DEF Goes, Types, Entries
<1>5. refs' = Cardinality(Inside')
  <2>1. u \notin Inside BY DEF Inside, At
  <2>2. Inside' = Inside \cup {u} BY <1>4, InsideMoves DEF Places
  <2> QED BY <1>1, <2>1, <2>2, Counted DEF Alone
<1>6. \A v \in ClientUsers : use'[v].at \in {"connecting", "stopping"} <=> heldBy'[1] = v
  BY <1>2, <1>3, <1>4 DEF Types, Entries, ClientTypeOK
<1> QED BY <1>3, <1>4, <1>5, <1>6 DEF Alone

\* A user goes out: one that could not connect, or one that takes the free lock, to keep
\* it while it stops the client if it is the last.
LEMMA LeaveKeeps ==
  ASSUME ClientInv, NEW u \in ClientUsers, ConnectFails(u) \/ ExitLocked(u)
  PROVE  Alone'
<1> SUFFICES ASSUME closes' = 0 PROVE Alone' BY DEF Alone
<1> USE ClientAssumption DEF ClientInv
<1>1. closes = 0 /\ refs' = OneLess(refs) BY DEF ConnectFails, ExitLocked
<1>2. 1 \in LockIds /\ use[u].lock = 1 BY <1>1, OneLock
<1>3. u \in Inside BY DEF Inside, At, ConnectFails, ExitLocked
<1>4. refs >= 1 /\ refs \in Nat /\ refs' = refs - 1
  <2>1. refs = Cardinality(Inside) BY <1>1 DEF Alone
  <2>2. refs >= 1 /\ refs \in Nat BY <1>3, <2>1, Counted
  <2> QED BY <1>1, <2>2 DEF OneLess
<1>5. \A v \in ClientUsers : v # u => use'[v].at = use[v].at /\ use[v].at # "stopping"
  <2>1. \A v \in ClientUsers : use[v].at # "stopping" BY <1>1, <1>4 DEF Alone
  <2>2. \E a : use' = [use EXCEPT ![u].at = a] BY DEF ConnectFails, ExitLocked, Goes
  <2> QED BY <2>1, <2>2 DEF Types, Entries
<1>6. use'[u].at \in {"away", "stopping"}
  BY DEF ConnectFails, ExitLocked, Goes, Types, Entries
<1>7. refs' = Cardinality(Inside')
  <2>1. Inside' = Inside \ {u} BY <1>5, <1>6, InsideMoves DEF Places
  <2> QED BY <1>1, <1>3, <1>4, <2>1, Counted DEF Alone
<1>8. CASE ConnectFails(u)
  <2>1. use'[u].at = "away" /\ heldBy' = [heldBy EXCEPT ![1] = NoUser] /\ heldBy[1] = u
    BY <1>1, <1>2, <1>8 DEF ConnectFails, Goes, Unlock, Types, Entries, Alone
  <2> QED BY <1>1, <1>2, <1>5, <1>7, <2>1 DEF Alone, Types, Entries, ClientTypeOK
<1>9. CASE ExitLocked(u)
  <2>1. /\ heldBy[1] = NoUser
        /\ use'[u].at = IF refs <= 1 THEN "stopping" ELSE "away"
        /\ heldBy' = IF refs <= 1 THEN [heldBy EXCEPT ![1] = u] ELSE heldBy
    BY <1>2, <1>9 DEF ExitLocked, Goes, Types, Entries
  <2>2. use'[u].at = "stopping" => refs' = 0 BY <1>4, <2>1
  <2>3. \A v \in ClientUsers : use[v].at \notin {"connecting", "stopping"}
    BY <1>1, <2>1 DEF Alone
  <2>4. \A v \in ClientUsers : use'[v].at \in {"connecting", "stopping"} <=> heldBy'[1] = v
    BY <1>2, <1>5, <2>1, <2>3 DEF Types, Entries, ClientTypeOK
  <2> QED BY <1>5, <1>7, <2>2, <2>4 DEF Alone
<1> QED BY <1>8, <1>9

\* The last user has stopped the client: the count it resets is zero already.
LEMMA StoppedKeeps == ASSUME ClientInv, NEW u \in ClientUsers, Stopped(u) PROVE Alone'
<1> SUFFICES ASSUME closes' = 0 PROVE Alone' BY DEF Alone
<1> USE ClientAssumption DEF ClientInv, Stopped
<1>1. closes = 0 /\ refs = 0 /\ refs' = 0 /\ heldBy[1] = u BY DEF Alone
<1>2. 1 \in LockIds /\ use[u].lock = 1 BY <1>1, OneLock
<1>3. /\ \A v \in ClientUsers : v # u => use'[v].at = use[v].at
      /\ use'[u].at = "away" /\ heldBy' = [heldBy EXCEPT ![1] = NoUser]
  BY <1>2 DEF Goes, Unlock, Types, Entries
<1>4. Inside' = Inside
  <2>1. u \notin Inside BY DEF Inside, At
  <2> QED BY <1>3, <2>1, InsideMoves DEF Places
<1>5. \A v \in ClientUsers : use'[v].at \in {"connecting", "stopping"} <=> heldBy'[1] = v
  BY <1>1, <1>2, <1>3 DEF Alone, Types, Entries, ClientTypeOK
<1> QED BY <1>1, <1>4, <1>5 DEF Alone

\* ClientInv is inductive.
LEMMA ClientSteps == ClientInv /\ [ClientNext]_clientVars => ClientInv'
<1> SUFFICES ASSUME ClientInv, [ClientNext]_clientVars PROVE ClientInv' OBVIOUS
<1>1. CASE UNCHANGED clientVars
  BY <1>1 DEF clientVars, ClientInv, Types, Entries, ClientTypeOK, Alone, Inside, At
<1>2. ASSUME NEW u \in ClientUsers, ClientStep(u) PROVE ClientInv'
  <2>1. Types' BY <1>2, UserTypes DEF ClientInv
  <2>2. Alone' BY <1>2, FreeKeeps, EnterKeeps, LeaveKeeps, StoppedKeeps DEF ClientStep
  <2> QED BY <2>1, <2>2 DEF ClientInv
<1>3. CASE CloseByName \/ CloseLocked \/ CloseDone
  <2>1. Types' BY <1>3, CloseTypes DEF ClientInv
  <2>2. closes' # 0
    <3>1. CASE CloseByName BY <3>1 DEF CloseByName, ClientInv, Types
    <3>2. CASE CloseLocked \/ CloseDone
      BY <3>2, OneLock DEF CloseLocked, CloseDone, ClientInv
    <3> QED BY <1>3, <3>1, <3>2
  <2> QED BY <2>1, <2>2 DEF ClientInv, Alone
<1> QED BY <1>1, <1>2, <1>3 DEF ClientNext

\* What ClientInv says of the lock and the count.
LEMMA ClientInvSafe == ClientInv => SharedSafely
<1> SUFFICES ASSUME ClientInv PROVE SharedSafely OBVIOUS
<1>1. ASSUME closes = 0 PROVE Cardinality(At({"connecting", "stopping"})) <= 1
  <2>1. At({"connecting", "stopping"}) \subseteq {heldBy[1]}
    BY <1>1 DEF At, ClientInv, Alone
  <2>2. IsFiniteSet({heldBy[1]}) /\ Cardinality({heldBy[1]}) = 1 BY FS_Singleton
  <2>3. Cardinality(At({"connecting", "stopping"})) <= Cardinality({heldBy[1]})
    BY <2>1, <2>2, FS_Subset
  <2> QED BY <2>2, <2>3
<1> QED BY <1>1 DEF SharedSafely, TransitionsExclusive, RefsCountUsers, ClientInv, Alone, Inside

-----------------------------------------------------------------------------

\* The variables of client.py have their types: the count is never negative.
THEOREM ClientTyped == ClientSpec => []ClientTypeOK
<1>1. ClientInv => ClientTypeOK BY DEF ClientInv, Types
<1> QED BY <1>1, ClientStarts, ClientSteps, PTL DEF ClientSpec

\* Until close_client_by_name is called, one coroutine at a time starts or stops the
\* shared client, and the count is that of its users.
THEOREM ClientShared == ClientSpec => []SharedSafely
BY ClientStarts, ClientSteps, ClientInvSafe, PTL DEF ClientSpec

-----------------------------------------------------------------------------
(***************************************************************************)
(* The execution of a plugin                                               *)
(*                                                                         *)
(* All its exits go through Leaves, which counts it and cancels its        *)
(* operations; nothing is counted before.                                  *)
(***************************************************************************)

Lines == ({"call", "call_cancel"} \X HostCalls) \cup ({"return"} \X {"ok", "error"})
HostTypes ==
  /\ hostAt \in {"spawning", "writing", "waiting", "draining", "killing", "ended"}
  /\ worker \in {"none", "alive", "gone"} /\ registered \in BOOLEAN
  /\ future \in {"none", "ok", "error"} /\ pipe \in Seq(Lines)
  /\ task \in [HostCalls -> {"none", "created", "running", "done", "cancelled"}]

Over == hostAt \in {"killing", "ended"}
HostInv ==
  /\ HostTypes
  /\ ~Over => records = <<>>
  /\ CountedOnce
  /\ Over => \A c \in HostCalls : task[c] \notin {"created", "running"}
  /\ hostAt = "ended" => worker = "gone" /\ ~registered
  /\ hostAt = "spawning" => worker = "none" /\ ~registered

LEMMA Appended ==
  ASSUME NEW S, NEW s \in Seq(S), NEW x \in S PROVE Append(s, x) \in Seq(S)
OBVIOUS

LEMMA HostInvInit == HostInit => HostInv
<1> SUFFICES ASSUME HostInit PROVE HostInv
  OBVIOUS
<1>1. HostTypes
  <2>1. pipe \in Seq(Lines)
    BY DEF HostInit
  <2>2. task \in [HostCalls -> {"none", "created", "running", "done", "cancelled"}]
    BY DEF HostInit
  <2> QED  BY <2>1, <2>2 DEF HostInit, HostTypes
<1> QED  BY <1>1 DEF HostInit, HostInv, Over, CountedOnce

LEMMA LeavesCounts ==
  ASSUME HostInv, ~Over, NEW why \in {"ok", "error", "timeout", "cancelled"}, NEW counted,
         counted = CASE why = "cancelled" -> <<>> [] why = "ok" -> <<"success">>
                     [] OTHER -> <<"failure">>,
         Leaves(why, counted)
  PROVE  HostInv'
<1>1. HostTypes'
  BY DEF HostInv, HostTypes, Leaves, CancelledTasks
<1>2. Over' /\ hostAt' # "ended" /\ hostAt' # "spawning"
  BY DEF Leaves, Over
<1>3. records' = counted
  <2>1. records = <<>> /\ records' = records \o counted
    BY DEF Leaves, HostInv
  <2>2. counted \in {<<>>, <<"success">>, <<"failure">>}
    OBVIOUS
  <2>3. CASE counted = <<>>
    BY <2>1, <2>3
  <2>4. CASE counted = <<"success">>
    BY <2>1, <2>4
  <2>5. CASE counted = <<"failure">>
    BY <2>1, <2>5
  <2> QED  BY <2>2, <2>3, <2>4, <2>5
<1>4. CountedOnce'
  BY <1>3 DEF Leaves, CountedOnce
<1>5. \A c \in HostCalls : task'[c] \notin {"created", "running"}
  BY DEF Leaves, CancelledTasks
<1> QED  BY <1>1, <1>2, <1>4, <1>5 DEF HostInv

LEMMA HostInvStep == HostInv /\ [HostNext]_hostVars => HostInv'
<1> SUFFICES ASSUME HostInv, [HostNext]_hostVars PROVE HostInv'
  OBVIOUS
<1> USE DEF HostInv, HostTypes, Over
<1>1. CASE UNCHANGED hostVars
  BY <1>1 DEF hostVars, CountedOnce
<1>2. CASE Spawn \/ InitWritten \/ SeeExit
  BY <1>2 DEF Spawn, InitWritten, SeeExit, CountedOnce
<1>10. CASE WorkerExits \/ CleanupAll
  BY <1>10 DEF WorkerExits, CleanupAll, CountedOnce
<1>11. CASE Kill
  BY <1>11 DEF Kill, CountedOnce
<1>f. UNCHANGED <<hostAt, endedBy, records>> => CountedOnce'
  BY DEF CountedOnce
<1>3. ASSUME NEW x, pipe' = Append(pipe, x), x \in Lines,
             UNCHANGED <<hostAt, worker, registered, task, future, endedBy, records>>
      PROVE  HostInv'
  <2>1. pipe' \in Seq(Lines)
    BY <1>3, Appended
  <2> QED  BY <1>3, <1>f, <2>1
<1>4. ASSUME NEW c \in HostCalls, WorkerCalls(c) \/ WorkerCancels(c) PROVE HostInv'
  <2>1. <<"call", c>> \in Lines /\ <<"call_cancel", c>> \in Lines
    BY DEF Lines
  <2> QED  BY <1>3, <1>4, <2>1 DEF WorkerCalls, WorkerCancels, WorkerTells
<1>12. CASE WorkerReturns
  <2>1. \A result \in {"ok", "error"} : <<"return", result>> \in Lines
    BY DEF Lines
  <2> QED  BY <1>3, <1>12, <2>1 DEF WorkerReturns, WorkerTells
<1>5. CASE ReadLine
  <2>1. Head(pipe) \in Lines /\ Tail(pipe) \in Seq(Lines)
    BY <1>5 DEF ReadLine
  <2>2. ~Over /\ ~Over'
    BY <1>5 DEF ReadLine, Listening
  <2>3. \/ future' = future
        \/ Head(pipe)[1] = "return" /\ future' = Head(pipe)[2]
    BY <1>5, <2>1 DEF ReadLine, Lines
  <2>4. future' \in {"none", "ok", "error"}
    BY <2>1, <2>3 DEF Lines
  <2>5. task' \in [HostCalls -> {"none", "created", "running", "done", "cancelled"}]
    BY <1>5, <2>1 DEF ReadLine, Lines
  <2> QED  BY <1>5, <2>1, <2>2, <2>4, <2>5 DEF ReadLine, CountedOnce
<1>6. ASSUME NEW c \in HostCalls, BeginOperation(c) \/ EndOperation(c) PROVE HostInv'
  BY <1>6 DEF BeginOperation, EndOperation, CountedOnce
<1>7. CASE TakeResult \/ Drained
  BY <1>7, LeavesCounts DEF TakeResult, Drained, CountedFor
<1>8. CASE TimesOut
  BY <1>8, LeavesCounts DEF TimesOut
<1>9. CASE Cancelled
  BY <1>9, LeavesCounts DEF Cancelled
<1> QED
  BY <1>1, <1>2, <1>3, <1>4, <1>5, <1>6, <1>7, <1>8, <1>9, <1>10, <1>11, <1>12 DEF HostNext

\* The calls in the pipe: each is there once, before it has a task.  A call puts two
\* lines into the pipe at most, and the plugin returns once.
Asked == {c \in HostCalls : asking[c] # "no"}
GivenUp == {c \in HostCalls : asking[c] = "abandoned"}
ReturnLine == IF Returned \/ future # "none" THEN 1 ELSE 0
Piped ==
  /\ asking \in [HostCalls -> {"no", "pending", "abandoned", "answered"}]
  /\ \A c \in HostCalls : asking[c] = "no" => task[c] = "none"
  /\ \A c \in HostCalls : \A i \in DOMAIN pipe : pipe[i] = <<"call", c>> =>
       /\ asking[c] # "no" /\ task[c] = "none"
       /\ \A j \in DOMAIN pipe : pipe[j] = <<"call", c>> => i = j
  /\ begun \subseteq {c \in HostCalls : task[c] \in {"running", "done", "cancelled"}}
  /\ Len(pipe) <= Cardinality(Asked) + Cardinality(GivenUp) + ReturnLine

LEMMA CallSets ==
  ASSUME NEW S \in SUBSET HostCalls
  PROVE  /\ Cardinality(S) \in Nat /\ Cardinality(S) <= Cardinality(HostCalls)
         /\ \A c \in HostCalls \ S : Cardinality(S \cup {c}) = Cardinality(S) + 1
<1>1. IsFiniteSet(S)
  BY HostAssumption, FS_Subset
<1> QED  BY <1>1, HostAssumption, FS_CardinalityType, FS_Subset, FS_AddElement

LEMMA LongerPipe ==
  ASSUME NEW S, NEW s \in Seq(S), NEW x \in S
  PROVE  /\ Len(Append(s, x)) = Len(s) + 1 /\ Len(s) \in Nat
         /\ DOMAIN Append(s, x) = DOMAIN s \cup {Len(s) + 1} /\ Len(s) + 1 \notin DOMAIN s
         /\ \A i \in DOMAIN s : Append(s, x)[i] = s[i]
         /\ Append(s, x)[Len(s) + 1] = x
OBVIOUS

LEMMA ShorterPipe ==
  ASSUME NEW S, NEW s \in Seq(S), s # <<>>
  PROVE  /\ Len(Tail(s)) = Len(s) - 1 /\ Len(s) \in Nat
         /\ \A i \in DOMAIN Tail(s) : i + 1 \in DOMAIN s /\ Tail(s)[i] = s[i + 1] /\ i \in Nat
         /\ 1 \in DOMAIN s /\ Head(s) = s[1]
         /\ \A i \in DOMAIN s : i # 1 => i - 1 \in DOMAIN Tail(s) /\ i \in Nat
                                        /\ Tail(s)[i - 1] = s[i]
OBVIOUS

LEMMA PipedCalls ==
  ASSUME HostTypes, Piped, NEW c \in HostCalls, WorkerCalls(c)
  PROVE  Piped'
<1> USE DEF HostTypes
<1>1. /\ asking[c] = "no" /\ asking' = [asking EXCEPT ![c] = "pending"]
      /\ pipe' = Append(pipe, <<"call", c>>)
      /\ UNCHANGED <<task, begun, future>> /\ ~Returned /\ future = "none"
  BY DEF WorkerCalls, WorkerTells
<1>2. PICK x \in Lines : x = <<"call", c>>
  BY DEF Lines
<1>3. /\ Len(pipe') = Len(pipe) + 1 /\ Len(pipe) \in Nat
      /\ DOMAIN pipe' = DOMAIN pipe \cup {Len(pipe) + 1} /\ Len(pipe) + 1 \notin DOMAIN pipe
      /\ \A i \in DOMAIN pipe : pipe'[i] = pipe[i]
      /\ pipe'[Len(pipe) + 1] = x
  BY <1>1, <1>2, LongerPipe
<1>4. /\ asking' \in [HostCalls -> {"no", "pending", "abandoned", "answered"}]
      /\ asking'[c] = "pending" /\ \A d \in HostCalls \ {c} : asking'[d] = asking[d]
  BY <1>1 DEF Piped
<1>5. \A d \in HostCalls : asking'[d] = "no" => task'[d] = "none"
  BY <1>1, <1>4 DEF Piped
<1>6. ASSUME NEW d \in HostCalls, NEW i \in DOMAIN pipe', pipe'[i] = <<"call", d>>
      PROVE  /\ asking'[d] # "no" /\ task'[d] = "none"
             /\ \A j \in DOMAIN pipe' : pipe'[j] = <<"call", d>> => i = j
  <2>1. CASE d = c
    <3>1. \A j \in DOMAIN pipe : pipe[j] # <<"call", c>>
      BY <1>1 DEF Piped
    <3>2. task[c] = "none"
      BY <1>1 DEF Piped
    <3> QED  BY <1>1, <1>3, <1>4, <1>6, <2>1, <3>1, <3>2
  <2>2. CASE d # c
    <3>1. i \in DOMAIN pipe /\ \A j \in DOMAIN pipe' : pipe'[j] = <<"call", d>> => j \in DOMAIN pipe
      BY <1>2, <1>3, <1>6, <2>2
    <3>2. pipe[i] = <<"call", d>>
      BY <1>3, <1>6, <3>1
    <3>3. /\ asking[d] # "no" /\ task[d] = "none"
          /\ \A j \in DOMAIN pipe : pipe[j] = <<"call", d>> => i = j
      BY <3>1, <3>2 DEF Piped
    <3>4. \A j \in DOMAIN pipe' : pipe'[j] = <<"call", d>> => i = j
      BY <1>3, <3>1, <3>3
    <3> QED  BY <1>1, <1>4, <2>2, <3>3, <3>4
  <2> QED  BY <2>1, <2>2
<1>7. Len(pipe') <= Cardinality(Asked') + Cardinality(GivenUp') + ReturnLine'
  <2>1. Asked' = Asked \cup {c} /\ c \in HostCalls \ Asked /\ GivenUp' = GivenUp
    BY <1>1, <1>4 DEF Asked, GivenUp
  <2>2. /\ Cardinality(Asked') = Cardinality(Asked) + 1 /\ Cardinality(Asked) \in Nat
        /\ Cardinality(GivenUp) \in Nat
    BY <2>1, CallSets DEF Asked, GivenUp
  <2>3. ReturnLine = 0 /\ ReturnLine' \in Nat
    BY <1>1 DEF ReturnLine
  <2>4. Len(pipe) <= Cardinality(Asked) + Cardinality(GivenUp) + ReturnLine
    BY DEF Piped
  <2> QED  BY <1>3, <2>1, <2>2, <2>3, <2>4
<1>8. begun' \subseteq {d \in HostCalls : task'[d] \in {"running", "done", "cancelled"}}
  BY <1>1 DEF Piped
<1> QED  BY <1>4, <1>5, <1>6, <1>7, <1>8 DEF Piped

\* Lines that are no calls.
LEMMA PipedOther ==
  ASSUME HostTypes, Piped, NEW x \in Lines, x[1] # "call", pipe' = Append(pipe, x),
         UNCHANGED <<task, begun, future>>,
         asking' \in [HostCalls -> {"no", "pending", "abandoned", "answered"}],
         \A d \in HostCalls : (asking'[d] = "no") <=> (asking[d] = "no"),
         Cardinality(Asked') + Cardinality(GivenUp') + ReturnLine'
           >= Cardinality(Asked) + Cardinality(GivenUp) + ReturnLine + 1
  PROVE  Piped'
<1> USE DEF HostTypes
<1>1. /\ Len(pipe') = Len(pipe) + 1 /\ Len(pipe) \in Nat
      /\ DOMAIN pipe' = DOMAIN pipe \cup {Len(pipe) + 1}
      /\ \A i \in DOMAIN pipe : pipe'[i] = pipe[i]
      /\ pipe'[Len(pipe) + 1] = x
  BY LongerPipe
<1>2. \A d \in HostCalls : <<"call", d>>[1] = "call"
  OBVIOUS
<1>3. \A d \in HostCalls : \A i \in DOMAIN pipe' : pipe'[i] = <<"call", d>> =>
        i \in DOMAIN pipe /\ pipe[i] = <<"call", d>>
  BY <1>1, <1>2
<1>4. \A d \in HostCalls : \A i \in DOMAIN pipe' : pipe'[i] = <<"call", d>> =>
       /\ asking'[d] # "no" /\ task'[d] = "none"
       /\ \A j \in DOMAIN pipe' : pipe'[j] = <<"call", d>> => i = j
  BY <1>3 DEF Piped
<1>5. Len(pipe') <= Cardinality(Asked') + Cardinality(GivenUp') + ReturnLine'
  <2>1. /\ Cardinality(Asked) \in Nat /\ Cardinality(GivenUp) \in Nat /\ ReturnLine \in Nat
        /\ Cardinality(Asked') \in Nat /\ Cardinality(GivenUp') \in Nat /\ ReturnLine' \in Nat
    BY CallSets DEF Asked, GivenUp, ReturnLine
  <2> QED  BY <1>1, <2>1 DEF Piped
<1>6. /\ \A d \in HostCalls : asking'[d] = "no" => task'[d] = "none"
      /\ begun' \subseteq {d \in HostCalls : task'[d] \in {"running", "done", "cancelled"}}
  BY DEF Piped
<1> QED  BY <1>4, <1>5, <1>6 DEF Piped

LEMMA PipedCancelsReturns ==
  ASSUME HostTypes, Piped, WorkerReturns \/ \E c \in HostCalls : WorkerCancels(c)
  PROVE  Piped'
<1> USE DEF HostTypes
<1>0. /\ Cardinality(Asked) \in Nat /\ Cardinality(GivenUp) \in Nat /\ ReturnLine \in Nat
      /\ ReturnLine' \in Nat
  BY CallSets DEF Asked, GivenUp, ReturnLine
<1>1. ASSUME NEW c \in HostCalls, WorkerCancels(c) PROVE Piped'
  <2>1. /\ asking[c] = "pending" /\ asking' = [asking EXCEPT ![c] = "abandoned"]
        /\ pipe' = Append(pipe, <<"call_cancel", c>>)
        /\ UNCHANGED <<task, begun, future>> /\ ~Returned /\ future = "none"
    BY <1>1 DEF WorkerCancels, WorkerTells
  <2>2. PICK x \in Lines : x = <<"call_cancel", c>>
    BY DEF Lines
  <2>3. /\ asking' \in [HostCalls -> {"no", "pending", "abandoned", "answered"}]
        /\ asking'[c] = "abandoned" /\ \A d \in HostCalls \ {c} : asking'[d] = asking[d]
    BY <2>1 DEF Piped
  <2>4. Asked' = Asked /\ GivenUp' = GivenUp \cup {c} /\ c \in HostCalls \ GivenUp
    BY <2>1, <2>3 DEF Asked, GivenUp
  <2>5. Cardinality(GivenUp') = Cardinality(GivenUp) + 1
    BY <2>4, CallSets DEF GivenUp
  <2>6. ReturnLine = 0
    BY <2>1 DEF ReturnLine
  <2>7. Cardinality(Asked') + Cardinality(GivenUp') + ReturnLine'
           >= Cardinality(Asked) + Cardinality(GivenUp) + ReturnLine + 1
    BY <1>0, <2>4, <2>5, <2>6
  <2>8. x[1] # "call" /\ pipe' = Append(pipe, x)
    BY <2>1, <2>2
  <2>9. \A d \in HostCalls : (asking'[d] = "no") <=> (asking[d] = "no")
    BY <2>1, <2>3
  <2> QED  BY <2>1, <2>3, <2>7, <2>8, <2>9, PipedOther
<1>2. CASE WorkerReturns
  <2>1. PICK result \in {"ok", "error"} :
          pipe' = Append(pipe, <<"return", result>>)
    BY <1>2 DEF WorkerReturns, WorkerTells
  <2>2. PICK x \in Lines : x = <<"return", result>>
    BY DEF Lines
  <2>3. UNCHANGED <<asking, task, begun, future>> /\ ~Returned /\ future = "none"
    BY <1>2 DEF WorkerReturns
  <2>4. Asked' = Asked /\ GivenUp' = GivenUp
    BY <2>3 DEF Asked, GivenUp
  <2>5. ReturnLine = 0 /\ ReturnLine' = 1
    <3>1. Len(pipe) + 1 \in DOMAIN pipe' /\ pipe'[Len(pipe) + 1] = x /\ x[1] = "return"
      BY <2>1, <2>2, LongerPipe
    <3> QED  BY <2>3, <3>1 DEF ReturnLine, Returned
  <2>6. x[1] # "call" /\ pipe' = Append(pipe, x)
    BY <2>1, <2>2
  <2>7. Cardinality(Asked') + Cardinality(GivenUp') + ReturnLine'
           >= Cardinality(Asked) + Cardinality(GivenUp) + ReturnLine + 1
    BY <1>0, <2>4, <2>5
  <2>8. asking' \in [HostCalls -> {"no", "pending", "abandoned", "answered"}]
    BY <2>3 DEF Piped
  <2> QED  BY <2>3, <2>6, <2>7, <2>8, PipedOther
<1> QED  BY <1>1, <1>2

\* What ReadLine does with each kind of line.
LEMMA ReadKinds ==
  ASSUME ReadLine
  PROVE  /\ Head(pipe)[1] = "return" => UNCHANGED task
         /\ Head(pipe)[1] = "call" => task' = [task EXCEPT ![Head(pipe)[2]] = "created"]
         /\ Head(pipe)[1] = "call_cancel" =>
              task' = [task EXCEPT ![Head(pipe)[2]] =
                         IF @ \in {"created", "running"} THEN "cancelled" ELSE @]
<1>1. CASE Head(pipe)[1] = "return"
  BY <1>1 DEF ReadLine
<1>2. CASE Head(pipe)[1] = "call"
  BY <1>2 DEF ReadLine
<1>3. CASE Head(pipe)[1] = "call_cancel"
  BY <1>3 DEF ReadLine
<1> QED  BY <1>1, <1>2, <1>3

LEMMA PipedReads ==
  ASSUME HostTypes, Piped, ReadLine
  PROVE  Piped'
<1> USE DEF HostTypes
<1>1. /\ pipe # <<>> /\ pipe' = Tail(pipe) /\ UNCHANGED <<asking, begun>>
      /\ Head(pipe) \in Lines
  BY DEF ReadLine
<1>2. /\ Len(pipe') = Len(pipe) - 1 /\ Len(pipe) \in Nat
      /\ \A i \in DOMAIN pipe' : i + 1 \in DOMAIN pipe /\ pipe'[i] = pipe[i + 1] /\ i \in Nat
      /\ 1 \in DOMAIN pipe /\ Head(pipe) = pipe[1]
      /\ \A i \in DOMAIN pipe : i # 1 => i - 1 \in DOMAIN pipe' /\ i \in Nat
                                      /\ pipe'[i - 1] = pipe[i]
  BY <1>1, ShorterPipe
<1>3. Asked' = Asked /\ GivenUp' = GivenUp
  BY <1>1 DEF Asked, GivenUp
<1>4. ReturnLine' = ReturnLine
  <2>1. CASE Head(pipe)[1] # "return"
    <3>1. future' = future
      BY <1>1, <2>1 DEF ReadLine, Lines
    <3>2. Returned' <=> Returned
      BY <1>2, <2>1 DEF Returned
    <3> QED  BY <3>1, <3>2 DEF ReturnLine
  <2>2. CASE Head(pipe)[1] = "return"
    <3>1. Head(pipe)[2] # "none"
      BY <1>1, <2>2 DEF Lines
    <3>2. future' # "none"
      BY <1>1, <2>2, <3>1 DEF ReadLine
    <3>3. Returned
      BY <1>2, <2>2 DEF Returned
    <3> QED  BY <3>2, <3>3 DEF ReturnLine
  <2> QED  BY <2>1, <2>2
<1>5. \/ UNCHANGED task /\ \A c \in HostCalls : Head(pipe) # <<"call", c>>
      \/ \E c \in HostCalls : Head(pipe) = <<"call", c>> /\ task' = [task EXCEPT ![c] = "created"]
      \/ \E c \in HostCalls : /\ Head(pipe) = <<"call_cancel", c>>
                             /\ task' = [task EXCEPT ![c] = IF @ \in {"created", "running"}
                                                           THEN "cancelled" ELSE @]
  <2>1. CASE Head(pipe)[1] = "return"
    BY <1>1, <2>1, ReadKinds
  <2>2. ASSUME NEW c \in HostCalls, Head(pipe) = <<"call", c>>
        PROVE  task' = [task EXCEPT ![c] = "created"]
    <3>1. Head(pipe)[1] = "call" /\ Head(pipe)[2] = c
      BY <2>2
    <3> QED  BY <3>1, ReadKinds
  <2>3. ASSUME NEW c \in HostCalls, Head(pipe) = <<"call_cancel", c>>
        PROVE  task' = [task EXCEPT ![c] = IF @ \in {"created", "running"} THEN "cancelled" ELSE @]
    <3>1. Head(pipe)[1] = "call_cancel" /\ Head(pipe)[2] = c
      BY <2>3
    <3> QED  BY <3>1, ReadKinds
  <2>4. \/ Head(pipe)[1] = "return"
        \/ \E c \in HostCalls : Head(pipe) = <<"call", c>>
        \/ \E c \in HostCalls : Head(pipe) = <<"call_cancel", c>>
    BY <1>1 DEF Lines
  <2> QED  BY <2>1, <2>2, <2>3, <2>4
<1>6. \A d \in HostCalls :
        /\ (task[d] = "none" /\ Head(pipe) # <<"call", d>>) => task'[d] = "none"
        /\ Head(pipe) = <<"call", d>> => task[d] = "none" /\ asking[d] # "no"
  BY <1>2, <1>5 DEF Piped
<1>7. \A d \in begun : task'[d] \in {"running", "done", "cancelled"}
  BY <1>5, <1>6 DEF Piped
<1>8. \A d \in HostCalls : asking'[d] = "no" => task'[d] = "none"
  <2>1. \A d \in HostCalls : asking'[d] = "no" => asking[d] = "no" /\ task[d] = "none"
    BY <1>1 DEF Piped
  <2> QED  BY <1>6, <2>1
<1>9. ASSUME NEW d \in HostCalls, NEW i \in DOMAIN pipe', pipe'[i] = <<"call", d>>
      PROVE  /\ asking'[d] # "no" /\ task'[d] = "none"
             /\ \A j \in DOMAIN pipe' : pipe'[j] = <<"call", d>> => i = j
  <2>1. i + 1 \in DOMAIN pipe /\ pipe[i + 1] = <<"call", d>> /\ i \in Nat /\ i + 1 # 1
    <3>1. i \in 1 .. Len(pipe')
      BY <1>1
    <3> QED  BY <1>2, <1>9, <3>1
  <2>2. \A j \in DOMAIN pipe : pipe[j] = <<"call", d>> => i + 1 = j
    BY <2>1 DEF Piped
  <2>3. Head(pipe) # <<"call", d>>
    BY <1>2, <2>1, <2>2
  <2>4. \A j \in DOMAIN pipe' : pipe'[j] = <<"call", d>> => i = j
    BY <1>2, <2>1, <2>2
  <2>5. asking[d] # "no" /\ task[d] = "none"
    BY <2>1 DEF Piped
  <2> QED  BY <1>1, <1>6, <2>3, <2>4, <2>5
<1>10. Len(pipe') <= Cardinality(Asked') + Cardinality(GivenUp') + ReturnLine'
  <2>1. /\ Cardinality(Asked) \in Nat /\ Cardinality(GivenUp) \in Nat /\ ReturnLine \in Nat
    BY CallSets DEF Asked, GivenUp, ReturnLine
  <2> QED  BY <1>2, <1>3, <1>4, <2>1 DEF Piped
<1> QED  BY <1>1, <1>7, <1>8, <1>9, <1>10 DEF Piped

\* Nothing but the tasks changes, and none becomes a new one.
LEMMA PipedTasks ==
  ASSUME HostTypes, Piped, UNCHANGED <<pipe, future>>,
         asking' \in [HostCalls -> {"no", "pending", "abandoned", "answered"}],
         \A c \in HostCalls : /\ (asking'[c] = "no" <=> asking[c] = "no")
                             /\ (asking'[c] = "abandoned" <=> asking[c] = "abandoned")
                             /\ (task[c] = "none" => task'[c] = "none"),
         begun' \subseteq {c \in HostCalls : task'[c] \in {"running", "done", "cancelled"}}
  PROVE  Piped'
<1>1. Asked' = Asked /\ GivenUp' = GivenUp
  BY DEF Asked, GivenUp
<1>2. ReturnLine' = ReturnLine
  BY DEF ReturnLine, Returned
<1>3. \A c \in HostCalls : asking'[c] = "no" => task'[c] = "none"
  BY DEF Piped
<1>4. \A c \in HostCalls : \A i \in DOMAIN pipe' : pipe'[i] = <<"call", c>> =>
       /\ asking'[c] # "no" /\ task'[c] = "none"
       /\ \A j \in DOMAIN pipe' : pipe'[j] = <<"call", c>> => i = j
  <2>1. \A c \in HostCalls : \A i \in DOMAIN pipe : pipe[i] = <<"call", c>> =>
         /\ asking[c] # "no" /\ task[c] = "none"
         /\ \A j \in DOMAIN pipe : pipe[j] = <<"call", c>> => i = j
    BY DEF Piped
  <2> QED  BY <2>1
<1>5. Len(pipe') <= Cardinality(Asked') + Cardinality(GivenUp') + ReturnLine'
  BY <1>1, <1>2 DEF Piped
<1> QED  BY <1>3, <1>4, <1>5 DEF Piped

LEMMA PipedStep == HostTypes /\ Piped /\ [HostNext]_hostVars => Piped'
<1> SUFFICES ASSUME HostTypes, Piped, [HostNext]_hostVars PROVE Piped'
  OBVIOUS
<1> USE DEF HostTypes
<1>1. ASSUME UNCHANGED <<pipe, future, asking, task, begun>> PROVE Piped'
  BY <1>1 DEF Piped, Asked, GivenUp, ReturnLine, Returned
<1>2. CASE Spawn \/ InitWritten \/ WorkerExits \/ SeeExit \/ Kill \/ CleanupAll
  BY <1>1, <1>2 DEF Spawn, InitWritten, WorkerExits, SeeExit, Kill, CleanupAll
<1>3. ASSUME NEW why, NEW counted, Leaves(why, counted) PROVE Piped'
  <2>1. UNCHANGED <<pipe, asking, begun, future>> /\ task' = CancelledTasks
    BY <1>3 DEF Leaves
  <2>2. /\ \A c \in HostCalls : task[c] = "none" => task'[c] = "none"
        /\ \A c \in HostCalls : task[c] \in {"running", "done", "cancelled"} =>
             task'[c] \in {"running", "done", "cancelled"}
    BY <2>1 DEF CancelledTasks
  <2>3. begun' \subseteq {c \in HostCalls : task'[c] \in {"running", "done", "cancelled"}}
    BY <2>1, <2>2 DEF Piped
  <2>4. asking' \in [HostCalls -> {"no", "pending", "abandoned", "answered"}]
    BY <2>1 DEF Piped
  <2> QED  BY <2>1, <2>2, <2>3, <2>4, PipedTasks
<1>4. CASE TakeResult \/ Drained \/ TimesOut \/ Cancelled
  BY <1>3, <1>4 DEF TakeResult, Drained, TimesOut, Cancelled
<1>5. ASSUME NEW c \in HostCalls, BeginOperation(c) PROVE Piped'
  <2>1. UNCHANGED <<pipe, asking, future>> /\ task[c] = "created"
    BY <1>5 DEF BeginOperation
  <2>2. \A d \in HostCalls : task[d] = "none" => task'[d] = "none"
    BY <1>5 DEF BeginOperation
  <2>3. begun' \subseteq {d \in HostCalls : task'[d] \in {"running", "done", "cancelled"}}
    BY <1>5 DEF BeginOperation, Piped
  <2>4. asking' \in [HostCalls -> {"no", "pending", "abandoned", "answered"}]
    BY <2>1 DEF Piped
  <2> QED  BY <2>1, <2>2, <2>3, <2>4, PipedTasks
<1>6. ASSUME NEW c \in HostCalls, EndOperation(c) PROVE Piped'
  <2>1. UNCHANGED <<pipe, begun, future>> /\ task[c] = "running"
        /\ task' = [task EXCEPT ![c] = "done"]
    BY <1>6 DEF EndOperation
  <2>2. /\ asking' \in [HostCalls -> {"no", "pending", "abandoned", "answered"}]
        /\ \A d \in HostCalls : /\ (asking'[d] = "no" <=> asking[d] = "no")
                                /\ (asking'[d] = "abandoned" <=> asking[d] = "abandoned")
    BY <1>6 DEF EndOperation, Piped
  <2>3. \A d \in HostCalls : task[d] = "none" => task'[d] = "none"
    BY <2>1
  <2>4. begun' \subseteq {d \in HostCalls : task'[d] \in {"running", "done", "cancelled"}}
    BY <2>1 DEF Piped
  <2> QED  BY <2>1, <2>2, <2>3, <2>4, PipedTasks
<1>7. CASE UNCHANGED hostVars
  BY <1>1, <1>7 DEF hostVars
<1> QED
  BY <1>2, <1>4, <1>5, <1>6, <1>7, PipedCalls, PipedCancelsReturns, PipedReads DEF HostNext

\* An operation that was begun has a task, a task a call that the plugin has made, and
\* the pipe no more lines than two for each call and the result, for any calls.
THEOREM HostTyped == HostSpec => []HostTypeOK
<1>1. HostInit => Piped
  <2> SUFFICES ASSUME HostInit PROVE Piped
    OBVIOUS
  <2>1. Len(pipe) = 0 /\ DOMAIN pipe = {} /\ begun = {}
    BY DEF HostInit
  <2>2. Cardinality(Asked) + Cardinality(GivenUp) + ReturnLine >= 0
    <3>1. Cardinality(Asked) \in Nat /\ Cardinality(GivenUp) \in Nat /\ ReturnLine \in Nat
      BY CallSets DEF Asked, GivenUp, ReturnLine
    <3> QED  BY <3>1
  <2> QED  BY <2>1, <2>2 DEF HostInit, Piped
<1>2. ASSUME HostInv, Piped PROVE HostTypeOK
  <2>1. Len(pipe) <= 2 * Cardinality(HostCalls) + 1
    <3>1. /\ Cardinality(Asked) \in Nat /\ Cardinality(Asked) <= Cardinality(HostCalls)
          /\ Cardinality(GivenUp) \in Nat /\ Cardinality(GivenUp) <= Cardinality(HostCalls)
          /\ Cardinality(HostCalls) \in Nat /\ ReturnLine \in {0, 1} /\ Len(pipe) \in Nat
      BY <1>2, CallSets DEF Asked, GivenUp, ReturnLine, HostInv, HostTypes
    <3> QED  BY <1>2, <3>1 DEF Piped
  <2> QED  BY <1>2, <2>1 DEF HostInv, HostTypes, Piped, HostTypeOK
<1>3. HostInv /\ Piped => HostTypeOK
  BY <1>2
<1>4. HostInv => HostTypes
  BY DEF HostInv
<1> QED  BY <1>1, <1>3, <1>4, HostInvInit, HostInvStep, PipedStep, PTL DEF HostSpec

\* An execution is counted once, as what ended it, for any operations of the plugin.
THEOREM PluginCounted == HostSpec => []CountedOnce
<1>1. HostInv => CountedOnce  BY DEF HostInv
<1> QED  BY <1>1, HostInvInit, HostInvStep, PTL DEF HostSpec

\* No operation begins once the execution is torn down; no process outlives it.
THEOREM PluginQuiet == HostSpec => QuietAfterEnd
<1>1. HostInv /\ HostInv' /\ [HostNext]_hostVars =>
        [/\ hostAt \in {"killing", "ended"} => begun' = begun
         /\ hostAt' = "ended" => worker' = "gone" /\ ~registered']_hostVars
  <2> SUFFICES ASSUME HostInv, HostInv', HostNext, Over PROVE begun' = begun
    BY DEF HostInv, Over, hostVars
  <2> QED
    BY DEF HostInv, Over, HostNext, Spawn, InitWritten, WorkerReturns, WorkerExits, ReadLine,
           WorkerCalls, WorkerCancels, BeginOperation, EndOperation, TakeResult, SeeExit,
           Drained, TimesOut, Cancelled, Kill, CleanupAll, Leaves
<1> QED  BY <1>1, HostInvInit, HostInvStep, PTL DEF HostSpec, QuietAfterEnd

-----------------------------------------------------------------------------
(***************************************************************************)
(* The breaker of a proxy                                                  *)
(***************************************************************************)

ProxyStates == {"none", "healthy", "degraded", "tripped", "half-open"}
ProxyEntries == [state : ProxyStates, count : Nat, at : Nat]

\* What holds of an entry in the file and in the memory of a process: it is reopened only
\* after the cooldown of the trip it knows of.
Sound(e) ==
  /\ e \in ProxyEntries /\ e.at <= trips
  /\ e.count = 2 => e.state = "degraded"
  /\ e.state = "half-open" => e.at <= cooled

\* The entry says that the breaker has tripped, and when it did so last.
SaysTripped(e) ==
  /\ e \in ProxyEntries
  /\ e.state \in {"tripped", "half-open"} /\ e.at = trips /\ e.count >= 3

ProxyFile ==
  /\ Sound(shared) /\ (shared.state = "degraded" => shared.count = 2)
  /\ recalled \in [Processes -> ProxyEntries] /\ \A p \in Processes : Sound(recalled[p])
  /\ trips \in Nat /\ cooled \in 0 .. trips /\ tripped \in BOOLEAN /\ entryLost \in BOOLEAN

\* As long as the trip is not lost the file says so, and so does the memory of every
\* process that has seen it.
TripStands ==
  tripped /\ ~entryLost =>
    SaysTripped(shared) /\ \A p \in Processes : p \in aware => SaysTripped(recalled[p])

ProbeStages == {"new", "through", "reopen", "repoll", "probing", "polling", "done"}
Reopening(c) == stage[c] \in {"reopen", "repoll"}

ProxyCalls ==
  /\ stage \in [Probes -> ProbeStages]
  /\ lease = {c \in Probes : stage[c] = "probing"}
  /\ \A c, d \in lease : c = d
  /\ \A c \in Probes : Reopening(c) => recalled[ProcessOf[c]].state = "half-open"

ProxyData == ProxyFile /\ TripStands
ProxyInv == ProxyData /\ ProxyCalls

LEMMA FailedEntry ==
  ASSUME ProxyFile, NEW e \in ProxyEntries, e.at <= trips
  PROVE  LET f == AfterFailure(e)
         IN /\ f \in ProxyEntries
            /\ f.state \in {"healthy", "degraded", "tripped"}
            /\ f.state = "degraded" <=> f.count = 2
            /\ e.count >= 3 => f.state = "tripped"
            /\ f.state = "tripped" => f.at = trips + 1 /\ f.count >= 3
            /\ f.state # "tripped" => f.at <= trips
<1> DEFINE n == e.count + 1
           s == IF n >= 3 THEN "tripped" ELSE IF n = 2 THEN "degraded" ELSE "healthy"
           t == IF n >= 3 THEN trips + 1 ELSE e.at
           f == AfterFailure(e)
<1>1. trips \in Nat /\ e.count \in Nat /\ e.at \in Nat /\ n \in Nat
  BY DEF ProxyFile, ProxyEntries
<1>2. f = [state |-> s, count |-> n, at |-> t]
  BY DEF AfterFailure
<1>3. /\ s \in {"healthy", "degraded", "tripped"}
      /\ s = "tripped" <=> n >= 3
      /\ s = "degraded" <=> n = 2
      /\ e.count >= 3 => n >= 3
  BY <1>1
<1>4. t \in Nat /\ (n >= 3 => t = trips + 1) /\ (~(n >= 3) => t <= trips)
  BY <1>1
<1> HIDE DEF n, s, t
<1>5. f.state = s /\ f.count = n /\ f.at = t
  BY <1>2
<1>6. f \in ProxyEntries
  BY <1>1, <1>2, <1>3, <1>4 DEF ProxyEntries, ProxyStates
<1> QED  BY <1>3, <1>4, <1>5, <1>6

LEMMA NothingSound ==
  ASSUME ProxyFile PROVE Sound(NoEntry) /\ Sound(Healthy) /\ NoEntry.state # "degraded"
  BY DEF ProxyFile, Sound, NoEntry, Healthy, ProxyEntries, ProxyStates

\* A write that fails leaves the entry or loses it.
LEMMA FailedWrite ==
  ASSUME ProxyData, WriteFails, UNCHANGED <<recalled, trips, cooled, tripped, aware>>
  PROVE  ProxyData'
<1>1. Sound(NoEntry) /\ NoEntry.state # "degraded"
  BY NothingSound DEF ProxyData
<1>2. CASE shared' = shared
  BY <1>2 DEF WriteFails, ProxyData, ProxyFile, TripStands, Sound, SaysTripped
<1>3. CASE shared' # shared
  <2>1. shared' = NoEntry /\ entryLost' = TRUE
    BY <1>3 DEF WriteFails, ProxyData, ProxyFile
  <2> QED  BY <1>1, <2>1 DEF ProxyData, ProxyFile, TripStands, Sound
<1> QED  BY <1>2, <1>3

LEMMA FailureData ==
  ASSUME ProxyData, NEW c \in Probes, RecordFailure(c), UNCHANGED cooled
  PROVE  /\ ProxyData'
         /\ \A p \in Processes : p # ProcessOf[c] => recalled'[p] = recalled[p]
<1> DEFINE h == ProcessOf[c]
<1>h. h \in Processes  BY ProxyAssumption
<1>1. CASE WriteFails /\ UNCHANGED <<recalled, trips, tripped, aware>>
  BY <1>1, FailedWrite
<1>2. ASSUME NEW e \in {AfterFailure(shared), AfterFailure(NoEntry)},
             shared' = e, Remember(c, e),
             IF e.state = "tripped"
             THEN /\ trips' = trips + 1 /\ tripped' = TRUE
                  /\ aware' = {ProcessOf[c]} /\ entryLost' = FALSE
             ELSE /\ entryLost' = (entryLost \/ e # AfterFailure(shared))
                  /\ UNCHANGED <<trips, tripped, aware>>
      PROVE  ProxyData' /\ \A p \in Processes : p # h => recalled'[p] = recalled[p]
  <2> DEFINE f == AfterFailure(shared)
             g == AfterFailure(NoEntry)
  <2>1. /\ shared \in ProxyEntries /\ shared.at <= trips
        /\ NoEntry \in ProxyEntries /\ NoEntry.at <= trips
    BY NothingSound DEF ProxyData, ProxyFile, Sound
  <2>2. /\ e \in ProxyEntries
        /\ e.state \in {"healthy", "degraded", "tripped"}
        /\ e.state = "degraded" <=> e.count = 2
        /\ e.state = "tripped" => e.at = trips + 1 /\ e.count >= 3
        /\ e.state # "tripped" => e.at <= trips
        /\ e = f => (shared.count >= 3 => e.state = "tripped")
    <3>1. CASE e = f
      BY <2>1, <3>1, FailedEntry DEF ProxyData
    <3>2. CASE e # f
      <4>1. e = g  BY <3>2
      <4> QED  BY <2>1, <3>2, <4>1, FailedEntry DEF ProxyData
    <3> QED  BY <3>1, <3>2
  <2> HIDE DEF f, g
  <2>3. recalled' = [recalled EXCEPT ![h] = e]
    BY <1>2 DEF Remember
  <2>4. /\ recalled \in [Processes -> ProxyEntries] /\ trips \in Nat /\ cooled \in 0 .. trips
        /\ tripped \in BOOLEAN /\ entryLost \in BOOLEAN
        /\ \A p \in Processes : Sound(recalled[p])
    BY DEF ProxyData, ProxyFile
  <2>5. /\ recalled' \in [Processes -> ProxyEntries] /\ recalled'[h] = e
        /\ \A p \in Processes : p # h => recalled'[p] = recalled[p]
    BY <1>h, <2>2, <2>3, <2>4
  <2>6. /\ trips' \in Nat /\ trips <= trips' /\ cooled' \in 0 .. trips'
        /\ tripped' \in BOOLEAN /\ entryLost' \in BOOLEAN
        /\ e.at <= trips'
    <3>1. CASE e.state = "tripped"
      <4>1. trips' = trips + 1 /\ tripped' = TRUE /\ entryLost' = FALSE
        BY <1>2, <3>1
      <4>2. e.at = trips + 1
        BY <2>2, <3>1
      <4>3. trips' \in Nat /\ trips <= trips' /\ e.at <= trips'
        BY <2>4, <4>1, <4>2
      <4>4. cooled' \in 0 .. trips'
        BY <2>4, <4>1
      <4> QED  BY <4>1, <4>3, <4>4
    <3>2. CASE e.state # "tripped"
      <4>1. entryLost' \in BOOLEAN /\ trips' = trips /\ tripped' = tripped
        BY <1>2, <3>2
      <4> QED  BY <2>2, <2>4, <3>2, <4>1 DEF ProxyEntries
    <3> QED  BY <3>1, <3>2
  <2>7. Sound(shared)' /\ (shared.state = "degraded" => shared.count = 2)'
    BY <1>2, <2>2, <2>6 DEF Sound
  <2>8. \A p \in Processes : Sound(recalled[p])'
    <3> TAKE p \in Processes
    <3>1. CASE p = h
      BY <2>2, <2>5, <2>6, <3>1 DEF Sound
    <3>2. CASE p # h
      BY <2>4, <2>5, <2>6, <3>2 DEF Sound, ProxyEntries
    <3> QED  BY <3>1, <3>2
  <2>9. TripStands'
    <3>1. CASE e.state = "tripped"
      <4>1. SaysTripped(e)'
        BY <1>2, <2>2, <3>1 DEF SaysTripped
      <4>2. aware' = {h}
        BY <1>2, <3>1
      <4> QED  BY <1>2, <2>5, <4>1, <4>2 DEF TripStands, SaysTripped
    <3>2. CASE e.state # "tripped"
      <4>1. SUFFICES ASSUME tripped', ~entryLost' PROVE FALSE
        BY DEF TripStands
      <4>2. tripped /\ ~entryLost /\ e = f
        BY <1>2, <3>2, <4>1 DEF f
      <4>3. shared.count >= 3
        BY <4>2 DEF ProxyData, TripStands, SaysTripped
      <4> QED  BY <2>2, <3>2, <4>2, <4>3
    <3> QED  BY <3>1, <3>2
  <2> QED  BY <2>5, <2>6, <2>7, <2>8, <2>9 DEF ProxyData, ProxyFile
<1> QED  BY <1>1, <1>2 DEF RecordFailure

LEMMA SuccessData ==
  ASSUME ProxyData, NEW c \in Probes, RecordSuccess(c), UNCHANGED cooled
  PROVE  /\ ProxyData' /\ tripped' = FALSE
         /\ \A p \in Processes : p # ProcessOf[c] => recalled'[p] = recalled[p]
<1> DEFINE h == ProcessOf[c]
<1>h. h \in Processes  BY ProxyAssumption
<1>1. /\ recalled \in [Processes -> ProxyEntries] /\ trips \in Nat /\ cooled \in 0 .. trips
      /\ \A p \in Processes : Sound(recalled[p])
      /\ Sound(shared) /\ (shared.state = "degraded" => shared.count = 2)
      /\ Sound(NoEntry) /\ Sound(Healthy) /\ NoEntry.state # "degraded"
  BY NothingSound DEF ProxyData, ProxyFile
<1>2. tripped' = FALSE /\ entryLost' = FALSE /\ trips' = trips /\ cooled' = cooled
  BY DEF RecordSuccess
<1>3. PICK e \in ProxyEntries : Sound(e) /\ recalled' = [recalled EXCEPT ![h] = e]
  <2>1. CASE Remember(c, Healthy)
    BY <1>1, <2>1 DEF Remember, Sound
  <2>2. CASE Remember(c, [recalled[h] EXCEPT !.count = 0, !.at = 0])
    <3>1. recalled[h] \in ProxyEntries  BY <1>h, <1>1
    <3>2. Sound([recalled[h] EXCEPT !.count = 0, !.at = 0])
      <4> DEFINE f == [recalled[h] EXCEPT !.count = 0, !.at = 0]
      <4>1. f \in ProxyEntries /\ f.count = 0 /\ f.at = 0
        BY <3>1 DEF ProxyEntries
      <4> HIDE DEF f
      <4>2. Sound(f)
        BY <1>1, <4>1 DEF Sound
      <4> QED  BY <4>2 DEF f
    <3> QED  BY <2>2, <3>2 DEF Remember, Sound
  <2> QED  BY <2>1, <2>2 DEF RecordSuccess
<1>4. Sound(shared') /\ (shared'.state = "degraded" => shared'.count = 2)
  BY <1>1 DEF RecordSuccess, Healthy
<1>5. /\ recalled' \in [Processes -> ProxyEntries]
      /\ \A p \in Processes : p # h => recalled'[p] = recalled[p]
      /\ \A p \in Processes : Sound(recalled'[p])
  BY <1>h, <1>1, <1>3
<1>6. Sound(shared)' /\ \A p \in Processes : Sound(recalled[p])'
  BY <1>2, <1>4, <1>5 DEF Sound
<1> QED  BY <1>1, <1>2, <1>4, <1>5, <1>6 DEF ProxyData, ProxyFile, TripStands

\* What get_state takes: a trip that stands is seen by every process that is aware of it.
LEMMA LooksSound ==
  ASSUME ProxyData, NEW c \in Probes, NEW e \in {shared, recalled[ProcessOf[c]]}, Looks(c, e)
  PROVE  /\ Sound(e)
         /\ tripped /\ ~entryLost /\ ProcessOf[c] \in aware' => SaysTripped(e)
         /\ \A p \in Processes : p # ProcessOf[c] => (p \in aware' <=> p \in aware)
<1>h. ProcessOf[c] \in Processes  BY ProxyAssumption
<1>1. CASE e = shared /\ aware' = aware \cup {ProcessOf[c]}
  BY <1>1 DEF ProxyData, ProxyFile, TripStands
<1>2. CASE e = recalled[ProcessOf[c]] /\ aware' = aware
  BY <1>h, <1>2 DEF ProxyData, ProxyFile, TripStands
<1> QED  BY <1>1, <1>2 DEF Looks

\* A process remembers what it has looked at, half open if the cooldown is over.
LEMMA LooksData ==
  ASSUME ProxyData, NEW c \in Probes, NEW e \in {shared, recalled[ProcessOf[c]]}, Looks(c, e),
         UNCHANGED <<shared, trips, cooled, tripped, entryLost>>,
         \/ Remember(c, e)
         \/ CooledDown(e) /\ Remember(c, HalfOpen(e))
  PROVE  /\ ProxyData'
         /\ \A p \in Processes : p # ProcessOf[c] => recalled'[p] = recalled[p]
         /\ Remember(c, HalfOpen(e)) => recalled'[ProcessOf[c]].state = "half-open"
<1> DEFINE h == ProcessOf[c]
<1>h. h \in Processes  BY ProxyAssumption
<1>1. /\ recalled \in [Processes -> ProxyEntries] /\ trips \in Nat /\ cooled \in 0 .. trips
      /\ \A p \in Processes : Sound(recalled[p])
  BY DEF ProxyData, ProxyFile
<1>2. /\ Sound(e) /\ (tripped /\ ~entryLost /\ h \in aware' => SaysTripped(e))
      /\ \A p \in Processes : p # h => (p \in aware' <=> p \in aware)
  BY LooksSound
<1>3. PICK f \in ProxyEntries : /\ Sound(f) /\ recalled' = [recalled EXCEPT ![h] = f]
                                /\ SaysTripped(e) => SaysTripped(f)
  <2>1. CASE Remember(c, e)
    BY <1>2, <2>1 DEF Remember, Sound
  <2>2. CASE CooledDown(e) /\ Remember(c, HalfOpen(e))
    <3>1. e \in ProxyEntries  BY <1>2 DEF Sound
    <3>2. /\ HalfOpen(e) \in ProxyEntries /\ HalfOpen(e).state = "half-open"
          /\ HalfOpen(e).count = e.count /\ HalfOpen(e).at = e.at
      BY <3>1 DEF HalfOpen, ProxyEntries, ProxyStates
    <3>3. Sound(HalfOpen(e)) /\ (SaysTripped(e) => SaysTripped(HalfOpen(e)))
      BY <1>2, <2>2, <3>2 DEF Sound, SaysTripped, CooledDown
    <3> QED  BY <2>2, <3>2, <3>3 DEF Remember
  <2> QED  BY <2>1, <2>2
<1>4. /\ recalled' \in [Processes -> ProxyEntries] /\ recalled'[h] = f
      /\ \A p \in Processes : p # h => recalled'[p] = recalled[p]
      /\ \A p \in Processes : Sound(recalled'[p])
  BY <1>h, <1>1, <1>2, <1>3
<1>5. ProxyFile'
  BY <1>4 DEF ProxyData, ProxyFile, Sound
<1>6. TripStands'
  <2> SUFFICES ASSUME tripped, ~entryLost
               PROVE  /\ SaysTripped(shared)
                      /\ \A p \in Processes : p \in aware' => SaysTripped(recalled'[p])
    BY DEF TripStands, SaysTripped
  <2>1. SaysTripped(shared) /\ \A p \in Processes : p \in aware => SaysTripped(recalled[p])
    BY DEF ProxyData, TripStands
  <2>2. h \in aware' => SaysTripped(recalled'[h])
    BY <1>2, <1>3, <1>4
  <2> QED  BY <1>2, <1>4, <2>1, <2>2
<1>7. Remember(c, HalfOpen(e)) => recalled'[h].state = "half-open"
  <2>1. e \in ProxyEntries  BY <1>2 DEF Sound
  <2> QED  BY <1>h, <1>1, <2>1 DEF Remember, HalfOpen, ProxyEntries
<1> QED  BY <1>4, <1>5, <1>6, <1>7 DEF ProxyData

\* A call that gets the lease is the only one that probes.
LEMMA LeaseStep ==
  ASSUME ProxyCalls, NEW c \in Probes, stage[c] # "probing", TryLease(c)
  PROVE  /\ stage' \in [Probes -> ProbeStages]
         /\ lease' = {d \in Probes : stage'[d] = "probing"}
         /\ \A d, e \in lease' : d = e
         /\ stage'[c] \in {"probing", "polling"}
         /\ \A d \in Probes : d # c => stage'[d] = stage[d]
<1>1. CASE lease = {}
  BY <1>1 DEF TryLease, MoveTo, ProxyCalls, ProbeStages
<1>2. CASE lease # {}
  BY <1>2 DEF TryLease, MoveTo, ProxyCalls, ProbeStages
<1> QED  BY <1>1, <1>2

\* A call that moves elsewhere than to its probe.
LEMMA MoveStep ==
  ASSUME ProxyCalls, NEW c \in Probes, NEW s \in ProbeStages \ {"probing"}, MoveTo(c, s),
         lease' = lease \ {c}
  PROVE  /\ stage' \in [Probes -> ProbeStages]
         /\ lease' = {d \in Probes : stage'[d] = "probing"}
         /\ \A d, e \in lease' : d = e
         /\ stage'[c] = s
         /\ \A d \in Probes : d # c => stage'[d] = stage[d]
  BY DEF MoveTo, ProxyCalls, ProbeStages

\* A step of one call that leaves the memory of the other processes keeps what they are
\* about to write, for its own process had nothing to write.
LEMMA CallsStep ==
  ASSUME ProxyCalls, NEW c \in Probes, LoopFree(c),
         stage' \in [Probes -> ProbeStages],
         lease' = {d \in Probes : stage'[d] = "probing"},
         \A d, e \in lease' : d = e,
         \A d \in Probes : d # c => stage'[d] = stage[d],
         \A p \in Processes : p # ProcessOf[c] => recalled'[p] = recalled[p],
         stage'[c] \in {"reopen", "repoll"} => recalled'[ProcessOf[c]].state = "half-open"
  PROVE  ProxyCalls'
<1>1. ASSUME NEW d \in Probes, stage'[d] \in {"reopen", "repoll"}
      PROVE  recalled'[ProcessOf[d]].state = "half-open"
  <2>1. CASE d = c
    BY <1>1, <2>1
  <2>2. CASE d # c
    <3>1. stage[d] \in {"reopen", "repoll"} /\ ProcessOf[d] # ProcessOf[c]
      BY <1>1, <2>2 DEF LoopFree
    <3>2. ProcessOf[d] \in Processes  BY ProxyAssumption
    <3> QED  BY <3>1, <3>2 DEF ProxyCalls, Reopening
  <2> QED  BY <2>1, <2>2
<1> QED  BY <1>1 DEF ProxyCalls, Reopening

ClosedStep ==
  \A c \in Probes : tripped' /\ ~entryLost' /\ ProcessOf[c] \in aware' =>
    /\ stage'[c] = "through" => stage[c] = "through"
    /\ stage'[c] = "probing" => stage[c] = "probing" \/ cooled = trips

LEMMA AskStep ==
  ASSUME ProxyInv, NEW c \in Probes, Ask(c) \/ Poll(c) PROVE ProxyInv' /\ ClosedStep
<1>1. PICK e \in {shared, recalled[ProcessOf[c]]} :
        /\ Looks(c, e)
        /\ \/ /\ e.state \in {"healthy", "degraded"} /\ MoveTo(c, "through")
              /\ Remember(c, e) /\ UNCHANGED lease
           \/ CoolsDown(e) /\ MoveTo(c, "done") /\ Remember(c, e) /\ UNCHANGED lease
           \/ /\ MoveTo(c, "reopen") \/ MoveTo(c, "repoll")
              /\ CooledDown(e) /\ Remember(c, HalfOpen(e)) /\ UNCHANGED lease
           \/ e.state = "half-open" /\ TryLease(c) /\ Remember(c, e)
           \/ e.state = "half-open" /\ UNCHANGED <<stage, lease>> /\ Remember(c, e)
  BY DEF Ask, Poll
<1>2. /\ stage[c] # "probing" /\ stage[c] \notin {"reopen", "repoll"} /\ LoopFree(c)
      /\ UNCHANGED <<shared, trips, cooled, tripped, entryLost>>
  BY DEF Ask, Poll
<1>3. /\ ProxyData'
      /\ \A p \in Processes : p # ProcessOf[c] => recalled'[p] = recalled[p]
      /\ Remember(c, HalfOpen(e)) => recalled'[ProcessOf[c]].state = "half-open"
  BY <1>1, <1>2, LooksData DEF ProxyInv
<1>4. /\ Sound(e)
      /\ tripped /\ ~entryLost /\ ProcessOf[c] \in aware' => SaysTripped(e)
  BY <1>1, LooksSound DEF ProxyInv
<1>5. /\ cooled \in 0 .. trips /\ trips \in Nat
      /\ ProxyCalls /\ c \notin lease /\ lease \ {c} = lease
  BY <1>2 DEF ProxyInv, ProxyData, ProxyFile, ProxyCalls
<1>6. CASE e.state \in {"healthy", "degraded"} /\ MoveTo(c, "through") /\ UNCHANGED lease
  <2>1. /\ stage' \in [Probes -> ProbeStages]
        /\ lease' = {d \in Probes : stage'[d] = "probing"}
        /\ \A d, f \in lease' : d = f
        /\ stage'[c] = "through" /\ \A d \in Probes : d # c => stage'[d] = stage[d]
    BY <1>5, <1>6, MoveStep DEF ProbeStages
  <2>2. ProxyCalls'
    BY <1>2, <1>3, <1>5, <2>1, CallsStep
  <2> QED  BY <1>2, <1>3, <1>4, <1>6, <2>1, <2>2 DEF ProxyInv, ClosedStep, SaysTripped
<1>7. CASE CoolsDown(e) /\ MoveTo(c, "done") /\ UNCHANGED lease
  <2>1. /\ stage' \in [Probes -> ProbeStages]
        /\ lease' = {d \in Probes : stage'[d] = "probing"}
        /\ \A d, f \in lease' : d = f
        /\ stage'[c] = "done" /\ \A d \in Probes : d # c => stage'[d] = stage[d]
    BY <1>5, <1>7, MoveStep DEF ProbeStages
  <2>2. ProxyCalls'
    BY <1>2, <1>3, <1>5, <2>1, CallsStep
  <2> QED  BY <1>3, <2>1, <2>2 DEF ProxyInv, ClosedStep
<1>8. CASE /\ MoveTo(c, "reopen") \/ MoveTo(c, "repoll")
           /\ Remember(c, HalfOpen(e)) /\ UNCHANGED lease
  <2>1. /\ stage' \in [Probes -> ProbeStages]
        /\ lease' = {d \in Probes : stage'[d] = "probing"}
        /\ \A d, f \in lease' : d = f
        /\ stage'[c] \in {"reopen", "repoll"}
        /\ \A d \in Probes : d # c => stage'[d] = stage[d]
    BY <1>5, <1>8, MoveStep DEF ProbeStages
  <2>2. ProxyCalls'
    BY <1>2, <1>3, <1>5, <1>8, <2>1, CallsStep
  <2> QED  BY <1>3, <2>1, <2>2 DEF ProxyInv, ClosedStep
<1>9. CASE e.state = "half-open" /\ TryLease(c)
  <2>1. /\ stage' \in [Probes -> ProbeStages]
        /\ lease' = {d \in Probes : stage'[d] = "probing"}
        /\ \A d, f \in lease' : d = f
        /\ stage'[c] \in {"probing", "polling"}
        /\ \A d \in Probes : d # c => stage'[d] = stage[d]
    BY <1>2, <1>5, <1>9, LeaseStep
  <2>2. ProxyCalls'
    BY <1>2, <1>3, <1>5, <2>1, CallsStep
  <2>3. tripped' /\ ~entryLost' /\ ProcessOf[c] \in aware' => cooled = trips
    BY <1>2, <1>4, <1>5, <1>9 DEF Sound, SaysTripped, ProxyEntries
  <2> QED  BY <1>3, <2>1, <2>2, <2>3 DEF ProxyInv, ClosedStep
<1>10. CASE UNCHANGED <<stage, lease>>
  <2>1. ProxyCalls'
    BY <1>2, <1>3, <1>5, <1>10, CallsStep DEF ProxyCalls
  <2> QED  BY <1>3, <1>10, <2>1 DEF ProxyInv, ClosedStep
<1> QED  BY <1>1, <1>6, <1>7, <1>8, <1>9, <1>10

LEMMA ReopenStep ==
  ASSUME ProxyInv, NEW c \in Probes, Reopen(c) PROVE ProxyInv' /\ ClosedStep
<1> DEFINE h == ProcessOf[c]
<1>h. h \in Processes  BY ProxyAssumption
<1>1. /\ Reopening(c) /\ UNCHANGED <<recalled, trips, cooled, tripped, aware>>
      /\ stage[c] # "probing"
  BY DEF Reopen, Reopening
<1>2. recalled[h].state = "half-open" /\ Sound(recalled[h]) /\ recalled[h] \in ProxyEntries
  BY <1>h, <1>1 DEF ProxyInv, ProxyData, ProxyFile, ProxyCalls
<1>3. ProxyData' /\ (~entryLost' => ~entryLost)
  <2>1. CASE WriteFails
    BY <1>1, <2>1, FailedWrite DEF ProxyInv, WriteFails
  <2>2. CASE /\ shared' = recalled[h]
             /\ entryLost' = (entryLost \/ shared' # HalfOpen(shared))
    <3>1. Sound(shared)' /\ (shared.state = "degraded" => shared.count = 2)'
      BY <1>1, <1>2, <2>2 DEF Sound
    <3>2. ProxyFile'
      BY <1>1, <2>2, <3>1 DEF ProxyInv, ProxyData, ProxyFile, Sound
    <3>3. tripped /\ ~entryLost' => ~entryLost /\ SaysTripped(shared)'
      <4> SUFFICES ASSUME tripped, ~entryLost' PROVE ~entryLost /\ SaysTripped(shared)'
        OBVIOUS
      <4>1. ~entryLost /\ shared' = HalfOpen(shared)
        BY <2>2
      <4>2. SaysTripped(shared)
        BY <4>1 DEF ProxyInv, ProxyData, TripStands
      <4> QED  BY <1>1, <4>1, <4>2 DEF SaysTripped, HalfOpen, ProxyEntries, ProxyStates
    <3>4. TripStands'
      BY <1>1, <3>3 DEF ProxyInv, ProxyData, TripStands, SaysTripped
    <3> QED  BY <2>2, <3>2, <3>4 DEF ProxyData
  <2> QED  BY <2>1, <2>2 DEF Reopen
<1>4. /\ stage' \in [Probes -> ProbeStages]
      /\ lease' = {d \in Probes : stage'[d] = "probing"}
      /\ \A d, e \in lease' : d = e
      /\ stage'[c] \in {"probing", "polling"}
      /\ \A d \in Probes : d # c => stage'[d] = stage[d]
  <2>1. CASE TryLease(c)
    BY <1>1, <2>1, LeaseStep DEF ProxyInv
  <2>2. CASE MoveTo(c, "polling") /\ UNCHANGED lease
    <3>1. lease' = lease \ {c} /\ "polling" \in ProbeStages \ {"probing"}
      BY <1>1, <2>2 DEF ProxyInv, ProxyCalls, ProbeStages
    <3>2. stage'[c] = "polling"
      BY <2>2, <3>1, MoveStep DEF ProxyInv
    <3> QED  BY <2>2, <3>1, <3>2, MoveStep DEF ProxyInv
  <2> QED  BY <2>1, <2>2 DEF Reopen
<1>5. ProxyCalls'
  BY <1>1, <1>4 DEF ProxyInv, ProxyCalls, Reopening
<1>6. ClosedStep
  <2>1. tripped' /\ ~entryLost' /\ h \in aware' => cooled = trips
    <3> SUFFICES ASSUME tripped', ~entryLost', h \in aware' PROVE cooled = trips
      OBVIOUS
    <3>1. SaysTripped(recalled[h])
      BY <1>h, <1>1, <1>3 DEF ProxyInv, ProxyData, TripStands
    <3> QED  BY <1>2, <3>1 DEF Sound, SaysTripped, ProxyInv, ProxyData, ProxyFile
  <2> QED  BY <1>4, <2>1 DEF ClosedStep
<1> QED  BY <1>3, <1>5, <1>6 DEF ProxyInv

\* The recording of a result, at the end of a probe or of a call that was let through.
LEMMA RecordStep ==
  ASSUME ProxyInv, NEW c \in Probes, ProbeEnds(c) \/ ExitKnown(c) PROVE ProxyInv' /\ ClosedStep
<1>1. PICK s \in {"through", "done"} :
        /\ MoveTo(c, s) /\ lease' = lease \ {c}
        /\ RecordSuccess(c) \/ (RecordFailure(c) /\ s = "done")
  <2>1. CASE ProbeEnds(c)
    <3>1. CASE RecordSuccess(c) /\ MoveTo(c, "through")
      BY <2>1, <3>1 DEF ProbeEnds
    <3>2. CASE RecordFailure(c) /\ MoveTo(c, "done")
      BY <2>1, <3>2 DEF ProbeEnds
    <3> QED  BY <2>1, <3>1, <3>2 DEF ProbeEnds
  <2>2. CASE ExitKnown(c)
    <3>1. c \notin lease  BY <2>2 DEF ExitKnown, ProxyInv, ProxyCalls
    <3> QED  BY <2>2, <3>1 DEF ExitKnown
  <2> QED  BY <2>1, <2>2
<1>2. LoopFree(c) /\ cooled' = cooled
  BY DEF ProbeEnds, ExitKnown
<1>3. /\ ProxyData' /\ (s = "through" => tripped' = FALSE)
      /\ \A p \in Processes : p # ProcessOf[c] => recalled'[p] = recalled[p]
  <2>1. CASE RecordSuccess(c)
    BY <1>2, <2>1, SuccessData DEF ProxyInv
  <2>2. CASE RecordFailure(c) /\ s = "done"
    BY <1>2, <2>2, FailureData DEF ProxyInv
  <2> QED  BY <1>1, <2>1, <2>2
<1>4. s \in ProbeStages \ {"probing"} /\ s \notin {"reopen", "repoll"}
  BY DEF ProbeStages
<1>5. /\ stage' \in [Probes -> ProbeStages]
      /\ lease' = {d \in Probes : stage'[d] = "probing"}
      /\ \A d, e \in lease' : d = e
      /\ stage'[c] = s
      /\ \A d \in Probes : d # c => stage'[d] = stage[d]
  BY <1>1, <1>4, MoveStep DEF ProxyInv
<1>6. ProxyCalls'
  BY <1>2, <1>3, <1>4, <1>5, CallsStep DEF ProxyInv
<1> QED  BY <1>3, <1>5, <1>6 DEF ProxyInv, ClosedStep

LEMMA StopStep ==
  ASSUME ProxyInv, NEW p \in Processes, ProcessStops(p) PROVE ProxyInv' /\ ClosedStep
<1>1. /\ recalled' = [recalled EXCEPT ![p] = Healthy] /\ aware' = aware \ {p}
      /\ UNCHANGED <<trips, cooled, tripped>>
      /\ UNCHANGED <<shared, entryLost>> \/ (shared' = NoEntry /\ entryLost' = TRUE)
  BY Zenon DEF ProcessStops
<1>2. /\ Sound(NoEntry) /\ Sound(Healthy) /\ NoEntry.state # "degraded" /\ Healthy \in ProxyEntries
  BY NothingSound DEF ProxyInv, ProxyData, Sound
<1>3. /\ recalled' \in [Processes -> ProxyEntries] /\ recalled'[p] = Healthy
      /\ \A q \in Processes : q # p => recalled'[q] = recalled[q]
  BY <1>1, <1>2 DEF ProxyInv, ProxyData, ProxyFile
<1>4. ProxyFile'
  BY <1>1, <1>2, <1>3 DEF ProxyInv, ProxyData, ProxyFile, Sound
<1>5. TripStands'
  BY <1>1, <1>3 DEF ProxyInv, ProxyData, TripStands, SaysTripped
<1>6. /\ stage' = [c \in Probes |->
           IF ProcessOf[c] = p /\ stage[c] # "new" THEN "done" ELSE stage[c]]
      /\ lease' = {c \in lease : ProcessOf[c] # p}
  BY DEF ProcessStops
<1>7. \A c \in Probes : stage'[c] = stage[c] \/ (stage'[c] = "done" /\ ProcessOf[c] = p)
  BY <1>6
<1>8. ProxyCalls'
  <2>1. stage' \in [Probes -> ProbeStages]
    BY <1>6 DEF ProxyInv, ProxyCalls, ProbeStages
  <2>2. lease' = {c \in Probes : stage'[c] = "probing"} /\ \A c, d \in lease' : c = d
    BY <1>6 DEF ProxyInv, ProxyCalls
  <2>3. ASSUME NEW c \in Probes, stage'[c] \in {"reopen", "repoll"}
        PROVE  recalled'[ProcessOf[c]].state = "half-open"
    <3>1. ProcessOf[c] # p /\ stage[c] \in {"reopen", "repoll"}
      BY <1>6, <2>3
    <3> QED  BY <1>3, <3>1, ProxyAssumption DEF ProxyInv, ProxyCalls, Reopening
  <2> QED  BY <2>1, <2>2, <2>3 DEF ProxyCalls, Reopening
<1> QED  BY <1>4, <1>5, <1>7, <1>8 DEF ProxyInv, ProxyData, ClosedStep

LEMMA ProxyInvStep ==
  ASSUME ProxyInv, [ProxyNext]_proxyVars PROVE ProxyInv' /\ ClosedStep
<1>1. CASE UNCHANGED proxyVars
  BY <1>1 DEF proxyVars, ProxyInv, ProxyData, ProxyFile, TripStands, ProxyCalls, Sound,
     SaysTripped, Reopening, ClosedStep
<1>2. ASSUME NEW c \in Probes, GivesUp(c) PROVE ProxyInv' /\ ClosedStep
  <2>1. /\ MoveTo(c, "done") /\ lease' = lease \ {c}
        /\ UNCHANGED <<shared, recalled, trips, cooled, tripped, aware, entryLost>>
    BY <1>2 DEF GivesUp
  <2>2. ProxyData'
    BY <2>1 DEF ProxyInv, ProxyData, ProxyFile, TripStands, Sound, SaysTripped
  <2>3. "done" \in ProbeStages \ {"probing"}
    BY DEF ProbeStages
  <2>4. /\ stage' \in [Probes -> ProbeStages]
        /\ lease' = {d \in Probes : stage'[d] = "probing"}
        /\ \A d, e \in lease' : d = e
        /\ stage'[c] = "done"
        /\ \A d \in Probes : d # c => stage'[d] = stage[d]
    BY <2>1, <2>3, MoveStep DEF ProxyInv
  <2> QED  BY <2>1, <2>2, <2>4 DEF ProxyInv, ProxyCalls, Reopening, ClosedStep
<1>3. CASE CooldownPasses
  <2>1. /\ cooled \in 0 .. trips /\ trips \in Nat /\ cooled < trips /\ cooled' = cooled + 1
        /\ UNCHANGED <<shared, recalled, lease, stage, trips, tripped, aware, entryLost>>
    BY <1>3 DEF CooldownPasses, ProxyInv, ProxyData, ProxyFile
  <2>2. ASSUME NEW e, Sound(e)
        PROVE  /\ e \in ProxyEntries /\ e.at <= trips
               /\ e.count = 2 => e.state = "degraded"
               /\ e.state = "half-open" => e.at <= cooled'
    BY <2>1, <2>2 DEF Sound, ProxyEntries
  <2>3. ProxyFile'
    BY <2>1, <2>2 DEF ProxyInv, ProxyData, ProxyFile, Sound
  <2> QED  BY <2>1, <2>3 DEF ProxyInv, ProxyData, TripStands, SaysTripped, ProxyCalls,
              Reopening, ClosedStep
<1>4. CASE Rebuilt
  <2>1. Sound(NoEntry) /\ NoEntry.state # "degraded"
    BY NothingSound DEF ProxyInv, ProxyData
  <2> QED  BY <1>4, <2>1 DEF Rebuilt, ProxyInv, ProxyData, ProxyFile, TripStands, Sound,
              ProxyCalls, Reopening, ClosedStep
<1> QED  BY <1>1, <1>2, <1>3, <1>4, AskStep, ReopenStep, RecordStep, StopStep DEF ProxyNext

LEMMA ProxyInvInit == ProxyInit => ProxyInv
<1> SUFFICES ASSUME ProxyInit PROVE ProxyInv
  OBVIOUS
<1>1. /\ Sound(NoEntry) /\ Sound(Healthy) /\ Sound(Degraded)
      /\ NoEntry.state # "degraded" /\ Degraded.count = 2
  BY DEF ProxyInit, Sound, NoEntry, Healthy, Degraded, ProxyEntries, ProxyStates
<1>2. recalled = [p \in Processes |-> Healthy] /\ Healthy \in ProxyEntries
  BY <1>1 DEF ProxyInit, Sound
<1>3. ProxyFile
  <2>1. Sound(shared) /\ (shared.state = "degraded" => shared.count = 2)
    BY <1>1 DEF ProxyInit
  <2>2. recalled \in [Processes -> ProxyEntries] /\ \A p \in Processes : Sound(recalled[p])
    BY <1>1, <1>2
  <2>3. trips \in Nat /\ cooled \in 0 .. trips /\ tripped \in BOOLEAN /\ entryLost \in BOOLEAN
    <3>1. trips = 0 /\ cooled = 0 /\ tripped = FALSE /\ entryLost = FALSE
      BY DEF ProxyInit
    <3>2. trips \in Nat /\ cooled \in 0 .. trips
      BY <3>1
    <3> QED  BY <3>1, <3>2
  <2> QED  BY <2>1, <2>2, <2>3 DEF ProxyFile
<1>4. TripStands
  BY DEF ProxyInit, TripStands
<1>5. ProxyCalls
  BY DEF ProxyInit, ProxyCalls, ProbeStages, Reopening
<1> QED  BY <1>3, <1>4, <1>5 DEF ProxyInv, ProxyData

\* One call at most holds the probe lease, and the state of an entry says what its count
\* says, for any number of calls and of processes, some of which stop and start again.
THEOREM ProxyTyped == ProxySpec => []ProxyTypeOK
<1>1. ProxyInv => ProxyTypeOK
  BY DEF ProxyInv, ProxyData, ProxyFile, ProxyCalls, ProxyTypeOK, Sound, ProxyEntries,
     ProxyStates
<1>2. ProxyInv /\ [ProxyNext]_proxyVars => ProxyInv'
  BY ProxyInvStep
<1> QED  BY <1>1, <1>2, ProxyInvInit, PTL DEF ProxySpec

\* For any number of processes and calls, whatever reads and writes fail and whoever stops:
\* a process that has seen the last trip lets no call through before something succeeds and
\* begins no probe before its cooldown, unless the trip was lost from the file.
THEOREM ProxyFailsClosed == ProxySpec => FailsClosed
<1>1. ProxyInv /\ [ProxyNext]_proxyVars => ProxyInv'
  BY ProxyInvStep
<1>2. ProxyInv /\ [ProxyNext]_proxyVars => [ClosedStep]_proxyVars
  BY ProxyInvStep
<1> QED  BY <1>1, <1>2, ProxyInvInit, PTL DEF ProxySpec, FailsClosed, ClosedStep

=============================
