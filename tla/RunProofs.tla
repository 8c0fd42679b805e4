------------------------ MODULE RunProofs ------------------------
(***************************************************************************)
(* The runs of sign tasks, for any accounts, tasks, runs and bounds: their *)
(* statuses, the chain of retries and rechecks that one trigger begins, and *)
(* the jobs and tables that say when a task runs.                          *)
(***************************************************************************)
EXTENDS SignTaskRun, RunChain, RangeSchedule, FiniteSetTheorems, TLAPS

-----------------------------------------------------------------------------
(***************************************************************************)
(* Statuses, handles and locks                                             *)
(***************************************************************************)

\* TypeOK and what makes it inductive: a run that exists has a task, a request
\* being served has a key.
TypeInv ==
  /\ TypeOK
  /\ \A r \in Runs : pc[r] # "unused" => task[r] \in Tasks
  /\ req.pc # "idle" => req.key \in Tasks

-----------------------------------------------------------------------------
(* Types *)

LEMMA TypeInvInit == Init => TypeInv
BY ConstantsAssumption DEF Init, TypeInv, TypeOK, PCs, Outcomes, CancelRequest, Idle

LEMMA TypeInvStep == TypeInv /\ [Next]_vars => TypeInv'
<1> SUFFICES ASSUME TypeInv, [Next]_vars PROVE TypeInv'
  OBVIOUS
<1>p. ASSUME NEW r \in Runs, pc[r] # "unused"
      PROVE /\ PhaseUpdated(r) \in [Tasks -> RunStatus \cup {None}]
            /\ Released(r) \in [Accounts -> BOOLEAN]
  BY <1>p, ConstantsAssumption
     DEF PhaseUpdated, Released, TypeInv, TypeOK, RunStatus, Runs
<1>s. ASSUME NEW r \in Runs,
             Saves(r) \/ (history' = history /\ unsaved' = unsaved)
      PROVE history' \subseteq Runs /\ unsaved' \subseteq Runs
  BY <1>s DEF Saves, TypeInv, TypeOK
<1>z. ASSUME NEW r \in Runs, NEW result \in Outcomes, Finalize(r, result), pc[r] # "unused"
      PROVE /\ pc' \in [Runs -> PCs] /\ outcome' \in [Runs -> Outcomes]
            /\ status' \in [Tasks -> RunStatus \cup {None}]
            /\ history' \subseteq Runs /\ unsaved' \subseteq Runs
            /\ \A s \in Runs : pc'[s] # "unused" => task[s] \in Tasks
  <2>1. history' \subseteq Runs /\ unsaved' \subseteq Runs
    BY <1>z, <1>s DEF Finalize
  <2>2. status' \in [Tasks -> RunStatus \cup {None}]
    BY <1>z, <1>p DEF Finalize, TypeInv, TypeOK
  <2>3. pc' \in [Runs -> PCs] /\ outcome' \in [Runs -> Outcomes]
    BY <1>z DEF Finalize, TypeInv, TypeOK, PCs, Working
  <2>4. \A s \in Runs : pc'[s] # "unused" => task[s] \in Tasks
    BY <1>z DEF Finalize, TypeInv, TypeOK
  <2> QED  BY <2>1, <2>2, <2>3, <2>4
<1> USE ConstantsAssumption DEF TypeInv, TypeOK, PCs, Working, Outcomes, CancelRequest,
     RunStatus, TerminalStates, Runs, runVars, registry, cancelVars, drainVars
<1>1. ASSUME NEW r \in HttpRuns, NEW k \in Tasks, StartTaskRun(r, k) PROVE TypeInv'
  BY <1>1 DEF StartTaskRun
<1>2. ASSUME NEW r \in Runs, NEW k \in Tasks, Trigger(r, k) PROVE TypeInv'
  BY <1>2 DEF Trigger
<1>3. ASSUME NEW r \in Runs, Refuse(r) PROVE TypeInv'
  BY <1>3 DEF Refuse, FirstStep, EndRun, TerminalState
<1>4. ASSUME NEW r \in Runs, RejectDuplicate(r) PROVE TypeInv'
  BY <1>4 DEF RejectDuplicate, FirstStep
<1>5. ASSUME NEW r \in Runs, BeginExecute(r) PROVE TypeInv'
  <2>1. pc[r] # "unused" /\ task[r] \in Tasks
    BY <1>5 DEF BeginExecute, FirstStep
  <2>2. PhaseUpdated(r) \in [Tasks -> RunStatus \cup {None}]
    BY <1>p, <2>1
  <2>3. status' \in [Tasks -> RunStatus \cup {None}]
    BY <1>5, <2>2 DEF BeginExecute
  <2>4. fresh' \in Seq(Runs)
    BY <1>5 DEF BeginExecute, FirstStep
  <2>5. /\ pc' \in [Runs -> PCs] /\ outcome' \in [Runs -> Outcomes]
        /\ history' \subseteq Runs /\ unsaved' \subseteq Runs
    <3>1. history' \subseteq Runs /\ unsaved' \subseteq Runs
      <4>1. Saves(r) \/ (history' = history /\ unsaved' = unsaved)
        BY <1>5 DEF BeginExecute
      <4> QED  BY <1>s, <4>1
    <3>2. pc' \in [Runs -> PCs]
      BY <1>5 DEF BeginExecute
    <3>3. outcome' \in [Runs -> Outcomes]
      BY <1>5 DEF BeginExecute
    <3> QED  BY <3>1, <3>2, <3>3
  <2>6. \A s \in Runs : pc'[s] # "unused" => task'[s] \in Tasks
    BY <1>5, <2>1 DEF BeginExecute
  <2> QED  BY <1>5, <2>3, <2>4, <2>5, <2>6 DEF BeginExecute
<1>6. ASSUME NEW r \in Runs, AccountChecked(r) PROVE TypeInv'
  <2>1. PhaseUpdated(r) \in [Tasks -> RunStatus \cup {None}]
    BY <1>6, <1>p DEF AccountChecked
  <2>2. CASE Finalize(r, "failed")
    BY <1>6, <1>z, <2>2 DEF AccountChecked
  <2>3. CASE ~Finalize(r, "failed")
    BY <1>6, <2>1, <2>3 DEF AccountChecked
  <2> QED  BY <2>2, <2>3
<1>7. ASSUME NEW r \in Runs, AcquireLock(r) PROVE TypeInv'
  BY <1>7 DEF AcquireLock, PhaseUpdated
<1>8. ASSUME NEW r \in Runs, Prepare(r) PROVE TypeInv'
  BY <1>8 DEF Prepare, PhaseUpdated, Holding
<1>9. ASSUME NEW r \in Runs, Executed(r) PROVE TypeInv'
  <2>1. pc[r] # "unused" /\ task[r] \in Tasks
    BY <1>9 DEF Executed, Holding
  <2>2. Released(r) \in [Accounts -> BOOLEAN]
    BY <1>p, <2>1
  <2>3. CASE \E result \in Outcomes : Finalize(r, result)
    BY <1>9, <1>z, <2>1, <2>2, <2>3 DEF Executed
  <2>4. CASE ~\E result \in Outcomes : Finalize(r, result)
    BY <1>9, <2>1, <2>2, <2>4 DEF Executed
  <2> QED  BY <2>3, <2>4
<1>10. ASSUME NEW r \in Runs, ErrorHandled(r) PROVE TypeInv'
  BY <1>10, <1>z DEF ErrorHandled
<1>11. ASSUME NEW r \in Runs, TargetFetched(r) PROVE TypeInv'
  BY <1>11 DEF TargetFetched, Saves
<1>12. ASSUME NEW r \in Runs, Notified(r) PROVE TypeInv'
  BY <1>12 DEF Notified, FinalizeTail, Released
<1>13. ASSUME NEW r \in Runs, ClientStopped(r) PROVE TypeInv'
  BY <1>13 DEF ClientStopped, EndRun, TerminalState
<1>14. ASSUME NEW r \in Runs, CancelUnstarted(r) PROVE TypeInv'
  BY <1>14 DEF CancelUnstarted, FirstStep
<1>15. ASSUME NEW r \in Runs, CancelSeen(r) PROVE TypeInv'
  BY <1>15 DEF CancelSeen, PhaseUpdated, FinalizeTail, Released, Holding
<1>16. ASSUME NEW r \in Runs, CancelErring(r) PROVE TypeInv'
  BY <1>16, <1>z DEF CancelErring
<1>17. ASSUME NEW r \in Runs, CancelFinalizing(r) PROVE TypeInv'
  BY <1>17 DEF CancelFinalizing, FinalizeTail, Released
<1>18. ASSUME NEW r \in Runs, CancelStopping(r) PROVE TypeInv'
  BY <1>18 DEF CancelStopping, EndRun, TerminalState
<1>19. ASSUME NEW k \in Tasks, NEW id \in HttpRuns \cup {None}, CancelRead(k, id) PROVE TypeInv'
  BY <1>19 DEF CancelRead
<1>20. ASSUME CancelSend PROVE TypeInv'
  <2>1. CASE req' = Idle /\ cancelReq' = cancelReq
    BY <1>20, <2>1 DEF CancelSend, Idle
  <2>2. CASE /\ cancelReq' = [cancelReq EXCEPT ![handle[req.key]] = TRUE]
             /\ req' = [req EXCEPT !.pc = "sent"]
    <3>1. req' \in CancelRequest /\ req'.key = req.key
      BY <2>2
    <3>2. cancelReq' \in [Runs -> BOOLEAN]
      BY <2>2
    <3> QED  BY <1>20, <3>1, <3>2 DEF CancelSend
  <2> QED  BY <1>20, <2>1, <2>2 DEF CancelSend
<1>21. ASSUME CancelMark PROVE TypeInv'
  BY <1>21 DEF CancelMark, Idle
<1>22. ASSUME NEW k \in Tasks, StatusCleanup(k) PROVE TypeInv'
  BY <1>22 DEF StatusCleanup
<1>23. ASSUME BeginShutdown PROVE TypeInv'
  BY <1>23 DEF BeginShutdown
<1>24. ASSUME DrainSnapshot PROVE TypeInv'
  BY <1>24 DEF DrainSnapshot
<1>25. ASSUME DrainTimeout PROVE TypeInv'
  BY <1>25 DEF DrainTimeout
<1>26. ASSUME DrainDone PROVE TypeInv'
  BY <1>26 DEF DrainDone
<1>27. ASSUME Resume PROVE TypeInv'
  BY <1>27 DEF Resume
<1>28. CASE UNCHANGED vars
  BY <1>28 DEF vars
<1> QED
  BY <1>1, <1>2, <1>3, <1>4, <1>5, <1>6, <1>7, <1>8, <1>9, <1>10, <1>11, <1>12, <1>13, <1>14, <1>15, <1>16, <1>17, <1>18, <1>19, <1>20, <1>21, <1>22, <1>23, <1>24, <1>25, <1>26, <1>27, <1>28 DEF Next, Start, Advance, Cancelling, Drain, Quiescent

\* Every reachable state is well typed, for every value of the constants.
THEOREM TypeCorrect == Spec => []TypeOK
<1>1. TypeInv => TypeOK  BY DEF TypeInv
<1> QED  BY <1>1, TypeInvInit, TypeInvStep, PTL DEF Spec

-----------------------------------------------------------------------------
(* Accounts: the lock, the leases and who is inside the async with *)

\* AccountExclusive is not inductive alone: the lock must be closed while a run
\* holds the account, and exactly the runs inside it own a lease, so that no
\* other run's release can open it.
LockInv ==
  /\ \A r \in Runs : pc[r] \in Holding <=> lease[r] = "owned"
  /\ \A r \in Runs : pc[r] \in Holding => locked[AccountOf[task[r]]]
  /\ AccountExclusive
  /\ LockNotLeaked

\* A step that moves no run in or out of the locked section preserves LockInv.
LEMMA LockFrame ==
  ASSUME TypeInv, LockInv, TypeInv',
         \A r \in Runs : pc'[r] \in Holding <=> pc[r] \in Holding,
         \A r \in Runs : lease'[r] = "owned" <=> lease[r] = "owned",
         \A r \in Runs : pc[r] \in Holding => task'[r] = task[r],
         locked' = locked
  PROVE  LockInv'
BY DEF LockInv, AccountExclusive, LockNotLeaked

\* A step that takes one run out of the section and releases its lease
\* preserves LockInv: nobody else is inside.
LEMMA LockLeft ==
  ASSUME TypeInv, LockInv, NEW r \in Runs, pc[r] \in Holding,
         pc'[r] \notin Holding, lease'[r] # "owned",
         \A s \in Runs \ {r} : pc'[s] = pc[s] /\ lease'[s] = lease[s],
         task' = task, locked' = Released(r)
  PROVE  LockInv'
<1> DEFINE a == AccountOf[task[r]]
<1>1. /\ task[r] \in Tasks /\ a \in Accounts /\ lease[r] = "owned"
      /\ locked \in [Accounts -> BOOLEAN]
  BY ConstantsAssumption DEF TypeInv, TypeOK, LockInv, Holding
<1>2. locked' = [locked EXCEPT ![a] = FALSE]
  BY <1>1 DEF Released
<1>3. \A s \in Runs : pc'[s] \in Holding => pc[s] \in Holding /\ AccountOf[task[s]] # a
  BY DEF LockInv, AccountExclusive
<1>4. \A s \in Runs : pc'[s] \in Holding => task[s] \in Tasks
  BY <1>3 DEF TypeInv, Holding
<1>5. \A s \in Runs : pc'[s] \in Holding => locked'[AccountOf[task'[s]]]
  BY <1>1, <1>2, <1>3, <1>4, ConstantsAssumption DEF LockInv
<1>6. LockNotLeaked'
  BY <1>1, <1>2 DEF LockInv, LockNotLeaked
<1>7. AccountExclusive'
  BY <1>3 DEF LockInv, AccountExclusive
<1>8. \A s \in Runs : pc'[s] \in Holding <=> lease'[s] = "owned"
  BY DEF LockInv
<1> QED  BY <1>5, <1>6, <1>7, <1>8 DEF LockInv

LEMMA LockInvInit == Init => LockInv
BY DEF Init, LockInv, AccountExclusive, LockNotLeaked, Holding

\* The phases before the lock is acquired.
Before == {"unused", "created", "checking", "waiting"}

\* What every step but the acquisition of a lock and the end of a locked section
\* leaves alone.
Stays ==
  /\ \A r \in Runs : /\ pc'[r] \in Holding <=> pc[r] \in Holding
                     /\ pc'[r] \in Before => pc[r] \in Before
                     /\ lease'[r] = "owned" <=> lease[r] = "owned"
                     /\ lease'[r] = "new" <=> lease[r] = "new"
                     /\ pc[r] \in Holding => task'[r] = task[r]
  /\ locked' = locked

\* r ends its locked section and releases its lease.
Leaves(r) ==
  /\ pc[r] \in Holding /\ pc'[r] \notin Holding \cup Before
  /\ lease[r] # "new" /\ lease'[r] = "released"
  /\ \A s \in Runs \ {r} : pc'[s] = pc[s] /\ lease'[s] = lease[s]
  /\ task' = task /\ locked' = Released(r)

\* With respect to the locked sections there are three kinds of steps.
LEMMA SectionStep ==
  ASSUME TypeInv, LockInv, [Next]_vars
  PROVE  Stays \/ \E r \in Runs : AcquireLock(r) \/ Leaves(r)
<1>f. /\ pc \in [Runs -> PCs] /\ task \in [Runs -> Tasks \cup {None}]
      /\ lease \in [Runs -> {"new", "owned", "released"}]
  BY DEF TypeInv, TypeOK
<1> USE DEF Stays, Holding, Before
<1>1. ASSUME NEW r \in Runs, NEW k \in Tasks, StartTaskRun(r, k) \/ Trigger(r, k)
      PROVE Stays
  BY <1>1, <1>f DEF StartTaskRun, Trigger
<1>2. ASSUME NEW r \in Runs, Refuse(r) \/ RejectDuplicate(r) \/ BeginExecute(r)
      PROVE Stays
  BY <1>2, <1>f DEF Refuse, EndRun, RejectDuplicate, BeginExecute, FirstStep
<1>3. ASSUME NEW r \in Runs, AccountChecked(r) \/ Prepare(r) \/ ErrorHandled(r)
      PROVE Stays
  BY <1>3, <1>f DEF AccountChecked, Prepare, ErrorHandled, Finalize
<1>4. ASSUME NEW r \in Runs, TargetFetched(r) \/ ClientStopped(r) \/ CancelUnstarted(r)
      PROVE Stays
  BY <1>4, <1>f DEF TargetFetched, ClientStopped, CancelUnstarted, EndRun, FirstStep
<1>5. ASSUME NEW r \in Runs, CancelErring(r) \/ CancelStopping(r) PROVE Stays
  BY <1>5, <1>f DEF CancelErring, CancelStopping, EndRun, Finalize
<1>6. ASSUME NEW r \in Runs, pc[r] \notin Holding, FinalizeTail(r), task' = task
      PROVE Stays
  <2>1. lease[r] # "owned"
    BY <1>6 DEF LockInv
  <2> QED  BY <1>6, <2>1, <1>f DEF FinalizeTail, Released
<1>7. ASSUME NEW r \in Runs, Notified(r) \/ CancelFinalizing(r) PROVE Stays
  BY <1>7, <1>6 DEF Notified, CancelFinalizing
<1>8. ASSUME NEW r \in Runs, Executed(r) PROVE Leaves(r)
  <2>1. pc[r] \in Holding /\ lease[r] = "owned"
    BY <1>8 DEF Executed, LockInv
  <2> QED  BY <1>8, <2>1, <1>f DEF Leaves, Executed, Finalize
<1>9. ASSUME NEW r \in Runs, CancelSeen(r) PROVE Stays \/ Leaves(r)
  <2>1. CASE pc[r] \notin Holding
    BY <1>9, <1>6, <2>1 DEF CancelSeen
  <2>2. CASE pc[r] \in Holding
    <3>1. lease[r] = "owned"
      BY <2>2 DEF LockInv
    <3> QED  BY <1>9, <1>f, <2>2, <3>1 DEF Leaves, CancelSeen, FinalizeTail
  <2> QED  BY <2>1, <2>2
<1>10. ASSUME \/ Cancelling \/ Drain \/ Quiescent \/ UNCHANGED vars
              \/ \E k \in Tasks : StatusCleanup(k)
       PROVE Stays
  <2>1. UNCHANGED <<pc, task, lease, locked>>
    BY <1>10 DEF Cancelling, CancelRead, CancelSend, CancelMark, StatusCleanup, Drain, BeginShutdown, DrainSnapshot, DrainTimeout, DrainDone, Resume, Quiescent, vars, runVars
  <2> QED  BY <2>1
<1> QED
  BY <1>1, <1>2, <1>3, <1>4, <1>5, <1>7, <1>8, <1>9, <1>10 DEF Next, Start, Advance, Runs

LEMMA LockInvStep == TypeInv /\ LockInv /\ [Next]_vars => LockInv'
<1> SUFFICES ASSUME TypeInv, LockInv, [Next]_vars PROVE LockInv'
  OBVIOUS
<1>t. TypeInv'
  BY TypeInvStep
<1>1. CASE Stays
  BY <1>1, <1>t, LockFrame DEF Stays
<1>2. ASSUME NEW r \in Runs, Leaves(r) PROVE LockInv'
  BY <1>2, LockLeft DEF Leaves
<1>3. ASSUME NEW r \in Runs, AcquireLock(r) PROVE LockInv'
  <2> DEFINE a == AccountOf[task[r]]
  <2>1. /\ task[r] \in Tasks /\ a \in Accounts /\ ~locked[a] /\ pc[r] \notin Holding
        /\ locked \in [Accounts -> BOOLEAN]
    BY <1>3, ConstantsAssumption DEF AcquireLock, TypeInv, TypeOK, Holding
  <2>2. /\ pc'[r] \in Holding /\ lease'[r] = "owned" /\ task' = task
        /\ \A s \in Runs \ {r} : pc'[s] = pc[s] /\ lease'[s] = lease[s]
        /\ locked' = [locked EXCEPT ![a] = TRUE]
    BY <1>3 DEF AcquireLock, Holding, TypeInv, TypeOK
  <2>3. \A s \in Runs : pc[s] \in Holding => AccountOf[task[s]] # a
    BY <2>1 DEF LockInv
  <2>4. \A s \in Runs : pc[s] \in Holding => AccountOf[task[s]] \in Accounts
    BY ConstantsAssumption DEF TypeInv, Holding
  <2>5. AccountExclusive'
    BY <2>2, <2>3 DEF LockInv, AccountExclusive
  <2>6. LockNotLeaked'
    BY <2>1, <2>2 DEF LockInv, LockNotLeaked
  <2>7. \A s \in Runs : pc'[s] \in Holding => locked'[AccountOf[task'[s]]]
    BY <2>1, <2>2, <2>4 DEF LockInv
  <2>8. \A s \in Runs : pc'[s] \in Holding <=> lease'[s] = "owned"
    BY <2>2 DEF LockInv
  <2> QED  BY <2>5, <2>6, <2>7, <2>8 DEF LockInv
<1> QED  BY <1>1, <1>2, <1>3, SectionStep

\* Two runs of an account never execute at once.
THEOREM AccountsExclusive == Spec => []AccountExclusive
<1>1. LockInv => AccountExclusive  BY DEF LockInv
<1> QED  BY <1>1, TypeInvInit, TypeInvStep, LockInvInit, LockInvStep, PTL DEF Spec

\* A locked account has a run inside: no exit leaks the lock.
THEOREM LocksNotLeaked == Spec => []LockNotLeaked
<1>1. LockInv => LockNotLeaked  BY DEF LockInv
<1> QED  BY <1>1, TypeInvInit, TypeInvStep, LockInvInit, LockInvStep, PTL DEF Spec

\* Both: a closed lock has exactly one run behind it.
THEOREM LocksAreTruthful == Spec => []LockTruthful
<1>1. AccountExclusive /\ LockNotLeaked => LockTruthful  BY DEF LockTruthful
<1> QED  BY <1>1, AccountsExclusive, LocksNotLeaked, PTL

-----------------------------------------------------------------------------
(* The refinement of AccountExecution *)

\* A run that waits for its account has not had it before.
LeaseInv == \A r \in Runs : pc[r] \in Before => lease[r] = "new"

LEMMA LeaseInvStep == TypeInv /\ LockInv /\ LeaseInv /\ [Next]_vars => LeaseInv'
<1> SUFFICES ASSUME TypeInv, LockInv, LeaseInv, [Next]_vars PROVE LeaseInv'
  OBVIOUS
<1>1. CASE Stays
  BY <1>1 DEF Stays, LeaseInv
<1>2. ASSUME NEW r \in Runs, Leaves(r) PROVE LeaseInv'
  BY <1>2 DEF Leaves, LeaseInv
<1>3. ASSUME NEW r \in Runs, AcquireLock(r) PROVE LeaseInv'
  BY <1>3 DEF AcquireLock, LeaseInv, Before, TypeInv, TypeOK
<1> QED  BY <1>1, <1>2, <1>3, SectionStep

\* Where a run is inside the section of an account, it is the account's owner.
Inside(r, a) == pc[r] \in Holding /\ AccountOf[task[r]] = a

LEMMA OwnerIs ==
  ASSUME AccountExclusive, NEW a \in Accounts
  PROVE  /\ \A r \in Runs : Inside(r, a) => Owner[a] = r
         /\ (\A r \in Runs : ~Inside(r, a)) => Owner[a] = None
BY DEF AccountExclusive, Owner, Inside

LEMMA OwnerIsNext ==
  ASSUME AccountExclusive', NEW a \in Accounts
  PROVE  /\ \A r \in Runs : Inside(r, a)' => Owner'[a] = r
         /\ (\A r \in Runs : ~Inside(r, a)') => Owner'[a] = None
BY DEF AccountExclusive, Owner, Inside

LEMMA OwnerKept ==
  ASSUME AccountExclusive, AccountExclusive', NEW a \in Accounts,
         \A r \in Runs : Inside(r, a)' <=> Inside(r, a)
  PROVE  Owner'[a] = Owner[a]
<1>1. CASE \E r \in Runs : Inside(r, a)
  <2>1. PICK r \in Runs : Inside(r, a)
    BY <1>1
  <2>2. Owner[a] = r  BY <2>1, OwnerIs
  <2>3. Owner'[a] = r  BY <2>1, OwnerIsNext
  <2> QED  BY <2>2, <2>3
<1>2. CASE \A r \in Runs : ~Inside(r, a)
  <2>1. Owner[a] = None  BY <1>2, OwnerIs
  <2>2. Owner'[a] = None  BY <1>2, OwnerIsNext
  <2> QED  BY <2>1, <2>2
<1> QED  BY <1>1, <1>2

LEMMA ExecutionStep ==
  ASSUME TypeInv, LockInv, LeaseInv, [Next]_vars
  PROVE  [Execution!Next]_(Execution!vars)
<1>x. AccountExclusive /\ AccountExclusive'
  BY LockInvStep DEF LockInv
<1>f. DOMAIN Owner = Accounts /\ DOMAIN Owner' = Accounts
  BY DEF Owner
<1>o. Owner = [b \in Accounts |-> Owner[b]] /\ Owner' = [b \in Accounts |-> Owner'[b]]
  BY DEF Owner
<1>1. CASE Stays
  <2>1. \A a \in Accounts : Owner'[a] = Owner[a]
    <3> TAKE a \in Accounts
    <3>1. \A r \in Runs : Inside(r, a)' <=> Inside(r, a)
      BY <1>1 DEF Stays, Inside
    <3> QED  BY <3>1, <1>x, OwnerKept
  <2>2. Owner' = Owner
    BY <2>1, <1>o
  <2>3. Ran' = Ran
    BY <1>1 DEF Stays, Ran
  <2> QED  BY <2>2, <2>3 DEF Execution!vars
<1>2. ASSUME NEW r \in Runs, Leaves(r) PROVE Execution!Next
  <2>0. PICK a \in Accounts : a = AccountOf[task[r]]
    BY <1>2, ConstantsAssumption DEF Leaves, TypeInv, Holding
  <2>1. Inside(r, a)
    BY <1>2, <2>0 DEF Leaves, Inside
  <2>2. Owner[a] = r /\ r # None
    BY <2>1, <1>x, OwnerIs, ConstantsAssumption
  <2>3. \A s \in Runs : ~Inside(s, a)'
    BY <1>2, <2>1, <1>x DEF Leaves, Inside, AccountExclusive
  <2>4. Owner'[a] = None
    BY <2>1, <2>3, <1>x, OwnerIsNext
  <2>5. \A b \in Accounts \ {a} : Owner'[b] = Owner[b]
    <3> TAKE b \in Accounts \ {a}
    <3>1. \A s \in Runs : Inside(s, b)' <=> Inside(s, b)
      BY <1>2, <2>0 DEF Leaves, Inside
    <3> QED  BY <3>1, <1>x, OwnerKept
  <2>6. Owner' = [Owner EXCEPT ![a] = None]
    BY <2>4, <2>5, <1>f, <1>o
  <2>7. Ran' = Ran
    BY <1>2 DEF Leaves, Ran
  <2> QED  BY <2>1, <2>2, <2>6, <2>7 DEF Execution!Next, Execution!End
<1>3. ASSUME NEW r \in Runs, AcquireLock(r) PROVE Execution!Next
  <2>0. PICK a \in Accounts : a = AccountOf[task[r]]
    BY <1>3, ConstantsAssumption DEF AcquireLock, TypeInv, TypeOK
  <2>1. ~locked[a]
    BY <1>3, <2>0 DEF AcquireLock
  <2>2. /\ pc' = [pc EXCEPT ![r] = "cooling"] /\ task' = task
        /\ lease' = [lease EXCEPT ![r] = "owned"] /\ lease[r] = "new"
        /\ pc \in [Runs -> PCs]
        /\ lease \in [Runs -> {"new", "owned", "released"}]
    BY <1>3 DEF AcquireLock, TypeInv, TypeOK, LeaseInv, Before
  <2>3. \A s \in Runs : ~Inside(s, a)
    BY <2>1 DEF LockInv, Inside
  <2>4. Owner[a] = None
    BY <2>1, <2>3, <1>x, OwnerIs
  <2>5. Inside(r, a)'
    BY <2>0, <2>2 DEF Inside, Holding
  <2>6. Owner'[a] = r
    BY <2>1, <2>5, <1>x, OwnerIsNext
  <2>7. \A b \in Accounts \ {a} : Owner'[b] = Owner[b]
    <3> TAKE b \in Accounts \ {a}
    <3>1. \A s \in Runs : Inside(s, b)' <=> Inside(s, b)
      BY <1>3, <2>0, <2>2 DEF Inside, AcquireLock, Holding
    <3> QED  BY <3>1, <1>x, OwnerKept
  <2>8. Owner' = [Owner EXCEPT ![a] = r]
    BY <2>6, <2>7, <1>f, <1>o
  <2>9. r \notin Ran /\ Ran' = Ran \cup {r}
    BY <2>2 DEF Ran
  <2> QED
    BY <2>1, <2>4, <2>8, <2>9 DEF Execution!Next, Execution!Begin
<1> QED  BY <1>1, <1>2, <1>3, SectionStep

\* The run manager implements AccountExecution: one run at a time in an account,
\* and a run at most once, whatever cancels, drains and finalizers do.
THEOREM ImplementsExecution == Spec => ExecutionSpec
<1>1. Init => LeaseInv
  BY DEF Init, LeaseInv
<1>2. Init => Execution!Init
  BY DEF Init, Execution!Init, Owner, Ran, Holding
<1> QED
  BY <1>1, <1>2, TypeInvInit, TypeInvStep, LockInvInit, LockInvStep,
     LeaseInvStep, ExecutionStep, PTL DEF Spec, ExecutionSpec, Execution!Spec

-----------------------------------------------------------------------------
(* The history *)

\* What the phase of a run says of its record: none and none tried before the
\* save, a record or a failed save as soon as an uninterrupted run sends its
\* notification, and neither for a run whose cancellation the runner has seen.
Fate(r) ==
  /\ pc[r] \in Before \cup Holding \cup {"erring"} =>
       outcome[r] = "none" /\ interrupt[r] = "none"
  /\ pc[r] \in Before \cup Holding \cup {"erring", "fetching"} =>
       r \notin history \cup unsaved
  /\ pc[r] \in {"notifying", "stopping", "done"} =>
       (interrupt[r] = "none" /\ outcome[r] # "none" => (r \in history <=> r \notin unsaved))
  /\ interrupt[r] = "seen" => pc[r] \in {"stopping", "done"} /\ r \notin history \cup unsaved

FateInv == \A r \in Runs : Fate(r)

\* A step of one run leaves the fates of the others alone.
LEMMA FateFrame ==
  ASSUME FateInv, NEW r \in Runs, Fate(r)',
         \A s \in Runs \ {r} : /\ pc'[s] = pc[s] /\ outcome'[s] = outcome[s]
                               /\ interrupt'[s] = interrupt[s]
                               /\ s \in history' <=> s \in history
                               /\ s \in unsaved' <=> s \in unsaved
  PROVE  FateInv'
BY DEF FateInv, Fate

LEMMA FateInvStep == TypeInv /\ FateInv /\ [Next]_vars => FateInv'
<1> SUFFICES ASSUME TypeInv, FateInv, [Next]_vars PROVE FateInv'
  OBVIOUS
<1>f. /\ pc \in [Runs -> PCs] /\ outcome \in [Runs -> Outcomes]
      /\ interrupt \in [Runs -> {"none", "seen", "late"}]
  BY DEF TypeInv, TypeOK
<1>i. \A r \in Runs : Fate(r)
  BY DEF FateInv
<1> USE <1>f, <1>i, FateFrame DEF Fate, Before, Holding
<1>1. ASSUME NEW r \in Runs, NEW k \in Tasks, StartTaskRun(r, k) \/ Trigger(r, k)
      PROVE FateInv'
  BY <1>1 DEF StartTaskRun, Trigger
<1>2. ASSUME NEW r \in Runs, Refuse(r) PROVE FateInv'
  BY <1>2 DEF Refuse, EndRun, FirstStep
<1>3. ASSUME NEW r \in Runs, RejectDuplicate(r) PROVE FateInv'
  BY <1>3 DEF RejectDuplicate, FirstStep
<1>4. ASSUME NEW r \in Runs, BeginExecute(r) PROVE FateInv'
  BY <1>4 DEF BeginExecute, FirstStep, Saves
<1>5. ASSUME NEW r \in Runs, AccountChecked(r) PROVE FateInv'
  BY <1>5 DEF AccountChecked, Finalize, Saves
<1>6. ASSUME NEW r \in Runs, AcquireLock(r) \/ Prepare(r) PROVE FateInv'
  BY <1>6 DEF AcquireLock, Prepare
<1>7. ASSUME NEW r \in Runs, Executed(r) PROVE FateInv'
  BY <1>7 DEF Executed, Finalize, Saves
<1>8. ASSUME NEW r \in Runs, ErrorHandled(r) \/ TargetFetched(r) PROVE FateInv'
  BY <1>8 DEF ErrorHandled, TargetFetched, Finalize, Saves
<1>9. ASSUME NEW r \in Runs, Notified(r) PROVE FateInv'
  BY <1>9 DEF Notified, FinalizeTail
<1>10. ASSUME NEW r \in Runs, ClientStopped(r) PROVE FateInv'
  BY <1>10 DEF ClientStopped, EndRun
<1>11. ASSUME NEW r \in Runs, CancelUnstarted(r) PROVE FateInv'
  BY <1>11 DEF CancelUnstarted, FirstStep
<1>12. ASSUME NEW r \in Runs, CancelSeen(r) PROVE FateInv'
  BY <1>12 DEF CancelSeen, FinalizeTail
<1>13. ASSUME NEW r \in Runs, CancelErring(r) PROVE FateInv'
  BY <1>13 DEF CancelErring, Finalize, Saves
<1>14. ASSUME NEW r \in Runs, CancelFinalizing(r) PROVE FateInv'
  BY <1>14 DEF CancelFinalizing, FinalizeTail
<1>15. ASSUME NEW r \in Runs, CancelStopping(r) PROVE FateInv'
  BY <1>15 DEF CancelStopping, EndRun
<1>16. ASSUME \/ Cancelling \/ Drain \/ Quiescent \/ UNCHANGED vars
              \/ \E k \in Tasks : StatusCleanup(k)
       PROVE FateInv'
  <2>1. UNCHANGED <<pc, outcome, interrupt, history, unsaved>>
    BY <1>16 DEF Cancelling, CancelRead, CancelSend, CancelMark, StatusCleanup, Drain, BeginShutdown, DrainSnapshot, DrainTimeout, DrainDone, Resume, Quiescent, vars, runVars
  <2> QED  BY <2>1 DEF FateInv
<1> QED
  BY <1>1, <1>2, <1>3, <1>4, <1>5, <1>6, <1>7, <1>8, <1>9, <1>10, <1>11, <1>12, <1>13, <1>14, <1>15, <1>16 DEF Next, Start, Advance, Runs

\* The history tells how each run ended: a record, or the persistence_error of the
\* failed save, for one that nothing interrupted, neither for one that was
\* cancelled before its finalizer.
THEOREM HistoryTruthful == Spec => []HistoryMatchesFate
<1>1. Init => FateInv
  BY DEF Init, FateInv, Fate, Before, Holding
<1>2. FateInv => HistoryMatchesFate
  BY DEF FateInv, Fate, HistoryMatchesFate
<1> QED
  BY <1>1, <1>2, TypeInvInit, TypeInvStep, FateInvStep, PTL DEF Spec

-----------------------------------------------------------------------------
(* Tasks: the active flag and the run it stands for *)

\* A step that moves no run in or out of Working preserves OneRunPerTask.
LEMMA ActiveFrame ==
  ASSUME TypeInv, OneRunPerTask,
         \A r \in Runs : pc'[r] \in Working <=> pc[r] \in Working,
         \A r \in Runs : pc[r] \in Working => task'[r] = task[r],
         active' = active
  PROVE  OneRunPerTask'
BY DEF OneRunPerTask

\* The finalizer clears the flag of the run it ends, the task's only one.
LEMMA ActiveLeft ==
  ASSUME TypeInv, OneRunPerTask, NEW r \in Runs, pc[r] \in Working,
         FinalizeTail(r), task' = task
  PROVE  OneRunPerTask'
<1>1. /\ pc \in [Runs -> PCs] /\ active \in [Tasks -> BOOLEAN]
      /\ task[r] \in Tasks
  BY DEF TypeInv, TypeOK, Working
<1>2. /\ \A s \in Runs \ {r} : pc'[s] = pc[s]
      /\ pc'[r] \notin Working
      /\ active' = [active EXCEPT ![task[r]] = FALSE]
  BY <1>1 DEF FinalizeTail, Working
<1>3. \A s \in Runs : pc'[s] \in Working => pc[s] \in Working /\ task[s] # task[r]
  BY <1>2 DEF OneRunPerTask
<1>4. \A k \in Tasks : active'[k] <=> \E s \in Runs : pc'[s] \in Working /\ task'[s] = k
  <2> TAKE k \in Tasks
  <2>1. CASE k = task[r]
    BY <1>1, <1>2, <1>3, <2>1
  <2>2. CASE k # task[r]
    <3>1. active'[k] <=> active[k]
      BY <1>1, <1>2, <2>2
    <3>2. (\E s \in Runs : pc'[s] \in Working /\ task'[s] = k)
          <=> \E s \in Runs : pc[s] \in Working /\ task[s] = k
      BY <1>2, <1>3, <2>2
    <3> QED  BY <3>1, <3>2 DEF OneRunPerTask
  <2> QED  BY <2>1, <2>2
<1> QED  BY <1>3, <1>4 DEF OneRunPerTask

LEMMA ActiveInit == Init => OneRunPerTask
BY DEF Init, OneRunPerTask, Working

LEMMA ActiveStep == TypeInv /\ OneRunPerTask /\ [Next]_vars => OneRunPerTask'
<1> SUFFICES ASSUME TypeInv, OneRunPerTask, [Next]_vars PROVE OneRunPerTask'
  OBVIOUS
<1>f. pc \in [Runs -> PCs]
  BY DEF TypeInv, TypeOK
<1>1. ASSUME NEW r \in Runs, NEW k \in Tasks, StartTaskRun(r, k) PROVE OneRunPerTask'
  BY <1>1, ActiveFrame, <1>f DEF StartTaskRun, Working
<1>2. ASSUME NEW r \in Runs, NEW k \in Tasks, Trigger(r, k) PROVE OneRunPerTask'
  BY <1>2, ActiveFrame, <1>f DEF Trigger, Working, registry
<1>3. ASSUME NEW r \in Runs, Refuse(r) PROVE OneRunPerTask'
  BY <1>3, ActiveFrame, <1>f DEF Refuse, Working, FirstStep, EndRun
<1>4. ASSUME NEW r \in Runs, RejectDuplicate(r) PROVE OneRunPerTask'
  BY <1>4, ActiveFrame, <1>f DEF RejectDuplicate, Working, FirstStep
<1>5. ASSUME NEW r \in Runs, AccountChecked(r) PROVE OneRunPerTask'
  BY <1>5, ActiveFrame, <1>f DEF AccountChecked, Working, Finalize
<1>6. ASSUME NEW r \in Runs, Prepare(r) PROVE OneRunPerTask'
  BY <1>6, ActiveFrame, <1>f DEF Prepare, Working
<1>7. ASSUME NEW r \in Runs, AcquireLock(r) PROVE OneRunPerTask'
  BY <1>7, ActiveFrame, <1>f DEF AcquireLock, Working
<1>8. ASSUME NEW r \in Runs, Executed(r) PROVE OneRunPerTask'
  BY <1>8, ActiveFrame, <1>f DEF Executed, Working, Finalize, Holding
<1>9. ASSUME NEW r \in Runs, ErrorHandled(r) PROVE OneRunPerTask'
  BY <1>9, ActiveFrame, <1>f DEF ErrorHandled, Working, Finalize
<1>10. ASSUME NEW r \in Runs, TargetFetched(r) PROVE OneRunPerTask'
  BY <1>10, ActiveFrame, <1>f DEF TargetFetched, Working, registry
<1>11. ASSUME NEW r \in Runs, ClientStopped(r) PROVE OneRunPerTask'
  BY <1>11, ActiveFrame, <1>f DEF ClientStopped, Working, EndRun
<1>12. ASSUME NEW r \in Runs, CancelUnstarted(r) PROVE OneRunPerTask'
  BY <1>12, ActiveFrame, <1>f DEF CancelUnstarted, Working, FirstStep, registry
<1>13. ASSUME NEW r \in Runs, CancelErring(r) PROVE OneRunPerTask'
  BY <1>13, ActiveFrame, <1>f DEF CancelErring, Working, Finalize
<1>14. ASSUME NEW r \in Runs, CancelStopping(r) PROVE OneRunPerTask'
  BY <1>14, ActiveFrame, <1>f DEF CancelStopping, Working, EndRun
<1>15. ASSUME NEW r \in Runs, BeginExecute(r) PROVE OneRunPerTask'
  <2>1. /\ pc[r] \notin Working /\ task[r] \in Tasks /\ ~active[task[r]]
        /\ pc'[r] \in Working /\ task' = task
        /\ \A s \in Runs \ {r} : pc'[s] = pc[s]
        /\ active' = [active EXCEPT ![task[r]] = TRUE]
    BY <1>15, <1>f DEF BeginExecute, FirstStep, IsTaskRunning, TypeInv, Working
  <2>2. active \in [Tasks -> BOOLEAN]
    BY DEF TypeInv, TypeOK
  <2>3. \A s \in Runs : pc[s] \in Working => task[s] # task[r]
    BY <2>1 DEF OneRunPerTask
  <2> QED  BY <2>1, <2>2, <2>3 DEF OneRunPerTask
<1>16. ASSUME NEW r \in Runs, Notified(r) PROVE OneRunPerTask'
  BY <1>16, ActiveLeft DEF Notified, Working
<1>17. ASSUME NEW r \in Runs, CancelFinalizing(r) PROVE OneRunPerTask'
  BY <1>17, ActiveLeft DEF CancelFinalizing, Working
<1>18. ASSUME NEW r \in Runs, CancelSeen(r) PROVE OneRunPerTask'
  BY <1>18, ActiveLeft DEF CancelSeen, Working, Holding
<1>19. ASSUME UNCHANGED <<pc, task, active>> PROVE OneRunPerTask'
  BY <1>19, ActiveFrame
<1>20. ASSUME \/ Cancelling \/ Drain \/ Quiescent \/ UNCHANGED vars
             \/ \E k \in Tasks : StatusCleanup(k)
      PROVE UNCHANGED <<pc, task, active>>
  BY <1>20 DEF Cancelling, CancelRead, CancelSend, CancelMark, StatusCleanup, Drain, BeginShutdown, DrainSnapshot, DrainTimeout, DrainDone, Resume, Quiescent, vars, runVars, registry
<1> QED
  BY <1>1, <1>2, <1>3, <1>4, <1>5, <1>6, <1>7, <1>8, <1>9, <1>10, <1>11, <1>12, <1>13, <1>14, <1>15, <1>16, <1>17, <1>18, <1>19, <1>20 DEF Next, Start, Advance, Runs

\* A task has at most one run in progress and _active_tasks says so exactly.
THEOREM TasksExclusive == Spec => []OneRunPerTask
BY TypeInvInit, TypeInvStep, ActiveInit, ActiveStep, PTL DEF Spec

-----------------------------------------------------------------------------
(***************************************************************************)
(* The status of a run in progress, and the end of a drain                 *)
(*                                                                         *)
(* A step of another run changes only the entry of its own task, and no    *)
(* two runs at work share a task; what another run of the same task can    *)
(* still do before its first step or at its end never says "running".      *)
(***************************************************************************)

\* Nobody has asked for a cancellation.
Unasked == req = Idle

\* A step of x gives its own task the status of a run in progress, or leaves all
\* statuses alone.
Phased(x) == status' = status \/ (x \in HttpRuns /\ status' = PhaseUpdated(x))

\* A step of x that ends it gives its entry, if it still has one, a terminal state.
Settles(x) ==
  \/ status' = status
  \/ /\ x \in HttpRuns /\ status[task[x]] # None /\ status[task[x]].run = x
     /\ \E s \in TerminalStates : status' = [status EXCEPT ![task[x]] = [run |-> x, state |-> s]]

\* A run that is working is the only one of its task: what another one does to the
\* entry of its own task does not matter to it.
LEMMA OtherTask ==
  ASSUME TypeInv, OneRunPerTask, NEW x \in Runs, NEW r \in Runs, x # r,
         pc[x] \in Working, pc[r] \in Working
  PROVE  task[x] # task[r] /\ task[r] \in Tasks
BY DEF OneRunPerTask, TypeInv, Working

\* What StatusBelongsToActiveRun says of one run at its phase, and of an entry.
Fits(r, at, entry) ==
  /\ at \in Working \ {"notifying"} => entry = [run |-> r, state |-> "running"]
  /\ at = "notifying" /\ entry # None => entry.run = r \/ entry.state # "running"

LEMMA StatusFits ==
  /\ StatusBelongsToActiveRun <=> \A r \in HttpRuns : Fits(r, pc[r], status[task[r]])
  /\ StatusBelongsToActiveRun' <=> \A r \in HttpRuns : Fits(r, pc'[r], status'[task'[r]])
BY DEF StatusBelongsToActiveRun, Fits

LEMMA OwnFits ==
  ASSUME NEW r, NEW at PROVE Fits(r, at, [run |-> r, state |-> "running"])
BY DEF Fits

\* A working run x takes a step: it keeps its entry if it goes on, and touches no other.
LEMMA WorkingKeepsStatus ==
  ASSUME TypeInv, OneRunPerTask, StatusBelongsToActiveRun, NEW x \in Runs,
         pc[x] \in Working, Phased(x), task' = task,
         \A s \in Runs \ {x} : pc'[s] = pc[s],
         \/ x \notin HttpRuns \/ pc'[x] \notin Working
         \/ x \in HttpRuns /\ status' = PhaseUpdated(x)
         \/ pc[x] \in Working \ {"notifying"} /\ status' = status
  PROVE  StatusBelongsToActiveRun'
<1>t. status \in [Tasks -> RunStatus \cup {None}] /\ task[x] \in Tasks
  BY DEF TypeInv, TypeOK, Working
<1>1. ASSUME NEW r \in HttpRuns, r # x, pc'[r] \in Working
      PROVE  pc'[r] = pc[r] /\ status'[task'[r]] = status[task[r]]
  <2>1. r \in Runs /\ pc'[r] = pc[r]
    BY <1>1 DEF Runs
  <2>2. task[x] # task[r] /\ task[r] \in Tasks
    BY <1>1, <2>1, OtherTask
  <2> QED  BY <1>t, <2>1, <2>2 DEF Phased, PhaseUpdated
<1>o. \A r \in HttpRuns : Fits(r, pc[r], status[task[r]])
  BY StatusFits
<1>n. \A r \in HttpRuns : r # x => Fits(r, pc'[r], status'[task'[r]])
  BY <1>1, <1>o DEF Fits, Working
<1>2. CASE x \in HttpRuns /\ status' = PhaseUpdated(x)
  <2>1. status'[task[x]] = [run |-> x, state |-> "running"]
    BY <1>t, <1>2 DEF PhaseUpdated
  <2> QED  BY <1>n, <2>1, OwnFits, StatusFits
<1>3. CASE x \notin HttpRuns \/ pc'[x] \notin Working
  <2>1. x \in HttpRuns => Fits(x, pc'[x], status'[task'[x]])
    BY <1>3 DEF Fits, Working
  <2> QED  BY <1>n, <2>1, StatusFits
<1>4. CASE pc[x] \in Working \ {"notifying"} /\ status' = status
  <2>1. x \in HttpRuns => status'[task'[x]] = [run |-> x, state |-> "running"]
    BY <1>4, <1>o DEF Fits
  <2> QED  BY <1>n, <2>1, OwnFits, StatusFits
<1> QED  BY <1>2, <1>3, <1>4

\* A run that is not at work ends: it settles no entry but its own.
LEMMA EndKeepsStatus ==
  ASSUME TypeInv, StatusBelongsToActiveRun, NEW x \in Runs,
         pc[x] \in {"created", "stopping"}, Settles(x), task' = task,
         pc'[x] \notin Working, \A s \in Runs \ {x} : pc'[s] = pc[s]
  PROVE  StatusBelongsToActiveRun'
<1>t. status \in [Tasks -> RunStatus \cup {None}] /\ task[x] \in Tasks
  BY DEF TypeInv, TypeOK
<1> SUFFICES ASSUME NEW r \in HttpRuns, pc'[r] \in Working
             PROVE  /\ pc'[r] # "notifying" =>
                         status'[task[r]] = [run |-> r, state |-> "running"]
                    /\ pc'[r] = "notifying" /\ status'[task[r]] # None =>
                         status'[task[r]].run = r \/ status'[task[r]].state # "running"
  BY DEF StatusBelongsToActiveRun, Working
<1>1. r \in Runs /\ r # x /\ pc[r] = pc'[r] /\ task[r] \in Tasks
  BY DEF Runs, TypeInv, Working
<1>o. /\ pc[r] # "notifying" => status[task[r]] = [run |-> r, state |-> "running"]
      /\ pc[r] = "notifying" /\ status[task[r]] # None =>
           status[task[r]].run = r \/ status[task[r]].state # "running"
  BY <1>1 DEF StatusBelongsToActiveRun, Working
<1>2. CASE status' = status
  BY <1>1, <1>2, <1>o
<1>3. ASSUME status[task[x]] # None, status[task[x]].run = x, NEW s \in TerminalStates,
             status' = [status EXCEPT ![task[x]] = [run |-> x, state |-> s]]
      PROVE  /\ pc[r] # "notifying" => status'[task[r]] = [run |-> r, state |-> "running"]
             /\ pc[r] = "notifying" /\ status'[task[r]] # None =>
                  status'[task[r]].run = r \/ status'[task[r]].state # "running"
  <2>1. CASE task[x] # task[r]
    BY <1>1, <1>3, <1>o, <1>t, <2>1
  <2>2. CASE task[x] = task[r]
    <3>1. pc[r] = "notifying"
      BY <1>1, <1>3, <1>o, <2>2
    <3>2. status'[task[r]].state = s /\ s # "running"
      BY <1>3, <1>t, <2>2 DEF TerminalStates
    <3> QED  BY <3>1, <3>2
  <2> QED  BY <2>1, <2>2
<1> QED  BY <1>1, <1>2, <1>3 DEF Settles

LEMMA EndRunSettles ==
  ASSUME NEW x \in Runs, NEW hit, EndRun(x, hit) PROVE Settles(x)
BY DEF EndRun, Settles, TerminalState, TerminalStates

LEMMA StatusStep ==
  ASSUME TypeInv, TypeInv', OneRunPerTask, OneRunPerTask', Unasked,
         StatusBelongsToActiveRun, [Next]_vars
  PROVE  StatusBelongsToActiveRun'
<1>f. /\ pc \in [Runs -> PCs] /\ status \in [Tasks -> RunStatus \cup {None}]
      /\ task \in [Runs -> Tasks \cup {None}] /\ active \in [Tasks -> BOOLEAN]
      /\ HttpRuns \subseteq Runs
  BY DEF TypeInv, TypeOK, Runs
<1>1. ASSUME NEW r \in HttpRuns, NEW k \in Tasks, StartTaskRun(r, k)
      PROVE StatusBelongsToActiveRun'
  <2>1. ASSUME NEW s \in HttpRuns, pc'[s] \in Working
        PROVE  /\ pc[s] = pc'[s] /\ task'[s] = task[s] /\ task[s] \in Tasks
               /\ task[s] # k
    <3>1. s # r /\ pc[s] = pc'[s] /\ task'[s] = task[s]
      BY <1>1, <1>f, <2>1 DEF StartTaskRun, Working
    <3>2. task[s] \in Tasks /\ active[task[s]]
      BY <1>f, <2>1, <3>1 DEF TypeInv, OneRunPerTask, Working
    <3> QED  BY <1>1, <3>1, <3>2 DEF StartTaskRun
  <2>2. status' = [status EXCEPT ![k] = [run |-> r, state |-> "running"]]
    BY <1>1 DEF StartTaskRun
  <2>3. \A s \in HttpRuns : pc'[s] \in Working => status'[task'[s]] = status[task[s]]
    BY <1>f, <2>1, <2>2
  <2> QED  BY <2>1, <2>3 DEF StatusBelongsToActiveRun, Working
<1>2. ASSUME NEW r \in Runs, NEW k \in Tasks, Trigger(r, k) PROVE StatusBelongsToActiveRun'
  BY <1>2, <1>f DEF Trigger, registry, StatusBelongsToActiveRun, Working
<1>3. ASSUME NEW r \in Runs, Refuse(r) PROVE StatusBelongsToActiveRun'
  <2>1. pc[r] = "created" /\ EndRun(r, "none") /\ task' = task
    BY <1>3 DEF Refuse, FirstStep
  <2>2. pc' = [pc EXCEPT ![r] = "done"]
    BY <2>1 DEF EndRun
  <2> QED  BY <1>f, <2>1, <2>2, EndRunSettles, EndKeepsStatus DEF Working
<1>4. ASSUME NEW r \in Runs, RejectDuplicate(r) PROVE StatusBelongsToActiveRun'
  <2>1. /\ pc[r] = "created" /\ pc' = [pc EXCEPT ![r] = "done"] /\ task' = task
    BY <1>4 DEF RejectDuplicate, FirstStep
  <2>2. Settles(r)
    BY <1>4 DEF RejectDuplicate, Settles, TerminalStates
  <2> QED  BY <1>f, <2>1, <2>2, EndKeepsStatus DEF Working
<1>5. ASSUME NEW r \in Runs, ClientStopped(r) \/ CancelStopping(r)
      PROVE StatusBelongsToActiveRun'
  <2>1. PICK hit : pc[r] = "stopping" /\ EndRun(r, hit) /\ task' = task
    BY <1>5 DEF ClientStopped, CancelStopping
  <2>2. pc' = [pc EXCEPT ![r] = "done"]
    BY <2>1 DEF EndRun
  <2> QED  BY <1>f, <2>1, <2>2, EndRunSettles, EndKeepsStatus DEF Working
<1>6. ASSUME NEW r \in Runs, BeginExecute(r) PROVE StatusBelongsToActiveRun'
  <2>1. /\ pc[r] = "created" /\ task' = task /\ task[r] \in Tasks
        /\ ~IsTaskRunning(r, task[r])
    BY <1>6, <1>f DEF BeginExecute, FirstStep, TypeInv
  <2>2. \A s \in HttpRuns \ {r} : pc'[s] = pc[s]
    BY <1>6, <1>f DEF BeginExecute
  <2>3. ASSUME NEW s \in HttpRuns, s # r, pc'[s] \in Working
        PROVE  status'[task'[s]] = status[task[s]]
    <3>1. task[s] \in Tasks /\ active[task[s]]
      BY <1>f, <2>2, <2>3 DEF TypeInv, OneRunPerTask, Working
    <3>2. task[s] # task[r]
      BY <2>1, <3>1 DEF IsTaskRunning
    <3> QED  BY <1>6, <1>f, <2>1, <3>1, <3>2 DEF BeginExecute, PhaseUpdated
  <2>n. \A s \in HttpRuns \ {r} : Fits(s, pc'[s], status'[task'[s]])
    <3>1. \A s \in HttpRuns : Fits(s, pc[s], status[task[s]])
      BY StatusFits
    <3> QED  BY <2>2, <2>3, <3>1 DEF Fits, Working
  <2>4. CASE r \in HttpRuns /\ status' = PhaseUpdated(r)
    <3>1. status'[task[r]] = [run |-> r, state |-> "running"]
      BY <1>f, <2>1, <2>4 DEF PhaseUpdated
    <3> QED  BY <2>1, <2>n, <3>1, OwnFits, StatusFits
  <2>5. CASE r \in HttpRuns /\ status' = status /\ pc' = [pc EXCEPT ![r] = "notifying"]
    <3>1. status[task[r]] # None =>
            status[task[r]].run = r \/ status[task[r]].state # "running"
      BY <2>1 DEF IsTaskRunning
    <3>2. pc'[r] = "notifying"
      BY <1>f, <2>5
    <3> QED  BY <2>1, <2>2, <2>3, <2>5, <3>1, <3>2 DEF StatusBelongsToActiveRun, Working
  <2>6. CASE r \notin HttpRuns
    BY <2>1, <2>2, <2>3, <2>6 DEF StatusBelongsToActiveRun, Working
  <2> QED  BY <1>6, <2>4, <2>5, <2>6 DEF BeginExecute
<1>7. ASSUME NEW r \in Runs, AccountChecked(r) PROVE StatusBelongsToActiveRun'
  <2>1. /\ pc[r] = "checking" /\ task' = task /\ \A s \in Runs \ {r} : pc'[s] = pc[s]
        /\ status' = status \/ status' = PhaseUpdated(r)
    BY <1>7, <1>f DEF AccountChecked, Finalize
  <2>2. Phased(r)
    BY <2>1 DEF Phased, PhaseUpdated
  <2> QED  BY <1>f, <2>1, <2>2, WorkingKeepsStatus DEF Working
<1>8. ASSUME NEW r \in Runs, AcquireLock(r) \/ Prepare(r) PROVE StatusBelongsToActiveRun'
  <2>1. /\ pc[r] \in {"waiting", "cooling"} /\ task' = task
        /\ \A s \in Runs \ {r} : pc'[s] = pc[s]
        /\ status' = PhaseUpdated(r)
    BY <1>8, <1>f DEF AcquireLock, Prepare
  <2>2. Phased(r)
    BY <2>1 DEF Phased, PhaseUpdated
  <2> QED  BY <1>f, <2>1, <2>2, WorkingKeepsStatus DEF Working
<1>9. ASSUME NEW r \in Runs, Executed(r) \/ ErrorHandled(r) \/ CancelErring(r)
      PROVE StatusBelongsToActiveRun'
  <2>1. /\ pc[r] \in {"cooling", "executing", "erring"} /\ task' = task
        /\ \A s \in Runs \ {r} : pc'[s] = pc[s]
        /\ status' = status \/ status' = PhaseUpdated(r)
    BY <1>9, <1>f DEF Executed, ErrorHandled, CancelErring, Finalize, Holding
  <2>2. Phased(r)
    BY <2>1 DEF Phased, PhaseUpdated
  <2> QED  BY <1>f, <2>1, <2>2, WorkingKeepsStatus DEF Working
<1>10. ASSUME NEW r \in Runs, TargetFetched(r) PROVE StatusBelongsToActiveRun'
  <2>1. /\ pc[r] = "fetching" /\ task' = task
        /\ \A s \in Runs \ {r} : pc'[s] = pc[s] /\ status' = status
    BY <1>10, <1>f DEF TargetFetched, registry
  <2>2. status' = status
    BY <1>10 DEF TargetFetched, registry
  <2> QED  BY <1>f, <2>1, <2>2, WorkingKeepsStatus DEF Working, Phased
<1>11. ASSUME NEW r \in Runs, Notified(r) \/ CancelFinalizing(r) \/ CancelSeen(r)
       PROVE StatusBelongsToActiveRun'
  <2>1. /\ pc[r] \in Working /\ task' = task /\ FinalizeTail(r)
        /\ status' = status \/ status' = PhaseUpdated(r)
    BY <1>11, <1>f DEF Notified, CancelFinalizing, CancelSeen, Working, Holding
  <2>2. pc'[r] = "stopping" /\ \A s \in Runs \ {r} : pc'[s] = pc[s]
    BY <1>f, <2>1 DEF FinalizeTail
  <2>3. Phased(r)
    BY <2>1 DEF Phased, PhaseUpdated
  <2> QED  BY <2>1, <2>2, <2>3, WorkingKeepsStatus DEF Working
<1>12. ASSUME NEW r \in Runs, CancelUnstarted(r) PROVE StatusBelongsToActiveRun'
  BY <1>12, <1>f DEF CancelUnstarted, FirstStep, registry, StatusBelongsToActiveRun, Working
<1>13. ASSUME NEW k \in Tasks, StatusCleanup(k) PROVE StatusBelongsToActiveRun'
  <2>1. pc' = pc /\ task' = task
    BY <1>13 DEF StatusCleanup, runVars
  <2>2. ASSUME NEW s \in HttpRuns, pc[s] \in Working
        PROVE  status'[task[s]] = status[task[s]]
    <3>1. task[s] \in Tasks /\ active[task[s]]
      BY <1>f, <2>2 DEF TypeInv, OneRunPerTask, Working
    <3> QED  BY <1>13, <1>f, <3>1 DEF StatusCleanup
  <2> QED  BY <2>1, <2>2 DEF StatusBelongsToActiveRun, Working
<1>14. ASSUME Cancelling \/ Drain \/ Quiescent \/ UNCHANGED vars
       PROVE StatusBelongsToActiveRun'
  <2>1. ~CancelMark
    BY DEF Unasked, Idle, CancelMark
  <2>2. UNCHANGED <<pc, task, status>>
    BY <1>14, <2>1 DEF Cancelling, CancelRead, CancelSend, Drain, BeginShutdown, DrainSnapshot,
       DrainTimeout, DrainDone, Resume, Quiescent, vars, runVars, registry
  <2> QED  BY <2>2 DEF StatusBelongsToActiveRun
<1> QED
  BY <1>1, <1>2, <1>3, <1>4, <1>5, <1>6, <1>7, <1>8, <1>9, <1>10, <1>11, <1>12, <1>13, <1>14
     DEF Next, Start, Advance, Runs

\* Where nobody cancels no request is ever under way.
LEMMA UnaskedStep == MaxCancels = 0 /\ TypeInv /\ Unasked /\ [Next]_vars => Unasked'
<1> SUFFICES ASSUME MaxCancels = 0, TypeInv, Unasked, [Next]_vars PROVE Unasked'
  OBVIOUS
<1>1. req.pc = "idle" /\ ~(cancels < MaxCancels)
  BY DEF Unasked, Idle, TypeInv, TypeOK
<1>2. ~Cancelling
  BY <1>1 DEF Cancelling, CancelRead, CancelSend, CancelMark
<1> QED
  BY <1>2 DEF Unasked, Next, Start, Advance, StartTaskRun, Trigger, Refuse, RejectDuplicate,
     BeginExecute, AccountChecked, AcquireLock, Prepare, Executed, ErrorHandled, TargetFetched,
     Notified, ClientStopped, CancelUnstarted, CancelSeen, CancelErring, CancelFinalizing,
     CancelStopping, StatusCleanup, Drain, BeginShutdown, DrainSnapshot, DrainTimeout,
     DrainDone, Resume, Quiescent, vars, cancelVars

\* While nobody cancels, the entry the panel polls is that of the manual run at work,
\* however many runs are started, refused, cancelled by a drain or cleaned up beside it.
THEOREM StatusIsOwn ==
  ASSUME MaxCancels = 0 PROVE Spec => []StatusBelongsToActiveRun
<1>1. Init => Unasked /\ StatusBelongsToActiveRun
  BY DEF Init, Unasked, StatusBelongsToActiveRun, Working, Runs
<1>2. /\ TypeInv /\ TypeInv' /\ OneRunPerTask /\ OneRunPerTask' /\ Unasked
      /\ StatusBelongsToActiveRun /\ [Next]_vars
      => Unasked' /\ StatusBelongsToActiveRun'
  BY StatusStep, UnaskedStep
<1> QED  BY <1>1, <1>2, TypeInvInit, TypeInvStep, ActiveInit, ActiveStep, PTL DEF Spec

-----------------------------------------------------------------------------
(* The drain *)

\* A run in progress that is a registered handle is among those the drain waits for;
\* when it has waited there is none left.
Drained ==
  /\ drain \in {"draining", "cancelling"} =>
       \A r \in Runs : pc[r] \in Working /\ handle[task[r]] = r => r \in drainSet
  /\ DrainLeavesNoRun

\* Handles are only removed by a step that begins no run.
LEMMA DrainFrame ==
  ASSUME TypeInv, Drained, drain' = drain, drainSet' = drainSet,
         Draining => \A r \in Runs : pc'[r] \in Working =>
           /\ pc[r] \in Working /\ task'[r] = task[r]
           /\ handle'[task[r]] \in {handle[task[r]], None}
  PROVE  Drained'
<1>1. None \notin Runs
  BY ConstantsAssumption
<1> QED  BY <1>1 DEF Drained, DrainLeavesNoRun, Draining

LEMMA DrainedStep == TypeInv /\ Drained /\ [Next]_vars => Drained'
<1> SUFFICES ASSUME TypeInv, Drained, [Next]_vars PROVE Drained'
  OBVIOUS
<1>f. /\ pc \in [Runs -> PCs] /\ handle \in [Tasks -> Runs \cup {None}]
      /\ \A r \in Runs : pc[r] \in Working => task[r] \in Tasks
  BY DEF TypeInv, TypeOK, Working
<1> USE <1>f, DrainFrame DEF Working
<1>1. ASSUME NEW r \in HttpRuns, NEW k \in Tasks, StartTaskRun(r, k) PROVE Drained'
  BY <1>1 DEF StartTaskRun, drainVars
<1>2. ASSUME NEW r \in Runs, NEW k \in Tasks, Trigger(r, k) PROVE Drained'
  BY <1>2 DEF Trigger, drainVars, registry
<1>3. ASSUME NEW r \in Runs, Refuse(r) PROVE Drained'
  BY <1>3 DEF Refuse, EndRun, drainVars
<1>4. ASSUME NEW r \in Runs, RejectDuplicate(r) \/ BeginExecute(r) PROVE Drained'
  BY <1>4 DEF RejectDuplicate, BeginExecute, drainVars
<1>5. ASSUME NEW r \in Runs, AccountChecked(r) \/ AcquireLock(r) \/ Prepare(r) PROVE Drained'
  BY <1>5 DEF AccountChecked, AcquireLock, Prepare, Finalize, drainVars
<1>6. ASSUME NEW r \in Runs, Executed(r) \/ ErrorHandled(r) \/ CancelErring(r) PROVE Drained'
  BY <1>6 DEF Executed, ErrorHandled, CancelErring, Finalize, Holding, drainVars
<1>7. ASSUME NEW r \in Runs, TargetFetched(r) \/ CancelUnstarted(r) PROVE Drained'
  BY <1>7 DEF TargetFetched, CancelUnstarted, drainVars, registry
<1>8. ASSUME NEW r \in Runs, Notified(r) \/ CancelFinalizing(r) \/ CancelSeen(r) PROVE Drained'
  BY <1>8 DEF Notified, CancelFinalizing, CancelSeen, FinalizeTail, drainVars
<1>9. ASSUME NEW r \in Runs, ClientStopped(r) \/ CancelStopping(r) PROVE Drained'
  BY <1>9 DEF ClientStopped, CancelStopping, EndRun, drainVars
<1>10. ASSUME UNCHANGED <<pc, task, handle, drain, drainSet>> PROVE Drained'
  BY <1>10
<1>11. ASSUME Cancelling \/ Quiescent \/ UNCHANGED vars \/ \E k \in Tasks : StatusCleanup(k)
       PROVE UNCHANGED <<pc, task, handle, drain, drainSet>>
  BY <1>11 DEF Cancelling, CancelRead, CancelSend, CancelMark, Quiescent, vars, runVars,
     registry, drainVars, StatusCleanup
<1>12. ASSUME DrainSnapshot PROVE Drained'
  BY <1>12 DEF DrainSnapshot, Drained, DrainLeavesNoRun, runVars, registry
<1>13. ASSUME BeginShutdown \/ Resume PROVE Drained'
  BY <1>13 DEF BeginShutdown, Resume, Drained, DrainLeavesNoRun, runVars, registry
<1>14. ASSUME DrainTimeout PROVE Drained'
  BY <1>14 DEF DrainTimeout, Drained, DrainLeavesNoRun, runVars, registry
<1>15. ASSUME DrainDone PROVE Drained'
  BY <1>15 DEF DrainDone, Drained, DrainLeavesNoRun, runVars, registry
<1> QED
  BY <1>1, <1>2, <1>3, <1>4, <1>5, <1>6, <1>7, <1>8, <1>9, <1>10, <1>11, <1>12, <1>13, <1>14,
     <1>15 DEF Next, Start, Advance, Drain, Runs

\* After a drain no run is in progress but one whose handle a rejected duplicate took.
THEOREM DrainsAreComplete == Spec => []DrainLeavesNoRun
<1>1. Init => Drained
  BY DEF Init, Drained, DrainLeavesNoRun, Working
<1>2. Drained => DrainLeavesNoRun
  BY DEF Drained
<1> QED  BY <1>1, <1>2, TypeInvInit, TypeInvStep, DrainedStep, PTL DEF Spec

-----------------------------------------------------------------------------
(***************************************************************************)
(* Retries, rechecks and chained tasks                                     *)
(*                                                                         *)
(* Paced: whoever is in the section has waited since the end of the last   *)
(* one.  Links: a trigger has at most one run, alive or waiting for its    *)
(* delay, which has counted the runs before it.                            *)
(***************************************************************************)

Stages == {"queued", "cooling", "working", "reporting", "succeeded", "failed"}
Paces == [at : Stages \cup {"none"}, task : ChainTasks \cup {"-"}, visited : SUBSET ChainTasks,
          root : Nat, time : Nat]
Alive(r) == pace[r].at # "none"

PaceTypes ==
  /\ clock \in Nat \ {0} /\ lastEnd \in 0 .. clock
  /\ section \in [end : 0 .. clock, invalid : BOOLEAN]
  /\ pace \in [RunSlots -> Paces]
  /\ holder \in RunSlots \cup {Nobody0}
  /\ \A r \in RunSlots : holder = r <=> pace[r].at \in {"cooling", "working"}

\* The end of the last section is on record, unless it is being reported as an invalid
\* session; and the run inside has waited for it, or knows until when it has to.
Paced ==
  section.end # 0 /\ ~section.invalid =>
    /\ section.end <= lastEnd
    /\ \A r \in RunSlots : pace[r].at \in {"cooling", "working"} =>
         pace[r].time >= section.end + Cooldown

\* The links of a chain: a run, or one that waits for its delay.  A trigger has one
\* at most, which has counted the runs before it.
Links ==
  /\ triggers \in 0 .. MaxTriggers
  /\ started \in [1 .. MaxTriggers -> Nat]
  /\ \A r \in RunSlots : ~Alive(r) => pace[r] = Nowhere
  /\ \A r \in RunSlots : Alive(r) =>
       /\ pace[r].task \in ChainTasks \ pace[r].visited /\ pace[r].root \in 1 .. triggers
       /\ started[pace[r].root] = Cardinality(pace[r].visited) + 1
  /\ \A c \in waiting :
       /\ c.task \in ChainTasks \ c.visited /\ c.visited \subseteq ChainTasks
       /\ c.root \in 1 .. triggers
       /\ started[c.root] = Cardinality(c.visited) /\ Cardinality(c.visited) < MaxDepth
  /\ \A r, s \in RunSlots : Alive(r) /\ Alive(s) /\ pace[r].root = pace[s].root => r = s
  /\ \A r \in RunSlots, c \in waiting : Alive(r) => pace[r].root # c.root
  /\ \A c, d \in waiting : c.root = d.root => c = d
  /\ \A i \in 1 .. MaxTriggers : i > triggers => started[i] = 0

ChainInv == PaceTypes /\ Paced /\ Links /\ ChainsEnd

LEMMA ChainConstants ==
  /\ Cooldown \in Nat /\ ChainDelay \in Nat /\ MaxTriggers \in Nat /\ MaxDepth \in Nat
  /\ MaxDepth >= 1 /\ Nobody0 \notin RunSlots /\ IsFiniteSet(ChainTasks)
  /\ Cardinality(ChainTasks) \in Nat
  BY ChainAssumption, FS_CardinalityType DEF Nobody0

LEMMA TaskSets ==
  ASSUME NEW V, V \subseteq ChainTasks
  PROVE  /\ Cardinality(V) \in Nat /\ Cardinality(V) <= Cardinality(ChainTasks)
         /\ \A t \in ChainTasks \ V : /\ Cardinality(V \cup {t}) = Cardinality(V) + 1
                                      /\ Cardinality(V) + 1 <= Cardinality(ChainTasks)
<1>1. IsFiniteSet(V) /\ Cardinality(V) \in Nat /\ Cardinality(V) <= Cardinality(ChainTasks)
  BY ChainConstants, FS_Subset, FS_CardinalityType
<1>2. ASSUME NEW t \in ChainTasks \ V
      PROVE  /\ Cardinality(V \cup {t}) = Cardinality(V) + 1
             /\ Cardinality(V) + 1 <= Cardinality(ChainTasks)
  <2>1. Cardinality(V \cup {t}) = Cardinality(V) + 1
    BY <1>1, FS_AddElement
  <2>2. Cardinality(V \cup {t}) <= Cardinality(ChainTasks)
    BY ChainConstants, FS_Subset
  <2> QED  BY <2>1, <2>2
<1> QED  BY <1>1, <1>2

LEMMA ChainInvInit == ChainInit => ChainInv
<1> SUFFICES ASSUME ChainInit PROVE ChainInv
  OBVIOUS
<1>1. Nowhere \in Paces
  BY DEF Nowhere, Paces
<1>2. PaceTypes
  BY <1>1, ChainConstants DEF ChainInit, PaceTypes, Nowhere
<1>3. Paced
  BY DEF ChainInit, Paced
<1>4. Links /\ ChainsEnd
  BY ChainConstants DEF ChainInit, Links, ChainsEnd, Alive, Nowhere
<1> QED  BY <1>2, <1>3, <1>4 DEF ChainInv

\* A run goes on: its task, its chain and its trigger stay.
LEMMA GoesFacts ==
  ASSUME ChainInv, NEW r \in RunSlots, Alive(r), NEW w \in Stages, NEW n \in Nat, Goes(r, w, n)
  PROVE  /\ pace' \in [RunSlots -> Paces]
         /\ pace'[r].at = w /\ pace'[r].time = n
         /\ pace'[r].task = pace[r].task /\ pace'[r].visited = pace[r].visited
         /\ pace'[r].root = pace[r].root
         /\ \A s \in RunSlots : s # r => pace'[s] = pace[s]
<1>1. pace[r] \in Paces
  BY DEF ChainInv, PaceTypes
<1> DEFINE p == [pace[r] EXCEPT !.at = w]
           q == [p EXCEPT !.time = n]
<1>2. /\ p \in Paces /\ p.at = w /\ p.task = pace[r].task /\ p.visited = pace[r].visited
      /\ p.root = pace[r].root
  BY <1>1 DEF Paces
<1>3. pace' = [pace EXCEPT ![r] = q]
  BY DEF Goes, ChainInv, PaceTypes
<1> HIDE DEF p
<1>4. /\ q \in Paces /\ q.at = w /\ q.task = p.task /\ q.visited = p.visited
      /\ q.root = p.root /\ q.time = n
  BY <1>2 DEF Paces
<1> HIDE DEF q
<1> QED  BY <1>2, <1>3, <1>4 DEF ChainInv, PaceTypes

LEMMA GoesLinks ==
  ASSUME ChainInv, NEW r \in RunSlots, Alive(r), NEW w \in Stages, NEW n \in Nat, Goes(r, w, n),
         UNCHANGED <<waiting, started, triggers>>
  PROVE  Links' /\ ChainsEnd'
<1>1. /\ \A s \in RunSlots :
           /\ pace'[s].task = pace[s].task /\ pace'[s].visited = pace[s].visited
           /\ pace'[s].root = pace[s].root /\ Alive(s)' = Alive(s)
           /\ ~Alive(s) => pace'[s] = pace[s]
  BY GoesFacts DEF Alive, Stages
<1>2. Links'
  BY <1>1 DEF ChainInv, Links
<1> QED  BY <1>2 DEF ChainInv, ChainsEnd

-----------------------------------------------------------------------------
LEMMA AcquireStep == ASSUME ChainInv, NEW r \in RunSlots, Acquire(r) PROVE ChainInv'
<1>0. Alive(r) /\ clock \in Nat /\ lastEnd \in Nat /\ section.end \in Nat
  BY DEF Acquire, Alive, ChainInv, PaceTypes
<1>1. PICK w \in {"cooling", "working"}, n \in Nat :
        /\ Goes(r, w, n) /\ n >= clock
        /\ lastEnd # 0 => n >= lastEnd + Cooldown
  <2>1. CASE lastEnd # 0 /\ clock < lastEnd + Cooldown
    BY <1>0, <2>1, ChainConstants DEF Acquire
  <2>2. CASE ~(lastEnd # 0 /\ clock < lastEnd + Cooldown)
    BY <1>0, <2>2, ChainConstants DEF Acquire
  <2> QED  BY <2>1, <2>2
<1>2. /\ pace' \in [RunSlots -> Paces] /\ pace'[r].at = w /\ pace'[r].time = n
      /\ \A s \in RunSlots : s # r => pace'[s] = pace[s]
  BY <1>0, <1>1, GoesFacts DEF Stages
<1>3. UNCHANGED <<clock, waiting, lastEnd, section, started, triggers>> /\ holder' = r
      /\ holder = Nobody0
  BY DEF Acquire
<1>4. \A s \in RunSlots : s # r => pace'[s].at \notin {"cooling", "working"}
  BY <1>2, <1>3, ChainConstants DEF ChainInv, PaceTypes
<1>5. PaceTypes'
  BY <1>2, <1>3, <1>4 DEF ChainInv, PaceTypes
<1>6. Paced'
  <2>1. section.end # 0 /\ ~section.invalid => lastEnd # 0 /\ n >= section.end + Cooldown
    BY <1>0, <1>1, ChainConstants DEF ChainInv, Paced
  <2> QED  BY <1>2, <1>3, <1>4, <2>1 DEF ChainInv, Paced
<1>7. Links' /\ ChainsEnd'
  BY <1>0, <1>1, <1>3, GoesLinks DEF Stages
<1> QED  BY <1>5, <1>6, <1>7 DEF ChainInv

LEMMA CooledStep == ASSUME ChainInv, NEW r \in RunSlots, Cooled(r) PROVE ChainInv'
<1>0. Alive(r) /\ clock \in Nat /\ Goes(r, "working", clock) /\ section.end \in Nat
      /\ pace[r].time \in Nat /\ pace[r].at = "cooling" /\ pace[r].time <= clock
  BY DEF Cooled, Alive, ChainInv, PaceTypes, Paces
<1>1. /\ pace' \in [RunSlots -> Paces] /\ pace'[r].at = "working" /\ pace'[r].time = clock
      /\ \A s \in RunSlots : s # r => pace'[s] = pace[s]
  BY <1>0, GoesFacts DEF Stages
<1>2. UNCHANGED <<clock, waiting, holder, lastEnd, section, started, triggers>>
  BY DEF Cooled
<1>3. PaceTypes'
  BY <1>0, <1>1, <1>2 DEF ChainInv, PaceTypes
<1>4. Paced'
  BY <1>0, <1>1, <1>2, ChainConstants DEF ChainInv, Paced
<1>5. Links' /\ ChainsEnd'
  BY <1>0, <1>2, GoesLinks DEF Stages
<1> QED  BY <1>3, <1>4, <1>5 DEF ChainInv

\* A section ends, or a run gives up outside: nobody is inside who has not been.
LEMMA LeavesStep ==
  ASSUME ChainInv, NEW r \in RunSlots,
         Works(r) \/ WorkMeetsInvalidSession(r) \/ Reported(r) \/ GivesUp(r)
  PROVE  ChainInv'
<1>0. /\ Alive(r) /\ clock \in Nat /\ clock >= 1 /\ lastEnd \in 0 .. clock
      /\ section.end \in 0 .. clock /\ section.invalid \in BOOLEAN
      /\ UNCHANGED <<clock, waiting, started, triggers>>
  BY DEF Works, WorkMeetsInvalidSession, Reported, GivesUp, Alive, ChainInv, PaceTypes
<1>1. PICK w \in {"reporting", "succeeded", "failed"} : Goes(r, w, clock)
  BY DEF Works, WorkMeetsInvalidSession, Reported, GivesUp
<1>2. /\ pace' \in [RunSlots -> Paces] /\ pace'[r].at = w
      /\ \A s \in RunSlots : s # r => pace'[s] = pace[s]
  BY <1>0, <1>1, GoesFacts DEF Stages
<1>3. holder' = (IF holder = r THEN Nobody0 ELSE holder)
  BY ChainConstants DEF Works, WorkMeetsInvalidSession, Reported, GivesUp, ChainInv, PaceTypes
<1>4. /\ lastEnd' \in {lastEnd, clock}
      /\ section' \in [end : 0 .. clock, invalid : BOOLEAN]
      /\ \/ section' = section
         \/ /\ section' = [end |-> clock, invalid |-> FALSE] /\ lastEnd' = clock
            /\ pace[r].at = "working"
         \/ section'.invalid /\ pace[r].at = "working"
  <2>1. clock \in 0 .. clock
    BY <1>0
  <2>2. section \in [end : 0 .. clock, invalid : BOOLEAN]
    BY DEF ChainInv, PaceTypes
  <2>3. CASE Works(r)
    BY <2>1, <2>3 DEF Works
  <2>4. CASE WorkMeetsInvalidSession(r)
    BY <2>1, <2>4 DEF WorkMeetsInvalidSession
  <2>5. CASE Reported(r)
    BY <2>2, <2>5 DEF Reported
  <2>6. CASE GivesUp(r) /\ pace[r].at = "working"
    BY <2>1, <2>6 DEF GivesUp
  <2>7. CASE GivesUp(r) /\ pace[r].at # "working"
    BY <2>2, <2>7 DEF GivesUp
  <2> QED  BY <2>3, <2>4, <2>5, <2>6, <2>7
<1>5. PaceTypes'
  <2>1. lastEnd' \in 0 .. clock' /\ clock' \in Nat \ {0}
    BY <1>0, <1>4
  <2>2. \A s \in RunSlots : holder' = s <=> pace'[s].at \in {"cooling", "working"}
    BY <1>2, <1>3, ChainConstants DEF ChainInv, PaceTypes
  <2>3. holder' \in RunSlots \cup {Nobody0}
    BY <1>3 DEF ChainInv, PaceTypes
  <2> QED  BY <1>0, <1>2, <1>4, <2>1, <2>2, <2>3 DEF PaceTypes
<1>6. Paced'
  <2> SUFFICES ASSUME section'.end # 0, ~section'.invalid
               PROVE  /\ section'.end <= lastEnd'
                      /\ \A s \in RunSlots : pace'[s].at \in {"cooling", "working"} =>
                           pace'[s].time >= section'.end + Cooldown
    BY <1>0 DEF Paced
  <2>1. CASE section' = section
    <3>1. section.end <= lastEnd'
      BY <1>0, <1>4, <2>1 DEF ChainInv, Paced
    <3> QED  BY <1>2, <2>1, <3>1 DEF ChainInv, Paced
  <2>2. CASE section' = [end |-> clock, invalid |-> FALSE] /\ lastEnd' = clock
             /\ pace[r].at = "working"
    <3>1. \A s \in RunSlots : pace'[s].at \notin {"cooling", "working"}
      BY <1>2, <2>2 DEF ChainInv, PaceTypes
    <3> QED  BY <1>0, <2>2, <3>1
  <2> QED  BY <1>4, <2>1, <2>2
<1>7. Links' /\ ChainsEnd'
  BY <1>0, <1>1, GoesLinks DEF Stages
<1> QED  BY <1>5, <1>6, <1>7 DEF ChainInv

-----------------------------------------------------------------------------
(* The chain *)

\* A slot that is free or finished takes a new run, or is free: the lock is not touched.
LEMMA SlotStep ==
  ASSUME ChainInv, NEW r \in RunSlots, NEW p \in Paces, pace' = [pace EXCEPT ![r] = p],
         pace[r].at \notin {"cooling", "working"}, p.at \notin {"cooling", "working"},
         UNCHANGED <<clock, holder, lastEnd, section>>
  PROVE  PaceTypes' /\ Paced'
<1>1. /\ pace' \in [RunSlots -> Paces] /\ pace'[r] = p
      /\ \A s \in RunSlots : s # r => pace'[s] = pace[s]
  BY DEF ChainInv, PaceTypes
<1>2. PaceTypes'
  BY <1>1 DEF ChainInv, PaceTypes
<1>3. Paced'
  BY <1>1 DEF ChainInv, Paced
<1> QED  BY <1>2, <1>3

\* The next run of a chain: the trigger's count is that of its visited tasks.
LEMMA StartsLinks ==
  ASSUME ChainInv, NEW r \in RunSlots, ~Alive(r), NEW V, V \subseteq ChainTasks,
         NEW t \in ChainTasks \ V, NEW i \in 1 .. triggers', triggers' \in 0 .. MaxTriggers,
         triggers <= triggers', \A j \in 1 .. MaxTriggers : j > triggers' => started[j] = 0,
         started[i] = Cardinality(V), Cardinality(V) < MaxDepth,
         waiting' \subseteq waiting,
         \A s \in RunSlots : Alive(s) => pace[s].root # i,
         \A c \in waiting' : c.root # i,
         pace' = [pace EXCEPT ![r] = [at |-> "queued", task |-> t, visited |-> V,
                                      root |-> i, time |-> 0]],
         started' = [started EXCEPT ![i] = @ + 1]
  PROVE  Links' /\ ChainsEnd'
<1>1. /\ Cardinality(V) \in Nat /\ Cardinality(V) + 1 <= Cardinality(ChainTasks)
      /\ i \in 1 .. MaxTriggers /\ triggers \in Nat /\ triggers' \in Nat /\ MaxTriggers \in Nat
      /\ MaxDepth \in Nat
  <2>1. triggers \in Nat /\ triggers' \in Nat /\ MaxTriggers \in Nat /\ MaxDepth \in Nat
    BY ChainConstants DEF ChainInv, Links
  <2>2. i \in 1 .. MaxTriggers
    BY <2>1
  <2> QED  BY <2>1, <2>2, TaskSets
<1>2. /\ pace'[r].at = "queued" /\ pace'[r].task = t /\ pace'[r].visited = V
      /\ pace'[r].root = i /\ \A s \in RunSlots : s # r => pace'[s] = pace[s]
  BY DEF ChainInv, PaceTypes
<1>3. Alive(r)' /\ \A s \in RunSlots : s # r => Alive(s)' = Alive(s)
  BY <1>2 DEF Alive
<1>4. /\ started' \in [1 .. MaxTriggers -> Nat] /\ started'[i] = Cardinality(V) + 1
      /\ \A j \in 1 .. MaxTriggers : j # i => started'[j] = started[j]
  BY <1>1 DEF ChainInv, Links
<1>5. \A s \in RunSlots : s # r /\ Alive(s) =>
        /\ pace[s].task \in ChainTasks \ pace[s].visited /\ pace[s].root \in 1 .. triggers'
        /\ started'[pace[s].root] = Cardinality(pace[s].visited) + 1
  BY <1>1, <1>4 DEF ChainInv, Links
<1>6. \A c \in waiting' :
        /\ c.task \in ChainTasks \ c.visited /\ c.visited \subseteq ChainTasks
        /\ c.root \in 1 .. triggers'
        /\ started'[c.root] = Cardinality(c.visited) /\ Cardinality(c.visited) < MaxDepth
  BY <1>1, <1>4 DEF ChainInv, Links
<1>7. \A s, q \in RunSlots : Alive(s)' /\ Alive(q)' /\ pace'[s].root = pace'[q].root => s = q
  BY <1>2, <1>3 DEF ChainInv, Links
<1>8. \A s \in RunSlots, c \in waiting' : Alive(s)' => pace'[s].root # c.root
  BY <1>2, <1>3 DEF ChainInv, Links
<1>9. \A c, d \in waiting' : c.root = d.root => c = d
  BY DEF ChainInv, Links
<1>10. \A j \in 1 .. MaxTriggers : j > triggers' => started'[j] = 0
  BY <1>1, <1>4
<1>11. \A s \in RunSlots : ~Alive(s)' => pace'[s] = Nowhere
  BY <1>2, <1>3 DEF ChainInv, Links
<1>12. \A s \in RunSlots : Alive(s)' =>
         /\ pace'[s].task \in ChainTasks \ pace'[s].visited /\ pace'[s].root \in 1 .. triggers'
         /\ started'[pace'[s].root] = Cardinality(pace'[s].visited) + 1
  BY <1>2, <1>3, <1>4, <1>5
<1>13. Links'
  BY <1>4, <1>6, <1>7, <1>8, <1>9, <1>10, <1>11, <1>12 DEF Links
<1>14. ChainsEnd'
  BY <1>1, <1>4 DEF ChainInv, ChainsEnd
<1> QED  BY <1>13, <1>14

LEMMA QueuedIsPace ==
  ASSUME NEW t \in ChainTasks, NEW V, V \subseteq ChainTasks, NEW i \in Nat
  PROVE  [at |-> "queued", task |-> t, visited |-> V, root |-> i, time |-> 0] \in Paces
  BY DEF Paces, Stages

LEMMA TriggerStep ==
  ASSUME ChainInv, NEW r \in RunSlots, NEW t \in ChainTasks, TriggerRun(r, t)
  PROVE  ChainInv'
<1> DEFINE i == triggers + 1
           p == [at |-> "queued", task |-> t, visited |-> {}, root |-> i, time |-> 0]
<1>1. /\ triggers \in Nat /\ i \in 1 .. MaxTriggers /\ triggers' = i /\ MaxTriggers \in Nat
      /\ ~Alive(r) /\ waiting' = waiting
      /\ pace' = [pace EXCEPT ![r] = p] /\ started' = [started EXCEPT ![i] = @ + 1]
  BY ChainConstants DEF TriggerRun, Starts, Alive, Nowhere, ChainInv, Links
<1>2. Cardinality({}) = 0 /\ MaxDepth \in Nat /\ MaxDepth >= 1
  BY FS_EmptySet, ChainConstants
<1>3. /\ started[i] = 0
      /\ \A s \in RunSlots : Alive(s) => pace[s].root # i
      /\ \A c \in waiting' : c.root # i
      /\ \A j \in 1 .. MaxTriggers : j > triggers' => started[j] = 0
  BY <1>1 DEF ChainInv, Links
<1>4. p \in Paces
  BY <1>1, QueuedIsPace
<1>5. PaceTypes' /\ Paced'
  BY <1>1, <1>4, SlotStep DEF TriggerRun, Alive
<1>6. i \in 1 .. triggers' /\ triggers' \in 0 .. MaxTriggers /\ triggers <= triggers'
  BY <1>1
<1> HIDE DEF i, p
<1>7. Links' /\ ChainsEnd'
  <2>1. /\ t \in ChainTasks \ {} /\ {} \subseteq ChainTasks /\ waiting' \subseteq waiting
        /\ started[i] = Cardinality({}) /\ Cardinality({}) < MaxDepth
    BY <1>1, <1>2, <1>3
  <2> QED  BY <1>1, <1>3, <1>6, <2>1, StartsLinks DEF p
<1> QED  BY <1>5, <1>7 DEF ChainInv

LEMMA FiresStep ==
  ASSUME ChainInv, NEW r \in RunSlots, NEW c \in waiting, ChainFires(r, c)
  PROVE  ChainInv'
<1>1. /\ ~Alive(r) /\ waiting' = waiting \ {c} /\ triggers' = triggers
      /\ UNCHANGED <<clock, holder, lastEnd, section>>
  BY DEF ChainFires, Alive, Nowhere
<1>2. /\ c.task \in ChainTasks \ c.visited /\ c.visited \subseteq ChainTasks
      /\ c.root \in 1 .. triggers /\ c.root \in Nat /\ triggers \in 0 .. MaxTriggers
      /\ started[c.root] = Cardinality(c.visited) /\ Cardinality(c.visited) < MaxDepth
      /\ \A s \in RunSlots : Alive(s) => pace[s].root # c.root
      /\ \A d \in waiting' : d.root # c.root
      /\ \A j \in 1 .. MaxTriggers : j > triggers => started[j] = 0
  BY <1>1 DEF ChainInv, Links
<1>3. CASE RunsNow(c.task)
  <2>1. UNCHANGED <<pace, started>>
    BY <1>3 DEF ChainFires, Starts
  <2>2. PaceTypes' /\ Paced' /\ ChainsEnd'
    BY <1>1, <2>1 DEF ChainInv, PaceTypes, Paced, ChainsEnd
  <2>3. Links'
    BY <1>1, <2>1 DEF ChainInv, Links, Alive
  <2> QED  BY <2>2, <2>3 DEF ChainInv
<1>4. CASE ~RunsNow(c.task)
  <2> DEFINE p == [at |-> "queued", task |-> c.task, visited |-> c.visited,
                   root |-> c.root, time |-> 0]
  <2>1. pace' = [pace EXCEPT ![r] = p] /\ started' = [started EXCEPT ![c.root] = @ + 1]
    BY <1>4 DEF ChainFires, Starts
  <2>2. p \in Paces
    BY <1>2, QueuedIsPace
  <2>3. PaceTypes' /\ Paced'
    BY <1>1, <2>1, <2>2, SlotStep DEF Alive
  <2>4. triggers <= triggers' /\ waiting' \subseteq waiting
    BY <1>1, <1>2
  <2>5. Links' /\ ChainsEnd'
    BY <1>1, <1>2, <2>1, <2>4, StartsLinks
  <2> QED  BY <2>3, <2>5 DEF ChainInv
<1> QED  BY <1>3, <1>4

LEMMA FinishesStep == ASSUME ChainInv, NEW r \in RunSlots, Finishes(r) PROVE ChainInv'
<1>1. /\ Alive(r) /\ pace[r].at \notin {"cooling", "working"}
      /\ pace' = [pace EXCEPT ![r] = Nowhere]
      /\ UNCHANGED <<clock, holder, lastEnd, section, started, triggers>>
  BY DEF Finishes, Alive
<1>2. Nowhere \in Paces /\ Nowhere.at \notin {"cooling", "working"}
  BY DEF Nowhere, Paces
<1>3. PaceTypes' /\ Paced'
  BY <1>1, <1>2, SlotStep
<1>4. /\ ~Alive(r)' /\ pace'[r] = Nowhere
      /\ \A s \in RunSlots : s # r => pace'[s] = pace[s] /\ Alive(s)' = Alive(s)
  BY <1>1 DEF ChainInv, PaceTypes, Alive, Nowhere
<1>5. /\ pace[r].task \in ChainTasks \ pace[r].visited /\ pace[r].root \in 1 .. triggers
      /\ started[pace[r].root] = Cardinality(pace[r].visited) + 1
      /\ pace[r].visited \subseteq ChainTasks
  BY <1>1 DEF ChainInv, Links, PaceTypes, Paces
<1>6. CASE waiting' = waiting
  <2>1. Links'
    BY <1>1, <1>4, <1>6 DEF ChainInv, Links
  <2> QED  BY <1>1, <1>3, <2>1 DEF ChainInv, ChainsEnd
<1>7. ASSUME NEW t \in Nexts(r),
             waiting' = waiting \cup {[task |-> t, visited |-> Visited(r),
                                       root |-> pace[r].root, due |-> clock + ChainDelay]}
      PROVE  ChainInv'
  <2> DEFINE d == [task |-> t, visited |-> Visited(r), root |-> pace[r].root,
                   due |-> clock + ChainDelay]
  <2>1. /\ Visited(r) \subseteq ChainTasks /\ t \in ChainTasks \ Visited(r)
        /\ Cardinality(Visited(r)) < MaxDepth
    BY <1>5, <1>7 DEF Nexts, Visited
  <2>2. Cardinality(Visited(r)) = Cardinality(pace[r].visited) + 1
    BY <1>5, TaskSets DEF Visited
  <2>3. /\ d.task \in ChainTasks \ d.visited /\ d.visited \subseteq ChainTasks
        /\ d.root = pace[r].root /\ d.root \in 1 .. triggers
        /\ started[d.root] = Cardinality(d.visited) /\ Cardinality(d.visited) < MaxDepth
    BY <1>5, <2>1, <2>2
  <2>4. waiting' = waiting \cup {d}
    BY <1>7
  <2> HIDE DEF d
  <2>5. Links'
    <3>1. \A c \in waiting' :
            /\ c.task \in ChainTasks \ c.visited /\ c.visited \subseteq ChainTasks
            /\ c.root \in 1 .. triggers
            /\ started[c.root] = Cardinality(c.visited) /\ Cardinality(c.visited) < MaxDepth
      BY <2>3, <2>4 DEF ChainInv, Links
    <3>2. \A s \in RunSlots, c \in waiting' : Alive(s)' => pace'[s].root # c.root
      BY <1>1, <1>4, <2>3, <2>4 DEF ChainInv, Links
    <3>3. \A c, e \in waiting' : c.root = e.root => c = e
      BY <1>1, <2>3, <2>4 DEF ChainInv, Links
    <3> QED  BY <1>1, <1>4, <3>1, <3>2, <3>3 DEF ChainInv, Links
  <2> QED  BY <1>1, <1>3, <2>5 DEF ChainInv, ChainsEnd
<1> QED  BY <1>6, <1>7 DEF Finishes

LEMMA ChainInvStep == ChainInv /\ [ChainNext]_chainVars => ChainInv'
<1> SUFFICES ASSUME ChainInv, [ChainNext]_chainVars PROVE ChainInv'
  OBVIOUS
<1>1. CASE Elapse \/ UNCHANGED chainVars
  <2>1. /\ UNCHANGED <<pace, waiting, holder, lastEnd, section, started, triggers>>
        /\ clock' \in {clock, clock + 1}
    BY <1>1 DEF Elapse, chainVars
  <2>2. PaceTypes'
    <3>1. clock' \in Nat \ {0} /\ 0 .. clock \subseteq 0 .. clock'
      BY <2>1 DEF ChainInv, PaceTypes
    <3>2. section \in [end : 0 .. clock', invalid : BOOLEAN] /\ lastEnd \in 0 .. clock'
      BY <3>1 DEF ChainInv, PaceTypes
    <3> QED  BY <2>1, <3>1, <3>2 DEF ChainInv, PaceTypes
  <2>3. Paced' /\ Links' /\ ChainsEnd'
    BY <2>1 DEF ChainInv, Paced, Links, ChainsEnd, Alive
  <2> QED  BY <2>2, <2>3 DEF ChainInv
<1> QED
  BY <1>1, AcquireStep, CooledStep, LeavesStep, TriggerStep, FiresStep, FinishesStep
     DEF ChainNext

\* The account lock is held by the run in its section, and no end lies in the future,
\* for any tasks, runs and triggers.
THEOREM ChainTyped == ChainSpec => []ChainTypeOK
<1>1. ASSUME ChainInv PROVE ChainTypeOK
  <2>1. {lastEnd, section.end} \subseteq 0 .. clock
    BY <1>1 DEF ChainInv, PaceTypes
  <2>2. \A r \in RunSlots : (holder = r) = (pace[r].at \in {"cooling", "working"})
    BY <1>1 DEF ChainInv, PaceTypes
  <2> QED  BY <1>1, <2>1, <2>2 DEF ChainInv, PaceTypes, Links, ChainTypeOK
<1>2. ChainInv => ChainTypeOK
  BY <1>1
<1> QED  BY <1>2, ChainInvInit, ChainInvStep, PTL DEF ChainSpec

\* Two sections of an account are the cooldown apart, and a trigger leads to a chain of
\* at most MAX_CHAIN_DEPTH runs of different tasks, for any cooldown, depth, number of
\* runs at a time, and edits of the chain while it runs.
THEOREM RunsPaced == ChainSpec => []RunsArePaced
<1>1. ASSUME ChainInv PROVE RunsArePaced
  <2>1. CooldownKept
    BY <1>1 DEF ChainInv, Paced, CooldownKept
  <2> QED  BY <1>1, <2>1 DEF ChainInv, RunsArePaced
<1>2. ChainInv => RunsArePaced
  BY <1>1
<1> QED  BY <1>2, ChainInvInit, ChainInvStep, PTL DEF ChainSpec

-----------------------------------------------------------------------------
(***************************************************************************)
(* The schedule of a task                                                  *)
(*                                                                         *)
(* All times are told by how long after the start of its window a moment   *)
(* is (Offset), which the clock counts up to a day.  What is chosen lies   *)
(* in a window (ChosenWithin), so what wakes is in one (WakesWithin) and   *)
(* so is the cron job (FiresWithin); the job comes before the next window  *)
(* begins (NextIsNear), and in a window the task was tried or will be      *)
(* (NotMissed).                                                            *)
(***************************************************************************)

\* How long after the start of its window a moment is, and how long the window is.
Offset(t, win) == (t - win[1]) % Day
Span(win) == ((win[2] - win[1] - 1) % Day) + 1
WindowPairs == (0..Day - 1) \X (0..Day - 1)

LEMMA DayType ==
  Day \in Nat \ {0} /\ Horizon \in Nat /\ Horizon >= Day /\ FixedAt \in 0..Day - 1
BY ScheduleAssumption

LEMMA MultipleUp ==
  ASSUME NEW D \in Nat \ {0}, NEW k \in Int, k >= 1 PROVE D * k >= D
OBVIOUS

LEMMA MultipleDown ==
  ASSUME NEW D \in Nat \ {0}, NEW k \in Int, k <= -1 PROVE D * k <= -D
OBVIOUS

LEMMA DivMod ==
  ASSUME NEW D \in Nat \ {0}, NEW a \in Int
  PROVE  a % D \in 0..D - 1 /\ a \div D \in Int /\ a = D * (a \div D) + (a % D)
OBVIOUS

LEMMA Distributes ==
  ASSUME NEW D \in Nat \ {0}, NEW a \in Int, NEW b \in Int
  PROVE  D * (a - b) = D * a - D * b
OBVIOUS

\* The remainder of a division is unique.
LEMMA ModUnique ==
  ASSUME NEW D \in Nat \ {0}, NEW a \in Int, NEW q \in Int, NEW r \in 0..D - 1,
         a = D * q + r
  PROVE  a % D = r
<1> DEFINE p == a \div D
           m == a % D
<1>1. m \in 0..D - 1 /\ p \in Int /\ a = D * p + m
  BY DivMod
<1> HIDE DEF p, m
<1>2. D * (p - q) = r - m
  BY <1>1, Distributes
<1>3. ~(p - q >= 1) /\ ~(p - q <= -1)
  BY <1>1, <1>2, MultipleUp, MultipleDown
<1>4. p = q
  BY <1>1, <1>3
<1> QED  BY <1>1, <1>4 DEF m

\* Remainders by a day are written so that no prover looks inside.
Rest(a) == a % Day

LEMMA RestType ==
  ASSUME NEW a \in Int
  PROVE  Rest(a) \in 0..Day - 1 /\ \E p \in Int : a = Day * p + Rest(a)
BY DivMod, DayType DEF Rest

LEMMA RestUnique ==
  ASSUME NEW p \in Int, NEW r \in 0..Day - 1 PROVE Rest(Day * p + r) = r
<1>1. Day \in Nat \ {0} /\ Day * p \in Int
  BY DayType
<1>2. Day * p + r \in Int
  BY <1>1
<1> QED  BY <1>1, <1>2, ModUnique DEF Rest

\* Numbers a little apart, or a day more or less.
LEMMA RestShift ==
  ASSUME NEW a \in Int, NEW k \in Int, Rest(a) + k \in 0..Day - 1
  PROVE  /\ Rest(a + k) = Rest(a) + k
         /\ Rest(a + k + Day) = Rest(a) + k /\ Rest(a + k - Day) = Rest(a) + k
<1>1. PICK p \in Int : a = Day * p + Rest(a)
  BY RestType
<1>2. Day \in Nat \ {0} /\ Rest(a) \in 0..Day - 1
  BY DayType, RestType
<1> DEFINE r == Rest(a) + k
<1>3. r \in 0..Day - 1 /\ r \in Int
  BY <1>2
<1>4. p + 1 \in Int /\ p - 1 \in Int
  OBVIOUS
<1>5. a + k = Day * p + r /\ a + k + Day = Day * (p + 1) + r /\ a + k - Day = Day * (p - 1) + r
  BY <1>1, <1>2
<1> HIDE DEF r
<1>6. Rest(a + k) = r /\ Rest(a + k + Day) = r /\ Rest(a + k - Day) = r
  BY <1>3, <1>4, <1>5, RestUnique
<1> QED  BY <1>6 DEF r

LEMMA RestSmall ==
  ASSUME NEW r \in 0..Day - 1 PROVE Rest(r) = r
<1>1. Day * 0 + r = r /\ 0 \in Int
  BY DayType
<1> QED  BY <1>1, RestUnique

LEMMA OffsetIs ==
  ASSUME NEW win \in WindowPairs
  PROVE  \A t \in Int : Offset(t, win) = Rest(t - win[1])
BY DEF Offset, Rest

\* Offsets follow the clock.
LEMMA OffsetFacts ==
  ASSUME NEW win \in WindowPairs, NEW t \in Int
  PROVE  /\ Offset(t, win) \in 0..Day - 1
         /\ Offset(t + 1, win) = IF Offset(t, win) = Day - 1 THEN 0 ELSE Offset(t, win) + 1
         /\ \A k \in Nat : Offset(t, win) + k < Day => Offset(t + k, win) = Offset(t, win) + k
<1> DEFINE a == t - win[1]
<1>1. a \in Int /\ win[1] \in 0..Day - 1 /\ Day \in Nat \ {0}
  BY DayType DEF WindowPairs
<1>2. Offset(t, win) = Rest(a) /\ Rest(a) \in 0..Day - 1
  BY <1>1, OffsetIs, RestType
<1>3. \A k \in Int : Offset(t + k, win) = Rest(a + k)
  <2> TAKE k \in Int
  <2>1. (t + k) - win[1] = a + k
    BY <1>1
  <2>2. Offset(t + k, win) = Rest((t + k) - win[1])
    BY DEF Offset, Rest
  <2> QED  BY <2>1, <2>2
<1> HIDE DEF a
<1>4. ASSUME NEW k \in Nat, Rest(a) + k < Day PROVE Offset(t + k, win) = Rest(a) + k
  <2>1. Rest(a) + k \in 0..Day - 1 /\ k \in Int
    BY <1>1, <1>2, <1>4
  <2> QED  BY <1>1, <1>3, <2>1, RestShift
<1>5. CASE Rest(a) = Day - 1
  <2> DEFINE k == 1 - Day
  <2>1. k \in Int /\ Rest(a) + k = 0 /\ Rest(a) + k \in 0..Day - 1
    BY <1>1, <1>5
  <2>2. a + k + Day = a + 1
    BY <1>1
  <2> HIDE DEF k
  <2>3. Rest(a + k + Day) = 0
    BY <1>1, <2>1, RestShift
  <2>4. Offset(t + 1, win) = 0
    BY <1>3, <2>2, <2>3
  <2> QED  BY <1>2, <1>4, <1>5, <2>4
<1>6. CASE Rest(a) # Day - 1
  <2>1. Offset(t + 1, win) = Rest(a) + 1
    BY <1>1, <1>2, <1>4, <1>6
  <2> QED  BY <1>2, <1>4, <1>6, <2>1
<1> QED  BY <1>5, <1>6

\* The first time of a trigger after t.
LEMMA NextAtIs ==
  ASSUME NEW win \in WindowPairs, NEW t \in Nat
  PROVE  NextAt(win[1], t) = t - Offset(t, win) + Day
         /\ Offset(t - Offset(t, win) + Day, win) = 0
<1> DEFINE h == win[1]
           o == Offset(t, win)
           u == t - o + Day
<1>0. o = Rest(t - h)
  BY DEF Offset, Rest
<1>1. h \in 0..Day - 1 /\ o \in 0..Day - 1 /\ Day \in Nat \ {0}
  <2>1. t \in Int
    OBVIOUS
  <2>2. o \in 0..Day - 1
    BY <2>1, OffsetFacts
  <2> QED  BY <2>2, DayType DEF WindowPairs
<1> HIDE DEF h, o
<1>2. u \in t + 1..t + Day /\ u \in Int
  BY <1>1
<1>3. Rest(t - h - o) = 0 /\ Rest(t - h - o + Day) = 0
  <2> DEFINE a == t - h
             k == 0 - o
  <2>1. a \in Int /\ k \in Int /\ Rest(a) + k = 0 /\ Rest(a) + k \in 0..Day - 1
    BY <1>0, <1>1
  <2>2. t - h - o = a + k
    BY <1>1
  <2>3. Rest(a + k) = 0 /\ Rest(a + k + Day) = 0
    <3> HIDE DEF a, k
    <3> QED  BY <2>1, RestShift
  <2> QED  BY <2>2, <2>3
<1>4. Rest(u) = h
  <2>1. t - h - o \in Int /\ Rest(t - h - o) + h \in 0..Day - 1
    BY <1>1, <1>3
  <2>2. Rest(t - h - o + h + Day) = h
    BY <1>1, <1>3, <2>1, RestShift
  <2>3. t - h - o + h + Day = u
    BY <1>1
  <2> QED  BY <2>2, <2>3
<1>5. ASSUME NEW v \in t + 1..t + Day, Rest(v) = h PROVE v = u
  <2>1. v \in Int /\ v - u \in -(Day - 1)..Day - 1
    BY <1>1, <1>2
  <2>2. PICK q \in Int : v = Day * q + h
    BY <1>5, <2>1, RestType
  <2>3. PICK p \in Int : u = Day * p + h
    BY <1>2, <1>4, RestType
  <2>4. Day * (q - p) = v - u
    BY <1>1, <2>2, <2>3, Distributes
  <2>5. ~(q - p >= 1) /\ ~(q - p <= -1)
    BY <1>1, <2>1, <2>4, MultipleUp, MultipleDown
  <2>6. q = p
    BY <2>5
  <2> QED  BY <2>2, <2>3, <2>6
<1> HIDE DEF u
<1>6. NextAt(h, t) = u
  <2>1. NextAt(h, t) = CHOOSE v \in t + 1..t + Day : Rest(v) = h
    BY DEF NextAt, Rest
  <2> QED  BY <1>2, <1>4, <1>5, <2>1
<1>7. Offset(u, win) = 0
  <2>1. u - h = t - h - o + Day
    BY <1>1 DEF u
  <2> QED  BY <1>2, <1>3, <2>1, OffsetIs DEF h
<1> QED  BY <1>6, <1>7 DEF h, o, u

LEMMA SpanType ==
  ASSUME NEW win \in WindowPairs
  PROVE  /\ Span(win) \in 1..Day
         /\ Span(win) = IF win[2] > win[1] THEN win[2] - win[1] ELSE win[2] - win[1] + Day
<1> DEFINE b == win[2] - win[1] - 1
<1>1. b \in Int /\ win[1] \in 0..Day - 1 /\ win[2] \in 0..Day - 1 /\ Day \in Nat \ {0}
  BY DayType DEF WindowPairs
<1>2. Span(win) = Rest(b) + 1
  BY DEF Span, Rest
<1>3. Rest(b) \in 0..Day - 1
  BY <1>1, RestType
<1>4. CASE win[2] > win[1]
  <2>1. Rest(b) = b
    BY <1>1, <1>4, RestSmall
  <2> QED  BY <1>1, <1>2, <1>3, <1>4, <2>1
<1>5. CASE ~(win[2] > win[1])
  <2>1. b + Day \in 0..Day - 1
    BY <1>1, <1>5
  <2>2. Rest(b + Day) = b + Day
    BY <2>1, RestSmall
  <2>3. Rest(b + Day + 0 - Day) = b + Day
    <3>1. b + Day \in Int /\ 0 \in Int /\ Rest(b + Day) + 0 \in 0..Day - 1
      BY <1>1, <2>1, <2>2
    <3> QED  BY <2>2, <3>1, RestShift
  <2>4. b + Day + 0 - Day = b
    BY <1>1
  <2>5. Rest(b) = b + Day
    BY <2>3, <2>4
  <2> QED  BY <1>1, <1>2, <1>3, <1>5, <2>5
<1> QED  BY <1>4, <1>5

\* A window is open for Span ticks from its start on.
LEMMA WindowIs ==
  ASSUME window \in WindowPairs, NEW t \in Nat
  PROVE  /\ WindowAt(t)[1] \in Int /\ WindowAt(t)[2] - WindowAt(t)[1] = Span(window)
         /\ WindowAt(t)[2] \in Int
         /\ InWindow(t) <=> Offset(t, window) < Span(window)
         /\ InWindow(t) => /\ WindowAt(t)[1] = t - Offset(t, window)
                           /\ WindowAt(t)[2] = t - Offset(t, window) + Span(window)
<1> DEFINE s == window[1]
           e == window[2]
           m == Rest(t)
<1>1. /\ s \in 0..Day - 1 /\ e \in 0..Day - 1 /\ m \in 0..Day - 1 /\ Day \in Nat \ {0}
      /\ Midnight(t) = t - m /\ t \in Int
  <2>1. Midnight(t) = t - m
    BY DEF Midnight, Rest
  <2> QED  BY <2>1, DayType, RestType DEF WindowPairs
<1>2. Offset(t, window) = IF m >= s THEN m - s ELSE m - s + Day
  <2>0. Offset(t, window) = Rest(t - s)
    BY <1>1, OffsetIs
  <2>1. CASE m >= s
    <3>1. -s \in Int /\ Rest(t) + (-s) \in 0..Day - 1 /\ t + (-s) = t - s
      BY <1>1, <2>1
    <3>2. Rest(t + (-s)) = m - s
      BY <1>1, <3>1, RestShift
    <3> QED  BY <2>0, <2>1, <3>1, <3>2
  <2>2. CASE ~(m >= s)
    <3>1. Day - s \in Int /\ Rest(t) + (Day - s) \in 0..Day - 1 /\ t + (Day - s) - Day = t - s
      BY <1>1, <2>2
    <3>2. Rest(t + (Day - s) - Day) = m + (Day - s)
      BY <1>1, <3>1, RestShift
    <3>3. Rest(t - s) = m - s + Day
      BY <1>1, <3>1, <3>2
    <3> QED  BY <2>0, <2>2, <3>3
  <2> QED  BY <2>1, <2>2
<1>3. Span(window) = IF e > s THEN e - s ELSE e - s + Day
  BY SpanType
<1>4. WindowAt(t) = IF t - m + e > t - m + s THEN <<t - m + s, t - m + e>>
                    ELSE IF t < t - m + e THEN <<t - m + s - Day, t - m + e>>
                    ELSE <<t - m + s, t - m + e + Day>>
  BY <1>1 DEF WindowAt
<1> HIDE DEF s, e, m
<1>5. CASE e > s
  <2>1. WindowAt(t) = <<t - m + s, t - m + e>>
    BY <1>1, <1>4, <1>5
  <2>2. WindowAt(t)[1] = t - m + s /\ WindowAt(t)[2] = t - m + e
    BY <2>1
  <2> QED  BY <1>1, <1>2, <1>3, <1>5, <2>2 DEF InWindow
<1>6. CASE ~(e > s) /\ m < e
  <2>1. WindowAt(t) = <<t - m + s - Day, t - m + e>>
    BY <1>1, <1>4, <1>6
  <2>2. WindowAt(t)[1] = t - m + s - Day /\ WindowAt(t)[2] = t - m + e
    BY <2>1
  <2> QED  BY <1>1, <1>2, <1>3, <1>6, <2>2 DEF InWindow
<1>7. CASE ~(e > s) /\ ~(m < e)
  <2>1. WindowAt(t) = <<t - m + s, t - m + e + Day>>
    BY <1>1, <1>4, <1>7
  <2>2. WindowAt(t)[1] = t - m + s /\ WindowAt(t)[2] = t - m + e + Day
    BY <2>1
  <2> QED  BY <1>1, <1>2, <1>3, <1>7, <2>2 DEF InWindow
<1> QED  BY <1>1, <1>5, <1>6, <1>7

-----------------------------------------------------------------------------
(* Types, and what holds whatever is late and whatever is edited *)

Modes == {"off", "fixed", "range"}
CronJobs == [next : Nat, hour : 0..Day - 1]
WrapStates == [at : {"idle", "fresh", "sleep", "run"}, direct : BOOLEAN]

PlanTyped ==
  /\ now \in Nat /\ now \in Day..Horizon /\ window \in Windows /\ mode \in Modes
  /\ adaptive \in BOOLEAN /\ settled \in BOOLEAN
  /\ cron \in CronJobs /\ shot \in Nat /\ comp \in Nat /\ adapt \in Nat
  /\ wraps \in [Wrappers -> WrapStates]
  /\ last \in [time : Nat, success : BOOLEAN] /\ began \in [time : Nat, ranged : BOOLEAN]
  /\ edit \in [at : {"none", "job", "plan", "set"}, comp : Nat]

\* Nothing planned is overdue, and a sync leaves the job at its cooldown.
PlanOrdered ==
  /\ cron = NoJob \/ cron.next >= now
  /\ shot = 0 \/ shot >= now
  /\ last.time <= now /\ began.time <= now
  /\ edit.at = "set" => edit.comp >= now
  /\ edit.at # "set" => edit.comp = 0
  /\ settled => edit.at = "none"
  /\ settled /\ mode # "off" => cron # NoJob
  /\ ~adaptive => adapt = 0
  /\ settled /\ cron # NoJob /\ adapt > now => cron.next = adapt
IdleClean == \A w \in Wrappers : wraps[w].at = "idle" => ~wraps[w].direct

PlanInv == PlanTyped /\ PlanOrdered /\ IdleClean

LEMMA WindowsType == Windows \subseteq WindowPairs
BY ScheduleAssumption DEF WindowPairs

LEMMA NextAtType ==
  ASSUME NEW h \in 0..Day - 1, NEW t \in Nat
  PROVE  NextAt(h, t) \in Nat /\ NextAt(h, t) > t /\ NextAt(h, t) <= t + Day
<1> DEFINE win == <<h, 0>>
<1>1. win \in WindowPairs /\ win[1] = h /\ Day \in Nat \ {0} /\ t \in Int
  BY DayType DEF WindowPairs
<1> HIDE DEF win
<1>2. Offset(t, win) \in 0..Day - 1
  BY <1>1, OffsetFacts
<1>3. NextAt(h, t) = t - Offset(t, win) + Day
  BY <1>1, NextAtIs
<1> QED  BY <1>1, <1>2, <1>3

LEMMA NewJobType ==
  ASSUME PlanTyped
  PROVE  /\ NewJob \in CronJobs /\ NewJob # NoJob /\ NewJob.next > now /\ NewJob.next \in Nat
<1>1. TriggerHour \in 0..Day - 1
  BY DayType, WindowsType DEF TriggerHour, PlanTyped, WindowPairs
<1>2. NextAt(TriggerHour, now) \in Nat /\ NextAt(TriggerHour, now) > now /\ now \in Nat
  BY <1>1, NextAtType DEF PlanTyped
<1> QED  BY <1>1, <1>2 DEF NewJob, NoJob, CronJobs

LEMMA CompensationsType ==
  ASSUME PlanTyped
  PROVE  \A c \in Compensations : c \in Nat /\ c >= now /\ mode = "range"
<1>1. WindowAt(now)[2] \in Int /\ now \in Nat
  BY WindowIs, WindowsType DEF PlanTyped
<1> QED  BY <1>1 DEF Compensations

\* The actions that leave the plan alone, or the wrappers.
LEMMA PutKeeps ==
  ASSUME PlanInv, NEW w \in Wrappers, NEW v \in WrapStates, Put(w, v),
         v.at = "idle" => ~v.direct
  PROVE  wraps' \in [Wrappers -> WrapStates] /\ IdleClean'
BY DEF PlanInv, PlanTyped, IdleClean, Put

LEMMA PutIdle == IdleWrap \in WrapStates /\ IdleWrap.at = "idle" /\ ~IdleWrap.direct
BY DEF IdleWrap, WrapStates

LEMMA PutState ==
  ASSUME PlanInv, NEW w \in Wrappers, NEW s \in {"fresh", "sleep", "run"}
  PROVE  [wraps[w] EXCEPT !.at = s] \in WrapStates /\ [wraps[w] EXCEPT !.at = s].at = s
         /\ [wraps[w] EXCEPT !.at = s].direct = wraps[w].direct
BY DEF PlanInv, PlanTyped, WrapStates

LEMMA StartRunKeeps ==
  ASSUME PlanInv, NEW w \in Wrappers, StartRun(w)
  PROVE  /\ wraps' \in [Wrappers -> WrapStates] /\ IdleClean'
         /\ began' = [time |-> now, ranged |-> mode = "range"]
         /\ began' \in [time : Nat, ranged : BOOLEAN]
<1>1. wraps' \in [Wrappers -> WrapStates] /\ IdleClean'
  BY PutKeeps, PutIdle, PutState DEF StartRun
<1>2. now \in Nat /\ began' = [time |-> now, ranged |-> mode = "range"]
  BY DEF StartRun, PlanInv, PlanTyped
<1>3. (mode = "range") \in BOOLEAN
  OBVIOUS
<1> QED  BY <1>1, <1>2, <1>3

LEMMA JobMoves ==
  ASSUME NEW job \in CronJobs, NEW n \in Nat, NEW moved, moved = [job EXCEPT !.next = n]
  PROVE  /\ moved \in CronJobs /\ moved.next = n /\ moved.hour = job.hour
         /\ n > 0 => moved # NoJob
BY DEF CronJobs, NoJob

LEMMA ClockKeepsPlan == ASSUME PlanInv, Tick PROVE PlanInv'
<1>1. PlanTyped'
  BY DayType DEF PlanInv, PlanTyped, Tick, config, plan, bounds
<1>2. PlanOrdered'
  BY DEF PlanInv, PlanTyped, PlanOrdered, Tick, config, plan, bounds, NoJob, CronJobs
<1>3. IdleClean'
  BY DEF PlanInv, IdleClean, Tick
<1> QED  BY <1>1, <1>2, <1>3 DEF PlanInv

LEMMA JobFiresKeepsPlan ==
  ASSUME PlanInv, NEW w \in Wrappers, JobFires(w) PROVE PlanInv'
<1>t. PlanTyped /\ PlanOrdered /\ now \in Nat /\ Day \in Nat \ {0} /\ now >= Day
  BY DayType DEF PlanInv, PlanTyped
<1>1. wraps' \in [Wrappers -> WrapStates] /\ IdleClean'
  BY PutKeeps DEF JobFires, WrapStates
<1>2. PICK n : n = NextAt(cron.hour, now)
  OBVIOUS
<1>3. n \in Nat /\ n > now
  BY <1>t, <1>2, NextAtType DEF PlanTyped, CronJobs
<1>4. cron' \in CronJobs /\ cron'.next = n /\ cron' # NoJob
  <2>1. cron' = [cron EXCEPT !.next = n] /\ cron \in CronJobs
    BY <1>t, <1>2 DEF JobFires, PlanTyped
  <2> QED  BY <1>t, <1>3, <2>1, JobMoves
<1>5. cron # NoJob
  BY <1>t DEF JobFires, NoJob
<1>6. PlanTyped'
  BY <1>t, <1>1, <1>4 DEF PlanTyped, JobFires, config, bounds
<1>7. PlanOrdered'
  BY <1>t, <1>3, <1>4, <1>5 DEF PlanTyped, PlanOrdered, JobFires, config, bounds
<1> QED  BY <1>1, <1>6, <1>7 DEF PlanInv

LEMMA ShotFiresKeepsPlan ==
  ASSUME PlanInv, NEW w \in Wrappers, ShotFires(w) PROVE PlanInv'
<1>1. wraps' \in [Wrappers -> WrapStates] /\ IdleClean'
  BY PutKeeps DEF ShotFires, WrapStates
<1>2. PlanTyped'
  BY <1>1 DEF PlanInv, PlanTyped, ShotFires, config, bounds
<1>3. PlanOrdered'
  BY DEF PlanInv, PlanOrdered, ShotFires, config, bounds
<1> QED  BY <1>1, <1>2, <1>3 DEF PlanInv

LEMMA WrappersKeepPlan ==
  ASSUME PlanInv, NEW w \in Wrappers,
         WrapDisabled(w) \/ WrapRuns(w) \/ WrapWakes(w)
  PROVE  PlanInv'
<1>t. PlanTyped /\ PlanOrdered /\ now \in Nat
  BY DEF PlanInv, PlanTyped
<1>1. /\ UNCHANGED <<now, config, cron, shot, last, edit, settled, bounds>>
      /\ comp' \in {comp, 0} /\ adapt' \in {adapt, 0}
  BY DEF WrapDisabled, WrapRuns, WrapWakes, plan
<1>2. /\ wraps' \in [Wrappers -> WrapStates] /\ IdleClean'
      /\ began' \in [time : Nat, ranged : BOOLEAN] /\ began'.time <= now
  <2>1. CASE WrapDisabled(w)
    BY <1>t, <2>1, PutKeeps, PutIdle DEF WrapDisabled, PlanTyped, PlanOrdered
  <2>2. CASE StartRun(w)
    BY <1>t, <2>2, StartRunKeeps
  <2> QED  BY <2>1, <2>2 DEF WrapRuns, WrapWakes
<1>3. PlanTyped'
  BY <1>t, <1>1, <1>2 DEF PlanTyped, config, bounds
<1>4. PlanOrdered'
  BY <1>t, <1>1, <1>2 DEF PlanTyped, PlanOrdered, config, bounds
<1> QED  BY <1>2, <1>3, <1>4 DEF PlanInv

LEMMA WrapDrawsKeepsPlan ==
  ASSUME PlanInv, NEW w \in Wrappers, WrapDraws(w) PROVE PlanInv'
<1>t. PlanTyped /\ PlanOrdered /\ now \in Nat
  BY DEF PlanInv, PlanTyped
<1>1. PICK t \in now..now + (WindowAt(now)[2] - WindowAt(now)[1]) :
         IF t = now THEN Put(w, [wraps[w] EXCEPT !.at = "sleep"]) /\ UNCHANGED shot
                    ELSE Put(w, IdleWrap) /\ shot' = t
  BY DEF WrapDraws
<1>2. WindowAt(now)[2] - WindowAt(now)[1] \in Int
  BY <1>t, WindowIs, SpanType, WindowsType, DayType DEF PlanTyped
<1>3. t \in Nat /\ t >= now
  BY <1>t, <1>1, <1>2
<1>4. wraps' \in [Wrappers -> WrapStates] /\ IdleClean'
  BY <1>1, PutKeeps, PutIdle, PutState
<1>5. shot' \in Nat /\ (shot' = 0 \/ shot' >= now)
  BY <1>t, <1>1, <1>3 DEF PlanTyped, PlanOrdered
<1>6. PlanTyped'
  BY <1>t, <1>4, <1>5 DEF PlanTyped, WrapDraws, config, bounds
<1>7. PlanOrdered'
  BY <1>t, <1>5 DEF PlanOrdered, WrapDraws, config, bounds
<1> QED  BY <1>4, <1>6, <1>7 DEF PlanInv

LEMMA WrapEndsKeepsPlan ==
  ASSUME PlanInv, NEW w \in Wrappers, WrapEnds(w) PROVE PlanInv'
<1>t. PlanTyped /\ PlanOrdered /\ now \in Nat /\ now > 0
  BY DayType DEF PlanInv, PlanTyped
<1>1. wraps' \in [Wrappers -> WrapStates] /\ IdleClean'
  BY PutKeeps, PutIdle DEF WrapEnds
<1>2. last' \in [time : Nat, success : BOOLEAN] /\ last'.time = now
  BY <1>t DEF WrapEnds
<1>3. PICK c \in IF adaptive THEN Cooldowns \cup {0} ELSE {0} :
         IF c = 0 THEN UNCHANGED <<cron, adapt>>
         ELSE /\ adapt' = now + c
              /\ cron' = IF cron = NoJob THEN cron ELSE [cron EXCEPT !.next = now + c]
  BY DEF WrapEnds
<1>4. c \in Nat /\ (c # 0 => adaptive)
  BY <1>3, ScheduleAssumption
<1>5. CASE c = 0
  <2>1. PlanTyped'
    BY <1>t, <1>1, <1>2, <1>3, <1>5 DEF PlanTyped, WrapEnds, config, bounds
  <2>2. PlanOrdered'
    BY <1>t, <1>2, <1>3, <1>5 DEF PlanTyped, PlanOrdered, WrapEnds, config, bounds
  <2> QED  BY <1>1, <2>1, <2>2 DEF PlanInv
<1>6. CASE c # 0
  <2>1. /\ adapt' = now + c /\ now + c \in Nat
        /\ cron' \in CronJobs /\ (cron = NoJob => cron' = cron)
        /\ cron # NoJob => cron'.next = now + c /\ cron' # NoJob
    <3>1. now + c \in Nat /\ now + c > 0
      BY <1>t, <1>4
    <3>2. CASE cron = NoJob
      BY <1>t, <1>3, <1>6, <3>1, <3>2 DEF PlanTyped
    <3>3. CASE cron # NoJob
      <4>1. cron' = [cron EXCEPT !.next = now + c] /\ adapt' = now + c /\ cron \in CronJobs
        BY <1>t, <1>3, <1>6, <3>3 DEF PlanTyped
      <4>2. cron' \in CronJobs /\ cron'.next = now + c /\ cron' # NoJob
        BY <3>1, <4>1, JobMoves
      <4> QED  BY <3>1, <3>3, <4>1, <4>2
    <3> QED  BY <3>2, <3>3
  <2>2. PlanTyped'
    BY <1>t, <1>1, <1>2, <2>1 DEF PlanTyped, WrapEnds, config, bounds
  <2>3. PlanOrdered'
    BY <1>t, <1>2, <1>4, <1>6, <2>1 DEF PlanTyped, PlanOrdered, WrapEnds, config, bounds
  <2> QED  BY <1>1, <2>2, <2>3 DEF PlanInv
<1> QED  BY <1>5, <1>6

LEMMA SyncsRangeIs ==
  ASSUME PlanTyped, SyncsRange
  PROVE  cron' \in CronJobs /\ cron'.next >= now /\ cron' # NoJob /\ comp' \in Nat
<1>t. now \in Nat /\ now > 0 /\ comp \in Nat /\ Day \in Nat
  BY DayType DEF PlanTyped
<1>1. CASE cron' = NewJob /\ comp' \in {comp, 0}
  <2>1. NewJob \in CronJobs /\ NewJob # NoJob /\ NewJob.next >= now
    BY <1>t, NewJobType
  <2> QED  BY <1>t, <1>1, <2>1
<1>2. CASE \E c \in Nat : c >= now /\ comp' = c /\ cron' = [NewJob EXCEPT !.next = c]
  BY <1>t, <1>2, NewJobType, JobMoves
<1> QED  BY <1>t, <1>1, <1>2, CompensationsType DEF SyncsRange, Ahead

LEMMA SyncKeepsPlan == ASSUME PlanInv, Sync PROVE PlanInv'
<1>t. PlanTyped /\ PlanOrdered /\ IdleClean /\ now \in Nat /\ now > 0
  BY DayType DEF PlanInv, PlanTyped
<1>1. shot' \in {shot, 0} /\ settled' = (settled \/ edit.at = "none")
      /\ UNCHANGED <<now, config, wraps, last, edit, began, bounds>>
  BY DEF Sync
<1>2. /\ cron' \in CronJobs /\ (cron' = NoJob \/ cron'.next >= now)
      /\ comp' \in Nat /\ adapt' \in {adapt, 0}
      /\ mode # "off" => cron' # NoJob
      /\ cron' # NoJob /\ adapt' > now => cron'.next = adapt'
  <2>1. CASE mode = "off"
    BY <1>t, <2>1, DayType DEF Sync, PlanTyped, NoJob, CronJobs
  <2>0. NewJob \in CronJobs /\ NewJob # NoJob /\ NewJob.next >= now
    BY <1>t, NewJobType
  <2>2. CASE mode # "off" /\ adapt # 0
    <3>0. adapt \in Nat /\ comp \in Nat
      BY <1>t DEF PlanTyped
    <3>1. CASE adapt > now
      <4>1. cron' = [NewJob EXCEPT !.next = adapt] /\ comp' = comp /\ adapt' = adapt
        BY <2>2, <3>1 DEF Sync, SyncsEnabled
      <4>2. cron' \in CronJobs /\ cron'.next = adapt /\ cron' # NoJob
        BY <1>t, <2>0, <3>0, <3>1, <4>1, JobMoves
      <4> QED  BY <1>t, <2>2, <3>0, <3>1, <4>1, <4>2
    <3>2. CASE ~(adapt > now)
      BY <1>t, <2>0, <2>2, <3>0, <3>2 DEF Sync, SyncsEnabled
    <3> QED  BY <3>1, <3>2
  <2>3. CASE mode # "off" /\ adapt = 0
    <3>1. CASE SyncsRange /\ adapt' = 0
      BY <1>t, <2>3, <3>1, SyncsRangeIs
    <3>2. CASE cron' = NewJob /\ comp' = comp /\ adapt' = 0
      BY <1>t, <2>0, <2>3, <3>2 DEF PlanTyped
    <3> QED  BY <2>3, <3>1, <3>2 DEF Sync, SyncsEnabled
  <2> QED  BY <2>1, <2>2, <2>3
<1>3. PlanTyped'
  BY <1>t, <1>1, <1>2 DEF PlanTyped, config, bounds
<1>4. PlanOrdered'
  BY <1>t, <1>1, <1>2 DEF PlanTyped, PlanOrdered, config, bounds
<1>5. IdleClean'
  BY <1>t, <1>1 DEF IdleClean
<1> QED  BY <1>3, <1>4, <1>5 DEF PlanInv

LEMMA EditKeepsPlan ==
  ASSUME PlanInv, EditWrites \/ EditReplaces \/ EditComputes \/ EditPlans \/ Restart
  PROVE  PlanInv'
<1>t. PlanTyped /\ PlanOrdered /\ IdleClean /\ now \in Nat /\ now > 0
  BY DayType DEF PlanInv, PlanTyped
<1>0. NoJob \in CronJobs /\ NoEdit \in [at : {"none", "job", "plan", "set"}, comp : Nat]
      /\ NoEdit.at = "none" /\ NoEdit.comp = 0
  BY DayType DEF NoJob, CronJobs, NoEdit
<1>1. CASE EditWrites
  <2>1. edit' \in [at : {"none", "job", "plan", "set"}, comp : Nat]
        /\ edit'.at = "job" /\ edit'.comp = 0
    BY <1>1, <1>0 DEF EditWrites, NoEdit
  <2>2. mode' \in Modes /\ window' \in Windows
    BY <1>t, <1>1 DEF EditWrites, Modes, PlanTyped
  <2>3. PlanTyped'
    BY <1>t, <1>1, <2>1, <2>2 DEF PlanTyped, EditWrites, plan
  <2>4. PlanOrdered' /\ IdleClean'
    BY <1>t, <1>1, <2>1 DEF PlanOrdered, IdleClean, EditWrites, plan
  <2> QED  BY <2>3, <2>4 DEF PlanInv
<1>2. CASE EditReplaces
  <2>1. /\ cron' \in CronJobs /\ (cron' = NoJob \/ cron'.next > now)
        /\ shot' \in {shot, 0} /\ comp' \in {comp, 0} /\ adapt' \in {adapt, 0}
    BY <1>t, <1>0, <1>2, NewJobType DEF EditReplaces
  <2>2. /\ edit' \in [at : {"none", "job", "plan", "set"}, comp : Nat]
        /\ edit'.at \in {"none", "plan"} /\ edit'.comp = 0 /\ ~settled
    BY <1>t, <1>0, <1>2 DEF EditReplaces, PlanOrdered, PlanTyped
  <2>3. PlanTyped'
    BY <1>t, <1>2, <2>1, <2>2 DEF PlanTyped, EditReplaces, config, bounds
  <2>4. UNCHANGED <<now, config, wraps, last, settled, began>>
    BY <1>2 DEF EditReplaces
  <2>5. cron' = NoJob \/ cron'.next >= now
    BY <1>t, <2>1 DEF CronJobs
  <2>6. PlanOrdered' /\ IdleClean'
    BY <1>t, <2>1, <2>2, <2>4, <2>5 DEF PlanOrdered, IdleClean, config
  <2> QED  BY <2>3, <2>6 DEF PlanInv
<1>3. CASE EditComputes
  <2>1. /\ edit' \in [at : {"none", "job", "plan", "set"}, comp : Nat]
        /\ \/ edit'.at = "none" /\ edit'.comp = 0
           \/ edit'.at = "set" /\ edit'.comp >= now
        /\ ~settled
    <3>1. CASE Compensations = {} /\ edit' = NoEdit
      BY <1>t, <1>0, <1>3, <3>1 DEF EditComputes, PlanOrdered
    <3>2. CASE \E c \in Compensations : edit' = [at |-> "set", comp |-> c]
      BY <1>t, <1>3, <3>2, CompensationsType DEF EditComputes, PlanOrdered
    <3> QED  BY <1>3, <3>1, <3>2 DEF EditComputes
  <2>3. PlanTyped'
    BY <1>t, <1>3, <2>1 DEF PlanTyped, EditComputes, config, plan, bounds
  <2>4. PlanOrdered' /\ IdleClean'
    BY <1>t, <1>3, <2>1 DEF PlanOrdered, IdleClean, EditComputes, config, plan, bounds
  <2> QED  BY <2>3, <2>4 DEF PlanInv
<1>4. CASE EditPlans
  <2>1. comp' \in Nat /\ edit.comp >= now /\ edit' = NoEdit /\ ~settled
    BY <1>t, <1>4 DEF EditPlans, PlanTyped, PlanOrdered
  <2>2. cron' \in CronJobs /\ (cron' = NoJob \/ cron'.next >= now)
    <3>1. edit.comp \in Nat
      BY <1>t DEF PlanTyped
    <3>2. CASE cron = NoJob
      BY <1>0, <1>4, <3>2 DEF EditPlans
    <3>3. CASE cron # NoJob
      <4>1. cron' = [cron EXCEPT !.next = edit.comp] /\ cron \in CronJobs
        BY <1>t, <1>4, <3>3 DEF EditPlans, PlanTyped
      <4> QED  BY <2>1, <3>1, <4>1, JobMoves
    <3> QED  BY <3>2, <3>3
  <2>3. PlanTyped'
    BY <1>t, <1>0, <1>4, <2>1, <2>2 DEF PlanTyped, EditPlans, config, bounds
  <2>4. PlanOrdered' /\ IdleClean'
    BY <1>t, <1>0, <1>4, <2>1, <2>2 DEF PlanOrdered, IdleClean, EditPlans, config, bounds
  <2> QED  BY <2>3, <2>4 DEF PlanInv
<1>5. CASE Restart
  <2>1. wraps' \in [Wrappers -> WrapStates] /\ IdleClean'
    BY <1>5, PutIdle DEF Restart, IdleClean
  <2>2. PlanTyped'
    BY <1>t, <1>0, <1>5, <2>1 DEF PlanTyped, Restart, config
  <2>3. PlanOrdered'
    BY <1>t, <1>0, <1>5 DEF PlanOrdered, Restart, config
  <2> QED  BY <2>1, <2>2, <2>3 DEF PlanInv
<1> QED  BY <1>1, <1>2, <1>3, <1>4, <1>5

LEMMA PlanInitInv == ScheduleInit => PlanInv
<1> SUFFICES ASSUME ScheduleInit PROVE PlanInv
  OBVIOUS
<1>1. PlanTyped
  <2>1. now \in Nat /\ now \in Day..Horizon /\ NoJob \in CronJobs
    BY DayType DEF ScheduleInit, NoJob, CronJobs
  <2>2. wraps \in [Wrappers -> WrapStates]
    BY PutIdle DEF ScheduleInit
  <2>3. /\ last \in [time : Nat, success : BOOLEAN] /\ began \in [time : Nat, ranged : BOOLEAN]
        /\ edit \in [at : {"none", "job", "plan", "set"}, comp : Nat]
    BY DEF ScheduleInit, NoEdit
  <2> QED  BY <2>1, <2>2, <2>3 DEF ScheduleInit, PlanTyped, Modes
<1>2. PlanOrdered /\ IdleClean
  BY DayType DEF ScheduleInit, PlanOrdered, IdleClean, IdleWrap, NoEdit
<1> QED  BY <1>1, <1>2 DEF PlanInv

LEMMA PlanStep == ASSUME PlanInv, [ScheduleNext]_scheduleVars PROVE PlanInv'
<1>1. CASE UNCHANGED scheduleVars
  BY <1>1 DEF scheduleVars, config, plan, bounds, PlanInv, PlanTyped, PlanOrdered, IdleClean
<1>2. CASE ScheduleNext
  BY <1>2, ClockKeepsPlan, JobFiresKeepsPlan, ShotFiresKeepsPlan, WrappersKeepPlan,
     WrapDrawsKeepsPlan, WrapEndsKeepsPlan, SyncKeepsPlan, EditKeepsPlan DEF ScheduleNext
<1> QED  BY <1>1, <1>2

LEMMA PlanAlways == ScheduleSpec => []PlanInv
BY PlanInitInv, PlanStep, PTL DEF ScheduleSpec

\* The tables of a task have their types and nothing planned in them is overdue
\* (_job_run_sign_task, sync_jobs, add_or_update_sign_task_job).
THEOREM ScheduleTyped == ScheduleSpec => []ScheduleTypeOK
<1>1. PlanInv => ScheduleTypeOK
  <2> SUFFICES ASSUME PlanInv PROVE ScheduleTypeOK
    OBVIOUS
  <2>1. PlanTyped /\ PlanOrdered /\ IdleClean
    BY DEF PlanInv
  <2>2. cron = NoJob \/ (cron.next >= now /\ cron.hour \in 0..Day - 1)
    BY <2>1 DEF PlanTyped, PlanOrdered, CronJobs
  <2>3. \A w \in Wrappers : wraps[w].at \in {"idle", "fresh", "sleep", "run"}
    BY <2>1 DEF PlanTyped, WrapStates
  <2> QED  BY <2>1, <2>2, <2>3
           DEF ScheduleTypeOK, PlanTyped, PlanOrdered, IdleClean, Modes
<1> QED  BY <1>1, PlanAlways, PTL

-----------------------------------------------------------------------------
(* The windows *)

Steady == mode = "range" /\ ~adaptive
Elapsed == Offset(now, window)

\* A compensation lies in its window, and not behind the window that is open.
Planned(c) ==
  c = 0 \/ (/\ Offset(c, window) < Span(window)
            /\ c <= now \/ c < now - Elapsed + Span(window))

\* One wrapper at a time runs the task, and it began after the last one ended.
RunsAlone ==
  /\ \A v, w \in Wrappers : wraps[v].at = "run" /\ wraps[w].at = "run" => v = w
  /\ Running => last.time <= began.time

\* Whatever was chosen lies in a window.
ChosenWithin ==
  /\ Planned(comp) /\ Planned(edit.comp)
  /\ ~adaptive /\ shot # 0 =>
       /\ Offset(shot, window) <= Span(window)
       /\ shot = now \/ shot <= now - Elapsed + Span(window)

\* Wrappers begin, and wake, in a window.
WakesWithin ==
  /\ ~adaptive /\ Sleeping => Elapsed <= Span(window)
  /\ Steady /\ Fresh => Elapsed <= Span(window)
  /\ Steady /\ FreshJob => Elapsed < Span(window)

\* The cron job fires in a window, but for that of the time before an edit.
FiresWithin ==
  Steady /\ cron # NoJob /\ (edit.at # "job" \/ cron.next = now) =>
    Offset(cron.next, window) < Span(window)

\* A task that is planned for has a cron job before the next window begins ...
Ready == edit.at # "job" /\ Steady /\ (cron # NoJob \/ comp # 0)
NextIsNear ==
  Ready => /\ cron # NoJob /\ cron.hour = window[1] /\ cron.next <= now - Elapsed + Day
           /\ comp # 0 => Offset(cron.next, window) = 0 \/ cron.next = comp

\* ... and in a window it was tried, or it will be.
Started ==
  \/ last.success /\ last.time >= now - Elapsed
  \/ began.time >= now - Elapsed
  \/ Fresh \/ Sleeping
NotMissed ==
  Ready /\ edit.at = "none" /\ Elapsed < Span(window) =>
    Started \/ shot # 0 \/ cron.next <= now - Elapsed + Span(window)

EditHasJob == edit.at \in {"plan", "set"} /\ mode = "range" => cron # NoJob

BeganWithin == began.ranged /\ ~adaptive => Offset(began.time, window) <= Span(window)

WindowInv ==
  /\ RunsAlone /\ ChosenWithin /\ WakesWithin /\ FiresWithin
  /\ NextIsNear /\ NotMissed /\ EditHasJob /\ BeganWithin

LEMMA NowFacts ==
  ASSUME PlanTyped
  PROVE  /\ Elapsed \in 0..Day - 1 /\ Span(window) \in 1..Day /\ Day \in Nat \ {0}
         /\ now \in Nat /\ now >= Day /\ window \in WindowPairs
<1>1. Day \in Nat \ {0} /\ now \in Nat /\ now >= Day /\ window \in WindowPairs /\ now \in Int
  BY DayType, WindowsType DEF PlanTyped
<1> QED  BY <1>1, OffsetFacts, SpanType DEF Elapsed

\* A moment of an open window.
LEMMA MomentWithin ==
  ASSUME PlanTyped, NEW t \in Nat, t >= now, t <= now - Elapsed + Span(window)
  PROVE  /\ Offset(t, window) <= Span(window)
         /\ t < now - Elapsed + Span(window) => Offset(t, window) < Span(window)
<1>1. PICK k \in Nat : t = now + k
  <2>1. t - now \in Nat /\ t = now + (t - now)
    BY NowFacts
  <2> QED  BY <2>1
<1>2. /\ Elapsed \in 0..Day - 1 /\ Span(window) \in 1..Day /\ Day \in Nat \ {0}
      /\ now \in Nat /\ window \in WindowPairs /\ now \in Int
  BY NowFacts
<1>3. Elapsed + k <= Span(window)
  BY <1>1, <1>2
<1>4. CASE Elapsed + k < Day
  <2>1. Offset(now + k, window) = Elapsed + k
    BY <1>2, <1>4, OffsetFacts DEF Elapsed
  <2> QED  BY <1>1, <1>2, <1>3, <2>1
<1>5. CASE ~(Elapsed + k < Day)
  <2>1. Span(window) = Day /\ ~(t < now - Elapsed + Span(window))
    BY <1>1, <1>2, <1>3, <1>5
  <2>2. Offset(t, window) \in 0..Day - 1
    BY <1>2, OffsetFacts
  <2> QED  BY <1>2, <2>1, <2>2
<1> QED  BY <1>4, <1>5

LEMMA NewJobIs ==
  ASSUME PlanTyped, mode = "range"
  PROVE  /\ NewJob.hour = window[1] /\ NewJob.next = now - Elapsed + Day
         /\ Offset(NewJob.next, window) = 0
<1>1. TriggerHour = window[1] /\ window \in WindowPairs /\ now \in Nat
  BY NowFacts DEF TriggerHour
<1>2. NewJob.hour = window[1] /\ NewJob.next = NextAt(window[1], now)
  BY <1>1 DEF NewJob
<1> QED  BY <1>1, <1>2, NextAtIs DEF Elapsed

LEMMA CompensationsAre ==
  ASSUME PlanTyped
  PROVE  /\ \A c \in Compensations :
              /\ c \in Nat /\ c >= now /\ c < now - Elapsed + Span(window)
              /\ Planned(c) /\ Offset(c, window) < Span(window)
         /\ Compensations = {} /\ mode = "range" /\ Elapsed < Span(window) =>
              shot # 0 \/ (last.success /\ last.time >= now - Elapsed)
<1>1. /\ Elapsed \in 0..Day - 1 /\ Span(window) \in 1..Day /\ Day \in Nat \ {0}
      /\ now \in Nat /\ window \in WindowPairs
  BY NowFacts
<1>2. /\ InWindow(now) <=> Elapsed < Span(window)
      /\ InWindow(now) => /\ WindowAt(now)[1] = now - Elapsed
                          /\ WindowAt(now)[2] = now - Elapsed + Span(window)
  BY <1>1, WindowIs DEF Elapsed
<1>3. ASSUME NEW c \in Compensations
      PROVE  /\ c \in Nat /\ c >= now /\ c < now - Elapsed + Span(window)
             /\ Planned(c) /\ Offset(c, window) < Span(window)
  <2>1. c \in Nat /\ c >= now /\ c < now - Elapsed + Span(window)
    BY <1>1, <1>2 DEF Compensations
  <2>2. Offset(c, window) < Span(window)
    BY <1>1, <2>1, MomentWithin
  <2> QED  BY <2>1, <2>2 DEF Planned
<1>4. ASSUME Compensations = {}, mode = "range", Elapsed < Span(window)
      PROVE  shot # 0 \/ (last.success /\ last.time >= now - Elapsed)
  <2>1. now \in now..WindowAt(now)[2] - 1
    BY <1>1, <1>2, <1>4
  <2>2. shot # 0 \/ DoneInWindow
    BY <1>2, <1>4, <2>1 DEF Compensations
  <2> QED  BY <1>2, <1>4, <2>2 DEF DoneInWindow
<1> QED  BY <1>3, <1>4

-----------------------------------------------------------------------------
(* Every step keeps to the windows *)

Punctual == ~Late /\ ~WindowEdits
KeptInv == PlanInv /\ WindowInv

LEMMA ClockKeepsWindows == ASSUME KeptInv, Tick PROVE WindowInv'
<1>t. PlanTyped /\ PlanOrdered /\ WindowInv
  BY DEF KeptInv, PlanInv
<1>n. /\ Elapsed \in 0..Day - 1 /\ Span(window) \in 1..Day /\ Day \in Nat \ {0}
      /\ now \in Nat /\ window \in WindowPairs /\ now \in Int
  BY <1>t, NowFacts
<1>0. /\ now' = now + 1 /\ now # cron.next /\ now # shot /\ ~Fresh /\ ~Sleeping
      /\ edit.at = "none"
      /\ mode' = mode /\ window' = window /\ adaptive' = adaptive /\ cron' = cron
      /\ shot' = shot /\ comp' = comp /\ adapt' = adapt /\ wraps' = wraps /\ last' = last
      /\ edit' = edit /\ began' = began
  BY DEF Tick, config, plan
<1>1. Elapsed' = IF Elapsed = Day - 1 THEN 0 ELSE Elapsed + 1
  BY <1>0, <1>n, OffsetFacts DEF Elapsed
<1>2. ~Fresh' /\ ~Sleeping' /\ ~FreshJob'
  BY <1>0 DEF Fresh, Sleeping, FreshJob
<1>3. cron.next \in Nat /\ comp \in Nat /\ shot \in Nat /\ last.time \in Nat /\ began.time \in Nat
  BY <1>t DEF PlanTyped, CronJobs
<1>4. RunsAlone' /\ BeganWithin' /\ EditHasJob'
  BY <1>0, <1>t DEF WindowInv, RunsAlone, Running, BeganWithin, EditHasJob
<1>5. ChosenWithin'
  <2>1. edit.comp = 0
    BY <1>0, <1>t DEF PlanOrdered
  <2>2. Planned(comp)' /\ Planned(edit.comp)'
    BY <1>0, <1>1, <1>n, <1>3, <1>t, <2>1 DEF WindowInv, ChosenWithin, Planned
  <2>3. shot # 0 => shot > now
    BY <1>0, <1>t, <1>n, <1>3 DEF PlanOrdered
  <2> QED  BY <1>0, <1>1, <1>n, <1>3, <1>t, <2>2, <2>3 DEF WindowInv, ChosenWithin
<1>6. WakesWithin' /\ FiresWithin'
  BY <1>0, <1>2, <1>t DEF WindowInv, WakesWithin, FiresWithin, Steady
<1>7. NextIsNear'
  <2>1. Ready' => Ready
    BY <1>0 DEF Ready, Steady
  <2>2. Ready => cron.next <= now' - Elapsed' + Day
    BY <1>0, <1>1, <1>n, <1>3, <1>t DEF WindowInv, NextIsNear
  <2> QED  BY <1>0, <1>t, <2>1, <2>2 DEF WindowInv, NextIsNear
<1>8. NotMissed'
  <2> SUFFICES ASSUME Ready', edit'.at = "none", Elapsed' < Span(window')
               PROVE  Started' \/ shot' # 0 \/ cron'.next <= now' - Elapsed' + Span(window')
    BY DEF NotMissed
  <2>1. Ready /\ cron.next <= now - Elapsed + Day /\ cron # NoJob
    <3>1. Ready
      BY <1>0 DEF Ready, Steady
    <3> QED  BY <1>t, <3>1 DEF WindowInv, NextIsNear
  <2>2. CASE Elapsed = Day - 1
    BY <1>0, <1>1, <1>n, <1>3, <2>1, <2>2
  <2>3. CASE Elapsed # Day - 1
    <3>1. Elapsed < Span(window) /\ now' - Elapsed' = now - Elapsed
      BY <1>0, <1>1, <1>n, <2>3
    <3>2. Started \/ shot # 0 \/ cron.next <= now - Elapsed + Span(window)
      BY <1>0, <1>t, <2>1, <3>1 DEF WindowInv, NotMissed
    <3>3. Started => Started'
      BY <1>0, <3>1 DEF Started
    <3> QED  BY <1>0, <3>1, <3>2, <3>3
  <2> QED  BY <2>2, <2>3
<1> QED  BY <1>4, <1>5, <1>6, <1>7, <1>8 DEF WindowInv

\* How the wrappers stand after one of them has moved.
LEMMA PutWrap ==
  ASSUME PlanTyped, NEW w \in Wrappers, NEW v \in WrapStates, Put(w, v)
  PROVE  /\ v.at = "fresh" => Fresh'
         /\ v.at # "fresh" /\ Fresh' => Fresh
         /\ v.at = "sleep" => Sleeping'
         /\ v.at # "sleep" /\ Sleeping' => Sleeping
         /\ (v.at # "fresh" \/ v.direct) /\ FreshJob' => FreshJob
         /\ v.at # "run" /\ Running' => Running
         /\ wraps[w].at # "fresh" /\ Fresh => Fresh'
         /\ wraps[w].at # "sleep" /\ Sleeping => Sleeping'
<1>1. wraps' = [wraps EXCEPT ![w] = v] /\ wraps \in [Wrappers -> WrapStates]
  BY DEF Put, PlanTyped
<1>2. wraps'[w] = v /\ \A u \in Wrappers \ {w} : wraps'[u] = wraps[u]
  BY <1>1
<1> QED  BY <1>2 DEF Fresh, Sleeping, FreshJob, Running

LEMMA JobFiresKeepsWindows ==
  ASSUME KeptInv, NEW w \in Wrappers, JobFires(w) PROVE WindowInv'
<1>t. PlanTyped /\ PlanOrdered /\ WindowInv
  BY DEF KeptInv, PlanInv
<1>n. /\ Elapsed \in 0..Day - 1 /\ Span(window) \in 1..Day /\ Day \in Nat \ {0}
      /\ now \in Nat /\ now >= Day /\ window \in WindowPairs /\ now \in Int
  BY <1>t, NowFacts
<1>0. /\ cron.next = now /\ wraps[w] = IdleWrap /\ Put(w, [at |-> "fresh", direct |-> FALSE])
      /\ now' = now /\ mode' = mode /\ window' = window /\ adaptive' = adaptive
      /\ shot' = shot /\ comp' = comp /\ adapt' = adapt /\ last' = last
      /\ edit' = edit /\ began' = began
  BY DEF JobFires, config, plan
<1>1. PICK n : n = NextAt(cron.hour, now)
  OBVIOUS
<1>2. n \in Nat /\ n > now
  BY <1>t, <1>n, <1>1, NextAtType DEF PlanTyped, CronJobs
<1>3. cron' \in CronJobs /\ cron'.next = n /\ cron'.hour = cron.hour /\ cron' # NoJob
  <2>1. cron' = [cron EXCEPT !.next = n] /\ cron \in CronJobs
    BY <1>t, <1>1 DEF JobFires, PlanTyped
  <2> QED  BY <1>n, <1>2, <2>1, JobMoves
<1>4. cron # NoJob
  BY <1>0, <1>n DEF NoJob
<1>5. [at |-> "fresh", direct |-> FALSE] \in WrapStates
  BY DEF WrapStates
<1>6. Fresh' /\ (Sleeping' => Sleeping) /\ (Running' => Running)
  BY <1>0, <1>5, <1>t, PutWrap
<1>7. Elapsed' = Elapsed
  BY <1>0 DEF Elapsed
<1>8. RunsAlone'
  BY <1>0, <1>6, <1>t DEF WindowInv, RunsAlone, Put, PlanTyped
<1>9. ChosenWithin' /\ BeganWithin' /\ EditHasJob'
  BY <1>0, <1>3, <1>7, <1>t DEF WindowInv, ChosenWithin, Planned, BeganWithin, EditHasJob
<1>10. WakesWithin'
  <2>1. Steady => Elapsed < Span(window)
    BY <1>0, <1>4, <1>t DEF WindowInv, FiresWithin, Elapsed
  <2>2. Steady' = Steady
    BY <1>0 DEF Steady
  <2> QED  BY <1>0, <1>6, <1>7, <1>n, <1>t, <2>1, <2>2 DEF WindowInv, WakesWithin
<1>11. Ready' => n = now - Elapsed + Day /\ Offset(n, window) = 0 /\ cron.hour = window[1]
  <2>1. Ready' => Ready
    BY <1>0, <1>4 DEF Ready, Steady
  <2>2. Ready => cron.hour = window[1]
    BY <1>t DEF WindowInv, NextIsNear
  <2> QED  BY <1>1, <1>n, <2>1, <2>2, NextAtIs DEF Elapsed
<1>12. FiresWithin'
  <2> SUFFICES ASSUME Steady', edit'.at # "job" \/ cron'.next = now'
               PROVE  Offset(cron'.next, window') < Span(window')
    BY DEF FiresWithin
  <2>1. edit'.at # "job"
    BY <1>0, <1>2, <1>3, <1>n
  <2>2. Ready'
    BY <1>3, <2>1 DEF Ready
  <2> QED  BY <1>0, <1>3, <1>11, <1>n, <2>2
<1>13. NextIsNear' /\ NotMissed'
  BY <1>0, <1>3, <1>6, <1>7, <1>11, <1>n DEF NextIsNear, NotMissed, Started
<1> QED  BY <1>8, <1>9, <1>10, <1>12, <1>13 DEF WindowInv

LEMMA ShotFiresKeepsWindows ==
  ASSUME KeptInv, NEW w \in Wrappers, ShotFires(w) PROVE WindowInv'
<1>t. PlanTyped /\ PlanOrdered /\ WindowInv
  BY DEF KeptInv, PlanInv
<1>n. now \in Nat /\ now > 0
  BY <1>t, NowFacts
<1>0. /\ shot = now /\ shot' = 0 /\ wraps[w] = IdleWrap
      /\ Put(w, [at |-> "fresh", direct |-> TRUE])
      /\ now' = now /\ mode' = mode /\ window' = window /\ adaptive' = adaptive
      /\ cron' = cron /\ comp' = comp /\ adapt' = adapt /\ last' = last
      /\ edit' = edit /\ began' = began
  BY DEF ShotFires, config
<1>1. [at |-> "fresh", direct |-> TRUE] \in WrapStates
  BY DEF WrapStates
<1>2. /\ Fresh' /\ (Sleeping' => Sleeping) /\ (Running' => Running)
      /\ FreshJob' => FreshJob
  BY <1>0, <1>1, <1>t, PutWrap
<1>3. Elapsed' = Elapsed /\ Steady' = Steady /\ Ready' = Ready
  BY <1>0 DEF Elapsed, Steady, Ready
<1>4. RunsAlone'
  BY <1>0, <1>2, <1>t DEF WindowInv, RunsAlone, Put, PlanTyped
<1>5. ChosenWithin' /\ BeganWithin' /\ EditHasJob' /\ FiresWithin' /\ NextIsNear'
  BY <1>0, <1>3, <1>t
     DEF WindowInv, ChosenWithin, Planned, BeganWithin, EditHasJob, FiresWithin, NextIsNear
<1>6. WakesWithin'
  <2>1. ~adaptive => Elapsed <= Span(window)
    BY <1>0, <1>n, <1>t DEF WindowInv, ChosenWithin, Elapsed
  <2> QED  BY <1>0, <1>2, <1>3, <1>t, <2>1 DEF WindowInv, WakesWithin, Steady
<1>7. NotMissed'
  BY <1>2 DEF NotMissed, Started
<1> QED  BY <1>4, <1>5, <1>6, <1>7 DEF WindowInv

LEMMA WrapDisabledKeepsWindows ==
  ASSUME KeptInv, NEW w \in Wrappers, WrapDisabled(w) PROVE WindowInv'
<1>t. PlanTyped /\ PlanOrdered /\ WindowInv
  BY DEF KeptInv, PlanInv
<1>0. /\ mode = "off" /\ comp' = 0 /\ Put(w, IdleWrap)
      /\ now' = now /\ mode' = mode /\ window' = window /\ adaptive' = adaptive
      /\ cron' = cron /\ shot' = shot /\ adapt' = adapt /\ last' = last
      /\ edit' = edit /\ began' = began
  BY DEF WrapDisabled, config
<1>1. (Sleeping' => Sleeping) /\ (Running' => Running)
  BY <1>0, <1>t, PutWrap, PutIdle
<1>2. ~Steady' /\ Elapsed' = Elapsed
  BY <1>0 DEF Steady, Elapsed
<1>3. RunsAlone'
  BY <1>0, <1>1, <1>t DEF WindowInv, RunsAlone, Put, PlanTyped, IdleWrap
<1>4. ChosenWithin' /\ BeganWithin' /\ EditHasJob' /\ WakesWithin'
  BY <1>0, <1>1, <1>2, <1>t
     DEF WindowInv, ChosenWithin, Planned, BeganWithin, EditHasJob, WakesWithin
<1>5. FiresWithin' /\ NextIsNear' /\ NotMissed'
  BY <1>2 DEF FiresWithin, NextIsNear, NotMissed, Ready
<1> QED  BY <1>3, <1>4, <1>5 DEF WindowInv

LEMMA RunBeginsKeepsWindows ==
  ASSUME KeptInv, NEW w \in Wrappers, WrapRuns(w) \/ WrapWakes(w) PROVE WindowInv'
<1>t. PlanTyped /\ PlanOrdered /\ WindowInv
  BY DEF KeptInv, PlanInv
<1>n. /\ Elapsed \in 0..Day - 1 /\ Span(window) \in 1..Day /\ Day \in Nat \ {0}
      /\ now \in Nat
  BY <1>t, NowFacts
<1>0. /\ StartRun(w) /\ comp' \in {0, comp}
      /\ now' = now /\ mode' = mode /\ window' = window /\ adaptive' = adaptive
      /\ cron' = cron /\ shot' = shot /\ last' = last /\ edit' = edit
      /\ wraps[w].at \in {"fresh", "sleep"}
  BY DEF WrapRuns, WrapWakes, config, plan
<1>1. PICK v \in WrapStates : Put(w, v) /\ v.at \in {"idle", "run"} /\ (v.at = "run" <=> ~Running)
  BY <1>0, PutIdle, PutState DEF StartRun, KeptInv
<1>2. (Fresh' => Fresh) /\ (Sleeping' => Sleeping) /\ (FreshJob' => FreshJob)
  BY <1>1, <1>t, PutWrap
<1>3. began' = [time |-> now, ranged |-> mode = "range"]
  BY <1>0 DEF StartRun
<1>4. Elapsed' = Elapsed /\ Steady' = Steady
  BY <1>0 DEF Elapsed, Steady
<1>5. RunsAlone'
  <2>1. wraps' = [wraps EXCEPT ![w] = v] /\ wraps \in [Wrappers -> WrapStates]
    BY <1>1, <1>t DEF Put, PlanTyped
  <2>2. wraps'[w] = v /\ \A u \in Wrappers \ {w} : wraps'[u] = wraps[u]
    BY <2>1
  <2>3. \A u, x \in Wrappers : wraps'[u].at = "run" /\ wraps'[x].at = "run" => u = x
    BY <1>0, <1>1, <1>t, <2>2 DEF WindowInv, RunsAlone, Running
  <2>4. last'.time <= began'.time
    BY <1>0, <1>3, <1>t DEF PlanOrdered
  <2> QED  BY <2>3, <2>4 DEF RunsAlone
<1>6. ChosenWithin' /\ EditHasJob' /\ WakesWithin' /\ FiresWithin'
  BY <1>0, <1>2, <1>4, <1>t
     DEF WindowInv, ChosenWithin, Planned, EditHasJob, WakesWithin, FiresWithin
<1>7. BeganWithin'
  <2>1. Sleeping \/ Fresh
    BY <1>0 DEF Sleeping, Fresh
  <2>2. Steady => Elapsed <= Span(window)
    BY <1>t, <2>1 DEF WindowInv, WakesWithin, Steady
  <2> QED  BY <1>0, <1>3, <2>2 DEF BeganWithin, Steady, Elapsed
<1>8. NextIsNear'
  BY <1>0, <1>4, <1>t DEF WindowInv, NextIsNear, Ready
<1>9. NotMissed'
  BY <1>0, <1>3, <1>4, <1>n DEF NotMissed, Started
<1> QED  BY <1>5, <1>6, <1>7, <1>8, <1>9 DEF WindowInv

LEMMA WrapDrawsKeepsWindows ==
  ASSUME KeptInv, NEW w \in Wrappers, WrapDraws(w) PROVE WindowInv'
<1>t. PlanTyped /\ PlanOrdered /\ WindowInv
  BY DEF KeptInv, PlanInv
<1>n. /\ Elapsed \in 0..Day - 1 /\ Span(window) \in 1..Day /\ Day \in Nat \ {0}
      /\ now \in Nat /\ now > 0 /\ window \in WindowPairs
  BY <1>t, NowFacts
<1>0. /\ wraps[w].at = "fresh" /\ mode = "range" /\ comp = 0 /\ ~wraps[w].direct
      /\ now' = now /\ mode' = mode /\ window' = window /\ adaptive' = adaptive
      /\ cron' = cron /\ comp' = comp /\ last' = last /\ edit' = edit /\ began' = began
  BY DEF WrapDraws, config
<1>1. FreshJob /\ (Steady => Elapsed < Span(window))
  <2>1. wraps[w] \in WrapStates
    BY <1>t DEF PlanTyped
  <2>2. wraps[w] = [at |-> "fresh", direct |-> FALSE]
    BY <1>0, <2>1 DEF WrapStates
  <2>3. FreshJob
    BY <2>2 DEF FreshJob
  <2> QED  BY <1>t, <2>3 DEF WindowInv, WakesWithin
<1>2. PICK t \in now..now + (WindowAt(now)[2] - WindowAt(now)[1]) :
         /\ t = now \/ t <= WindowAt(now)[2]
         /\ IF t = now THEN Put(w, [wraps[w] EXCEPT !.at = "sleep"]) /\ UNCHANGED shot
                       ELSE Put(w, IdleWrap) /\ shot' = t
  BY DEF WrapDraws
<1>3. WindowAt(now)[2] - WindowAt(now)[1] = Span(window)
  BY <1>n, WindowIs
<1>4. t \in Nat /\ t >= now
  BY <1>2, <1>3, <1>n
<1>5. PICK v \in WrapStates : /\ Put(w, v) /\ v.at \in {"idle", "sleep"}
                              /\ IF t = now THEN v.at = "sleep" /\ shot' = shot
                                            ELSE v.at = "idle" /\ shot' = t
  BY <1>2, PutIdle, PutState DEF KeptInv
<1>6. (Fresh' => Fresh) /\ (FreshJob' => FreshJob)
  BY <1>5, <1>t, PutWrap
<1>7. Elapsed' = Elapsed /\ Steady' = Steady /\ Ready' = Ready
  BY <1>0 DEF Elapsed, Steady, Ready
<1>8. RunsAlone'
  <2>1. Running' => Running
    BY <1>5, <1>t, PutWrap
  <2> QED  BY <1>0, <1>5, <1>t, <2>1 DEF WindowInv, RunsAlone, Put, PlanTyped
<1>9. ChosenWithin'
  <2>1. CASE t = now
    BY <1>0, <1>5, <1>7, <1>t, <2>1 DEF WindowInv, ChosenWithin, Planned
  <2>2. CASE t # now
    <3>1. ~adaptive => /\ Offset(t, window) <= Span(window)
                       /\ t <= now - Elapsed + Span(window)
      <4> SUFFICES ASSUME ~adaptive
                   PROVE  /\ Offset(t, window) <= Span(window)
                          /\ t <= now - Elapsed + Span(window)
        OBVIOUS
      <4>1. Elapsed < Span(window)
        BY <1>0, <1>1 DEF Steady
      <4>2. t <= now - Elapsed + Span(window)
        BY <1>2, <1>n, <2>2, <4>1, WindowIs DEF Elapsed
      <4> QED  BY <1>4, <1>t, <4>2, MomentWithin
    <3>2. shot' = t
      BY <1>5, <2>2
    <3> QED  BY <1>0, <1>7, <1>t, <3>1, <3>2 DEF WindowInv, ChosenWithin, Planned
  <2> QED  BY <2>1, <2>2
<1>10. WakesWithin'
  <2>1. Sleeping' /\ ~adaptive => Elapsed <= Span(window)
    BY <1>0, <1>1, <1>n DEF Steady
  <2> QED  BY <1>0, <1>1, <1>6, <1>7, <1>n, <1>t, <2>1 DEF WakesWithin
<1>11. BeganWithin' /\ EditHasJob' /\ FiresWithin' /\ NextIsNear'
  BY <1>0, <1>7, <1>t DEF WindowInv, BeganWithin, EditHasJob, FiresWithin, NextIsNear
<1>12. NotMissed'
  <2>1. Sleeping' \/ shot' # 0
    BY <1>4, <1>5, <1>n, <1>t, PutWrap
  <2> QED  BY <2>1 DEF NotMissed, Started
<1> QED  BY <1>8, <1>9, <1>10, <1>11, <1>12 DEF WindowInv

LEMMA WrapEndsKeepsWindows ==
  ASSUME KeptInv, NEW w \in Wrappers, WrapEnds(w) PROVE WindowInv'
<1>t. PlanTyped /\ PlanOrdered /\ WindowInv
  BY DEF KeptInv, PlanInv
<1>n. now \in Nat /\ Elapsed \in 0..Day - 1 /\ Day \in Nat \ {0}
  BY <1>t, NowFacts
<1>0. /\ wraps[w].at = "run" /\ Put(w, IdleWrap)
      /\ now' = now /\ mode' = mode /\ window' = window /\ adaptive' = adaptive
      /\ shot' = shot /\ comp' = comp /\ edit' = edit /\ began' = began
  BY DEF WrapEnds, config
<1>1. /\ cron # NoJob => cron' # NoJob
      /\ ~adaptive => cron' = cron
  <2>1. PICK c \in IF adaptive THEN Cooldowns \cup {0} ELSE {0} :
           IF c = 0 THEN UNCHANGED <<cron, adapt>>
           ELSE /\ adapt' = now + c
                /\ cron' = IF cron = NoJob THEN cron ELSE [cron EXCEPT !.next = now + c]
    BY DEF WrapEnds
  <2>2. c \in Nat /\ (c # 0 => adaptive)
    BY <2>1, ScheduleAssumption
  <2>3. CASE c = 0
    BY <2>1, <2>3
  <2>4. CASE c # 0
    <3>1. now + c \in Nat /\ now + c > 0
      BY <1>n, <2>2, <2>4
    <3>2. cron # NoJob => cron' = [cron EXCEPT !.next = now + c] /\ cron \in CronJobs
      BY <1>t, <2>1, <2>4 DEF PlanTyped
    <3> QED  BY <2>2, <2>4, <3>1, <3>2, JobMoves
  <2> QED  BY <2>3, <2>4
<1>2. wraps'[w].at = "idle" /\ \A u \in Wrappers \ {w} : wraps'[u] = wraps[u]
  BY <1>0, <1>t DEF Put, PlanTyped, IdleWrap
<1>3. ~Running' /\ RunsAlone'
  BY <1>0, <1>2, <1>t DEF WindowInv, RunsAlone, Running
<1>4. /\ (Fresh' => Fresh) /\ (Sleeping' => Sleeping) /\ (FreshJob' => FreshJob)
      /\ (Fresh => Fresh') /\ (Sleeping => Sleeping')
  BY <1>0, <1>2, <1>t, PutWrap, PutIdle
<1>5. Elapsed' = Elapsed /\ Steady' = Steady
  BY <1>0 DEF Elapsed, Steady
<1>6. ChosenWithin' /\ WakesWithin' /\ BeganWithin' /\ EditHasJob'
  BY <1>0, <1>1, <1>4, <1>5, <1>t
     DEF WindowInv, ChosenWithin, Planned, WakesWithin, BeganWithin, EditHasJob
<1>7. Steady => cron' = cron
  BY <1>1 DEF Steady
<1>8. Ready' => Ready
  BY <1>0, <1>5, <1>7 DEF Ready
<1>9. FiresWithin' /\ NextIsNear'
  BY <1>0, <1>5, <1>7, <1>8, <1>t DEF WindowInv, FiresWithin, NextIsNear, Ready
<1>10. NotMissed'
  <2> SUFFICES ASSUME Ready', edit'.at = "none", Elapsed' < Span(window')
               PROVE  Started' \/ shot' # 0 \/ cron'.next <= now' - Elapsed' + Span(window')
    BY DEF NotMissed
  <2>1. Started \/ shot # 0 \/ cron.next <= now - Elapsed + Span(window)
    BY <1>0, <1>5, <1>8, <1>t DEF WindowInv, NotMissed
  <2>2. Running /\ last.time <= began.time
    BY <1>0, <1>t DEF WindowInv, RunsAlone, Running
  <2>3. began.time \in Nat /\ last.time \in Nat
    BY <1>t DEF PlanTyped
  <2>4. CASE Started
    <3>1. began.time >= now - Elapsed \/ Fresh \/ Sleeping
      BY <1>n, <2>2, <2>3, <2>4 DEF Started
    <3> QED  BY <1>0, <1>4, <1>5, <3>1 DEF Started
  <2>5. CASE ~Started
    <3>1. cron' = cron
      BY <1>5, <1>7 DEF Ready
    <3> QED  BY <1>0, <1>5, <2>1, <2>5, <3>1
  <2> QED  BY <2>4, <2>5
<1> QED  BY <1>3, <1>6, <1>9, <1>10 DEF WindowInv

\* What a sync does to the job of a steady range task.
LEMMA SyncsRangeKeeps ==
  ASSUME KeptInv, Punctual, Steady, SyncsRange, Late \/ ~CronDue,
         now' = now, mode' = mode, window' = window, adaptive' = adaptive, wraps' = wraps,
         last' = last, began' = began, edit' = edit, shot' = shot
  PROVE  Planned(comp)' /\ FiresWithin' /\ NextIsNear' /\ NotMissed'
<1>t. PlanTyped /\ PlanOrdered /\ WindowInv
  BY DEF KeptInv, PlanInv
<1>n. /\ Elapsed \in 0..Day - 1 /\ Span(window) \in 1..Day /\ Day \in Nat \ {0}
      /\ now \in Nat /\ now > 0 /\ window \in WindowPairs /\ now \in Int
  BY <1>t, NowFacts
<1>0. Elapsed' = Elapsed /\ Started' = Started /\ Steady' /\ mode = "range"
  BY DEF Elapsed, Started, Steady, Fresh, Sleeping
<1>1. /\ NewJob.hour = window[1] /\ NewJob.next = now - Elapsed + Day /\ NewJob \in CronJobs
      /\ Offset(NewJob.next, window) = 0 /\ NewJob # NoJob
  BY <1>t, <1>0, NewJobIs, NewJobType
<1>2. ASSUME cron' = NewJob, comp' \in {comp, 0},
             Started \/ shot # 0 \/ Span(window) = Day \/ ~(Elapsed < Span(window))
               \/ edit.at # "none"
      PROVE  Planned(comp)' /\ FiresWithin' /\ NextIsNear' /\ NotMissed'
  <2>1. Planned(comp)'
    BY <1>0, <1>2, <1>t DEF WindowInv, ChosenWithin, Planned
  <2>2. FiresWithin' /\ NextIsNear'
    BY <1>0, <1>1, <1>2, <1>n DEF FiresWithin, NextIsNear
  <2>3. NotMissed'
    BY <1>0, <1>1, <1>2, <1>n DEF NotMissed
  <2> QED  BY <2>1, <2>2, <2>3
<1>3. ASSUME NEW c \in Nat, c >= now, c < now - Elapsed + Span(window) \/ c = now,
             Offset(c, window) < Span(window), comp' = c, cron' = [NewJob EXCEPT !.next = c]
      PROVE  Planned(comp)' /\ FiresWithin' /\ NextIsNear' /\ NotMissed'
  <2>0. cron' # NoJob /\ cron'.next = c /\ cron'.hour = window[1]
    BY <1>1, <1>3, <1>n, JobMoves
  <2>1. Planned(comp)'
    BY <1>0, <1>3, <1>n DEF Planned
  <2>2. FiresWithin' /\ NextIsNear'
    BY <1>0, <1>3, <1>n, <2>0 DEF FiresWithin, NextIsNear
  <2>3. NotMissed'
    BY <1>0, <1>3, <1>n, <2>0 DEF NotMissed
  <2> QED  BY <2>1, <2>2, <2>3
<1>4. comp \in Nat /\ cron.next \in Nat /\ shot \in Nat
  BY <1>t DEF PlanTyped, CronJobs
<1>5. CASE shot # 0
  BY <1>2, <1>5 DEF SyncsRange
<1>6. CASE shot = 0 /\ comp # 0
  <2>0. /\ Offset(comp, window) < Span(window)
        /\ comp <= now \/ comp < now - Elapsed + Span(window)
    BY <1>6, <1>t DEF WindowInv, ChosenWithin, Planned
  <2>1. CASE Ahead /\ cron' = [NewJob EXCEPT !.next = comp] /\ comp' = comp
    <3>1. comp >= now /\ (comp < now - Elapsed + Span(window) \/ comp = now)
      BY <1>4, <1>n, <2>0, <2>1 DEF Ahead
    <3> QED  BY <1>3, <1>4, <2>0, <2>1, <3>1
  <2>2. CASE Past /\ cron' = NewJob /\ comp' = 0
    <3>1. FreshJob => Started
      BY DEF FreshJob, Started, Fresh
    <3>2. CASE comp < now
      <4> SUFFICES ASSUME ~Started, Elapsed < Span(window), edit.at = "none"
                   PROVE  Span(window) = Day
        BY <1>2, <2>2
      <4>1. Ready
        BY <1>6 DEF Ready
      <4>2. cron.next <= now - Elapsed + Span(window) /\ cron # NoJob
        BY <1>6, <1>t, <4>1 DEF WindowInv, NotMissed, NextIsNear
      <4>3. cron.next >= now
        BY <1>t, <4>2 DEF PlanOrdered
      <4>4. Offset(cron.next, window) = 0
        BY <1>4, <1>6, <1>n, <1>t, <3>2, <4>1, <4>3 DEF WindowInv, NextIsNear
      <4>5. cron.next # now
        BY <1>4, <1>n, <3>2 DEF CronDue, Punctual
      <4>6. PICK k \in Nat : cron.next = now + k /\ k > 0
        <5>1. cron.next - now \in Nat /\ cron.next = now + (cron.next - now)
              /\ cron.next - now > 0
          BY <1>4, <1>n, <4>3, <4>5
        <5> QED  BY <5>1
      <4>7. Elapsed + k < Day => Offset(now + k, window) = Elapsed + k
        BY <1>n, OffsetFacts DEF Elapsed
      <4> QED  BY <1>n, <4>2, <4>4, <4>6, <4>7
    <3>3. CASE ~(comp < now)
      BY <1>2, <1>4, <1>n, <2>2, <3>1, <3>3 DEF Past, Punctual
    <3> QED  BY <3>2, <3>3
  <2> QED  BY <1>6, <2>1, <2>2 DEF SyncsRange
<1>7. CASE shot = 0 /\ comp = 0
  <2>1. CASE Compensations = {} /\ cron' = NewJob /\ comp' = comp
    <3>1. Elapsed < Span(window) => Started
      BY <1>0, <1>7, <1>t, <2>1, CompensationsAre DEF Started
    <3> QED  BY <1>2, <2>1, <3>1
  <2>2. CASE \E c \in Compensations : comp' = c /\ cron' = [NewJob EXCEPT !.next = c]
    BY <1>3, <1>t, <2>2, CompensationsAre
  <2> QED  BY <1>7, <2>1, <2>2 DEF SyncsRange
<1> QED  BY <1>5, <1>6, <1>7

LEMMA SyncKeepsWindows == ASSUME KeptInv, Punctual, Sync PROVE WindowInv'
<1>t. PlanTyped /\ PlanOrdered /\ WindowInv
  BY DEF KeptInv, PlanInv
<1>0. /\ now' = now /\ mode' = mode /\ window' = window /\ adaptive' = adaptive
      /\ wraps' = wraps /\ last' = last /\ edit' = edit /\ began' = began
      /\ shot' \in {shot, 0} /\ (mode = "range" => shot' = shot) /\ (Late \/ ~CronDue)
  BY DEF Sync, config
<1>1. Elapsed' = Elapsed /\ Steady' = Steady /\ Fresh' = Fresh /\ Sleeping' = Sleeping
      /\ FreshJob' = FreshJob
  BY <1>0 DEF Elapsed, Steady, Fresh, Sleeping, FreshJob
<1>2. RunsAlone' /\ WakesWithin' /\ BeganWithin'
  BY <1>0, <1>1, <1>t DEF WindowInv, RunsAlone, Running, WakesWithin, BeganWithin
<1>3. Planned(comp)'
  <2>1. CASE comp' \in {comp, 0}
    BY <1>0, <1>1, <1>t, <2>1 DEF WindowInv, ChosenWithin, Planned
  <2>2. CASE \E c \in Compensations : comp' = c
    BY <1>0, <1>1, <1>t, <2>2, CompensationsAre DEF Planned
  <2> QED  BY <2>1, <2>2 DEF Sync, SyncsEnabled, SyncsRange
<1>4. ChosenWithin'
  BY <1>0, <1>1, <1>3, <1>t DEF WindowInv, ChosenWithin, Planned
<1>5. EditHasJob'
  <2>1. mode # "off" => cron' # NoJob
    <3>0. NewJob # NoJob
      BY <1>t, NewJobType
    <3>1. CASE SyncsRange
      BY <1>t, <3>1, SyncsRangeIs
    <3>2. CASE adapt > now /\ cron' = [NewJob EXCEPT !.next = adapt]
      BY <1>t, <3>2, NewJobType, JobMoves, NowFacts DEF PlanTyped
    <3> QED  BY <3>0, <3>1, <3>2 DEF Sync, SyncsEnabled
  <2> QED  BY <1>0, <2>1 DEF EditHasJob
<1>6. FiresWithin' /\ NextIsNear' /\ NotMissed'
  <2>1. CASE Steady
    <3>1. SyncsRange
      BY <1>t, <2>1 DEF Sync, SyncsEnabled, Steady, PlanOrdered
    <3> QED  BY <1>0, <2>1, <3>1, SyncsRangeKeeps DEF Steady
  <2>2. CASE ~Steady
    BY <1>1, <2>2 DEF FiresWithin, NextIsNear, NotMissed, Ready
  <2> QED  BY <2>1, <2>2
<1> QED  BY <1>2, <1>4, <1>5, <1>6 DEF WindowInv

LEMMA EditWritesKeepsWindows == ASSUME KeptInv, Punctual, EditWrites PROVE WindowInv'
<1>t. PlanTyped /\ PlanOrdered /\ WindowInv
  BY DEF KeptInv, PlanInv
<1>n. now \in Nat /\ now > 0
  BY <1>t, NowFacts
<1>0. /\ edit = NoEdit /\ edit' = [edit EXCEPT !.at = "job"] /\ ~CronDue /\ ~Fresh
      /\ now' = now /\ window' = window /\ adaptive' = adaptive /\ cron' = cron
      /\ shot' = shot /\ comp' = comp /\ adapt' = adapt /\ wraps' = wraps /\ last' = last
      /\ began' = began
  BY DEF EditWrites, plan, Punctual
<1>1. edit'.at = "job" /\ edit'.comp = 0
  BY <1>0 DEF NoEdit
<1>2. Elapsed' = Elapsed /\ ~Fresh' /\ ~FreshJob' /\ Sleeping' = Sleeping
  BY <1>0 DEF Elapsed, Fresh, FreshJob, Sleeping
<1>3. RunsAlone' /\ BeganWithin' /\ WakesWithin' /\ EditHasJob'
  BY <1>0, <1>1, <1>2, <1>t
     DEF WindowInv, RunsAlone, Running, BeganWithin, WakesWithin, EditHasJob
<1>4. ChosenWithin'
  BY <1>0, <1>1, <1>2, <1>t DEF WindowInv, ChosenWithin, Planned
<1>5. NextIsNear' /\ NotMissed'
  BY <1>1 DEF NextIsNear, NotMissed, Ready
<1>6. FiresWithin'
  <2>1. cron.next = now => comp = now
    BY <1>0 DEF CronDue
  <2>2. cron.next = now => Offset(cron.next, window) < Span(window)
    BY <1>n, <1>t, <2>1 DEF WindowInv, ChosenWithin, Planned
  <2> QED  BY <1>0, <1>1, <2>2 DEF FiresWithin
<1> QED  BY <1>3, <1>4, <1>5, <1>6 DEF WindowInv

LEMMA EditReplacesKeepsWindows == ASSUME KeptInv, EditReplaces PROVE WindowInv'
<1>t. PlanTyped /\ PlanOrdered /\ WindowInv
  BY DEF KeptInv, PlanInv
<1>n. /\ Elapsed \in 0..Day - 1 /\ Span(window) \in 1..Day /\ Day \in Nat \ {0}
      /\ now \in Nat /\ now > 0
  BY <1>t, NowFacts
<1>0. /\ now' = now /\ mode' = mode /\ window' = window /\ adaptive' = adaptive
      /\ wraps' = wraps /\ last' = last /\ began' = began /\ edit.at = "job"
      /\ shot' \in {shot, 0} /\ comp' \in {comp, 0}
      /\ mode # "off" => cron' = NewJob
  BY DEF EditReplaces, config
<1>1. edit'.comp = 0 /\ edit'.at = IF mode = "off" THEN "none" ELSE "plan"
  <2>1. edit \in [at : {"none", "job", "plan", "set"}, comp : Nat] /\ edit.comp = 0
    BY <1>0, <1>t DEF PlanTyped, PlanOrdered
  <2> QED  BY <2>1 DEF EditReplaces, NoEdit
<1>2. Elapsed' = Elapsed /\ Steady' = Steady /\ Fresh' = Fresh /\ Sleeping' = Sleeping
      /\ FreshJob' = FreshJob
  BY <1>0 DEF Elapsed, Steady, Fresh, Sleeping, FreshJob
<1>3. RunsAlone' /\ BeganWithin' /\ WakesWithin'
  BY <1>0, <1>2, <1>t DEF WindowInv, RunsAlone, Running, BeganWithin, WakesWithin
<1>4. ChosenWithin'
  BY <1>0, <1>1, <1>2, <1>t DEF WindowInv, ChosenWithin, Planned
<1>5. FiresWithin' /\ NextIsNear' /\ NotMissed' /\ EditHasJob'
  <2>1. CASE mode = "range"
    <3>1. /\ cron' = NewJob /\ NewJob.hour = window[1] /\ NewJob.next = now - Elapsed + Day
          /\ Offset(NewJob.next, window) = 0 /\ NewJob # NoJob /\ edit'.at = "plan"
      BY <1>0, <1>1, <1>t, <2>1, NewJobIs, NewJobType
    <3> QED  BY <1>0, <1>2, <1>n, <3>1 DEF FiresWithin, NextIsNear, NotMissed, EditHasJob
  <2>2. CASE mode # "range"
    BY <1>0, <2>2 DEF FiresWithin, NextIsNear, NotMissed, EditHasJob, Ready, Steady
  <2> QED  BY <2>1, <2>2
<1> QED  BY <1>3, <1>4, <1>5 DEF WindowInv

LEMMA EditComputesKeepsWindows == ASSUME KeptInv, EditComputes PROVE WindowInv'
<1>t. PlanTyped /\ PlanOrdered /\ WindowInv
  BY DEF KeptInv, PlanInv
<1>0. /\ now' = now /\ mode' = mode /\ window' = window /\ adaptive' = adaptive
      /\ wraps' = wraps /\ last' = last /\ began' = began /\ edit.at = "plan"
      /\ cron' = cron /\ shot' = shot /\ comp' = comp /\ adapt' = adapt
  BY DEF EditComputes, config, plan
<1>1. \/ Compensations = {} /\ edit'.at = "none" /\ edit'.comp = 0
      \/ edit'.at = "set" /\ Planned(edit'.comp)
  <2>1. CASE Compensations = {}
    BY <2>1 DEF EditComputes, NoEdit
  <2>2. CASE Compensations # {}
    <3>1. PICK c \in Compensations : edit' = [at |-> "set", comp |-> c]
      BY <2>2 DEF EditComputes
    <3> QED  BY <1>t, <3>1, CompensationsAre
  <2> QED  BY <2>1, <2>2
<1>2. Elapsed' = Elapsed /\ Steady' = Steady /\ Fresh' = Fresh /\ Sleeping' = Sleeping
      /\ FreshJob' = FreshJob /\ Started' = Started /\ Ready' = Ready
  BY <1>0, <1>1 DEF Elapsed, Steady, Fresh, Sleeping, FreshJob, Started, Ready
<1>3. RunsAlone' /\ BeganWithin' /\ WakesWithin'
  BY <1>0, <1>2, <1>t DEF WindowInv, RunsAlone, Running, BeganWithin, WakesWithin
<1>4. ChosenWithin'
  BY <1>0, <1>1, <1>2, <1>t DEF WindowInv, ChosenWithin, Planned
<1>5. FiresWithin' /\ NextIsNear' /\ EditHasJob'
  BY <1>0, <1>1, <1>2, <1>t DEF WindowInv, FiresWithin, NextIsNear, EditHasJob
<1>6. NotMissed'
  <2>1. Steady /\ Elapsed < Span(window) /\ edit'.at = "none" => Started \/ shot # 0
    BY <1>1, <1>t, CompensationsAre DEF Steady, Started
  <2> QED  BY <1>0, <1>2, <2>1 DEF NotMissed, Ready
<1> QED  BY <1>3, <1>4, <1>5, <1>6 DEF WindowInv

LEMMA EditPlansKeepsWindows == ASSUME KeptInv, EditPlans PROVE WindowInv'
<1>t. PlanTyped /\ PlanOrdered /\ WindowInv
  BY DEF KeptInv, PlanInv
<1>n. /\ Elapsed \in 0..Day - 1 /\ Span(window) \in 1..Day /\ Day \in Nat \ {0}
      /\ now \in Nat /\ now > 0
  BY <1>t, NowFacts
<1>0. /\ now' = now /\ mode' = mode /\ window' = window /\ adaptive' = adaptive
      /\ wraps' = wraps /\ last' = last /\ began' = began /\ edit.at = "set"
      /\ shot' = shot /\ comp' = edit.comp /\ edit'.at = "none" /\ edit'.comp = 0
      /\ cron' = IF cron = NoJob THEN cron ELSE [cron EXCEPT !.next = edit.comp]
  BY DEF EditPlans, config, NoEdit
<1>1. /\ edit.comp \in Nat /\ edit.comp >= now /\ Offset(edit.comp, window) < Span(window)
      /\ edit.comp = now \/ edit.comp < now - Elapsed + Span(window)
  <2>1. edit.comp \in Nat /\ edit.comp >= now
    BY <1>0, <1>t DEF PlanTyped, PlanOrdered
  <2> QED  BY <1>n, <1>t, <2>1 DEF WindowInv, ChosenWithin, Planned
<1>2. Elapsed' = Elapsed /\ Steady' = Steady /\ Fresh' = Fresh /\ Sleeping' = Sleeping
      /\ FreshJob' = FreshJob
  BY <1>0 DEF Elapsed, Steady, Fresh, Sleeping, FreshJob
<1>3. RunsAlone' /\ BeganWithin' /\ WakesWithin' /\ EditHasJob'
  BY <1>0, <1>2, <1>t
     DEF WindowInv, RunsAlone, Running, BeganWithin, WakesWithin, EditHasJob
<1>4. ChosenWithin'
  BY <1>0, <1>2, <1>t DEF WindowInv, ChosenWithin, Planned
<1>5. CASE Steady
  <2>1. cron # NoJob /\ cron \in CronJobs
    BY <1>0, <1>5, <1>t DEF WindowInv, EditHasJob, Steady, PlanTyped
  <2>2. cron.hour = window[1]
    BY <1>0, <1>5, <1>t, <2>1 DEF WindowInv, NextIsNear, Ready
  <2>3. cron' # NoJob /\ cron'.next = edit.comp /\ cron'.hour = window[1]
    <3>1. cron' = [cron EXCEPT !.next = edit.comp]
      BY <1>0, <2>1
    <3> QED  BY <1>1, <1>n, <2>1, <2>2, <3>1, JobMoves
  <2>4. FiresWithin' /\ NextIsNear' /\ NotMissed'
    BY <1>0, <1>1, <1>2, <1>n, <2>3 DEF FiresWithin, NextIsNear, NotMissed
  <2> QED  BY <1>3, <1>4, <2>4 DEF WindowInv
<1>6. CASE ~Steady
  <2>1. FiresWithin' /\ NextIsNear' /\ NotMissed'
    BY <1>2, <1>6 DEF FiresWithin, NextIsNear, NotMissed, Ready
  <2> QED  BY <1>3, <1>4, <2>1 DEF WindowInv
<1> QED  BY <1>5, <1>6

LEMMA RestartKeepsWindows == ASSUME KeptInv, Restart PROVE WindowInv'
<1>t. WindowInv
  BY DEF KeptInv
<1>0. /\ now' = now /\ mode' = mode /\ window' = window /\ adaptive' = adaptive
      /\ last' = last /\ began' = began
      /\ cron' = NoJob /\ shot' = 0 /\ comp' = 0 /\ edit' = NoEdit
      /\ wraps' = [w \in Wrappers |-> IdleWrap]
  BY DEF Restart, config
<1>1. ~Fresh' /\ ~Sleeping' /\ ~FreshJob' /\ ~Running' /\ edit'.at = "none" /\ edit'.comp = 0
  BY <1>0 DEF Fresh, Sleeping, FreshJob, Running, IdleWrap, NoEdit
<1>2. RunsAlone' /\ ChosenWithin' /\ WakesWithin' /\ FiresWithin'
  BY <1>0, <1>1 DEF RunsAlone, Running, ChosenWithin, Planned, WakesWithin, FiresWithin
<1>3. NextIsNear' /\ NotMissed' /\ EditHasJob'
  BY <1>0, <1>1 DEF NextIsNear, NotMissed, EditHasJob, Ready
<1>4. BeganWithin'
  BY <1>0, <1>t DEF WindowInv, BeganWithin
<1> QED  BY <1>2, <1>3, <1>4 DEF WindowInv

LEMMA WindowInitInv == ScheduleInit => WindowInv
<1> SUFFICES ASSUME ScheduleInit PROVE WindowInv
  OBVIOUS
<1>0. /\ cron = NoJob /\ shot = 0 /\ comp = 0 /\ edit = NoEdit /\ ~began.ranged
      /\ wraps = [w \in Wrappers |-> IdleWrap]
  BY DEF ScheduleInit
<1>1. ~Fresh /\ ~Sleeping /\ ~FreshJob /\ ~Running /\ edit.at = "none" /\ edit.comp = 0
  BY <1>0 DEF Fresh, Sleeping, FreshJob, Running, IdleWrap, NoEdit
<1>2. RunsAlone /\ ChosenWithin /\ WakesWithin /\ FiresWithin
  BY <1>0, <1>1 DEF RunsAlone, Running, ChosenWithin, Planned, WakesWithin, FiresWithin
<1> QED  BY <1>0, <1>1, <1>2
         DEF WindowInv, NextIsNear, NotMissed, EditHasJob, BeganWithin, Ready

LEMMA WindowStep ==
  ASSUME KeptInv, Punctual, [ScheduleNext]_scheduleVars PROVE KeptInv'
<1>0. PlanInv'
  BY PlanStep DEF KeptInv
<1>1. CASE UNCHANGED scheduleVars
  <2>1. UNCHANGED <<now, mode, window, adaptive, cron, shot, comp, adapt, wraps, last, edit,
                    settled, began, edits, restarts>>
    BY <1>1 DEF scheduleVars, config, plan, bounds
  <2>2. WindowInv'
    BY <2>1 DEF KeptInv, WindowInv, RunsAlone, Running, ChosenWithin, Planned, WakesWithin,
                FiresWithin, NextIsNear, NotMissed, EditHasJob, BeganWithin, Ready, Steady,
                Started, Elapsed, Fresh, Sleeping, FreshJob
  <2> QED  BY <1>0, <2>2 DEF KeptInv
<1>2. CASE ScheduleNext
  <2>1. WindowInv'
    BY <1>2, ClockKeepsWindows, JobFiresKeepsWindows, ShotFiresKeepsWindows,
       WrapDisabledKeepsWindows, RunBeginsKeepsWindows, WrapDrawsKeepsWindows,
       WrapEndsKeepsWindows, SyncKeepsWindows, EditWritesKeepsWindows,
       EditReplacesKeepsWindows, EditComputesKeepsWindows, EditPlansKeepsWindows,
       RestartKeepsWindows DEF ScheduleNext
  <2> QED  BY <1>0, <2>1 DEF KeptInv
<1> QED  BY <1>1, <1>2

LEMMA KeptShows == KeptInv => ScheduleIsKept
<1> SUFFICES ASSUME KeptInv PROVE ScheduleIsKept
  OBVIOUS
<1>t. PlanTyped /\ PlanOrdered /\ WindowInv
  BY DEF KeptInv, PlanInv
<1>n. /\ Elapsed \in 0..Day - 1 /\ Span(window) \in 1..Day /\ Day \in Nat \ {0}
      /\ now \in Nat /\ now > 0 /\ window \in WindowPairs
  BY <1>t, NowFacts
<1>1. CooldownWaited
  BY <1>t DEF CooldownWaited, Settled, PlanOrdered
<1>2. StartsInWindow
  BY <1>t DEF StartsInWindow, WindowInv, BeganWithin, Offset, Length, Span
<1>3. WindowCovered
  <2> SUFFICES ASSUME Settled, mode = "range", InWindow(now), ~adaptive
               PROVE  \/ DoneInWindow
                      \/ began.time >= WindowAt(now)[1]
                      \/ \E w \in Wrappers : wraps[w] # IdleWrap
                      \/ shot \in now..WindowAt(now)[2] \/ cron.next \in now..WindowAt(now)[2]
    BY DEF WindowCovered
  <2>1. /\ Elapsed < Span(window) /\ WindowAt(now)[1] = now - Elapsed
        /\ WindowAt(now)[2] = now - Elapsed + Span(window)
    BY <1>n, WindowIs DEF Elapsed
  <2>2. cron # NoJob /\ Ready /\ edit.at = "none"
    BY <1>t DEF PlanOrdered, Settled, Ready, Steady, NoEdit
  <2>3. Started \/ shot # 0 \/ cron.next <= now - Elapsed + Span(window)
    BY <1>t, <2>1, <2>2 DEF WindowInv, NotMissed
  <2>4. CASE Started
    <3>1. Fresh \/ Sleeping => \E w \in Wrappers : wraps[w] # IdleWrap
      BY DEF Fresh, Sleeping, IdleWrap
    <3> QED  BY <2>1, <2>4, <3>1 DEF Started, DoneInWindow
  <2>5. CASE shot # 0
    <3>1. shot \in Nat /\ shot >= now
      BY <1>t, <2>5 DEF PlanTyped, PlanOrdered
    <3>2. shot = now \/ shot <= now - Elapsed + Span(window)
      BY <1>t, <2>5 DEF WindowInv, ChosenWithin
    <3> QED  BY <1>n, <2>1, <3>1, <3>2
  <2>6. CASE cron.next <= now - Elapsed + Span(window)
    <3>1. cron.next \in Nat /\ cron.next >= now
      BY <1>t, <2>2 DEF PlanTyped, PlanOrdered, CronJobs
    <3> QED  BY <1>n, <2>1, <2>6, <3>1
  <2> QED  BY <2>3, <2>4, <2>5, <2>6
<1> QED  BY <1>1, <1>2, <1>3 DEF ScheduleIsKept

\* While the event loop keeps up and nobody moves the window, a task runs when it should:
\* its window is covered, it starts within it, and a cooldown is waited for (sync_jobs,
\* _job_run_sign_task, add_or_update_sign_task_job).
THEOREM SchedulesAreKept ==
  ASSUME Punctual PROVE ScheduleSpec => []ScheduleIsKept
<1>1. ScheduleInit => KeptInv
  BY PlanInitInv, WindowInitInv DEF KeptInv
<1>2. KeptInv /\ [ScheduleNext]_scheduleVars => KeptInv'
  BY WindowStep
<1>3. KeptInv => ScheduleIsKept
  BY KeptShows
<1> QED  BY <1>1, <1>2, <1>3, PTL DEF ScheduleSpec

=============================================================================
