------------------------ MODULE KeywordMonitorProofs ------------------------
(***************************************************************************)
(* Proofs about KeywordMonitor for any accounts and any numbers of         *)
(* restarts, stops, account changes and sign runs.                         *)
(***************************************************************************)
EXTENDS KeywordMonitor, WellFoundedInduction, TLAPS

\* A non-empty set of accounts has a first one.
LEMMA LeastIn ==
  ASSUME NEW S, S \subseteq Accounts, S # {}
  PROVE  Least(S) \in S
<1> DEFINE R == {ss \in Nat \X Nat : ss[1] < ss[2]}
<1>1. S \subseteq Nat
  BY ConstantsAssumption
<1>2. IsWellFoundedOn(R, Nat)
  BY NatLessThanWellFounded DEF OpToRel
<1>3. \A n, m \in Nat : n < m => <<n, m>> \in R
  OBVIOUS
<1> HIDE DEF R
<1>4. PICK m \in S : \A n \in S : ~(<<n, m>> \in R)
  BY <1>1, <1>2, WFMin
<1>5. ASSUME NEW n \in S PROVE m <= n
  <2>1. n \in Nat /\ m \in Nat
    BY <1>1
  <2>2. ~(n < m)
    BY <2>1, <1>3, <1>4
  <2> QED  BY <2>1, <2>2
<1> QED  BY <1>5 DEF Least

-----------------------------------------------------------------------------
(* Types *)

Labels == {"idle", "restarting", "loading", "stopping", "exiting", "starting",
           "connecting", "restarted", "locking", "closing", "running", "done"}

\* The phases of restart_from_tasks, which only edits and changes call.
Restarting == {"restarting", "loading", "starting", "connecting", "restarted"}

\* What p is about to do can be done: a stop is at a listener of its list, a
\* restart has an account to start.
Placed(p) ==
  /\ pc[p] \in Restarting => p \in Restarts \cup Changes
  /\ pc[p] \in {"stopping", "exiting"} =>
       job[p].list \in DOMAIN lists /\ job[p].index \in DOMAIN lists[job[p].list]
  /\ pc[p] \in {"starting", "connecting"} => job[p].todo # {}

TypeInv ==
  /\ disk \in SUBSET Accounts
  /\ monitor \in Restarts \cup Changes \cup {Nobody}
  /\ changing \in Changes \cup {Nobody}
  /\ lock \in [Accounts -> Procs \cup {Nobody}]
  /\ lists \in Seq(Seq(Accounts \X Procs)) /\ lists # <<>>
  /\ key \in SUBSET SUBSET Accounts
  /\ listeners \in SUBSET (Accounts \X Procs)
  /\ users \in [Accounts -> Nat]
  /\ pc \in [Procs -> Labels]
  /\ job \in [Procs -> Job]
  /\ \A p \in Procs : Placed(p)

LEMMA TypeInvInit == Init => TypeInv
BY ConstantsAssumption DEF Init, TypeInv, Labels, Job, Placed, Restarting, Procs

\* Lists only grow: what a stop still has to go through stays where it was.
Grown ==
  \A i \in DOMAIN lists :
    /\ i \in DOMAIN lists'
    /\ \A j \in DOMAIN lists[i] :
         j \in DOMAIN lists'[i] /\ lists'[i][j] = lists[i][j]

\* The other processes stay where they are.
Alone(p) ==
  \A q \in Procs \ {p} : pc'[q] = pc[q] /\ job'[q] = job[q]

LEMMA PlacedFrame ==
  ASSUME TypeInv, NEW p \in Procs, Alone(p), Grown, Placed(p)'
  PROVE  \A q \in Procs : Placed(q)'
BY DEF TypeInv, Alone, Grown, Placed

\* Appending an empty list, or a listener to the last list.
LEMMA GrownByList ==
  ASSUME TypeInv, lists' = Append(lists, <<>>)
  PROVE  Grown /\ lists' \in Seq(Seq(Accounts \X Procs)) /\ lists' # <<>>
<1>1. <<>> \in Seq(Accounts \X Procs) /\ lists \in Seq(Seq(Accounts \X Procs))
  BY DEF TypeInv
<1> DEFINE L == Seq(Accounts \X Procs)
<1> HIDE DEF L
<1>2. /\ lists' \in Seq(L) /\ Len(lists') = Len(lists) + 1
      /\ \A i \in 1 .. Len(lists) : lists'[i] = lists[i]
  BY <1>1 DEF L
<1>3. Grown
  BY <1>1, <1>2 DEF Grown
<1> QED  BY <1>2, <1>3 DEF L

LEMMA GrownByListener ==
  ASSUME TypeInv, NEW h \in Accounts \X Procs,
         lists' = [lists EXCEPT ![Len(lists)] = Append(@, h)]
  PROVE  Grown /\ lists' \in Seq(Seq(Accounts \X Procs)) /\ lists' # <<>>
<1>1. Len(lists) \in DOMAIN lists /\ lists[Len(lists)] \in Seq(Accounts \X Procs)
  BY DEF TypeInv
<1>2. Append(lists[Len(lists)], h) \in Seq(Accounts \X Procs)
  BY <1>1
<1>3. lists' \in Seq(Seq(Accounts \X Procs)) /\ lists' # <<>>
  BY <1>1, <1>2 DEF TypeInv
<1>4. Grown
  BY <1>1, <1>2 DEF TypeInv, Grown
<1> QED  BY <1>3, <1>4

LEMMA GrownSame == ASSUME lists' = lists PROVE Grown
BY DEF Grown

\* A step of p, as far as the monitor's own state and the processes go.
Moves(p) ==
  /\ Alone(p) /\ Grown /\ Placed(p)'
  /\ lists' \in Seq(Seq(Accounts \X Procs)) /\ lists' # <<>>
  /\ key' \in SUBSET SUBSET Accounts
  /\ monitor' \in Restarts \cup Changes \cup {Nobody}
  /\ pc' \in [Procs -> Labels]
  /\ job' \in [Procs -> Job]

LEMMA MovesOn ==
  ASSUME TypeInv, NEW p \in Procs, NEW l \in Labels, Goto(p, l),
         UNCHANGED <<lists, key, job>>,
         monitor' \in Restarts \cup Changes \cup {Nobody},
         l \in Restarting => p \in Restarts \cup Changes,
         l \in {"stopping", "exiting"} => pc[p] \in {"stopping", "exiting"},
         l \in {"starting", "connecting"} => pc[p] \in {"starting", "connecting"}
  PROVE  Moves(p)
BY DEF Moves, Alone, Grown, Placed, TypeInv, Goto

LEMMA StopEndsMoves ==
  ASSUME TypeInv, NEW p \in Procs, NEW rs \in SUBSET Accounts, StopEnds(p, rs)
  PROVE  Moves(p)
<1>1. Grown /\ lists' \in Seq(Seq(Accounts \X Procs)) /\ lists' # <<>>
  BY GrownByList DEF StopEnds
<1>2. pc \in [Procs -> Labels] /\ job \in [Procs -> Job]
  BY DEF TypeInv
<1>3. CASE monitor # p
  <2>1. /\ pc' \in [Procs -> Labels] /\ pc'[p] \in {"closing", "done"}
        /\ Alone(p) /\ job' = job /\ key' = {} /\ monitor' = monitor
    BY <1>2, <1>3 DEF StopEnds, Goto, Labels, Alone
  <2> QED  BY <1>1, <2>1 DEF Moves, Placed, TypeInv, Restarting
<1>4. CASE monitor = p /\ rs = {}
  <2>1. /\ pc' \in [Procs -> Labels] /\ pc'[p] = "restarted"
        /\ Alone(p) /\ job' = job /\ key' = {{}} /\ monitor' = Nobody
    BY <1>2, <1>4 DEF StopEnds, Goto, Labels, Alone
  <2>2. p \in Restarts \cup Changes
    BY <1>4, ConstantsAssumption DEF TypeInv
  <2> QED  BY <1>1, <2>1, <2>2 DEF Moves, Placed, TypeInv, Restarting
<1>5. CASE monitor = p /\ rs # {}
  <2> DEFINE j == [job[p] EXCEPT !.rules = rs, !.todo = rs, !.started = {}]
  <2>j. j \in Job /\ j.todo = rs
    BY <1>2 DEF Job
  <2>k. job' = [job EXCEPT ![p] = j]
    BY <1>5 DEF StopEnds
  <2> HIDE DEF j
  <2>1. /\ pc' \in [Procs -> Labels] /\ pc'[p] = "starting"
        /\ Alone(p) /\ key' = {} /\ monitor' = monitor
        /\ job' \in [Procs -> Job] /\ job'[p].todo = rs
    BY <1>2, <1>5, <2>j, <2>k DEF StopEnds, Goto, Labels, Alone
  <2>2. p \in Restarts \cup Changes
    BY <1>5, ConstantsAssumption DEF TypeInv
  <2> QED  BY <1>1, <1>5, <2>1, <2>2 DEF Moves, Placed, TypeInv, Restarting
<1> QED  BY <1>3, <1>4, <1>5

LEMMA StopBeginsMoves ==
  ASSUME TypeInv, NEW p \in Procs, NEW rs \in SUBSET Accounts, StopBegins(p, rs)
  PROVE  Moves(p)
<1>1. CASE Current = <<>>
  BY <1>1, StopEndsMoves DEF StopBegins
<1>2. CASE Current # <<>>
  <2>1. pc \in [Procs -> Labels] /\ job \in [Procs -> Job]
    BY DEF TypeInv
  <2>2. /\ Len(lists) \in DOMAIN lists /\ 1 \in DOMAIN lists[Len(lists)]
        /\ Len(lists) \in Nat
    BY <1>2 DEF TypeInv, Current
  <2> DEFINE j == [job[p] EXCEPT !.rules = rs, !.list = Len(lists), !.index = 1]
  <2>j. j \in Job /\ j.list = Len(lists) /\ j.index = 1
    BY <2>1, <2>2 DEF Job
  <2>k. job' = [job EXCEPT ![p] = j]
    BY <1>2 DEF StopBegins
  <2> HIDE DEF j
  <2>3. /\ pc' \in [Procs -> Labels] /\ pc'[p] = "stopping" /\ Alone(p)
        /\ job' \in [Procs -> Job]
        /\ job'[p].list = Len(lists) /\ job'[p].index = 1
        /\ lists' = lists /\ key' = key /\ monitor' = monitor
    BY <1>2, <2>1, <2>j, <2>k DEF StopBegins, Goto, Labels, Alone
  <2> QED
    BY <2>2, <2>3, GrownSame DEF Moves, Placed, TypeInv, Restarting
<1> QED  BY <1>1, <1>2

LEMMA GoOnMoves ==
  ASSUME TypeInv, NEW p \in Procs, NEW a \in Accounts,
         NEW started \in SUBSET Accounts, GoOn(p, a, started),
         Grown, lists' \in Seq(Seq(Accounts \X Procs)), lists' # <<>>,
         p \in Restarts \cup Changes
  PROVE  Moves(p)
<1> DEFINE rest == job[p].todo \ {a}
           j == [job[p] EXCEPT !.todo = rest, !.started = started]
<1>1. pc \in [Procs -> Labels] /\ job \in [Procs -> Job]
  BY DEF TypeInv
<1>2. job' = [job EXCEPT ![p] = j]
  BY DEF GoOn
<1>j. j \in Job /\ j.todo = rest
  BY <1>1 DEF Job
<1> HIDE DEF j
<1>3. job' \in [Procs -> Job] /\ job'[p].todo = rest
  BY <1>1, <1>2, <1>j
<1>4. \A q \in Procs \ {p} : job'[q] = job[q]
  BY <1>1, <1>2
<1>5. CASE rest # {}
  <2>1. /\ pc' \in [Procs -> Labels] /\ pc'[p] = "starting" /\ Alone(p)
        /\ key' = key /\ monitor' = monitor
    BY <1>1, <1>4, <1>5 DEF GoOn, Goto, Labels, Alone
  <2> QED  BY <1>3, <1>5, <2>1 DEF Moves, Placed, TypeInv, Restarting
<1>6. CASE rest = {}
  <2>1. /\ pc' \in [Procs -> Labels] /\ pc'[p] = "restarted" /\ Alone(p)
        /\ monitor' = Nobody
    BY <1>1, <1>4, <1>6 DEF GoOn, Goto, Labels, Alone
  <2>2. key' \in SUBSET SUBSET Accounts
    BY <1>6 DEF GoOn, NewKey
  <2> QED  BY <1>3, <2>1, <2>2 DEF Moves, Placed, TypeInv, Restarting
<1> QED  BY <1>5, <1>6

\* The types of what a step of p does to the locks, the files and the clients.
DataType ==
  /\ disk \in SUBSET Accounts
  /\ changing \in Changes \cup {Nobody}
  /\ lock \in [Accounts -> Procs \cup {Nobody}]
  /\ listeners \in SUBSET (Accounts \X Procs)
  /\ users \in [Accounts -> Nat]

LEMMA EntryType ==
  ASSUME TypeInv, NEW p \in Procs, pc[p] \in {"stopping", "exiting"}
  PROVE  Entry(p) \in Accounts \X Procs
BY DEF TypeInv, Placed, Entry

LEMMA FirstType ==
  ASSUME TypeInv, NEW p \in Procs, pc[p] \in {"starting", "connecting"}
  PROVE  Least(job[p].todo) \in job[p].todo /\ Least(job[p].todo) \in Accounts
<1>1. job[p].todo \subseteq Accounts /\ job[p].todo # {}
  BY DEF TypeInv, Placed, Job
<1> QED  BY <1>1, LeastIn

\* The steps of process p.
Step(p) ==
  \/ Monitoring(p) \/ Stop(p) \/ Edit(p)
  \/ p \in Changes /\ (BeginChange(p) \/ Changing(p))
  \/ p \in Runs /\ (BeginRun(p) \/ EndRun(p))

LEMMA NextIsStep == Next => UNCHANGED vars \/ \E p \in Procs : Step(p)
BY DEF Next, Step, Over, Procs

LEMMA StepMoves ==
  ASSUME TypeInv, NEW p \in Procs, Step(p)
  PROVE  Moves(p) /\ DataType'
<1>d. DataType /\ job \in [Procs -> Job] /\ monitor \in Restarts \cup Changes \cup {Nobody}
  BY DEF TypeInv, DataType
<1>1. CASE StopListener(p)
  <2>1. Entry(p) \in Accounts \X Procs
    BY <1>1, EntryType DEF StopListener
  <2>2. DataType'
    BY <1>1, <1>d, <2>1 DEF StopListener, DataType, Entered
  <2>3. Moves(p)
    BY <1>1, <1>d, MovesOn DEF StopListener, Labels, Restarting
  <2> QED  BY <2>2, <2>3
<1>2. CASE ListenerStopped(p)
  <2>1. Entry(p) \in Accounts \X Procs
    BY <1>2, EntryType DEF ListenerStopped
  <2>2. DataType'
    BY <1>2, <1>d, <2>1 DEF ListenerStopped, DataType, Left, GiveBack
  <2>3. CASE More(p)
    <3> DEFINE j == [job[p] EXCEPT !.index = @ + 1]
    <3>1. /\ job[p].list \in DOMAIN lists /\ job[p].index \in DOMAIN lists[job[p].list]
          /\ lists[job[p].list] \in Seq(Accounts \X Procs)
      BY <1>2 DEF ListenerStopped, TypeInv, Placed
    <3>2. job[p].index + 1 \in DOMAIN lists[job[p].list]
      BY <2>3, <3>1 DEF More
    <3>3. j \in Job /\ j.list = job[p].list /\ j.index = job[p].index + 1
      BY <1>d DEF Job
    <3>4. job' = [job EXCEPT ![p] = j]
      BY <1>2, <2>3 DEF ListenerStopped
    <3> HIDE DEF j
    <3>5. /\ pc' \in [Procs -> Labels] /\ pc'[p] = "stopping" /\ Alone(p)
          /\ job' \in [Procs -> Job] /\ job'[p].list = job[p].list
          /\ job'[p].index = job[p].index + 1
          /\ lists' = lists /\ key' = key /\ monitor' = monitor
      BY <1>2, <1>d, <2>3, <3>3, <3>4
         DEF ListenerStopped, TypeInv, Goto, Labels, Alone
    <3>6. Moves(p)
      BY <3>1, <3>2, <3>5, GrownSame DEF Moves, Placed, TypeInv, Restarting
    <3> QED  BY <2>2, <3>6
  <2>4. CASE ~More(p)
    <3>1. StopEnds(p, job[p].rules) /\ job[p].rules \in SUBSET Accounts
      BY <1>2, <1>d, <2>4 DEF ListenerStopped, Job
    <3> QED  BY <2>2, <3>1, StopEndsMoves
  <2> QED  BY <2>3, <2>4
<1>3. CASE EnterRestart(p)
  <2>1. p \in Restarts \cup Changes
    BY <1>3 DEF EnterRestart, TypeInv, Placed, Restarting
  <2>2. Moves(p)
    BY <1>3, <2>1, MovesOn DEF EnterRestart, Labels
  <2> QED  BY <1>3, <1>d, <2>2 DEF EnterRestart, DataType
<1>4. CASE Load(p)
  <2>1. DataType'
    BY <1>4, <1>d DEF Load, DataType
  <2>2. CASE UpToDate
    <3>1. p \in Restarts \cup Changes
      BY <1>4 DEF Load, TypeInv, Placed, Restarting
    <3>2. Moves(p)
      BY <1>4, <2>2, <3>1, MovesOn DEF Load, Labels
    <3> QED  BY <2>1, <3>2
  <2>3. CASE ~UpToDate
    <3>1. StopBegins(p, disk) /\ disk \in SUBSET Accounts
      BY <1>4, <1>d, <2>3 DEF Load, DataType
    <3> QED  BY <2>1, <3>1, StopBeginsMoves
  <2> QED  BY <2>2, <2>3
<1>5. CASE SkipAccount(p)
  <2> DEFINE a == Least(job[p].todo)
  <2>1. a \in Accounts /\ p \in Restarts \cup Changes
    BY <1>5, FirstType DEF SkipAccount, TypeInv, Placed, Restarting
  <2>2. GoOn(p, a, job[p].started) /\ job[p].started \in SUBSET Accounts
    BY <1>5, <1>d DEF SkipAccount, Job
  <2>3. Grown /\ lists' \in Seq(Seq(Accounts \X Procs)) /\ lists' # <<>>
    BY <1>5, GrownSame DEF SkipAccount, TypeInv
  <2>4. Moves(p)
    BY <2>1, <2>2, <2>3, GoOnMoves
  <2> QED  BY <1>5, <1>d, <2>4 DEF SkipAccount, DataType
<1>6. CASE StartListener(p)
  <2>1. Least(job[p].todo) \in Accounts
    BY <1>6, FirstType DEF StartListener
  <2>2. DataType'
    BY <1>6, <1>d, <2>1 DEF StartListener, DataType, Entered
  <2>3. p \in Restarts \cup Changes
    BY <1>6 DEF StartListener, TypeInv, Placed, Restarting
  <2>4. Moves(p)
    BY <1>6, <1>d, <2>3, MovesOn DEF StartListener, Labels
  <2> QED  BY <2>2, <2>4
<1>7. CASE Connected(p)
  <2> DEFINE a == Least(job[p].todo)
  <2>1. a \in Accounts /\ p \in Restarts \cup Changes
    BY <1>7, FirstType DEF Connected, TypeInv, Placed, Restarting
  <2>2. /\ GoOn(p, a, job[p].started \cup {a})
        /\ job[p].started \cup {a} \in SUBSET Accounts
    BY <1>7, <1>d, <2>1 DEF Connected, Job
  <2>3. Grown /\ lists' \in Seq(Seq(Accounts \X Procs)) /\ lists' # <<>>
    <3>1. <<a, p>> \in Accounts \X Procs
      BY <2>1
    <3>2. lists' = [lists EXCEPT ![Len(lists)] = Append(@, <<a, p>>)]
      BY <1>7 DEF Connected
    <3> QED  BY <3>1, <3>2, GrownByListener
  <2>4. Moves(p)
    BY <2>1, <2>2, <2>3, GoOnMoves
  <2>5. DataType'
    BY <1>7, <1>d, <2>1 DEF Connected, DataType, Left
  <2> QED  BY <2>4, <2>5
<1>8. CASE ConnectFailed(p)
  <2> DEFINE a == Least(job[p].todo)
  <2>1. a \in Accounts /\ p \in Restarts \cup Changes
    BY <1>8, FirstType DEF ConnectFailed, TypeInv, Placed, Restarting
  <2>2. GoOn(p, a, job[p].started) /\ job[p].started \in SUBSET Accounts
    BY <1>8, <1>d DEF ConnectFailed, Job
  <2>3. Grown /\ lists' \in Seq(Seq(Accounts \X Procs)) /\ lists' # <<>>
    BY <1>8, GrownSame DEF ConnectFailed, TypeInv
  <2>4. Moves(p)
    BY <2>1, <2>2, <2>3, GoOnMoves
  <2>5. DataType'
    BY <1>8, <1>d, <2>1 DEF ConnectFailed, DataType, Left, Close
  <2> QED  BY <2>4, <2>5
<1>9. CASE Restarted(p)
  <2>1. Moves(p)
    BY <1>9, <1>d, MovesOn DEF Restarted, Labels, Restarting
  <2> QED  BY <1>9, <1>d, <2>1 DEF Restarted, DataType
<1>10. CASE Stop(p)
  <2>1. StopBegins(p, {})
    BY <1>10 DEF Stop
  <2>2. Moves(p)
    BY <2>1, StopBeginsMoves
  <2> QED  BY <1>10, <1>d, <2>2 DEF Stop, DataType
<1>11. CASE Edit(p)
  <2>1. Moves(p)
    BY <1>11, <1>d, MovesOn DEF Edit, Labels, Restarting
  <2>2. DataType'
    BY <1>11, <1>d DEF Edit, DataType
  <2> QED  BY <2>1, <2>2
<1>12. CASE p \in Changes /\ BeginChange(p)
  <2>1. Moves(p)
    BY <1>12, <1>d, MovesOn DEF BeginChange, Labels, Restarting, Procs
  <2> QED  BY <1>12, <1>d, <2>1 DEF BeginChange, DataType, Procs
<1>13. CASE p \in Changes /\ LockAccount(p)
  <2>1. DataType'
    BY <1>13, <1>d DEF LockAccount, DataType, Procs
  <2>2. CASE Wanted(p) = {Least(Wanted(p))}
    BY <1>13, <2>1, <2>2, StopBeginsMoves DEF LockAccount, Procs
  <2>3. CASE Wanted(p) # {Least(Wanted(p))}
    <3>1. UNCHANGED <<monitor, lists, key, pc, job>>
      BY <1>13, <2>3 DEF LockAccount
    <3> QED  BY <2>1, <3>1, GrownSame DEF TypeInv, Moves, Alone, Placed
  <2> QED  BY <2>2, <2>3
<1>14. CASE p \in Changes /\ RefuseChange(p)
  <2>1. Moves(p)
    BY <1>14, <1>d, MovesOn DEF RefuseChange, Labels, Restarting, Procs
  <2> QED  BY <1>14, <1>d, <2>1 DEF RefuseChange, DataType, Procs, Freed
<1>15. CASE p \in Changes /\ ChangeFiles(p)
  <2>1. Moves(p)
    BY <1>15, <1>d, MovesOn DEF ChangeFiles, Labels, Procs
  <2>2. Old[p] \in Accounts /\ New[p] \in Accounts
    BY <1>15, ConstantsAssumption
  <2>3. DataType'
    BY <1>15, <1>d, <2>2 DEF ChangeFiles, DataType, Close
  <2> QED  BY <2>1, <2>3 DEF Procs
<1>16. CASE p \in Changes /\ EndChange(p)
  <2>1. Moves(p)
    BY <1>16, <1>d, MovesOn DEF EndChange, Labels, Restarting, Procs
  <2> QED  BY <1>16, <1>d, <2>1 DEF EndChange, DataType, Procs, Freed
<1>17. CASE p \in Runs /\ BeginRun(p)
  <2>1. Moves(p)
    BY <1>17, <1>d, MovesOn DEF BeginRun, Labels, Restarting, Procs
  <2>2. DataType'
    BY <1>17, <1>d DEF BeginRun, DataType, Procs
  <2> QED  BY <2>1, <2>2 DEF Procs
<1>18. CASE p \in Runs /\ EndRun(p)
  <2>1. Moves(p)
    BY <1>18, <1>d, MovesOn DEF EndRun, Labels, Restarting, Procs
  <2>2. DataType'
    BY <1>18, <1>d DEF EndRun, DataType, Procs, GiveBack, Freed
  <2> QED  BY <2>1, <2>2 DEF Procs
<1> QED
  BY <1>1, <1>2, <1>3, <1>4, <1>5, <1>6, <1>7, <1>8, <1>9, <1>10, <1>11, <1>12,
     <1>13, <1>14, <1>15, <1>16, <1>17, <1>18 DEF Step, Monitoring, Changing

LEMMA StepTypes ==
  ASSUME TypeInv, [Next]_vars
  PROVE  TypeInv'
<1>1. CASE UNCHANGED vars
  BY <1>1 DEF vars, TypeInv, Placed
<1>2. ASSUME NEW p \in Procs, Step(p) PROVE TypeInv'
  BY <1>2, StepMoves, PlacedFrame DEF TypeInv, Moves, DataType
<1> QED  BY <1>1, <1>2, NextIsStep

\* Every reachable state is well typed, and a stop() is always at a listener of
\* the list it began with, whatever is registered meanwhile.
THEOREM TypeCorrect == Spec => []TypeOK
<1>1. TypeInv => TypeOK
  BY DEF TypeInv, TypeOK, Placed
<1>2. TypeInv /\ [Next]_vars => TypeInv'
  BY StepTypes
<1> QED  BY <1>1, <1>2, TypeInvInit, PTL DEF Spec

-----------------------------------------------------------------------------
(* The locks of a change *)

\* The phases in which a change has its locks.
WithLocks == {"stopping", "exiting", "closing"} \cup Restarting

\* What process p owns in each phase, and what this keeps away from its client.
Mine(p) ==
  /\ p \in Changes /\ pc[p] \in WithLocks \cup {"locking"} => changing = p
  /\ p \in Changes /\ pc[p] \in WithLocks => \A a \in Held(p) : lock[a] = p
  /\ pc[p] = "exiting" => lock[Entry(p)[1]] = p
  /\ pc[p] = "connecting" => lock[Least(job[p].todo)] = p
  /\ p \in Changes /\ pc[p] \in {"restarting", "loading"} =>
       users[Old[p]] = 0 /\ \A h \in listeners : h[1] # Old[p]

\* A step of p leaves alone the locks of the others and, but for giving clients
\* back, the accounts under them.
Respects(p) ==
  /\ changing' = changing \/ changing \in {p, Nobody}
  /\ \A a \in Accounts : lock[a] \notin {p, Nobody} =>
       /\ lock'[a] = lock[a] /\ users'[a] <= users[a]
       /\ \A h \in listeners' : h[1] = a => h \in listeners

LEMMA HeldType ==
  ASSUME NEW p \in Procs
  PROVE  Held(p) \subseteq Accounts /\ p # Nobody
BY ConstantsAssumption DEF Held

\* What another process owns, a step of p does not disturb.
LEMMA OthersKeep ==
  ASSUME TypeInv, NEW p \in Procs, NEW q \in Procs \ {p},
         Alone(p), Grown, DataType', Respects(p), Mine(q)
  PROVE  Mine(q)'
<1>1. /\ pc'[q] = pc[q] /\ job'[q] = job[q] /\ q \in Procs /\ q \notin {p, Nobody}
  BY HeldType DEF Alone
<1>2. \A a \in Accounts : lock[a] = q => lock'[a] = q
  BY <1>1 DEF Respects
<1>3. q \in Changes /\ pc[q] \in WithLocks \cup {"locking"}
      => changing' = q
  BY <1>1 DEF Mine, Respects
<1>4. q \in Changes /\ pc[q] \in WithLocks => \A a \in Held(q) : lock'[a] = q
  BY <1>1, <1>2, HeldType DEF Mine
<1>5. ASSUME pc[q] = "exiting" PROVE (lock[Entry(q)[1]] = q)'
  <2>1. PICK e \in Accounts \X Procs : e = Entry(q)
    BY <1>1, <1>5, EntryType
  <2>2. Entry(q)' = e
    BY <1>1, <1>5, <2>1 DEF Entry, Grown, TypeInv, Placed
  <2>3. lock[e[1]] = q /\ e[1] \in Accounts
    BY <1>5, <2>1 DEF Mine
  <2> QED  BY <1>2, <2>2, <2>3
<1>6. ASSUME pc[q] = "connecting" PROVE (lock[Least(job[q].todo)] = q)'
  <2>1. Least(job[q].todo) \in Accounts /\ lock[Least(job[q].todo)] = q
    BY <1>1, <1>6, FirstType DEF Mine
  <2> QED  BY <1>1, <1>2, <2>1 DEF Least
<1>7. ASSUME q \in Changes, pc[q] \in {"restarting", "loading"}
      PROVE  users'[Old[q]] = 0 /\ \A h \in listeners' : h[1] # Old[q]
  <2>1. Old[q] \in Accounts /\ Old[q] \in Held(q)
    BY <1>7, ConstantsAssumption DEF Held
  <2>2. lock[Old[q]] = q /\ users[Old[q]] = 0 /\ \A h \in listeners : h[1] # Old[q]
    BY <1>7, <2>1 DEF Mine, WithLocks, Restarting
  <2>3. users'[Old[q]] <= 0 /\ \A h \in listeners' : h[1] # Old[q]
    BY <1>1, <2>1, <2>2 DEF Respects
  <2> QED  BY <2>1, <2>3 DEF DataType
<1> QED  BY <1>1, <1>3, <1>4, <1>5, <1>6, <1>7 DEF Mine, Held

\* A process that takes or leaves an account lock touches no other lock, nor a
\* lock of its own change.
LEMMA EnteredKeeps ==
  ASSUME TypeInv, NEW p \in Procs, NEW a \in Accounts,
         CanEnter(p, a), lock' = Entered(p, a),
         a \in Held(p) => lock[a] = p
  PROVE  /\ lock[a] \in {p, Nobody} /\ lock'[a] = p
         /\ \A b \in Accounts : lock[b] # Nobody => lock'[b] = lock[b]
BY DEF TypeInv, CanEnter, Entered

LEMMA LeftKeeps ==
  ASSUME TypeInv, NEW p \in Procs, NEW a \in Accounts,
         lock[a] = p, lock' = Left(p, a)
  PROVE  \A b \in Accounts :
           lock[b] \notin {p, Nobody} \/ b \in Held(p) => lock'[b] = lock[b]
BY DEF TypeInv, Left

\* Where the rest of a stop and of a restart leads.
Onward == {"stopping", "closing", "starting", "restarted"}

LEMMA StopEndsOnward ==
  ASSUME TypeInv, NEW p \in Procs, NEW rs, StopEnds(p, rs)
  PROVE  pc'[p] \in Onward \/ (p \notin Changes /\ pc'[p] = "done")
BY DEF StopEnds, Goto, TypeInv, Onward

LEMMA StopBeginsOnward ==
  ASSUME TypeInv, NEW p \in Procs, NEW rs, StopBegins(p, rs)
  PROVE  pc'[p] \in Onward \/ (p \notin Changes /\ pc'[p] = "done")
BY StopEndsOnward DEF StopBegins, Goto, TypeInv, Onward

LEMMA GoOnOnward ==
  ASSUME TypeInv, NEW p \in Procs, NEW a, NEW started, GoOn(p, a, started)
  PROVE  pc'[p] \in Onward
BY DEF GoOn, Goto, TypeInv, Onward

\* There a change owns what it owned, and nothing else is asked of a process.
LEMMA MineOnward ==
  ASSUME NEW p \in Procs,
         pc'[p] \in Onward \/ (p \notin Changes /\ pc'[p] = "done"),
         p \in Changes => changing' = p /\ \A a \in Held(p) : lock'[a] = p
  PROVE  Mine(p)'
BY DEF Mine, Onward, Held

\* A change that has its locks still has them when they are left alone.
LEMMA MineStays ==
  ASSUME TypeInv, NEW p \in Procs, Mine(p), pc[p] \in WithLocks,
         pc'[p] \in Onward \/ (p \notin Changes /\ pc'[p] = "done"),
         changing' = changing,
         \A a \in Held(p) : lock'[a] = lock[a]
  PROVE  Mine(p)'
BY MineOnward DEF Mine

LEMMA StepMine ==
  ASSUME TypeInv, NEW p \in Procs, Mine(p), Step(p)
  PROVE  Respects(p) /\ Mine(p)'
<1>1. CASE StopListener(p)
  <2>1. PICK e \in Accounts \X Procs : e = Entry(p)
    BY <1>1, EntryType DEF StopListener
  <2>2. e[1] \in Held(p) => lock[e[1]] = p
    BY <1>1 DEF StopListener, Mine, WithLocks, Held
  <2>3. /\ lock[e[1]] \in {p, Nobody} /\ lock'[e[1]] = p
        /\ \A b \in Accounts : lock[b] # Nobody => lock'[b] = lock[b]
    BY <1>1, <2>1, <2>2, EnteredKeeps DEF StopListener
  <2>4. Respects(p)
    BY <1>1, <2>3 DEF StopListener, Respects, TypeInv
  <2>5. Entry(p)' = e
    BY <1>1, <2>1 DEF StopListener, Entry
  <2>6. pc'[p] = "exiting" /\ changing' = changing
    BY <1>1 DEF StopListener, Goto, TypeInv
  <2>7. p \in Changes => changing = p /\ \A b \in Held(p) : lock'[b] = p
    BY <1>1, <2>3, HeldType DEF StopListener, Mine, WithLocks
  <2> QED  BY <2>3, <2>4, <2>5, <2>6, <2>7 DEF Mine, Held
<1>2. CASE ListenerStopped(p)
  <2>1. PICK e \in Accounts \X Procs : e = Entry(p)
    BY <1>2, EntryType DEF ListenerStopped
  <2>2. lock[e[1]] = p /\ pc[p] \in WithLocks
    BY <1>2, <2>1 DEF ListenerStopped, Mine, WithLocks
  <2>3. \A b \in Accounts :
          lock[b] \notin {p, Nobody} \/ b \in Held(p) => lock'[b] = lock[b]
    BY <1>2, <2>1, <2>2, LeftKeeps DEF ListenerStopped
  <2>4. Respects(p)
    BY <1>2, <2>3 DEF ListenerStopped, GiveBack, Respects, TypeInv
  <2>5. pc'[p] \in Onward \/ (p \notin Changes /\ pc'[p] = "done")
    BY <1>2, StopEndsOnward DEF ListenerStopped, Goto, TypeInv, Onward
  <2>6. \A a \in Held(p) : lock'[a] = lock[a]
    BY <2>3, HeldType
  <2> QED  BY <1>2, <2>2, <2>4, <2>5, <2>6, MineStays DEF ListenerStopped
<1>3. CASE EnterRestart(p)
  <2>1. /\ pc[p] = "restarting" /\ pc'[p] = "loading"
        /\ UNCHANGED <<changing, lock, listeners, users>>
    BY <1>3 DEF EnterRestart, Goto, TypeInv
  <2> QED  BY <2>1 DEF Mine, Respects, WithLocks, Restarting, Held, TypeInv
<1>4. CASE Load(p)
  <2>1. /\ pc[p] = "loading" /\ UNCHANGED <<changing, lock, listeners, users>>
        /\ pc'[p] \in Onward \/ (p \notin Changes /\ pc'[p] = "done")
    BY <1>4, StopBeginsOnward DEF Load, Goto, TypeInv, Onward
  <2>2. Mine(p)'
    BY <2>1, MineStays DEF WithLocks, Restarting
  <2> QED  BY <2>1, <2>2 DEF Respects, TypeInv
<1>5. CASE SkipAccount(p)
  <2>1. /\ pc[p] = "starting" /\ pc'[p] \in Onward
        /\ UNCHANGED <<changing, lock, listeners, users>>
    BY <1>5, GoOnOnward DEF SkipAccount
  <2>2. Mine(p)'
    BY <2>1, MineStays DEF WithLocks, Restarting
  <2> QED  BY <2>1, <2>2 DEF Respects, TypeInv
<1>6. CASE StartListener(p)
  <2>1. PICK a \in Accounts : a = Least(job[p].todo)
    BY <1>6, FirstType DEF StartListener
  <2>2. a \in Held(p) => lock[a] = p
    BY <1>6 DEF StartListener, Mine, WithLocks, Restarting, Held
  <2>3. /\ lock[a] \in {p, Nobody} /\ lock'[a] = p
        /\ \A b \in Accounts : lock[b] # Nobody => lock'[b] = lock[b]
    BY <1>6, <2>1, <2>2, EnteredKeeps DEF StartListener
  <2>4. Respects(p)
    BY <1>6, <2>1, <2>3 DEF StartListener, Respects, TypeInv
  <2>5. Least(job[p].todo)' = a
    BY <1>6, <2>1 DEF StartListener, Least
  <2>6. pc'[p] = "connecting" /\ changing' = changing
    BY <1>6 DEF StartListener, Goto, TypeInv
  <2>7. p \in Changes => changing = p /\ \A b \in Held(p) : lock'[b] = p
    BY <1>6, <2>3, HeldType DEF StartListener, Mine, WithLocks, Restarting
  <2> QED  BY <2>3, <2>4, <2>5, <2>6, <2>7 DEF Mine, Held
<1>7. CASE Connected(p)
  <2>1. PICK a \in Accounts : a = Least(job[p].todo)
    BY <1>7, FirstType DEF Connected
  <2>2. lock[a] = p /\ pc[p] \in WithLocks
    BY <1>7, <2>1 DEF Connected, Mine, WithLocks, Restarting
  <2>3. \A b \in Accounts :
          lock[b] \notin {p, Nobody} \/ b \in Held(p) => lock'[b] = lock[b]
    BY <1>7, <2>1, <2>2, LeftKeeps DEF Connected
  <2>4. Respects(p)
    BY <1>7, <2>1, <2>2, <2>3 DEF Connected, Respects, TypeInv
  <2>5. pc'[p] \in Onward
    BY <1>7, GoOnOnward DEF Connected
  <2>6. \A b \in Held(p) : lock'[b] = lock[b]
    BY <2>3, HeldType
  <2> QED  BY <1>7, <2>2, <2>4, <2>5, <2>6, MineStays DEF Connected
<1>8. CASE ConnectFailed(p)
  <2>1. PICK a \in Accounts : a = Least(job[p].todo)
    BY <1>8, FirstType DEF ConnectFailed
  <2>2. lock[a] = p /\ pc[p] \in WithLocks
    BY <1>8, <2>1 DEF ConnectFailed, Mine, WithLocks, Restarting
  <2>3. \A b \in Accounts :
          lock[b] \notin {p, Nobody} \/ b \in Held(p) => lock'[b] = lock[b]
    BY <1>8, <2>1, <2>2, LeftKeeps DEF ConnectFailed
  <2>4. Respects(p)
    BY <1>8, <2>1, <2>3 DEF ConnectFailed, Close, Respects, TypeInv
  <2>5. pc'[p] \in Onward
    BY <1>8, GoOnOnward DEF ConnectFailed
  <2>6. \A b \in Held(p) : lock'[b] = lock[b]
    BY <2>3, HeldType
  <2> QED  BY <1>8, <2>2, <2>4, <2>5, <2>6, MineStays DEF ConnectFailed
<1>9. CASE Restarted(p)
  <2>1. p \notin Changes /\ pc'[p] = "done"
    BY <1>9, ConstantsAssumption DEF Restarted, Goto, TypeInv
  <2> QED  BY <1>9, <2>1, MineOnward DEF Restarted, Respects, TypeInv
<1>10. CASE Stop(p)
  <2>1. p \notin Changes
    BY <1>10, ConstantsAssumption DEF Stop
  <2>2. pc'[p] \in Onward \/ pc'[p] = "done"
    BY <1>10, StopBeginsOnward DEF Stop
  <2> QED  BY <1>10, <2>1, <2>2, MineOnward DEF Stop, Respects, TypeInv
<1>11. CASE Edit(p)
  <2>1. p \notin Changes /\ pc'[p] = "restarting"
    BY <1>11, ConstantsAssumption DEF Edit, Goto, TypeInv
  <2> QED  BY <1>11, <2>1 DEF Edit, Respects, TypeInv, Mine
<1>12. CASE p \in Changes /\ BeginChange(p)
  <2>1. /\ pc'[p] = "locking" /\ changing = Nobody /\ changing' = p
        /\ UNCHANGED <<lock, listeners, users>>
    BY <1>12 DEF BeginChange, Goto, TypeInv
  <2> QED  BY <2>1 DEF Respects, TypeInv, Mine, WithLocks, Restarting
<1>13. CASE p \in Changes /\ LockAccount(p)
  <2> DEFINE a == Least(Wanted(p))
  <2>1. /\ pc[p] = "locking" /\ lock[a] = Nobody
        /\ lock' = [lock EXCEPT ![a] = p]
        /\ UNCHANGED <<changing, listeners, users>> /\ changing = p
    BY <1>13 DEF LockAccount, Mine
  <2> HIDE DEF a
  <2>2. Respects(p)
    BY <2>1 DEF Respects, TypeInv
  <2>3. CASE Wanted(p) = {a}
    <3>1. \A b \in Held(p) : lock'[b] = p
      BY <2>1, <2>3, HeldType DEF Wanted, TypeInv
    <3>2. pc'[p] \in Onward
      BY <1>13, <2>3, StopBeginsOnward DEF LockAccount, a
    <3> QED  BY <2>1, <2>2, <3>1, <3>2, MineOnward
  <2>4. CASE Wanted(p) # {a}
    <3>1. UNCHANGED <<pc, job>>
      BY <1>13, <2>4 DEF LockAccount, a
    <3> QED  BY <2>1, <2>2, <3>1 DEF Mine, WithLocks, Restarting
  <2> QED  BY <2>3, <2>4
<1>14. CASE p \in Changes /\ RefuseChange(p)
  <2>1. pc'[p] = "done" /\ changing = p
    BY <1>14 DEF RefuseChange, Goto, TypeInv, Mine
  <2>2. Respects(p)
    BY <1>14, <2>1 DEF RefuseChange, Respects, TypeInv, Freed
  <2> QED  BY <2>1, <2>2 DEF Mine, WithLocks, Restarting
<1>15. CASE p \in Changes /\ ChangeFiles(p)
  <2>1. /\ pc[p] = "closing" /\ pc'[p] = "restarting"
        /\ Close(Old[p]) /\ UNCHANGED <<changing, lock>>
    BY <1>15 DEF ChangeFiles, Goto, TypeInv
  <2>2. users'[Old[p]] = 0 /\ \A h \in listeners' : h[1] # Old[p]
    BY <1>15, <2>1, ConstantsAssumption DEF Close, TypeInv
  <2>3. changing = p /\ \A b \in Held(p) : lock[b] = p
    BY <1>15, <2>1 DEF Mine, WithLocks
  <2>4. Respects(p)
    BY <2>1 DEF Close, Respects, TypeInv
  <2> QED  BY <2>1, <2>2, <2>3, <2>4 DEF Mine, Held
<1>16. CASE p \in Changes /\ EndChange(p)
  <2>1. pc'[p] = "done" /\ changing = p
    BY <1>16 DEF EndChange, Goto, TypeInv, Mine, WithLocks, Restarting
  <2>2. Respects(p)
    BY <1>16, <2>1 DEF EndChange, Respects, TypeInv, Freed
  <2> QED  BY <2>1, <2>2 DEF Mine, WithLocks, Restarting
<1>17. CASE p \in Runs /\ BeginRun(p)
  <2>1. p \notin Changes /\ pc'[p] = "running"
    BY <1>17, ConstantsAssumption DEF BeginRun, Goto, TypeInv
  <2>2. Respects(p)
    BY <1>17 DEF BeginRun, Respects, TypeInv
  <2> QED  BY <2>1, <2>2 DEF Mine
<1>18. CASE p \in Runs /\ EndRun(p)
  <2>1. p \notin Changes /\ pc'[p] = "done"
    BY <1>18, ConstantsAssumption DEF EndRun, Goto, TypeInv
  <2>2. Respects(p)
    BY <1>18 DEF EndRun, GiveBack, Freed, Respects, TypeInv
  <2> QED  BY <2>1, <2>2 DEF Mine
<1> QED
  BY <1>1, <1>2, <1>3, <1>4, <1>5, <1>6, <1>7, <1>8, <1>9, <1>10, <1>11, <1>12,
     <1>13, <1>14, <1>15, <1>16, <1>17, <1>18 DEF Step, Monitoring, Changing

OwnInv == TypeInv /\ \A p \in Procs : Mine(p)

\* Nobody opens the client of an account whose files a change is moving: who
\* opens one holds the lock of its account, and the change holds it itself from
\* before stop() until the listeners have restarted.
THEOREM SessionsQuiet == Spec => []SessionQuiet
<1>1. Init => OwnInv
  BY TypeInvInit DEF OwnInv, Init, Mine, WithLocks, Restarting
<1>2. OwnInv /\ [Next]_vars => OwnInv'
  <2> SUFFICES ASSUME OwnInv, [Next]_vars PROVE OwnInv'
    OBVIOUS
  <2>1. TypeInv'
    BY StepTypes DEF OwnInv
  <2>2. CASE UNCHANGED vars
    BY <2>1, <2>2 DEF OwnInv, vars, Mine, Entry
  <2>3. ASSUME NEW p \in Procs, Step(p) PROVE \A q \in Procs : Mine(q)'
    <3>1. Moves(p) /\ DataType' /\ Respects(p) /\ Mine(p)'
      BY <2>3, StepMoves, StepMine DEF OwnInv
    <3> QED  BY <3>1, OthersKeep DEF OwnInv, Moves
  <2> QED  BY <2>1, <2>2, <2>3, NextIsStep DEF OwnInv
<1>3. OwnInv => SessionQuiet
  BY DEF OwnInv, Mine, SessionQuiet, Procs
<1> QED  BY <1>1, <1>2, <1>3, PTL DEF Spec

(***************************************************************************)
(* Restarts without stops and account changes                              *)
(*                                                                         *)
(* One restart at a time has the monitor (Turns).  Follows and Knows say   *)
(* what its rules and the key have to do with the task files and with the  *)
(* current list; Clients says, at each phase, which entries of that list   *)
(* still have a handler, and who uses a client.                            *)
(***************************************************************************)

\* Only edits restart the listeners, beside sign runs.
EditsOnly == Stops = {} /\ Changes = {}

\* The phases of the restart that has the monitor.
Within == {"loading", "stopping", "exiting", "starting", "connecting"}

Turns ==
  /\ \A p \in Procs : pc[p] \in Within <=> p = monitor
  /\ \A p \in Procs : pc[p] \notin {"locking", "closing"}
  /\ \A p \in Procs : pc[p] \in {"stopping", "exiting"} => job[p].list = Len(lists)

\* What the parts of a restart do to its own variables.
LEMMA GoOnDoes ==
  ASSUME TypeInv, NEW p \in Procs, NEW a, NEW started, GoOn(p, a, started)
  PROVE  /\ Alone(p)
         /\ job'[p].rules = job[p].rules /\ job'[p].todo = job[p].todo \ {a}
         /\ job'[p].started = started
         /\ \/ /\ job[p].todo \ {a} # {} /\ pc'[p] = "starting"
               /\ key' = key /\ monitor' = monitor
            \/ /\ job[p].todo \ {a} = {} /\ pc'[p] = "restarted" /\ monitor' = Nobody
               /\ key' = NewKey(p, started)
<1>1. pc \in [Procs -> Labels] /\ job \in [Procs -> Job] /\ job[p] \in Job
  BY DEF TypeInv
<1> DEFINE j == [job[p] EXCEPT !.todo = job[p].todo \ {a}, !.started = started]
<1>2. j.rules = job[p].rules /\ j.todo = job[p].todo \ {a} /\ j.started = started
  BY <1>1 DEF Job
<1>3. job' = [job EXCEPT ![p] = j]
  BY DEF GoOn
<1> HIDE DEF j
<1>4. /\ job'[p] = j /\ \A q \in Procs \ {p} : job'[q] = job[q] /\ pc'[q] = pc[q]
  BY <1>1, <1>3 DEF GoOn, Goto
<1>5. \/ /\ job[p].todo \ {a} # {} /\ pc'[p] = "starting"
         /\ key' = key /\ monitor' = monitor
      \/ /\ job[p].todo \ {a} = {} /\ pc'[p] = "restarted" /\ monitor' = Nobody
         /\ key' = NewKey(p, started)
  BY <1>1 DEF GoOn, Goto
<1> QED  BY <1>2, <1>4, <1>5 DEF Alone

LEMMA StopEndsDoes ==
  ASSUME TypeInv, NEW p \in Procs, NEW rs, StopEnds(p, rs), monitor = p
  PROVE  /\ Alone(p) /\ Current' = <<>> /\ Len(lists') = Len(lists) + 1
         /\ \/ rs = {} /\ pc'[p] = "restarted" /\ key' = {{}} /\ monitor' = Nobody
            \/ /\ rs # {} /\ pc'[p] = "starting" /\ key' = {} /\ monitor' = monitor
               /\ job'[p].rules = rs /\ job'[p].todo = rs /\ job'[p].started = {}
<1>1. pc \in [Procs -> Labels] /\ job \in [Procs -> Job] /\ job[p] \in Job
  BY DEF TypeInv
<1>2. Current' = <<>> /\ Len(lists') = Len(lists) + 1
  <2>1. lists' = Append(lists, <<>>) /\ lists \in Seq(Seq(Accounts \X Procs))
    BY DEF StopEnds, TypeInv
  <2> DEFINE S == Seq(Accounts \X Procs)
  <2>2. <<>> \in S /\ lists \in Seq(S)
    BY <2>1
  <2> HIDE DEF S
  <2>3. Len(lists') = Len(lists) + 1 /\ lists'[Len(lists) + 1] = <<>>
    BY <2>1, <2>2
  <2> QED  BY <2>3 DEF Current
<1>3. CASE rs = {}
  BY <1>1, <1>2, <1>3 DEF StopEnds, Goto, Alone
<1>4. CASE rs # {}
  <2> DEFINE j == [job[p] EXCEPT !.rules = rs, !.todo = rs, !.started = {}]
  <2>1. j.rules = rs /\ j.todo = rs /\ j.started = {}
    BY <1>1 DEF Job
  <2>2. job' = [job EXCEPT ![p] = j]
    BY <1>4 DEF StopEnds
  <2> HIDE DEF j
  <2>3. job'[p] = j /\ \A q \in Procs \ {p} : job'[q] = job[q] /\ pc'[q] = pc[q]
    BY <1>1, <1>4, <2>2 DEF StopEnds, Goto
  <2>4. pc'[p] = "starting" /\ key' = {} /\ monitor' = monitor
    BY <1>1, <1>4 DEF StopEnds, Goto
  <2> QED  BY <1>2, <1>4, <2>1, <2>3, <2>4 DEF Alone
<1> QED  BY <1>3, <1>4

LEMMA StopBeginsDoes ==
  ASSUME TypeInv, NEW p \in Procs, NEW rs, StopBegins(p, rs), Current # <<>>
  PROVE  /\ Alone(p) /\ pc'[p] = "stopping" /\ UNCHANGED <<lists, key, monitor>>
         /\ job'[p].rules = rs /\ job'[p].list = Len(lists) /\ job'[p].index = 1
<1>1. pc \in [Procs -> Labels] /\ job \in [Procs -> Job] /\ job[p] \in Job
  BY DEF TypeInv
<1> DEFINE j == [job[p] EXCEPT !.rules = rs, !.list = Len(lists), !.index = 1]
<1>2. j.rules = rs /\ j.list = Len(lists) /\ j.index = 1
  BY <1>1 DEF Job
<1>3. job' = [job EXCEPT ![p] = j]
  BY DEF StopBegins
<1> HIDE DEF j
<1>4. job'[p] = j /\ \A q \in Procs \ {p} : job'[q] = job[q] /\ pc'[q] = pc[q]
  BY <1>1, <1>3 DEF StopBegins, Goto
<1> QED  BY <1>1, <1>2, <1>4 DEF StopBegins, Goto, Alone

LEMMA NextListenerDoes ==
  ASSUME TypeInv, NEW p \in Procs, ListenerStopped(p), More(p)
  PROVE  /\ Alone(p) /\ pc'[p] = "stopping" /\ UNCHANGED <<lists, key, monitor>>
         /\ job'[p].rules = job[p].rules /\ job'[p].list = job[p].list
         /\ job'[p].index = job[p].index + 1
<1>1. pc \in [Procs -> Labels] /\ job \in [Procs -> Job] /\ job[p] \in Job
  BY DEF TypeInv
<1> DEFINE j == [job[p] EXCEPT !.index = @ + 1]
<1>2. j.rules = job[p].rules /\ j.list = job[p].list /\ j.index = job[p].index + 1
  BY <1>1 DEF Job
<1>3. job' = [job EXCEPT ![p] = j]
  BY DEF ListenerStopped
<1> HIDE DEF j
<1>4. job'[p] = j /\ \A q \in Procs \ {p} : job'[q] = job[q] /\ pc'[q] = pc[q]
  BY <1>1, <1>3 DEF ListenerStopped, Goto
<1> QED  BY <1>1, <1>2, <1>4 DEF ListenerStopped, Goto, Alone

\* A step that changes the phase of p and nothing of the service.
LEMMA GotoDoes ==
  ASSUME TypeInv, NEW p \in Procs, NEW l, Goto(p, l)
  PROVE  pc'[p] = l /\ \A q \in Procs \ {p} : pc'[q] = pc[q]
BY DEF TypeInv, Goto

\* Without changes, an account is locked and opened as it is.
LEMMA PlainLocks ==
  ASSUME EditsOnly, NEW p \in Procs, NEW a
  PROVE  /\ CanEnter(p, a) <=> lock[a] = Nobody
         /\ Entered(p, a) = [lock EXCEPT ![a] = p]
         /\ Left(p, a) = [lock EXCEPT ![a] = Nobody]
BY DEF EditsOnly, Held, CanEnter, Entered, Left

-----------------------------------------------------------------------------
LEMMA TurnsStep ==
  ASSUME TypeInv, Turns, EditsOnly, NEW p \in Procs, Step(p) PROVE Turns'
<1>n. Nobody \notin Procs /\ monitor \in Procs \cup {Nobody}
  BY ConstantsAssumption DEF TypeInv, Procs
<1>1. CASE pc[p] \notin Within /\ pc'[p] \notin Within \cup {"locking", "closing"}
           /\ monitor' = monitor /\ lists' = lists /\ Alone(p)
  BY <1>1 DEF Turns, Alone, Within
<1>2. CASE monitor = p /\ pc'[p] \in Within /\ monitor' = p /\ Alone(p)
           /\ (pc'[p] \in {"stopping", "exiting"} => job'[p].list = Len(lists'))
  BY <1>2 DEF Turns, Alone, Within
<1>3. CASE monitor = p /\ pc'[p] = "restarted" /\ monitor' = Nobody /\ Alone(p)
  BY <1>3, <1>n DEF Turns, Alone, Within
<1>4. CASE StopListener(p)
  <2>1. pc'[p] = "exiting" /\ Alone(p)
    BY <1>4, GotoDoes DEF StopListener, Alone
  <2> QED  BY <1>2, <1>4, <2>1 DEF StopListener, Turns, Within
<1>5. CASE ListenerStopped(p)
  <2>1. monitor = p
    BY <1>5 DEF ListenerStopped, Turns, Within
  <2>2. CASE More(p)
    <3>1. job[p].list = Len(lists)
      BY <1>5 DEF ListenerStopped, Turns
    <3> QED  BY <1>2, <1>5, <2>1, <2>2, <3>1, NextListenerDoes DEF Within
  <2>3. CASE ~More(p)
    <3>1. StopEnds(p, job[p].rules)
      BY <1>5, <2>3 DEF ListenerStopped
    <3>2. Alone(p) /\ \/ pc'[p] = "restarted" /\ monitor' = Nobody
                      \/ pc'[p] = "starting" /\ monitor' = monitor
      BY <2>1, <3>1, StopEndsDoes
    <3> QED  BY <1>2, <1>3, <2>1, <3>2 DEF Within
  <2> QED  BY <2>2, <2>3
<1>6. CASE EnterRestart(p)
  <2>1. pc'[p] = "loading" /\ Alone(p) /\ pc[p] = "restarting"
    BY <1>6, GotoDoes DEF EnterRestart, Alone
  <2>2. monitor = Nobody /\ monitor' = p /\ lists' = lists
    BY <1>6 DEF EnterRestart
  <2> QED  BY <1>n, <2>1, <2>2 DEF Turns, Alone, Within
<1>7. CASE Load(p)
  <2>1. monitor = p
    BY <1>7 DEF Load, Turns, Within
  <2>2. CASE UpToDate
    <3>1. pc'[p] = "restarted" /\ Alone(p) /\ monitor' = Nobody
      BY <1>7, <2>2, GotoDoes DEF Load, Alone
    <3> QED  BY <1>3, <2>1, <3>1
  <2>3. CASE ~UpToDate /\ Current = <<>>
    <3>1. StopEnds(p, disk)
      BY <1>7, <2>3 DEF Load, StopBegins
    <3>2. Alone(p) /\ \/ pc'[p] = "restarted" /\ monitor' = Nobody
                      \/ pc'[p] = "starting" /\ monitor' = monitor
      BY <2>1, <3>1, StopEndsDoes
    <3> QED  BY <1>2, <1>3, <2>1, <3>2 DEF Within
  <2>4. CASE ~UpToDate /\ Current # <<>>
    <3>1. StopBegins(p, disk)
      BY <1>7, <2>4 DEF Load
    <3> QED  BY <1>2, <2>1, <2>4, <3>1, StopBeginsDoes DEF Within
  <2> QED  BY <2>2, <2>3, <2>4
<1>8. CASE SkipAccount(p) \/ Connected(p) \/ ConnectFailed(p)
  <2>1. monitor = p /\ \E a, started : GoOn(p, a, started)
    BY <1>8 DEF SkipAccount, Connected, ConnectFailed, Turns, Within
  <2>2. Alone(p) /\ \/ pc'[p] = "restarted" /\ monitor' = Nobody
                    \/ pc'[p] = "starting" /\ monitor' = monitor
    BY <2>1, GoOnDoes
  <2> QED  BY <1>2, <1>3, <2>1, <2>2 DEF Within
<1>9. CASE StartListener(p)
  <2>1. pc'[p] = "connecting" /\ Alone(p)
    BY <1>9, GotoDoes DEF StartListener, Alone
  <2> QED  BY <1>2, <1>9, <2>1 DEF StartListener, Turns, Within
<1>10. CASE Restarted(p) \/ Edit(p) \/ BeginRun(p) \/ EndRun(p)
  <2>1. /\ pc[p] \in {"restarted", "idle", "running"}
        /\ pc'[p] \in {"done", "restarting", "running"} /\ Alone(p)
    BY <1>10, GotoDoes DEF Restarted, Edit, BeginRun, EndRun, Alone
  <2>2. monitor' = monitor /\ lists' = lists
    BY <1>10 DEF Restarted, Edit, BeginRun, EndRun
  <2> QED  BY <1>1, <2>1, <2>2 DEF Within
<1> QED
  BY <1>4, <1>5, <1>6, <1>7, <1>8, <1>9, <1>10 DEF Step, Monitoring, Stop, EditsOnly

-----------------------------------------------------------------------------
(* What the key and the rules of a restart say of the listeners *)

\* The accounts that the current list names.
All == {Current[i][1] : i \in DOMAIN Current}

Distinct ==
  \A i, j \in DOMAIN Current : Current[i][1] = Current[j][1] => i = j

\* A key names the accounts of the current list; a restart that starts listeners
\* has no key, and has started those of the list.
Knows ==
  /\ monitor = Nobody => \A rs \in key : rs = All
  /\ \A p \in Procs : pc[p] = "loading" => \A rs \in key : rs = All
  /\ \A p \in Procs : pc[p] \in {"starting", "connecting"} =>
       /\ key = {} /\ All = job[p].started /\ All \cap job[p].todo = {}
       /\ All \cup job[p].todo \subseteq job[p].rules

\* An edit waits for the monitor.
Pending == \E q \in Procs : pc[q] = "restarting"

\* Unless one does, the rules are those of the task files.
Follows ==
  \/ Pending
  \/ /\ monitor = Nobody => key \subseteq {disk} /\ All \subseteq disk
     /\ \A p \in Procs : pc[p] \in Within \ {"loading"} => job[p].rules = disk

LEMMA ListSame ==
  ASSUME lists' = lists
  PROVE  Current' = Current /\ All' = All /\ (Distinct => Distinct')
BY DEF Current, All, Distinct

LEMMA ListEmpty == ASSUME Current' = <<>> PROVE All' = {} /\ Distinct'
BY DEF All, Distinct

LEMMA CurrentType ==
  ASSUME TypeInv
  PROVE  Current \in Seq(Accounts \X Procs) /\ Len(lists) \in DOMAIN lists
         /\ All \subseteq Accounts
<1>1. Current \in Seq(Accounts \X Procs) /\ Len(lists) \in DOMAIN lists
  BY DEF TypeInv, Current
<1>2. \A i \in DOMAIN Current : Current[i] \in Accounts \X Procs
  BY <1>1
<1> QED  BY <1>1, <1>2 DEF All

LEMMA ListGrows ==
  ASSUME TypeInv, NEW a \in Accounts, NEW p \in Procs,
         lists' = [lists EXCEPT ![Len(lists)] = Append(@, <<a, p>>)]
  PROVE  /\ Current' = Append(Current, <<a, p>>) /\ Len(lists') = Len(lists)
         /\ All' = All \cup {a}
         /\ Distinct /\ a \notin All => Distinct'
<1>1. Current' = Append(Current, <<a, p>>) /\ Len(lists') = Len(lists)
  BY CurrentType DEF Current, TypeInv
<1>2. /\ DOMAIN Current' = DOMAIN Current \cup {Len(Current) + 1}
      /\ Current'[Len(Current) + 1] = <<a, p>> /\ Len(Current) + 1 \notin DOMAIN Current
      /\ \A i \in DOMAIN Current : Current'[i] = Current[i]
  BY <1>1, CurrentType
<1>3. All' = All \cup {a}
  BY <1>2 DEF All
<1>4. ASSUME Distinct, a \notin All PROVE Distinct'
  BY <1>2, <1>4 DEF All, Distinct
<1> QED  BY <1>1, <1>3, <1>4

LEMMA StillPending ==
  ASSUME NEW p \in Procs, Alone(p), pc[p] # "restarting", Pending PROVE Pending'
BY DEF Alone, Pending

\* The ends of a step of a restart that matter: it stops listeners, starts them,
\* or is over.
LEMMA OnStopping ==
  ASSUME TypeInv, Turns, Turns', Knows, Follows, NEW p \in Procs,
         monitor = p, Alone(p), monitor' = p, pc'[p] \in {"stopping", "exiting"},
         lists' = lists, disk' = disk,
         job'[p].rules = IF pc[p] = "loading" THEN disk ELSE job[p].rules
  PROVE  Knows' /\ Follows'
<1>1. p # Nobody /\ pc[p] \in Within /\ \A q \in Procs : pc'[q] \in Within <=> q = p
  BY ConstantsAssumption DEF Turns
<1>2. Knows'
  BY <1>1 DEF Knows, Within
<1>3. CASE Pending
  BY <1>1, <1>2, <1>3, StillPending DEF Follows, Within
<1>4. CASE ~Pending
  <2>1. job'[p].rules = disk
    BY <1>1, <1>4 DEF Follows, Within
  <2> QED  BY <1>1, <1>2, <2>1 DEF Follows
<1> QED  BY <1>2, <1>3, <1>4

LEMMA OnStarting ==
  ASSUME TypeInv, Turns, Turns', Follows, NEW p \in Procs,
         monitor = p, Alone(p), monitor' = p, pc'[p] \in {"starting", "connecting"},
         disk' = disk, key' = {},
         job'[p].rules = disk \/ (pc[p] # "loading" /\ job'[p].rules = job[p].rules),
         All' = job'[p].started, All' \cap job'[p].todo = {},
         All' \cup job'[p].todo \subseteq job'[p].rules
  PROVE  Knows' /\ Follows'
<1>1. p # Nobody /\ pc[p] \in Within /\ \A q \in Procs : pc'[q] \in Within <=> q = p
  BY ConstantsAssumption DEF Turns
<1>2. Knows'
  <2>1. monitor' # Nobody /\ \A q \in Procs : pc'[q] # "loading"
    BY <1>1 DEF Within
  <2>2. \A q \in Procs : pc'[q] \in {"starting", "connecting"} => q = p
    BY <1>1 DEF Within
  <2> QED  BY <2>1, <2>2 DEF Knows
<1>3. CASE Pending
  BY <1>1, <1>2, <1>3, StillPending DEF Follows, Within
<1>4. CASE ~Pending
  <2>1. job'[p].rules = disk
    BY <1>1, <1>4 DEF Follows, Within
  <2> QED  BY <1>1, <1>2, <2>1 DEF Follows
<1> QED  BY <1>2, <1>3, <1>4

LEMMA OnRestarted ==
  ASSUME TypeInv, Turns, Turns', Follows, NEW p \in Procs,
         monitor = p, Alone(p), monitor' = Nobody, disk' = disk,
         NEW rs, rs = disk \/ (pc[p] # "loading" /\ rs = job[p].rules),
         key' \subseteq {rs}, All' \subseteq rs, key' = {} \/ All' = rs
  PROVE  Knows' /\ Follows'
<1>1. p # Nobody /\ pc[p] \in Within /\ \A q \in Procs : pc'[q] \notin Within
  BY ConstantsAssumption DEF Turns, Procs
<1>2. Knows'
  <2>1. \A q \in Procs : pc'[q] \notin {"loading", "starting", "connecting"}
    BY <1>1 DEF Within
  <2>2. \A r \in key' : r = All'
    OBVIOUS
  <2> QED  BY <2>1, <2>2 DEF Knows
<1>3. CASE Pending
  BY <1>1, <1>2, <1>3, StillPending DEF Follows, Within
<1>4. CASE ~Pending
  <2>1. rs = disk
    BY <1>1, <1>4 DEF Follows, Within
  <2> QED  BY <1>1, <1>2, <2>1 DEF Follows
<1> QED  BY <1>2, <1>3, <1>4

\* A restart that begins to stop has nothing to stop, or goes on as follows.
LEMMA OnStopEnds ==
  ASSUME TypeInv, Turns, Turns', Follows, NEW p \in Procs, monitor = p, disk' = disk,
         NEW rs, rs = disk \/ (pc[p] # "loading" /\ rs = job[p].rules), StopEnds(p, rs)
  PROVE  Distinct' /\ Knows' /\ Follows'
<1>1. Alone(p) /\ Current' = <<>>
  BY StopEndsDoes
<1>2. All' = {} /\ Distinct'
  BY <1>1, ListEmpty
<1>3. CASE rs = {}
  <2>1. key' = {{}} /\ monitor' = Nobody
    BY <1>3, StopEndsDoes
  <2> QED  BY <1>1, <1>2, <1>3, <2>1, OnRestarted
<1>4. CASE rs # {}
  <2>1. /\ pc'[p] = "starting" /\ key' = {} /\ monitor' = monitor
        /\ job'[p].rules = rs /\ job'[p].todo = rs /\ job'[p].started = {}
    BY <1>4, StopEndsDoes
  <2> QED  BY <1>1, <1>2, <2>1, OnStarting
<1> QED  BY <1>3, <1>4

LEMMA OnGoOn ==
  ASSUME TypeInv, Turns, Turns', Knows, Follows, NEW p \in Procs, monitor = p,
         disk' = disk, pc[p] \in {"starting", "connecting"},
         NEW a, NEW started, GoOn(p, a, started),
         All' = started, started \subseteq All \cup {a}, a \in job[p].todo
  PROVE  Knows' /\ Follows'
<1>1. /\ key = {} /\ All \cap job[p].todo = {}
      /\ All \cup job[p].todo \subseteq job[p].rules
  BY DEF Knows
<1>2. /\ Alone(p)
      /\ job'[p].rules = job[p].rules /\ job'[p].todo = job[p].todo \ {a}
      /\ job'[p].started = started
      /\ \/ pc'[p] = "starting" /\ key' = key /\ monitor' = monitor
         \/ monitor' = Nobody /\ key' = NewKey(p, started)
  BY GoOnDoes
<1>3. CASE pc'[p] = "starting" /\ key' = key /\ monitor' = monitor
  BY <1>1, <1>2, <1>3, OnStarting
<1>4. CASE monitor' = Nobody /\ key' = NewKey(p, started)
  <2>1. /\ key' \subseteq {job[p].rules} /\ All' \subseteq job[p].rules
        /\ key' = {} \/ All' = job[p].rules
    BY <1>1, <1>4 DEF NewKey
  <2> QED  BY <1>2, <1>4, <2>1, OnRestarted
<1> QED  BY <1>2, <1>3, <1>4

FollowInv == Turns /\ Distinct /\ Knows /\ Follows

LEMMA FollowStep ==
  ASSUME TypeInv, TypeInv', FollowInv, EditsOnly, NEW p \in Procs, Step(p)
  PROVE  FollowInv'
<1>t. Turns' /\ Turns /\ Distinct /\ Knows /\ Follows
  BY TurnsStep DEF FollowInv
<1>n. Nobody \notin Procs /\ p # Nobody
  BY ConstantsAssumption DEF Procs
<1>1. CASE StopListener(p)
  <2>1. /\ pc'[p] = "exiting" /\ Alone(p) /\ monitor = p /\ monitor' = p
        /\ pc[p] = "stopping" /\ lists' = lists /\ disk' = disk /\ job' = job
    BY <1>1, <1>t, GotoDoes DEF StopListener, Alone, Turns, Within
  <2>2. Knows' /\ Follows'
    BY <1>t, <2>1, OnStopping
  <2> QED  BY <1>t, <2>1, <2>2, ListSame DEF FollowInv
<1>2. CASE ListenerStopped(p)
  <2>1. monitor = p /\ pc[p] = "exiting" /\ disk' = disk
    BY <1>2, <1>t DEF ListenerStopped, Turns, Within
  <2>2. CASE More(p)
    <3>1. /\ Alone(p) /\ pc'[p] = "stopping" /\ lists' = lists /\ monitor' = p
          /\ job'[p].rules = job[p].rules
      BY <1>2, <2>1, <2>2, NextListenerDoes
    <3>2. Knows' /\ Follows'
      BY <1>t, <2>1, <3>1, OnStopping
    <3> QED  BY <1>t, <3>1, <3>2, ListSame DEF FollowInv
  <2>3. CASE ~More(p)
    <3>1. StopEnds(p, job[p].rules)
      BY <1>2, <2>3 DEF ListenerStopped
    <3> QED  BY <1>t, <2>1, <3>1, OnStopEnds DEF FollowInv
  <2> QED  BY <2>2, <2>3
<1>3. CASE EnterRestart(p)
  <2>1. /\ pc'[p] = "loading" /\ Alone(p) /\ monitor = Nobody /\ monitor' = p
        /\ lists' = lists /\ key' = key
    BY <1>3, GotoDoes DEF EnterRestart, Alone
  <2>2. \A q \in Procs : pc'[q] \in Within <=> q = p
    BY <1>t, <2>1 DEF Turns
  <2>3. \A rs \in key' : rs = All'
    BY <1>t, <2>1, ListSame DEF Knows
  <2>4. Knows'
    BY <1>n, <2>1, <2>2, <2>3 DEF Knows, Within
  <2>5. Follows'
    BY <1>n, <2>1, <2>2 DEF Follows
  <2> QED  BY <1>t, <2>1, <2>4, <2>5, ListSame DEF FollowInv
<1>4. CASE Load(p)
  <2>1. monitor = p /\ pc[p] = "loading" /\ disk' = disk
    BY <1>4, <1>t DEF Load, Turns, Within
  <2>2. CASE UpToDate
    <3>1. /\ Alone(p) /\ monitor' = Nobody /\ lists' = lists /\ key' = {disk}
          /\ All = disk
      BY <1>4, <1>t, <2>1, <2>2, GotoDoes DEF Load, Alone, UpToDate, Knows
    <3>2. All' = disk
      BY <3>1, ListSame
    <3>3. Knows' /\ Follows'
      BY <1>t, <2>1, <3>1, <3>2, OnRestarted
    <3> QED  BY <1>t, <3>1, <3>3, ListSame DEF FollowInv
  <2>3. CASE ~UpToDate /\ Current = <<>>
    <3>1. StopEnds(p, disk)
      BY <1>4, <2>3 DEF Load, StopBegins
    <3> QED  BY <1>t, <2>1, <3>1, OnStopEnds DEF FollowInv
  <2>4. CASE ~UpToDate /\ Current # <<>>
    <3>1. /\ Alone(p) /\ pc'[p] = "stopping" /\ lists' = lists /\ monitor' = p
          /\ job'[p].rules = disk
      BY <1>4, <2>1, <2>4, StopBeginsDoes DEF Load
    <3>2. Knows' /\ Follows'
      BY <1>t, <2>1, <3>1, OnStopping
    <3> QED  BY <1>t, <3>1, <3>2, ListSame DEF FollowInv
  <2> QED  BY <2>2, <2>3, <2>4
<1>5. CASE SkipAccount(p) \/ ConnectFailed(p)
  <2> DEFINE a == Least(job[p].todo)
  <2>1. /\ GoOn(p, a, job[p].started) /\ lists' = lists /\ disk' = disk
        /\ pc[p] \in {"starting", "connecting"}
    BY <1>5 DEF SkipAccount, ConnectFailed
  <2>2. monitor = p /\ a \in job[p].todo
    BY <1>t, <2>1, FirstType DEF Turns, Within
  <2>3. All' = job[p].started /\ job[p].started \subseteq All
    BY <1>t, <2>1, ListSame DEF Knows
  <2> HIDE DEF a
  <2>4. Knows' /\ Follows'
    BY <1>t, <2>1, <2>2, <2>3, OnGoOn
  <2> QED  BY <1>t, <2>1, <2>4, ListSame DEF FollowInv
<1>6. CASE Connected(p)
  <2> DEFINE a == Least(job[p].todo)
  <2>1. /\ GoOn(p, a, job[p].started \cup {a}) /\ disk' = disk
        /\ lists' = [lists EXCEPT ![Len(lists)] = Append(@, <<a, p>>)]
        /\ pc[p] = "connecting"
    BY <1>6 DEF Connected
  <2>2. monitor = p /\ a \in job[p].todo /\ a \in Accounts
    BY <1>t, <2>1, FirstType DEF Turns, Within
  <2> HIDE DEF a
  <2>3. All = job[p].started /\ a \notin All
    BY <1>t, <2>1, <2>2 DEF Knows
  <2>4. All' = job[p].started \cup {a} /\ Distinct'
    BY <1>t, <2>1, <2>2, <2>3, ListGrows
  <2>5. Knows' /\ Follows'
    BY <1>t, <2>1, <2>2, <2>3, <2>4, OnGoOn
  <2> QED  BY <1>t, <2>4, <2>5 DEF FollowInv
<1>7. CASE StartListener(p)
  <2>1. /\ pc'[p] = "connecting" /\ Alone(p) /\ pc[p] = "starting" /\ job' = job
        /\ disk' = disk /\ lists' = lists /\ key' = key /\ monitor' = monitor
    BY <1>7, GotoDoes DEF StartListener, Alone
  <2>2. monitor = p
    BY <1>t, <2>1 DEF Turns, Within
  <2>3. Knows' /\ Follows'
    BY <1>t, <2>1, <2>2, ListSame, OnStarting DEF Knows
  <2> QED  BY <1>t, <2>1, <2>3, ListSame DEF FollowInv
<1>8. CASE Restarted(p) \/ Edit(p) \/ BeginRun(p) \/ EndRun(p)
  <2>1. /\ pc[p] \in {"restarted", "idle", "running"}
        /\ pc'[p] \in {"done", "restarting", "running"} /\ Alone(p)
        /\ disk' = disk \/ pc'[p] = "restarting"
    BY <1>8, GotoDoes DEF Restarted, Edit, BeginRun, EndRun, Alone
  <2>2. monitor' = monitor /\ lists' = lists /\ key' = key
    BY <1>8 DEF Restarted, Edit, BeginRun, EndRun
  <2>3. \A q \in Procs : pc'[q] \in Within => q # p /\ pc'[q] = pc[q] /\ job'[q] = job[q]
    BY <2>1 DEF Alone, Within
  <2>4. Knows'
    BY <1>t, <2>2, <2>3, ListSame DEF Knows, Within
  <2>5. CASE pc'[p] = "restarting"
    BY <1>t, <2>2, <2>4, <2>5, ListSame DEF FollowInv, Follows, Pending
  <2>6. CASE pc'[p] # "restarting"
    <3>1. CASE Pending
      BY <1>t, <2>1, <2>2, <2>4, <3>1, ListSame, StillPending DEF FollowInv, Follows
    <3>2. CASE ~Pending
      <4>1. Follows'
        BY <1>t, <2>1, <2>2, <2>3, <2>6, <3>2, ListSame DEF Follows
      <4> QED  BY <1>t, <2>2, <2>4, <4>1, ListSame DEF FollowInv
    <3> QED  BY <3>1, <3>2
  <2> QED  BY <2>5, <2>6
<1> QED
  BY <1>1, <1>2, <1>3, <1>4, <1>5, <1>6, <1>7, <1>8
     DEF Step, Monitoring, Stop, EditsOnly

-----------------------------------------------------------------------------
(* Clients: their users and their handlers *)

\* A sign run uses the account.
Guest(a) == lock[a] # Nobody /\ pc[lock[a]] = "running"

\* The entries of the current list from the n-th on.
Kept(n) == {Current[i] : i \in n .. Len(Current)}

\* A listener of the account is one of K.
Used(K, a) == \E h \in K : h[1] = a

\* Each client counts the sign run and the listener that use it.
Refs(K) ==
  \A a \in Accounts :
    users[a] = (IF Guest(a) THEN 1 ELSE 0) + (IF Used(K, a) THEN 1 ELSE 0)

\* Who holds the lock of an account: a sign run, which holds no other, or the
\* restart, for the listener that it stops or starts.
Holding(q, a) ==
  \/ pc[q] = "running" /\ \A b \in Accounts : lock[b] = q => b = a
  \/ pc[q] = "exiting" /\ a = Entry(q)[1]
  \/ pc[q] = "connecting" /\ a = Least(job[q].todo)

Locked == \A a \in Accounts : lock[a] # Nobody => Holding(lock[a], a)

Settled == Refs(Kept(1)) /\ listeners = Kept(1)

\* The clients at each phase of the restart that has the monitor.
Phased(p) ==
  /\ pc[p] \in {"loading", "starting"} => Settled
  /\ pc[p] = "stopping" =>
       Refs(Kept(job[p].index)) /\ listeners = Kept(job[p].index)
  /\ pc[p] = "exiting" =>
       /\ Refs(Kept(job[p].index)) /\ listeners = Kept(job[p].index + 1)
       /\ lock[Entry(p)[1]] = p
  /\ pc[p] = "connecting" =>
       /\ Refs(Kept(1)) /\ listeners = Kept(1) \cup {<<Least(job[p].todo), p>>}
       /\ lock[Least(job[p].todo)] = p

Clients ==
  /\ Locked
  /\ monitor = Nobody => Settled
  /\ \A p \in Procs : Phased(p)

LEMMA KeptFirst ==
  ASSUME TypeInv, Distinct, NEW n \in DOMAIN Current
  PROVE  /\ Kept(n) = Kept(n + 1) \cup {Current[n]}
         /\ ~Used(Kept(n + 1), Current[n][1])
<1>1. Current \in Seq(Accounts \X Procs)
  BY CurrentType
<1>2. n .. Len(Current) = (n + 1 .. Len(Current)) \cup {n}
  BY <1>1
<1>3. Kept(n) = Kept(n + 1) \cup {Current[n]}
  BY <1>2 DEF Kept
<1>4. ASSUME NEW i \in n + 1 .. Len(Current) PROVE Current[i][1] # Current[n][1]
  BY <1>1 DEF Distinct
<1> QED  BY <1>3, <1>4 DEF Kept, Used

LEMMA KeptAll ==
  ASSUME TypeInv
  PROVE  /\ \A a : a \in All <=> Used(Kept(1), a)
         /\ Kept(1) = {Current[i] : i \in DOMAIN Current}
         /\ Distinct => \A g, h \in Kept(1) : g[1] = h[1] => g = h
BY CurrentType DEF Kept, Used, All, Distinct

LEMMA KeptEmpty ==
  ASSUME TypeInv
  PROVE  /\ Current = <<>> => Kept(1) = {}
         /\ Current' = <<>> => Kept(1)' = {}
         /\ Kept(Len(Current) + 1) = {}
BY CurrentType DEF Kept

LEMMA KeptGrows ==
  ASSUME TypeInv, NEW h, Current' = Append(Current, h)
  PROVE  Kept(1)' = Kept(1) \cup {h}
<1>1. Current \in Seq(Accounts \X Procs)
  BY CurrentType
<1>2. /\ Len(Current') = Len(Current) + 1 /\ Current'[Len(Current) + 1] = h
      /\ \A i \in 1 .. Len(Current) : Current'[i] = Current[i]
      /\ 1 .. Len(Current') = (1 .. Len(Current)) \cup {Len(Current) + 1}
  BY <1>1
<1> QED  BY <1>2 DEF Kept

LEMMA KeptSame == ASSUME lists' = lists PROVE \A n : Kept(n)' = Kept(n)
BY DEF Kept, Current

\* What a step has to establish at each phase that it reaches.
LEMMA ToSettled ==
  ASSUME NEW K, Kept(1)' = K, Refs(K)', listeners' = K PROVE Settled'
BY DEF Settled, Refs, Used

LEMMA ToStopping ==
  ASSUME NEW p \in Procs, NEW K, NEW n, lists' = lists, pc'[p] = "stopping",
         job'[p].index = n, K = Kept(n), Refs(K)', listeners' = K
  PROVE  Phased(p)'
<1>1. Kept(job[p].index)' = K
  BY DEF Kept, Current
<1> QED  BY <1>1 DEF Phased, Refs, Used

LEMMA ToExiting ==
  ASSUME NEW p \in Procs, NEW K, lists' = lists, job' = job, pc'[p] = "exiting",
         K = Kept(job[p].index), Refs(K)', listeners' = Kept(job[p].index + 1),
         lock'[Entry(p)[1]] = p
  PROVE  Phased(p)'
<1>1. /\ Kept(job[p].index)' = K /\ Entry(p)' = Entry(p)
      /\ Kept(job[p].index + 1)' = Kept(job[p].index + 1)
  BY DEF Kept, Current, Entry
<1> QED  BY <1>1 DEF Phased, Refs, Used

LEMMA ToConnecting ==
  ASSUME NEW p \in Procs, NEW K, NEW a, lists' = lists, job' = job,
         pc'[p] = "connecting", a = Least(job[p].todo), K = Kept(1), Refs(K)',
         listeners' = K \cup {<<a, p>>}, lock'[a] = p
  PROVE  Phased(p)'
<1>1. Kept(1)' = K
  BY DEF Kept, Current
<1>2. Least(job[p].todo)' = a
  BY DEF Least
<1> QED  BY <1>1, <1>2 DEF Phased, Refs, Used

LEMMA RefsSame ==
  ASSUME \A a \in Accounts : Guest(a)' <=> Guest(a), users' = users, NEW K, Refs(K)
  PROVE  Refs(K)'
BY DEF Refs

\* What a step of p, which is no sign run, does to the locks.
LEMMA LocksStep ==
  ASSUME TypeInv, Turns, Locked, NEW p \in Procs, monitor \in {p, Nobody}, Alone(p),
         pc[p] # "running", pc'[p] # "running",
         \/ lock' = lock /\ pc[p] \notin {"exiting", "connecting"}
         \/ \E a \in Accounts :
              \/ /\ lock[a] = Nobody /\ lock' = [lock EXCEPT ![a] = p] /\ Holding(p, a)'
                 /\ pc[p] \notin {"exiting", "connecting"}
              \/ lock[a] = p /\ lock' = [lock EXCEPT ![a] = Nobody]
  PROVE  Locked' /\ \A a \in Accounts : Guest(a)' <=> Guest(a)
<1>1. lock \in [Accounts -> Procs \cup {Nobody}] /\ Nobody \notin Procs
  BY ConstantsAssumption DEF TypeInv
<1>2. ASSUME NEW b \in Accounts, lock[b] \notin {p, Nobody}
      PROVE  /\ pc[lock[b]] = "running"
             /\ \A c \in Accounts : lock[c] = lock[b] => c = b
  <2>1. Holding(lock[b], b) /\ lock[b] \in Procs /\ lock[b] # monitor
    BY <1>1, <1>2 DEF Locked
  <2>2. pc[lock[b]] \notin Within
    BY <2>1 DEF Turns
  <2> QED  BY <2>1, <2>2 DEF Holding, Within
<1>3. ASSUME NEW b \in Accounts, lock[b] = p
      PROVE  pc[p] \in {"exiting", "connecting"} /\ \A c \in Accounts : lock[c] = p => c = b
  <2>1. \A c \in Accounts : lock[c] = p => Holding(p, c)
    BY <1>1 DEF Locked
  <2> QED  BY <1>3, <2>1 DEF Holding
<1>4. CASE lock' = lock /\ pc[p] \notin {"exiting", "connecting"}
  <2>1. \A b \in Accounts : lock[b] # p
    BY <1>3, <1>4
  <2>2. \A b \in Accounts : Guest(b)' <=> Guest(b)
    BY <1>1, <1>2, <1>4, <2>1 DEF Guest, Alone
  <2>3. Locked'
    BY <1>1, <1>2, <1>4, <2>1 DEF Locked, Holding, Alone
  <2> QED  BY <2>2, <2>3
<1>5. ASSUME NEW a \in Accounts, lock[a] = Nobody, lock' = [lock EXCEPT ![a] = p],
             Holding(p, a)', pc[p] \notin {"exiting", "connecting"}
      PROVE  Locked' /\ \A b \in Accounts : Guest(b)' <=> Guest(b)
  <2>1. \A b \in Accounts : lock[b] # p
    BY <1>3, <1>5
  <2>2. lock'[a] = p /\ \A b \in Accounts \ {a} : lock'[b] = lock[b]
    BY <1>1, <1>5
  <2>3. \A b \in Accounts : Guest(b)' <=> Guest(b)
    BY <1>1, <1>2, <1>5, <2>1, <2>2 DEF Guest, Alone
  <2>4. ASSUME NEW b \in Accounts, lock'[b] # Nobody, b # a PROVE Holding(lock[b], b)'
    BY <1>1, <1>2, <2>1, <2>2, <2>4 DEF Holding, Alone
  <2>5. Locked'
    BY <1>1, <1>5, <2>2, <2>4 DEF Locked, Holding
  <2> QED  BY <2>3, <2>5
<1>6. ASSUME NEW a \in Accounts, lock[a] = p, lock' = [lock EXCEPT ![a] = Nobody]
      PROVE  Locked' /\ \A b \in Accounts : Guest(b)' <=> Guest(b)
  <2>1. lock'[a] = Nobody /\ \A b \in Accounts \ {a} : lock'[b] = lock[b]
    BY <1>1, <1>6
  <2>2. \A b \in Accounts \ {a} : lock[b] # p
    BY <1>3, <1>6
  <2>3. \A b \in Accounts : Guest(b)' <=> Guest(b)
    BY <1>1, <1>2, <1>6, <2>1, <2>2 DEF Guest, Alone
  <2>4. ASSUME NEW b \in Accounts, lock'[b] # Nobody PROVE Holding(lock[b], b)'
    BY <1>1, <1>2, <2>1, <2>2, <2>4 DEF Holding, Alone
  <2>5. Locked'
    BY <2>1, <2>4 DEF Locked, Holding
  <2> QED  BY <2>3, <2>5
<1> QED  BY <1>4, <1>5, <1>6

\* A sign run counts itself, and leaves the listeners alone.
LEMMA RunKeeps ==
  ASSUME TypeInv, Turns, Locked, NEW u \in Procs, BeginRun(u) \/ EndRun(u)
  PROVE  /\ Locked' /\ Alone(u) /\ UNCHANGED <<lists, monitor, job>>
         /\ pc'[u] \notin Within
         /\ \A a \in Accounts : lock[a] \notin {u, Nobody} => lock'[a] = lock[a]
         /\ \A K : /\ Refs(K)
                   /\ \A h \in listeners : h \in K \/ lock[h[1]] \notin {u, Nobody}
                   => Refs(K)' /\ listeners' = listeners
<1>1. /\ lock \in [Accounts -> Procs \cup {Nobody}] /\ Nobody \notin Procs
      /\ users \in [Accounts -> Nat] /\ listeners \subseteq Accounts \X Procs
  BY ConstantsAssumption DEF TypeInv
<1>2. CASE BeginRun(u)
  <2>1. /\ pc[u] = "idle" /\ pc'[u] = "running" /\ Alone(u)
        /\ UNCHANGED <<lists, monitor, job, listeners>>
    BY <1>2, GotoDoes DEF BeginRun, Alone
  <2>2. \A b \in Accounts : lock[b] # u
    BY <1>1, <2>1 DEF Locked, Holding
  <2>3. PICK a \in Accounts : /\ lock[a] = Nobody /\ lock' = [lock EXCEPT ![a] = u]
                              /\ users' = [users EXCEPT ![a] = @ + 1]
    BY <1>2 DEF BeginRun
  <2>4. /\ lock'[a] = u /\ users'[a] = users[a] + 1
        /\ \A b \in Accounts \ {a} : lock'[b] = lock[b] /\ users'[b] = users[b]
    BY <1>1, <2>3
  <2>5. Locked'
    <3>1. Holding(u, a)'
      BY <2>1, <2>2, <2>4 DEF Holding
    <3>2. ASSUME NEW b \in Accounts, b # a, lock'[b] # Nobody
          PROVE  Holding(lock[b], b)'
      <4>1. Holding(lock[b], b) /\ lock[b] \in Procs /\ lock[b] # u
        BY <1>1, <2>2, <2>4, <3>2 DEF Locked
      <4>2. pc'[lock[b]] = pc[lock[b]]
        BY <2>1, <4>1 DEF Alone
      <4>3. CASE pc[lock[b]] = "running"
        BY <1>1, <2>4, <4>1, <4>2, <4>3, <3>2 DEF Holding
      <4>4. CASE pc[lock[b]] # "running"
        BY <2>1, <2>4, <3>2, <4>1, <4>2, <4>4 DEF Holding, Entry
      <4> QED  BY <4>3, <4>4
    <3> QED  BY <2>4, <3>1, <3>2 DEF Locked
  <2>6. /\ Guest(a)' /\ ~Guest(a)
        /\ \A b \in Accounts \ {a} : Guest(b)' <=> Guest(b)
    BY <1>1, <2>1, <2>2, <2>3, <2>4 DEF Guest, Alone
  <2>7. \A K : Refs(K) => Refs(K)'
    BY <1>1, <2>4, <2>6 DEF Refs
  <2> QED  BY <2>1, <2>3, <2>4, <2>5, <2>7 DEF Within
<1>3. CASE EndRun(u)
  <2>1. /\ pc[u] = "running" /\ pc'[u] = "done" /\ Alone(u)
        /\ UNCHANGED <<lists, monitor, job>>
    BY <1>3, GotoDoes DEF EndRun, Alone
  <2>2. PICK a \in Accounts : lock[a] = u /\ GiveBack(a)
    BY <1>3 DEF EndRun
  <2>3. \A b \in Accounts : lock[b] = u => b = a
    BY <1>1, <2>1, <2>2 DEF Locked, Holding
  <2>4. /\ lock'[a] = Nobody
        /\ \A b \in Accounts \ {a} : lock'[b] = lock[b] /\ users'[b] = users[b]
    BY <1>1, <1>3, <2>2, <2>3 DEF EndRun, Freed, GiveBack
  <2>5. Locked'
    <3>1. ASSUME NEW b \in Accounts, b # a, lock'[b] # Nobody
          PROVE  Holding(lock[b], b)'
      <4>1. Holding(lock[b], b) /\ lock[b] \in Procs /\ lock[b] # u
        BY <1>1, <2>3, <2>4, <3>1 DEF Locked
      <4>2. pc'[lock[b]] = pc[lock[b]]
        BY <2>1, <4>1 DEF Alone
      <4>3. CASE pc[lock[b]] = "running"
        BY <1>1, <2>4, <4>1, <4>2, <4>3, <3>1 DEF Holding
      <4>4. CASE pc[lock[b]] # "running"
        BY <2>1, <2>4, <3>1, <4>1, <4>2, <4>4 DEF Holding, Entry
      <4> QED  BY <4>3, <4>4
    <3> QED  BY <2>4, <3>1 DEF Locked
  <2>6. /\ Guest(a) /\ ~Guest(a)'
        /\ \A b \in Accounts \ {a} : Guest(b)' <=> Guest(b)
    BY <1>1, <2>1, <2>2, <2>3, <2>4 DEF Guest, Alone
  <2>7. ASSUME NEW K, Refs(K),
               \A h \in listeners : h \in K \/ lock[h[1]] \notin {u, Nobody}
        PROVE  Refs(K)' /\ listeners' = listeners
    <3>1. /\ users[a] = 1 + (IF Used(K, a) THEN 1 ELSE 0)
          /\ users'[a] = IF Used(K, a) THEN 1 ELSE 0
      BY <1>1, <2>2, <2>6, <2>7 DEF Refs, GiveBack
    <3>2. Refs(K)'
      BY <2>4, <2>6, <2>7, <3>1 DEF Refs
    <3>3. ~Used(K, a) => \A h \in listeners : h[1] # a
      BY <2>2, <2>7 DEF Used
    <3>4. listeners' = listeners
      BY <1>1, <2>2, <3>1, <3>3 DEF GiveBack
    <3> QED  BY <3>2, <3>4
  <2> QED  BY <2>1, <2>2, <2>4, <2>5, <2>7 DEF Within
<1> QED  BY <1>2, <1>3

\* A step of the restart that has, takes or frees the monitor.
LEMMA ClientsOf ==
  ASSUME Turns, NEW p \in Procs, monitor \in {p, Nobody}, Alone(p), Locked',
         \/ monitor' = p /\ Phased(p)'
         \/ Settled' /\ pc'[p] \notin {"stopping", "exiting", "connecting"}
  PROVE  Clients'
<1>1. Nobody \notin Procs
  BY ConstantsAssumption
<1>2. ASSUME NEW q \in Procs \ {p} PROVE Phased(q)'
  BY <1>1, <1>2 DEF Turns, Alone, Phased, Within
<1>3. Phased(p)' /\ (monitor' = Nobody => Settled')
  BY <1>1 DEF Phased
<1> QED  BY <1>2, <1>3 DEF Clients

LEMMA EntryIs ==
  ASSUME TypeInv, Turns, NEW p \in Procs, pc[p] \in {"stopping", "exiting"}
  PROVE  /\ job[p].index \in DOMAIN Current /\ job[p].index \in Nat
         /\ Entry(p) = Current[job[p].index]
         /\ Entry(p) \in Accounts \X Procs
<1>1. job[p].list = Len(lists) /\ job[p].index \in DOMAIN Current
  BY DEF TypeInv, Placed, Turns, Current
<1> QED  BY <1>1, CurrentType, EntryType DEF Entry, Current

LEMMA StopListenerClients ==
  ASSUME TypeInv, Turns, Distinct, Clients, EditsOnly, NEW p \in Procs, StopListener(p)
  PROVE  Clients'
<1>0. PICK n, a : n = job[p].index /\ a = Entry(p)[1]
  OBVIOUS
<1>1. /\ pc[p] = "stopping" /\ pc'[p] = "exiting" /\ Alone(p) /\ monitor = p
      /\ monitor' = p /\ UNCHANGED <<lists, job, users>>
      /\ listeners' = listeners \ {Entry(p)}
  BY GotoDoes DEF StopListener, Alone, Turns, Within
<1>2. n \in DOMAIN Current /\ Entry(p) = Current[n] /\ a \in Accounts
  BY <1>0, <1>1, EntryIs
<1>3. /\ lock \in [Accounts -> Procs \cup {Nobody}] /\ lock[a] = Nobody
      /\ lock' = [lock EXCEPT ![a] = p]
  BY <1>0, PlainLocks DEF StopListener, TypeInv
<1>4. Refs(Kept(n)) /\ listeners = Kept(n) /\ Locked
  BY <1>0, <1>1 DEF Clients, Phased
<1>5. Holding(p, a)'
  BY <1>0, <1>1 DEF Holding, Entry
<1>6. listeners' = Kept(n + 1)
  <2>1. Kept(n) = Kept(n + 1) \cup {Entry(p)} /\ ~Used(Kept(n + 1), a)
    BY <1>0, <1>2, KeptFirst
  <2> QED  BY <1>0, <1>1, <1>4, <2>1 DEF Used
<1>7. Locked' /\ \A b \in Accounts : Guest(b)' <=> Guest(b)
  BY <1>0, <1>1, <1>2, <1>3, <1>4, <1>5, LocksStep
<1>8. PICK K : K = Kept(n)
  OBVIOUS
<1>9. Refs(K)'
  BY <1>0, <1>1, <1>4, <1>7, <1>8, RefsSame
<1>10. Phased(p)'
  BY <1>0, <1>1, <1>2, <1>3, <1>6, <1>8, <1>9, ToExiting
<1> QED  BY <1>0, <1>1, <1>7, <1>10, ClientsOf DEF Clients

\* When it is given back, the client of a stopped listener has no user left.
LEMMA ListenerStoppedClients ==
  ASSUME TypeInv, Turns, Distinct, Clients, EditsOnly, NEW p \in Procs, ListenerStopped(p)
  PROVE  Clients'
<1>0. PICK n, a : n = job[p].index /\ a = Entry(p)[1]
  OBVIOUS
<1>1. pc[p] = "exiting" /\ monitor = p /\ GiveBack(a)
  BY <1>0 DEF ListenerStopped, Turns, Within
<1>2. n \in DOMAIN Current /\ n \in Nat /\ Entry(p) = Current[n] /\ a \in Accounts
  BY <1>0, <1>1, EntryIs
<1>3. /\ lock \in [Accounts -> Procs \cup {Nobody}] /\ lock[a] = p
      /\ lock' = [lock EXCEPT ![a] = Nobody] /\ users \in [Accounts -> Nat]
  BY <1>0, <1>1, PlainLocks DEF ListenerStopped, TypeInv, Clients, Phased
<1>4. Refs(Kept(n)) /\ listeners = Kept(n + 1) /\ Locked
  BY <1>0, <1>1 DEF Clients, Phased
<1>5. Kept(n) = Kept(n + 1) \cup {Entry(p)} /\ ~Used(Kept(n + 1), a)
  BY <1>0, <1>2, KeptFirst
<1>6. /\ \/ More(p) /\ pc'[p] = "stopping" /\ lists' = lists /\ monitor' = p
            /\ job'[p].index = n + 1
         \/ ~More(p) /\ StopEnds(p, job[p].rules)
      /\ Alone(p) /\ pc'[p] # "running"
  <2>1. CASE More(p)
    BY <1>0, <1>1, <2>1, NextListenerDoes
  <2>2. CASE ~More(p)
    <3>1. StopEnds(p, job[p].rules)
      BY <2>2 DEF ListenerStopped
    <3> QED  BY <1>0, <1>1, <2>2, <3>1, StopEndsDoes
  <2> QED  BY <2>1, <2>2
<1>7. ~Guest(a)
  BY <1>0, <1>1, <1>3 DEF Guest
<1>8. Locked' /\ \A b \in Accounts : Guest(b)' <=> Guest(b)
  BY <1>0, <1>1, <1>2, <1>3, <1>4, <1>6, LocksStep
<1>9. PICK K : K = Kept(n + 1)
  OBVIOUS
<1>10. users[a] = 1
  BY <1>0, <1>2, <1>4, <1>5, <1>7 DEF Refs, Used
<1>11. users'[a] = 0 /\ \A b \in Accounts \ {a} : users'[b] = users[b]
  BY <1>0, <1>1, <1>2, <1>3, <1>10 DEF GiveBack
<1>12. Refs(K)'
  <2>1. \A b \in Accounts \ {a} : Used(Kept(n), b) <=> Used(K, b)
    BY <1>0, <1>5, <1>9 DEF Used
  <2>2. \A b \in Accounts \ {a} :
          users'[b] = (IF Guest(b)' THEN 1 ELSE 0) + (IF Used(K, b) THEN 1 ELSE 0)
    BY <1>0, <1>4, <1>8, <1>11, <2>1 DEF Refs
  <2>3. ~Guest(a)' /\ ~Used(K, a)
    BY <1>0, <1>2, <1>5, <1>7, <1>8, <1>9
  <2> QED  BY <1>0, <1>11, <2>2, <2>3 DEF Refs
<1>13. listeners' = K
  BY <1>0, <1>1, <1>4, <1>5, <1>9, <1>10 DEF GiveBack, Used
<1>14. CASE More(p)
  <2>1. Phased(p)'
    BY <1>0, <1>6, <1>9, <1>12, <1>13, <1>14, ToStopping
  <2> QED  BY <1>0, <1>1, <1>6, <1>8, <1>14, <2>1, ClientsOf
<1>15. CASE ~More(p)
  <2>1. n = Len(Current)
    BY <1>0, <1>1, <1>2, <1>15, CurrentType DEF More, Turns, Current
  <2>2. K = {} /\ Kept(1)' = {} /\ pc'[p] \notin {"stopping", "exiting", "connecting"}
    BY <1>0, <1>1, <1>6, <1>9, <1>15, <2>1, StopEndsDoes, KeptEmpty
  <2>3. Settled'
    BY <1>0, <1>12, <1>13, <2>2, ToSettled
  <2> QED  BY <1>0, <1>1, <1>6, <1>8, <2>2, <2>3, ClientsOf
<1> QED  BY <1>0, <1>14, <1>15

\* Steps of a restart that change neither clients nor listeners.
LEMMA QuietClients ==
  ASSUME TypeInv, Turns, Clients, EditsOnly, NEW p \in Procs,
         EnterRestart(p) \/ Load(p) \/ SkipAccount(p)
  PROVE  Clients'
<1>1. /\ pc[p] \in {"restarting", "loading", "starting"} /\ monitor \in {p, Nobody}
      /\ UNCHANGED <<lock, listeners, users>>
  BY DEF EnterRestart, Load, SkipAccount, Turns, Within
<1>2. Settled /\ Locked
  BY <1>1 DEF Clients, Turns, Phased, EnterRestart, Load, SkipAccount
<1>3. PICK K : K = Kept(1)
  OBVIOUS
<1>4. \/ Alone(p) /\ lists' = lists /\ pc'[p] \in {"loading", "restarted", "starting"}
      \/ /\ Alone(p) /\ Current' = <<>> /\ Current = <<>>
         /\ pc'[p] \in {"restarted", "starting"}
      \/ /\ Alone(p) /\ lists' = lists /\ monitor' = p
         /\ pc'[p] = "stopping" /\ job'[p].index = 1
  <2>1. CASE EnterRestart(p)
    BY <2>1, GotoDoes DEF EnterRestart, Alone
  <2>2. CASE SkipAccount(p)
    <3>1. GoOn(p, Least(job[p].todo), job[p].started) /\ lists' = lists
      BY <2>2 DEF SkipAccount
    <3> QED  BY <3>1, GoOnDoes
  <2>3. CASE Load(p)
    <3>0. monitor = p
      BY <2>3 DEF Load, Turns, Within
    <3>1. CASE UpToDate
      BY <2>3, <3>1, GotoDoes DEF Load, Alone
    <3>2. CASE ~UpToDate /\ Current = <<>>
      <4>1. StopEnds(p, disk)
        BY <2>3, <3>2 DEF Load, StopBegins
      <4> QED  BY <3>0, <3>2, <4>1, StopEndsDoes
    <3>3. CASE ~UpToDate /\ Current # <<>>
      BY <2>3, <3>0, <3>3, StopBeginsDoes DEF Load
    <3> QED  BY <3>1, <3>2, <3>3
  <2> QED  BY <2>1, <2>2, <2>3
<1>5. Locked' /\ \A a \in Accounts : Guest(a)' <=> Guest(a)
  BY <1>1, <1>2, <1>4, LocksStep
<1>6. Refs(K)' /\ listeners' = K
  BY <1>1, <1>2, <1>3, <1>5, RefsSame DEF Settled
<1>7. CASE pc'[p] = "stopping" /\ lists' = lists
  <2>1. Phased(p)' /\ monitor' = p
    BY <1>3, <1>4, <1>6, <1>7, ToStopping
  <2> QED  BY <1>1, <1>4, <1>5, <2>1, ClientsOf
<1>8. CASE pc'[p] # "stopping"
  <2>1. Kept(1)' = K
    BY <1>3, <1>4, <1>8, KeptSame, KeptEmpty
  <2> QED  BY <1>1, <1>4, <1>5, <1>6, <1>8, <2>1, ToSettled, ClientsOf
<1> QED  BY <1>4, <1>7, <1>8

LEMMA StartListenerClients ==
  ASSUME TypeInv, Turns, Clients, EditsOnly, NEW p \in Procs, StartListener(p)
  PROVE  Clients'
<1>0. PICK a, K : a = Least(job[p].todo) /\ K = Kept(1)
  OBVIOUS
<1>1. /\ pc[p] = "starting" /\ pc'[p] = "connecting" /\ Alone(p) /\ monitor = p
      /\ monitor' = p /\ UNCHANGED <<lists, job, users>>
      /\ listeners' = listeners \cup {<<a, p>>} /\ a \in Accounts
  BY <1>0, GotoDoes, FirstType DEF StartListener, Alone, Turns, Within
<1>2. /\ lock \in [Accounts -> Procs \cup {Nobody}] /\ lock[a] = Nobody
      /\ lock' = [lock EXCEPT ![a] = p]
  BY <1>0, PlainLocks DEF StartListener, TypeInv
<1>3. Refs(K) /\ listeners = K /\ Locked
  BY <1>0, <1>1 DEF Clients, Phased, Settled
<1>4. Holding(p, a)'
  BY <1>0, <1>1 DEF Holding, Least
<1>5. Locked' /\ \A b \in Accounts : Guest(b)' <=> Guest(b)
  BY <1>1, <1>2, <1>3, <1>4, LocksStep
<1>6. Refs(K)'
  BY <1>1, <1>3, <1>5, RefsSame
<1>7. Phased(p)'
  BY <1>0, <1>1, <1>2, <1>3, <1>6, ToConnecting
<1> QED  BY <1>1, <1>5, <1>7, ClientsOf

\* The account of a listener that starts had no listener.
LEMMA ConnectingClients ==
  ASSUME TypeInv, Turns, Knows, Clients, EditsOnly, NEW p \in Procs,
         Connected(p) \/ ConnectFailed(p)
  PROVE  Clients'
<1>0. PICK a, K : a = Least(job[p].todo) /\ K = Kept(1)
  OBVIOUS
<1>1. /\ pc[p] = "connecting" /\ monitor = p /\ a \in Accounts /\ a \in job[p].todo
      /\ \E started : GoOn(p, a, started)
  BY <1>0, FirstType DEF Connected, ConnectFailed, Turns, Within
<1>2. Alone(p) /\ pc'[p] \in {"starting", "restarted"}
  BY <1>1, GoOnDoes
<1>3. Refs(K) /\ listeners = K \cup {<<a, p>>} /\ Locked /\ lock[a] = p
  BY <1>0, <1>1 DEF Clients, Phased
<1>4. /\ lock' = [lock EXCEPT ![a] = Nobody] /\ users \in [Accounts -> Nat]
      /\ lock \in [Accounts -> Procs \cup {Nobody}]
  BY <1>0, PlainLocks DEF Connected, ConnectFailed, TypeInv
<1>5. Locked' /\ \A b \in Accounts : Guest(b)' <=> Guest(b)
  BY <1>1, <1>2, <1>3, <1>4, LocksStep
<1>6. ~Used(K, a)
  <2>1. a \notin All
    BY <1>1 DEF Knows
  <2> QED  BY <1>0, <2>1, KeptAll
<1>7. ~Guest(a) /\ users[a] = 0
  <2>1. ~Guest(a)
    BY <1>1, <1>3 DEF Guest
  <2> QED  BY <1>1, <1>3, <1>6, <2>1 DEF Refs
<1>8. CASE Connected(p)
  <2>1. /\ lists' = [lists EXCEPT ![Len(lists)] = Append(@, <<a, p>>)]
        /\ users' = [users EXCEPT ![a] = @ + 1] /\ listeners' = listeners
    BY <1>0, <1>8 DEF Connected
  <2>2. PICK L : L = K \cup {<<a, p>>}
    OBVIOUS
  <2>3. Kept(1)' = L
    BY <1>0, <1>1, <2>1, <2>2, ListGrows, KeptGrows
  <2>4. Used(L, a) /\ \A b \in Accounts \ {a} : Used(L, b) <=> Used(K, b)
    <3>1. PICK h : h = <<a, p>>
      OBVIOUS
    <3>2. h[1] = a /\ L = K \cup {h}
      BY <2>2, <3>1
    <3> QED  BY <3>2 DEF Used
  <2>5. users'[a] = 1 /\ \A b \in Accounts \ {a} : users'[b] = users[b]
    BY <1>1, <1>4, <1>7, <2>1
  <2>6. Refs(L)'
    BY <1>1, <1>3, <1>5, <1>7, <2>4, <2>5 DEF Refs
  <2>7. Settled'
    BY <1>3, <2>1, <2>2, <2>3, <2>6, ToSettled
  <2> QED  BY <1>1, <1>2, <1>5, <2>7, ClientsOf
<1>9. CASE ConnectFailed(p)
  <2>1. Close(a) /\ lists' = lists
    BY <1>0, <1>9 DEF ConnectFailed
  <2>2. users' = users
    BY <1>1, <1>4, <1>7, <2>1 DEF Close
  <2>3. listeners' = K
    BY <1>3, <1>6, <2>1 DEF Close, Used
  <2>4. Refs(K)' /\ Kept(1)' = K
    BY <1>0, <1>3, <1>5, <2>1, <2>2, RefsSame, KeptSame
  <2>5. Settled'
    BY <2>3, <2>4, ToSettled
  <2> QED  BY <1>1, <1>2, <1>5, <2>5, ClientsOf
<1> QED  BY <1>8, <1>9

LEMMA OtherClients ==
  ASSUME TypeInv, Turns, Turns', Clients, NEW p \in Procs,
         Restarted(p) \/ Edit(p) \/ BeginRun(p) \/ EndRun(p)
  PROVE  Clients'
<1>1. /\ pc[p] \in {"restarted", "idle", "running"} /\ p # monitor
      /\ Alone(p) /\ pc'[p] \notin Within
      /\ UNCHANGED <<lists, monitor, job>>
  BY GotoDoes DEF Restarted, Edit, BeginRun, EndRun, Alone, Turns, Within
<1>2. Locked
  BY DEF Clients
<1>3. Locked' /\ \A a \in Accounts : lock[a] \notin {p, Nobody} => lock'[a] = lock[a]
  <2>1. CASE BeginRun(p) \/ EndRun(p)
    BY <1>2, <2>1, RunKeeps
  <2>2. CASE Restarted(p) \/ Edit(p)
    <3>1. lock' = lock /\ pc[p] # "running" /\ pc'[p] # "running"
      BY <2>2, GotoDoes DEF Restarted, Edit
    <3>2. \A a \in Accounts : lock[a] # p
      BY <1>1, <1>2, <3>1, ConstantsAssumption DEF Locked, Holding
    <3>3. ASSUME NEW a \in Accounts, lock[a] # Nobody PROVE Holding(lock[a], a)'
      <4>1. Holding(lock[a], a) /\ lock[a] \in Procs \ {p}
        BY <1>2, <3>2, <3>3 DEF Locked, TypeInv
      <4> QED  BY <1>1, <3>1, <4>1 DEF Holding, Alone, Entry
    <3> QED  BY <3>1, <3>3 DEF Locked
  <2> QED  BY <2>1, <2>2
<1>4. ASSUME NEW K, Refs(K),
             \A h \in listeners : h \in K \/ lock[h[1]] \notin {p, Nobody}
      PROVE  Refs(K)' /\ listeners' = listeners
  <2>1. CASE BeginRun(p) \/ EndRun(p)
    BY <1>2, <1>4, <2>1, RunKeeps
  <2>2. CASE Restarted(p) \/ Edit(p)
    <3>1. /\ UNCHANGED <<lock, users, listeners>> /\ pc[p] # "running" /\ pc'[p] # "running"
      BY <2>2, GotoDoes DEF Restarted, Edit
    <3>2. \A a \in Accounts : Guest(a)' <=> Guest(a)
      BY <1>1, <3>1 DEF Guest, Alone, TypeInv
    <3> QED  BY <1>4, <3>1, <3>2, RefsSame
  <2> QED  BY <2>1, <2>2
<1>5. Settled => Settled'
  <2>1. PICK K : K = Kept(1)
    OBVIOUS
  <2> QED  BY <1>1, <1>4, <2>1, KeptSame, ToSettled DEF Settled
<1>6. ASSUME NEW q \in Procs, pc'[q] \in Within PROVE Phased(q)'
  <2>1. pc'[q] = pc[q] /\ job'[q] = job[q] /\ q # p /\ q # Nobody /\ Phased(q)
    BY <1>1, <1>6, ConstantsAssumption DEF Alone, Clients
  <2>2. CASE pc[q] \in {"loading", "starting"}
    BY <1>5, <2>1, <2>2 DEF Phased
  <2>3. CASE pc[q] = "stopping"
    <3>1. PICK n, K : n = job[q].index /\ K = Kept(n)
      OBVIOUS
    <3>2. Refs(K)' /\ listeners' = K
      BY <1>4, <2>1, <2>3, <3>1 DEF Phased
    <3> QED  BY <1>1, <2>1, <2>3, <3>1, <3>2, ToStopping
  <2>4. CASE pc[q] = "exiting"
    <3>1. PICK n, K : n = job[q].index /\ K = Kept(n)
      OBVIOUS
    <3>2. Kept(n + 1) \subseteq K
      BY <2>1, <2>4, <3>1, EntryIs DEF Kept
    <3>3. Refs(K) /\ listeners = Kept(n + 1) /\ lock[Entry(q)[1]] = q
      BY <2>1, <2>4, <3>1 DEF Phased
    <3>4. Refs(K)' /\ listeners' = Kept(n + 1) /\ lock'[Entry(q)[1]] = q
      BY <1>3, <1>4, <2>1, <2>4, <3>2, <3>3, EntryIs
    <3>5. Kept(job[q].index)' = K /\ Kept(job[q].index + 1)' = Kept(n + 1)
          /\ Entry(q)' = Entry(q)
      BY <1>1, <2>1, <3>1 DEF Kept, Current, Entry
    <3> QED  BY <2>1, <2>4, <3>4, <3>5 DEF Phased, Refs, Used
  <2>5. CASE pc[q] = "connecting"
    <3>1. PICK a, K : a = Least(job[q].todo) /\ K = Kept(1)
      OBVIOUS
    <3>2. Refs(K) /\ listeners = K \cup {<<a, q>>} /\ lock[a] = q /\ a \in Accounts
      BY <2>1, <2>5, <3>1, FirstType DEF Phased
    <3>3. Refs(K)' /\ listeners' = listeners /\ lock'[a] = q
      BY <1>3, <1>4, <2>1, <3>2
    <3>4. Kept(1)' = K /\ Least(job[q].todo)' = a
      BY <1>1, <2>1, <3>1, KeptSame DEF Least
    <3> QED  BY <2>1, <2>5, <3>2, <3>3, <3>4 DEF Phased, Refs, Used
  <2> QED  BY <1>6, <2>1, <2>2, <2>3, <2>4, <2>5 DEF Within
<1>7. \A q \in Procs : pc'[q] \notin Within => Phased(q)'
  BY DEF Phased, Within
<1> QED  BY <1>1, <1>3, <1>5, <1>6, <1>7 DEF Clients

-----------------------------------------------------------------------------
FollowersInv == TypeInv /\ FollowInv /\ Clients

LEMMA FollowersInit == EditsOnly /\ Init => FollowersInv
<1> SUFFICES ASSUME EditsOnly, Init PROVE FollowersInv
  OBVIOUS
<1>1. TypeInv /\ Nobody \notin Procs
  BY TypeInvInit, ConstantsAssumption
<1>2. Current = <<>> /\ key = {}
  BY DEF Init, Current
<1>3. All = {} /\ Distinct /\ Kept(1) = {}
  BY <1>2 DEF All, Distinct, Kept
<1>4. Turns
  BY <1>1 DEF Init, Turns, Within
<1>5. Knows /\ Follows
  BY <1>1, <1>2, <1>3 DEF Init, Knows, Follows, Within
<1>6. Settled
  BY <1>1, <1>3 DEF Init, Settled, Refs, Used, Guest
<1>7. Clients
  BY <1>6 DEF Init, Clients, Locked, Phased
<1> QED  BY <1>1, <1>3, <1>4, <1>5, <1>7 DEF FollowersInv, FollowInv

LEMMA FollowersStep ==
  ASSUME EditsOnly, FollowersInv, TypeInv', NEW p \in Procs, Step(p)
  PROVE  FollowersInv'
<1>1. TypeInv' /\ TypeInv /\ Turns /\ Distinct /\ Knows /\ Clients
  BY DEF FollowersInv, FollowInv
<1>2. FollowInv' /\ Turns'
  BY <1>1, FollowStep DEF FollowersInv, FollowInv
<1>3. Clients'
  BY <1>1, <1>2, StopListenerClients, ListenerStoppedClients, QuietClients,
     StartListenerClients, ConnectingClients, OtherClients
     DEF Step, Monitoring, Stop, EditsOnly
<1> QED  BY <1>1, <1>2, <1>3 DEF FollowersInv

LEMMA StandingStill ==
  ASSUME FollowInv, Clients, UNCHANGED vars PROVE FollowInv' /\ Clients'
<1>1. /\ UNCHANGED <<disk, monitor, lock, lists, key, listeners, users, pc, job>>
      /\ Current' = Current /\ All' = All
  BY DEF vars, Current, All
<1>2. ASSUME NEW K, Refs(K) PROVE Refs(K)'
  BY <1>1, <1>2 DEF Refs, Guest
<1>3. FollowInv'
  BY <1>1 DEF FollowInv, Turns, Distinct, Knows, Follows, Pending
<1>4. Locked'
  BY <1>1 DEF Clients, Locked, Holding, Entry, Least
<1>5. Settled => Settled'
  BY <1>1 DEF Settled, Refs, Guest, Used, Kept
<1>6. ASSUME NEW p \in Procs PROVE Phased(p)'
  <2>1. PICK K, L : K = Kept(job[p].index) /\ L = Kept(1)
    OBVIOUS
  <2>2. /\ Kept(job[p].index)' = K /\ Kept(job[p].index + 1)' = Kept(job[p].index + 1)
        /\ Kept(1)' = L /\ Entry(p)' = Entry(p)
        /\ Least(job[p].todo)' = Least(job[p].todo)
    BY <1>1, <2>1 DEF Kept, Entry, Least
  <2>3. (Refs(K) => Refs(Kept(job[p].index))') /\ (Refs(L) => Refs(Kept(1))')
    BY <1>2, <2>2 DEF Refs, Used
  <2> QED  BY <1>1, <1>5, <2>1, <2>2, <2>3 DEF Clients, Phased
<1> QED  BY <1>1, <1>3, <1>4, <1>5, <1>6 DEF Clients

LEMMA FollowersShow == FollowersInv => ListenersFollow
<1> SUFFICES ASSUME FollowersInv PROVE ListenersFollow
  OBVIOUS
<1>1. TypeInv /\ Turns /\ Distinct /\ Knows /\ Follows /\ Clients
  BY DEF FollowersInv, FollowInv
<1>2. /\ \A g, h \in Kept(1) : g[1] = h[1] => g = h
      /\ \A a : a \in All <=> Used(Kept(1), a)
      /\ Kept(1) = {Current[i] : i \in DOMAIN Current}
      /\ All \subseteq Accounts
  BY <1>1, KeptAll, CurrentType
<1>3. monitor = Nobody \/ monitor \in Procs
  BY <1>1 DEF TypeInv, Procs
<1>4. ASSUME monitor = Nobody
      PROVE  /\ listeners = {Current[i] : i \in DOMAIN Current}
             /\ \A rs \in key : \A a \in rs :
                  users[a] > 0 /\ \E i \in DOMAIN Current : Current[i][1] = a
  <2>1. Refs(Kept(1)) /\ listeners = Kept(1)
    BY <1>1, <1>4 DEF Clients, Settled
  <2>2. ASSUME NEW a \in All PROVE users[a] > 0 /\ \E i \in DOMAIN Current : Current[i][1] = a
    BY <1>2, <2>1, <2>2 DEF Refs, All
  <2> QED  BY <1>1, <1>2, <1>4, <2>1, <2>2 DEF Knows
<1>5. OneListener
  <2>1. CASE monitor = Nobody
    BY <1>2, <1>4, <2>1 DEF OneListener
  <2>2. CASE monitor \in Procs
    <3>1. pc[monitor] \in Within /\ Phased(monitor)
      BY <1>1, <2>2 DEF Turns, Clients
    <3>2. CASE pc[monitor] \in {"loading", "starting"}
      BY <1>2, <3>1, <3>2 DEF Phased, Settled, OneListener
    <3>3. CASE pc[monitor] \in {"stopping", "exiting"}
      <4>1. job[monitor].index \in Nat /\ job[monitor].index \in DOMAIN Current
        BY <1>1, <2>2, <3>3, EntryIs
      <4>2. listeners \subseteq Kept(1)
        BY <1>1, <3>1, <3>3, <4>1, CurrentType DEF Phased, Kept
      <4> QED  BY <1>2, <4>2 DEF OneListener
    <3>4. CASE pc[monitor] = "connecting"
      <4>1. PICK a, h : a = Least(job[monitor].todo) /\ h = <<a, monitor>>
        OBVIOUS
      <4>2. a \in job[monitor].todo /\ h[1] = a
        BY <1>1, <2>2, <3>4, <4>1, FirstType
      <4>3. listeners = Kept(1) \cup {h}
        BY <3>1, <3>4, <4>1 DEF Phased
      <4>4. a \notin All
        BY <1>1, <2>2, <3>4, <4>2 DEF Knows
      <4>5. \A g \in Kept(1) : g[1] # h[1]
        BY <1>2, <4>2, <4>4 DEF Used
      <4> QED  BY <1>2, <4>3, <4>5 DEF OneListener
    <3> QED  BY <3>1, <3>2, <3>3, <3>4 DEF Within
  <2> QED  BY <1>3, <2>1, <2>2
<1>6. Quiet => monitor = Nobody
  BY <1>1, <1>3 DEF Quiet, Turns, Within
<1>7. Tracked /\ KeyTruthful
  BY <1>4, <1>6 DEF Tracked, KeyTruthful
<1>8. LastEditWins
  <2> SUFFICES ASSUME \A p \in Procs : pc[p] \in {"idle", "running", "done"}
               PROVE  key \subseteq {disk} /\ \A h \in listeners : h[1] \in disk
    BY DEF LastEditWins
  <2>1. monitor = Nobody /\ ~Pending
    BY <1>6 DEF Quiet, Pending
  <2>2. key \subseteq {disk} /\ All \subseteq disk
    BY <1>1, <2>1 DEF Follows
  <2> QED  BY <1>4, <2>1, <2>2 DEF All
<1> QED  BY <1>5, <1>7, <1>8 DEF ListenersFollow, HandlersExact

\* However many edits restart the listeners at once, beside any sign runs, the
\* listeners on the clients are those of the task files once the restarts are
\* over: one for each account, all of them tracked, and no key that lies.
THEOREM ListenersAreFollowed == ASSUME EditsOnly PROVE Spec => []ListenersFollow
<1>1. Init => FollowersInv
  BY FollowersInit
<1>2. ASSUME FollowersInv, [Next]_vars PROVE FollowersInv'
  <2>t. TypeInv'
    BY <1>2, StepTypes DEF FollowersInv
  <2>1. CASE UNCHANGED vars
    BY <1>2, <2>t, <2>1, StandingStill DEF FollowersInv
  <2>2. CASE \E p \in Procs : Step(p)
    BY <1>2, <2>t, <2>2, FollowersStep
  <2> QED  BY <1>2, <2>1, <2>2, NextIsStep
<1>3. FollowersInv => ListenersFollow
  BY FollowersShow
<1> QED  BY <1>1, <1>2, <1>3, PTL DEF Spec

=============================================================================
