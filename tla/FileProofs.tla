------------------------ MODULE FileProofs ------------------------
(***************************************************************************)
(* Operations on the data directory: a restore, the change of an account,  *)
(* the update of a plugin, the configurations of tasks and the history of   *)
(* runs, for every set of files, through failures and a stop of the process *)
(* between any two steps.                                                   *)
(*                                                                         *)
(* In each the invariant says, step by step, where the old data lies (in   *)
(* place, set aside or in a staging directory), and who owns a destination *)
(* that is written to or removed.                                          *)
(***************************************************************************)
EXTENDS BackupRestore, AccountChange, PluginCatalog, TaskConfigs, RunHistory, FiniteSetTheorems,
        WellFoundedInduction, TLAPS

-----------------------------------------------------------------------------
(***************************************************************************)
(* The restore of a backup                                                 *)
(*                                                                         *)
(* Control says which step of the restore has the maintenance, the last    *)
(* request and which services; Layout says where the entries of the old    *)
(* and of the new data are at each step.  A service is missing only inside *)
(* the restore, and entries are apart only while nothing runs.             *)
(***************************************************************************)

\* The steps under the maintenance with the other requests gone.
Guarded == Stopping \cup Starting \cup Moving \cup {"clean"}

Control ==
  /\ maintenance <=> swap \in Guarded \cup {"wait", "lost"}
  /\ Restoring => requests >= 1
  /\ swap \in Guarded => requests = 1
  /\ swap \in Starting => position <= 4
  /\ swap \in {"none", "staged", "wait", "clean", "done", "down"} => Services \subseteq running
  /\ swap \in Starting => \A i \in 1..4 : i < position => StartOrder[i] \in running
  /\ swap \in Stopping => \A i \in 1..5 : i < position => StopOrder[i] \notin running
  /\ swap \in Moving => running = {} /\ position = 1

\* The entries of S are in one or the other of two directories.
Split(a, b, S) == place[a] \cup place[b] = S /\ place[a] \cap place[b] = {}

\* The old data is in place, or a swap by entries has left some of it aside.
Back == Split("data", "aside", OldData) /\ (place["aside"] = {} \/ (~renames /\ ~moved))

Layout ==
  /\ swap \in {"none", "staged", "wait", "stop"} =>
       ~moved /\ place["data"] = OldData /\ place["aside"] = {}
  /\ swap \in {"staged", "wait", "stop", "away"} => place["staging"] = NewData
  /\ swap = "away" => ~moved /\ Back
  /\ swap \in {"install", "undoStop", "undoAway", "start", "clean"} =>
       moved /\ place["aside"] = OldData
  /\ swap = "install" => Split("staging", "data", NewData) /\ (renames => place["data"] = {})
  /\ swap \in {"start", "clean"} => place["data"] = NewData
  /\ swap = "undoInstall" =>
       moved /\ Split("data", "aside", OldData) /\ (renames => place["data"] = {})
  /\ swap = "reopen" => Back
  /\ swap = "lost" => OldData \subseteq place["data"] \cup place["aside"]
  /\ swap = "done" => Back \/ place["data"] = NewData
  /\ swap = "down" => OldData \subseteq place["data"] \cup place["aside"] \/ place["data"] = NewData

BackupInv == BackupTypeOK /\ Control /\ Layout

-----------------------------------------------------------------------------

\* The services in the order of their stop and of their start.
LEMMA Orders ==
  /\ Len(StopOrder) = 5 /\ Len(StartOrder) = 4
  /\ StopOrder[1] = "jobs" /\ StopOrder[2] = "chatops" /\ StopOrder[3] = "monitor"
  /\ StopOrder[4] = "runs" /\ StopOrder[5] = "stores"
  /\ StartOrder[1] = "stores" /\ StartOrder[2] = "monitor"
  /\ StartOrder[3] = "chatops" /\ StartOrder[4] = "jobs"
  /\ Services = {"stores", "monitor", "chatops", "jobs"}
BY DEF StopOrder, StartOrder, Services

\* The initial state: the old data is in place, and nothing is under way.
LEMMA BackupStarts == BackupInit => BackupInv
<1> SUFFICES ASSUME BackupInit PROVE BackupInv OBVIOUS
<1> USE DEF BackupInit
<1>1. BackupTypeOK
  <2>1. place \in [Directories -> SUBSET (OldData \cup NewData)] OBVIOUS
  <2>2. swap \in Swaps BY DEF Swaps
  <2>3. requests \in 0..MaxRequests /\ position \in 1..Len(StopOrder)
    BY BackupAssumption, Orders
  <2> QED BY <2>1, <2>2, <2>3 DEF BackupTypeOK
<1>2. Control
  BY DEF Control, Guarded, Stopping, Starting, Moving, Restoring
<1>3. Layout BY DEF Layout, Directories
<1> QED BY <1>1, <1>2, <1>3 DEF BackupInv

\* The requests and the producers outside the restore.
Outside == RequestBegins \/ RequestEnds \/ RunBegins \/ RunEnds

\* They leave the invariant: a run begins only while the scheduler runs.
LEMMA OutsideKeeps == BackupInv /\ Outside => BackupInv'
<1> SUFFICES ASSUME BackupInv, Outside PROVE BackupInv' OBVIOUS
<1> USE DEF BackupInv
<1>0. UNCHANGED <<renames, moved, healthy, place, maintenance, swap, position>>
  BY DEF Outside, RequestBegins, RequestEnds, RunBegins, RunEnds, RestoreKeeps
<1>1. requests' \in 0..MaxRequests /\ (Restoring => requests' >= 1)
      /\ (swap \in Guarded => requests' = 1)
  <2> USE BackupAssumption DEF BackupTypeOK, Control
  <2>1. CASE RequestBegins BY <2>1 DEF RequestBegins, Admits
  <2>2. CASE RequestEnds
    BY <2>2 DEF RequestEnds, Restoring, Guarded, Stopping, Starting, Moving
  <2>3. CASE RunBegins \/ RunEnds BY <2>3 DEF RunBegins, RunEnds
  <2> QED BY <2>1, <2>2, <2>3 DEF Outside
<1>2. /\ running' \subseteq Services \cup {"runs"}
      /\ running \ {"runs"} \subseteq running'
      /\ running' \ {"runs"} \subseteq running
      /\ "runs" \in running' => "runs" \in running \/ "jobs" \in running
  BY DEF Outside, RequestBegins, RequestEnds, RunBegins, RunEnds, BackupTypeOK
<1>3. BackupTypeOK' BY <1>0, <1>1, <1>2 DEF BackupTypeOK
<1>4. Control'
  <2>1. Services \subseteq running => Services \subseteq running' BY <1>2, Orders
  <2>2. \A i \in 1..4 : StartOrder[i] \in running => StartOrder[i] \in running'
    BY <1>2, Orders
  <2>3. running = {} => running' = {} BY <1>2
  <2>4. ASSUME swap \in Stopping, NEW i \in 1..5, i < position
        PROVE  StopOrder[i] \notin running'
    BY <2>4, <1>2, Orders DEF Control, BackupTypeOK
  <2> QED BY <1>0, <1>1, <2>1, <2>2, <2>3, <2>4 DEF Control, Restoring
<1>5. Layout' BY <1>0 DEF Layout, Back, Split
<1> QED BY <1>3, <1>4, <1>5

-----------------------------------------------------------------------------

\* From the upload to the stop of the services: the new data is staged, the gate is
\* closed, and the other requests are gone before the first service stops.
LEMMA PrepareKeeps ==
  BackupInv /\ (StageArchive \/ BeginRestore \/ OtherRequestsEnded \/ WaitFails) => BackupInv'
<1> SUFFICES ASSUME BackupInv, StageArchive \/ BeginRestore \/ OtherRequestsEnded \/ WaitFails
             PROVE  BackupInv'
  OBVIOUS
<1> USE BackupAssumption, Orders DEF BackupInv, SwapStep, RestoreKeeps
<1> USE DEF Guarded, Stopping, Starting, Moving, Restoring
<1>1. CASE StageArchive
  <2>1. BackupTypeOK' BY <1>1 DEF StageArchive, Admits, BackupTypeOK, Swaps, Directories
  <2>2. Control' BY <1>1 DEF StageArchive, Admits, Control, BackupTypeOK
  <2>3. Layout' BY <1>1 DEF StageArchive, Layout, BackupTypeOK, Directories
  <2> QED BY <2>1, <2>2, <2>3
<1>2. CASE BeginRestore
  <2>1. BackupTypeOK' BY <1>2 DEF BeginRestore, BackupTypeOK, Swaps
  <2>2. Control' BY <1>2 DEF BeginRestore, Control, BackupTypeOK
  <2>3. Layout' BY <1>2 DEF BeginRestore, Layout
  <2> QED BY <2>1, <2>2, <2>3
<1>3. CASE OtherRequestsEnded
  <2>1. BackupTypeOK'
    <3>1. position' \in 1..Len(StopOrder) BY <1>3 DEF OtherRequestsEnded
    <3>2. healthy' \in BOOLEAN BY <1>3 DEF OtherRequestsEnded
    <3> QED BY <3>1, <3>2, <1>3 DEF OtherRequestsEnded, BackupTypeOK, Swaps
  <2>2. Control' BY <1>3 DEF OtherRequestsEnded, Control, BackupTypeOK
  <2>3. Layout' BY <1>3 DEF OtherRequestsEnded, Layout
  <2> QED BY <2>1, <2>2, <2>3
<1>4. CASE WaitFails
  <2> USE DEF WaitFails, LeaveWith, ClearStaging
  <2>1. BackupTypeOK'
    <3>1. requests' \in 0..MaxRequests BY <1>4 DEF BackupTypeOK, Control
    <3>2. place' \in [Directories -> SUBSET (OldData \cup NewData)]
      BY <1>4 DEF BackupTypeOK
    <3>3. maintenance' \in BOOLEAN BY <1>4
    <3> QED BY <3>1, <3>2, <3>3, <1>4 DEF BackupTypeOK, Swaps
  <2>2. Control' BY <1>4 DEF Control, BackupTypeOK
  <2>3. Layout' BY <1>4 DEF Layout, Back, Split, BackupTypeOK, Directories
  <2> QED BY <2>1, <2>2, <2>3
<1> QED BY <1>1, <1>2, <1>3, <1>4

\* A rollback that fails keeps the maintenance, and the old data where it is.
LEMMA RollbackFailsKeeps ==
  /\ BackupInv /\ RollbackFails
  /\ swap \in {"undoStop", "undoAway", "undoInstall", "reopen"}
  /\ running' \subseteq Services \cup {"runs"}
  => BackupInv'
<1> SUFFICES ASSUME BackupInv, RollbackFails,
                    swap \in {"undoStop", "undoAway", "undoInstall", "reopen"},
                    running' \subseteq Services \cup {"runs"}
             PROVE  BackupInv'
  OBVIOUS
<1> USE DEF BackupInv, RollbackFails, LeaveWith, ClearStaging
<1> USE DEF Guarded, Stopping, Starting, Moving, Restoring
<1>1. BackupTypeOK'
  <2>1. requests' \in 0..MaxRequests BY BackupAssumption DEF BackupTypeOK, Control
  <2>2. place' \in [Directories -> SUBSET (OldData \cup NewData)] BY DEF BackupTypeOK
  <2>3. maintenance' \in BOOLEAN OBVIOUS
  <2> QED BY <2>1, <2>2, <2>3 DEF BackupTypeOK, Swaps
<1>2. Control' BY DEF Control
<1>3. Layout' BY DEF Layout, Back, Split, BackupTypeOK, Directories
<1> QED BY <1>1, <1>2, <1>3

\* An exception before the services run again: the swap is undone when the first of
\* its moves was complete; otherwise the services are started over what is there.
LEMMA HandlerKeeps ==
  /\ BackupInv /\ HandleException /\ UNCHANGED place
  /\ swap \in {"stop", "away", "install", "start"}
  /\ running' \subseteq Services \cup {"runs"}
  => BackupInv'
<1> SUFFICES ASSUME BackupInv, HandleException, UNCHANGED place,
                    swap \in {"stop", "away", "install", "start"},
                    running' \subseteq Services \cup {"runs"}
             PROVE  BackupInv'
  OBVIOUS
<1> USE DEF BackupInv, HandleException, Handler, RestoreKeeps
<1> USE DEF Guarded, Stopping, Starting, Moving, Restoring
<1>1. BackupTypeOK' BY Orders DEF BackupTypeOK, Swaps
<1>2. Control' BY DEF Control
<1>3. Layout' BY DEF Layout, Back, Split
<1> QED BY <1>1, <1>2, <1>3

-----------------------------------------------------------------------------

\* The scheduler stops first, the runs after it: what is stopped stays stopped.
LEMMA StopKeeps == BackupInv /\ (StopService \/ StopFails) => BackupInv'
<1> SUFFICES ASSUME BackupInv, StopService \/ StopFails PROVE BackupInv' OBVIOUS
<1>1. CASE StopService
  <2> USE <1>1 DEF BackupInv, StopService, RestoreKeeps
  <2>1. CASE position < Len(StopOrder)
    <3>1. BackupTypeOK'
      <4>1. position' \in 1..Len(StopOrder) BY <2>1, Orders DEF BackupTypeOK
      <4> QED BY <2>1, <4>1 DEF BackupTypeOK
    <3>2. ASSUME NEW i \in 1..5, i < position' PROVE StopOrder[i] \notin running'
      BY <2>1, <3>2, Orders DEF BackupTypeOK, Control
    <3>3. Control'
      BY <2>1, <3>2 DEF Control, Guarded, Stopping, Starting, Moving, Restoring
    <3>4. Layout' BY <2>1 DEF Layout, Back, Split
    <3> QED BY <3>1, <3>3, <3>4
  <2>2. CASE ~(position < Len(StopOrder))
    <3> USE DEF AfterStop, Stopping
    <3>1. BackupTypeOK'
      <4>1. position' \in 1..Len(StopOrder) BY <2>2, Orders
      <4> QED BY <2>2, <4>1 DEF BackupTypeOK, Swaps
    <3>2. position = 5 BY <2>2, Orders DEF BackupTypeOK
    <3>3. running' = {}
      <4>1. \A i \in 1..4 : StopOrder[i] \notin running BY <3>2 DEF Control
      <4>2. /\ "jobs" \notin running /\ "chatops" \notin running
            /\ "monitor" \notin running /\ "runs" \notin running
        BY <4>1, Orders
      <4>3. running' = running \ {"stores"} BY <3>2, Orders
      <4>4. running \subseteq {"stores", "monitor", "chatops", "jobs", "runs"}
        BY Orders DEF BackupTypeOK
      <4> HIDE DEF StopService
      <4> QED BY ONLY <4>2, <4>3, <4>4
    <3>4. Control' BY <2>2, <3>3 DEF Control, Guarded, Starting, Moving, Restoring
    <3>5. Layout' BY <2>2 DEF Layout, Back, Split
    <3> QED BY <3>1, <3>4, <3>5
  <2> QED BY <2>1, <2>2
<1>2. CASE StopFails
  <2>1. running' \subseteq Services \cup {"runs"}
    BY <1>2 DEF StopFails, BackupInv, BackupTypeOK
  <2> QED BY <1>2, <2>1, HandlerKeeps, RollbackFailsKeeps DEF StopFails
<1> QED BY <1>1, <1>2

\* Services are added one by one, and after the last of them all run.
LEMMA StartKeeps == BackupInv /\ (StartService \/ StartFails) => BackupInv'
<1> SUFFICES ASSUME BackupInv, StartService \/ StartFails PROVE BackupInv' OBVIOUS
<1>0. running' \subseteq Services \cup {"runs"}
  <2>1. swap \in Starting => StartOrder[position] \in Services
    BY Orders DEF BackupInv, BackupTypeOK, Control
  <2> QED BY <2>1 DEF StartService, StartFails, Starting, BackupInv, BackupTypeOK
<1>1. CASE StartService
  <2> USE <1>0, <1>1 DEF BackupInv, StartService, RestoreKeeps
  <2>0. \A i \in 1..4 : i <= position => StartOrder[i] \in running'
    BY Orders DEF BackupTypeOK, Control
  <2>1. CASE position < Len(StartOrder)
    <3>1. BackupTypeOK'
      <4>1. position' \in 1..Len(StopOrder) BY <2>1, Orders DEF BackupTypeOK
      <4> QED BY <2>1, <4>1 DEF BackupTypeOK
    <3>2. position' <= 4 /\ \A i \in 1..4 : i < position' => StartOrder[i] \in running'
      BY <2>0, <2>1, Orders DEF BackupTypeOK
    <3>3. Control'
      BY <2>1, <3>2 DEF Control, Guarded, Stopping, Starting, Moving, Restoring
    <3>4. Layout' BY <2>1 DEF Layout, Back, Split
    <3> QED BY <3>1, <3>3, <3>4
  <2>2. CASE ~(position < Len(StartOrder))
    <3>1. Services \subseteq running'
      <4>1. position = 4 BY <2>2, Orders DEF BackupTypeOK, Control
      <4> QED BY <4>1, <2>0, Orders
    <3>2. position' = 1 /\ position' \in 1..Len(StopOrder) /\ healthy' \in BOOLEAN
      BY <2>2, Orders
    <3>3. CASE swap = "start"
      <4>0. swap' = "clean" /\ UNCHANGED <<renames, moved, place, maintenance, requests>>
        BY <2>2, <3>3
      <4>1. BackupTypeOK' BY <4>0, <3>2 DEF BackupTypeOK, Swaps
      <4>2. Control'
        BY <4>0, <3>1, <3>3 DEF Control, Guarded, Stopping, Starting, Moving, Restoring
      <4>3. Layout' BY <4>0, <3>3 DEF Layout, Back, Split
      <4> QED BY <4>1, <4>2, <4>3
    <3>4. CASE swap = "reopen"
      <4>0. LeaveWith("done") /\ ClearStaging BY <2>2, <3>4
      <4> USE DEF LeaveWith, ClearStaging
      <4>1. requests' \in 0..MaxRequests
        BY <4>0, <3>4, BackupAssumption DEF BackupTypeOK, Control, Guarded, Starting
      <4>2. maintenance' = FALSE BY <4>0
      <4>3. place' \in [Directories -> SUBSET (OldData \cup NewData)]
        BY <4>0 DEF BackupTypeOK
      <4>4. BackupTypeOK' BY <4>0, <4>1, <4>2, <4>3, <3>2 DEF BackupTypeOK, Swaps
      <4>5. Control'
        BY <4>0, <4>2, <3>1, <3>4 DEF Control, Guarded, Stopping, Starting, Moving, Restoring
      <4>6. Layout' BY <4>0, <3>4 DEF Layout, Back, Split, BackupTypeOK, Directories
      <4> QED BY <4>4, <4>5, <4>6
    <3> QED BY <3>3, <3>4 DEF Starting
  <2> QED BY <2>1, <2>2
<1>2. CASE StartFails BY <1>0, <1>2, HandlerKeeps, RollbackFailsKeeps DEF StartFails
<1> QED BY <1>1, <1>2

-----------------------------------------------------------------------------

\* An entry that is moved replaces none: two entries of a generation have two names.
LEMMA EntryMoves ==
  ASSUME NEW from \in Directories, NEW to \in Directories, from # to,
         place \in [Directories -> SUBSET (OldData \cup NewData)],
         MoveEntry(from, to)
  PROVE  /\ place' \in [Directories -> SUBSET (OldData \cup NewData)]
         /\ \A d \in Directories \ {from, to} : place'[d] = place[d]
         /\ \A S \in {OldData, NewData} : Split(from, to, S) => Split(from, to, S)'
<1>1. PICK e \in place[from] :
        place' = [place EXCEPT ![from] = @ \ {e},
                               ![to] = {f \in @ : f[2] # e[2]} \cup {e}]
  BY DEF MoveEntry
<1>2. /\ place'[from] = place[from] \ {e}
      /\ place'[to] = {f \in place[to] : f[2] # e[2]} \cup {e}
  BY <1>1
<1>3. /\ place' \in [Directories -> SUBSET (OldData \cup NewData)]
      /\ \A d \in Directories \ {from, to} : place'[d] = place[d]
  BY <1>1
<1>4. ASSUME NEW S \in {OldData, NewData}, Split(from, to, S)
      PROVE  Split(from, to, S)'
  <2>1. \A f, g \in S : f[2] = g[2] => f = g
    BY DEF OldData, NewData
  <2>2. e \in S /\ e \notin place[to] /\ place[to] \subseteq S
    BY <1>4 DEF Split
  <2>3. {f \in place[to] : f[2] # e[2]} = place[to]
    BY <2>1, <2>2
  <2> QED BY <1>2, <1>4, <2>2, <2>3 DEF Split
<1> QED BY <1>3, <1>4

\* One round of a swap between two directories: all entries, one of them, or the end.
LEMMA DataMoves ==
  ASSUME NEW from \in Directories, NEW to \in Directories, from # to, NEW then,
         place \in [Directories -> SUBSET (OldData \cup NewData)],
         MoveData, SwapOf(swap) = [from |-> from, to |-> to, then |-> then]
  PROVE  /\ place' \in [Directories -> SUBSET (OldData \cup NewData)]
         /\ \A d \in Directories \ {from, to} : place'[d] = place[d]
         /\ \/ renames /\ place'[from] = {} /\ place'[to] = place[from] /\ swap' = then
            \/ /\ ~renames /\ swap' = swap
               /\ \A S \in {OldData, NewData} : Split(from, to, S) => Split(from, to, S)'
            \/ ~renames /\ place[from] = {} /\ swap' = then /\ place' = place
<1>0. \/ renames /\ Rename(from, to) /\ swap' = then
      \/ ~renames /\ MoveEntry(from, to) /\ swap' = swap
      \/ ~renames /\ place[from] = {} /\ swap' = then /\ place' = place
  BY DEF MoveData
<1>1. CASE renames /\ Rename(from, to) /\ swap' = then
  <2>1. /\ place'[from] = {} /\ place'[to] = place[from]
        /\ place' \in [Directories -> SUBSET (OldData \cup NewData)]
        /\ \A d \in Directories \ {from, to} : place'[d] = place[d]
    BY <1>1 DEF Rename
  <2> QED BY <1>1, <2>1
<1>2. CASE ~renames /\ MoveEntry(from, to) /\ swap' = swap
  BY <1>2, EntryMoves
<1>3. CASE ~renames /\ place[from] = {} /\ swap' = then /\ place' = place
  BY <1>3
<1> QED BY <1>0, <1>1, <1>2, <1>3

\* A swap that is complete has emptied the directory it moves from.
LEMMA MoveKeeps == BackupInv /\ MoveData => BackupInv'
<1> SUFFICES ASSUME BackupInv, MoveData PROVE BackupInv' OBVIOUS
<1>0. /\ swap \in Moving
      /\ UNCHANGED <<renames, healthy, running, maintenance, requests, position>>
      /\ moved' = (moved \/ swap' = "install")
  BY DEF MoveData, MarksMoved
<1>1. place \in [Directories -> SUBSET (OldData \cup NewData)]
  BY DEF BackupInv, BackupTypeOK
<1> DEFINE Placed == place' \in [Directories -> SUBSET (OldData \cup NewData)]
<1>2. ASSUME Placed, swap' \in Moving \cup {"start", "reopen"}, Layout'
      PROVE  BackupInv'
  <2>1. moved' \in BOOLEAN BY <1>0
  <2>2. BackupTypeOK'
    BY <1>0, <1>2, <2>1 DEF BackupInv, BackupTypeOK, Swaps, Starting, Moving
  <2>3. Control'
    BY <1>0, <1>2 DEF BackupInv, Control, Guarded, Stopping, Starting, Moving, Restoring
  <2> QED BY <1>2, <2>2, <2>3 DEF BackupInv
<1> DEFINE Round(from, to, then) ==
      /\ \A d \in Directories \ {from, to} : place'[d] = place[d]
      /\ \/ renames /\ place'[from] = {} /\ place'[to] = place[from] /\ swap' = then
         \/ /\ ~renames /\ swap' = swap
            /\ \A S \in {OldData, NewData} : Split(from, to, S) => Split(from, to, S)'
         \/ ~renames /\ place[from] = {} /\ swap' = then /\ place' = place
<1>3. CASE swap = "away"
  <2>1. SwapOf(swap) = [from |-> "data", to |-> "aside", then |-> "install"]
    BY <1>3 DEF SwapOf
  <2>2. Placed /\ Round("data", "aside", "install")
    BY <1>1, <2>1, DataMoves DEF Directories
  <2>3. Layout'
    BY <1>0, <1>3, <2>2 DEF BackupInv, Layout, Back, Split, Directories
  <2> QED BY <1>2, <1>3, <2>2, <2>3 DEF Moving
<1>4. CASE swap = "install"
  <2>1. SwapOf(swap) = [from |-> "staging", to |-> "data", then |-> "start"]
    BY <1>4 DEF SwapOf
  <2>2. Placed /\ Round("staging", "data", "start")
    BY <1>1, <2>1, DataMoves DEF Directories
  <2>3. Layout'
    BY <1>0, <1>4, <2>2 DEF BackupInv, Layout, Back, Split, Directories
  <2> QED BY <1>2, <1>4, <2>2, <2>3 DEF Moving
<1>5. CASE swap = "undoAway"
  <2>1. SwapOf(swap) = [from |-> "data", to |-> "failed", then |-> "undoInstall"]
    BY <1>5 DEF SwapOf
  <2>2. Placed /\ Round("data", "failed", "undoInstall")
    BY <1>1, <2>1, DataMoves DEF Directories
  <2>3. Layout'
    BY <1>0, <1>5, <2>2 DEF BackupInv, Layout, Back, Split, Directories
  <2> QED BY <1>2, <1>5, <2>2, <2>3 DEF Moving
<1>6. CASE swap = "undoInstall"
  <2>1. SwapOf(swap) = [from |-> "aside", to |-> "data", then |-> "reopen"]
    BY <1>6 DEF SwapOf
  <2>2. Placed /\ Round("aside", "data", "reopen")
    BY <1>1, <2>1, DataMoves DEF Directories
  <2>3. Layout'
    BY <1>0, <1>6, <2>2 DEF BackupInv, Layout, Back, Split, Directories
  <2> QED BY <1>2, <1>6, <2>2, <2>3 DEF Moving
<1> QED BY <1>0, <1>3, <1>4, <1>5, <1>6 DEF Moving

\* A move that fails is a step of the handler or the end of the rollback.
LEMMA MoveFailsKeeps == BackupInv /\ MoveFails => BackupInv'
<1> SUFFICES ASSUME BackupInv, MoveFails PROVE BackupInv' OBVIOUS
<1>1. running' \subseteq Services \cup {"runs"}
  BY DEF MoveFails, BackupInv, BackupTypeOK
<1> QED BY <1>1, HandlerKeeps, RollbackFailsKeeps DEF MoveFails

\* The old directory is removed when the services run over the new data.
LEMMA RemoveOldKeeps == BackupInv /\ RemoveOld => BackupInv'
<1> SUFFICES ASSUME BackupInv, RemoveOld PROVE BackupInv' OBVIOUS
<1> USE DEF BackupInv, RemoveOld, LeaveWith
<1> USE DEF Guarded, Stopping, Starting, Moving, Restoring
<1>1. BackupTypeOK'
  <2>1. requests' \in 0..MaxRequests BY BackupAssumption DEF BackupTypeOK, Control
  <2>2. place' \in [Directories -> SUBSET (OldData \cup NewData)] BY DEF BackupTypeOK
  <2>3. maintenance' \in BOOLEAN OBVIOUS
  <2> QED BY <2>1, <2>2, <2>3 DEF BackupTypeOK, Swaps
<1>2. Control' BY DEF Control
<1>3. Layout' BY DEF Layout, Back, Split, BackupTypeOK, Directories
<1> QED BY <1>1, <1>2, <1>3

\* A stop of the process moves nothing: what Layout says of each step is enough.
LEMMA CrashKeeps == BackupInv /\ CrashDuringRestore => BackupInv'
<1> SUFFICES ASSUME BackupInv, CrashDuringRestore PROVE BackupInv' OBVIOUS
<1> USE DEF BackupInv, CrashDuringRestore, RestoreKeeps
<1>1. BackupTypeOK'
  <2>1. requests' \in 0..MaxRequests /\ position' \in 1..Len(StopOrder)
    BY BackupAssumption, Orders
  <2> QED BY <2>1 DEF BackupTypeOK, Swaps
<1>2. Control' BY DEF Control, Guarded, Stopping, Starting, Moving, Restoring
<1>3. Layout'
  <2>1. swap \in {"none", "staged", "wait", "stop", "away", "reopen"} =>
          OldData \subseteq place["data"] \cup place["aside"]
    BY DEF Layout, Back, Split
  <2>2. swap \in {"install", "undoStop", "undoAway", "undoInstall", "start", "clean", "lost"} =>
          OldData \subseteq place["data"] \cup place["aside"]
    BY DEF Layout, Split
  <2>3. OldData \subseteq place["data"] \cup place["aside"]
    BY <2>1, <2>2 DEF BackupTypeOK, Swaps, Stopping, Starting, Restoring
  <2> QED BY <2>3 DEF Layout
<1> QED BY <1>1, <1>2, <1>3

\* BackupInv is inductive.
LEMMA BackupSteps == BackupInv /\ [BackupNext]_backupVars => BackupInv'
<1> SUFFICES ASSUME BackupInv, [BackupNext]_backupVars PROVE BackupInv' OBVIOUS
<1>1. CASE UNCHANGED backupVars
  BY <1>1 DEF backupVars, BackupInv, BackupTypeOK, Control, Restoring, Layout, Back, Split
<1>2. CASE BackupNext
  BY <1>2, OutsideKeeps, PrepareKeeps, StopKeeps, StartKeeps, MoveKeeps, MoveFailsKeeps,
     RemoveOldKeeps, CrashKeeps
  DEF BackupNext, Outside
<1> QED BY <1>1, <1>2

\* What the invariant says of the steps is what a restore promises: while requests are
\* served the restore has not begun to stop services, or has ended.
LEMMA BackupInvSafe == BackupInv => RestoreIsSafe
<1> SUFFICES ASSUME BackupInv PROVE RestoreIsSafe OBVIOUS
<1> USE DEF BackupInv
<1>1. QuietWhileMoving BY DEF QuietWhileMoving, Control, Guarded
<1>2. WholeWhenServed
  <2> SUFFICES ASSUME ~maintenance, swap # "down"
               PROVE  /\ place["data"] \in {OldData, NewData} \/ HalfMoved
                      /\ Services \subseteq running
    BY DEF WholeWhenServed
  <2>1. swap \in {"none", "staged", "done"}
    BY DEF Control, BackupTypeOK, Swaps, Guarded, Moving
  <2>2. Services \subseteq running BY <2>1 DEF Control
  <2>3. Back => place["data"] = OldData \/ HalfMoved BY DEF Back, Split, HalfMoved
  <2> QED BY <2>1, <2>2, <2>3 DEF Layout
<1>3. OldDataKept
  <2>1. swap \in {"none", "staged", "wait", "stop", "away", "reopen"} => OldDataKept
    BY DEF Layout, Back, Split, OldDataKept
  <2>2. swap \in {"install", "undoStop", "undoAway", "undoInstall", "start", "clean", "lost"} =>
          OldDataKept
    BY DEF Layout, Split, OldDataKept
  <2>3. swap \in {"done", "down"} => OldDataKept
    BY DEF Layout, Back, Split, OldDataKept
  <2> QED BY <2>1, <2>2, <2>3 DEF BackupTypeOK, Swaps, Stopping, Starting
<1> QED BY <1>1, <1>2, <1>3 DEF RestoreIsSafe

-----------------------------------------------------------------------------

\* The variables of a restore have their types, whatever fails.
THEOREM BackupTyped == BackupSpec => []BackupTypeOK
<1>1. BackupInv => BackupTypeOK BY DEF BackupInv
<1> QED BY <1>1, BackupStarts, BackupSteps, PTL DEF BackupSpec

\* _activate_staged_restore moves entries of the data directory only while nobody has
\* it open, requests are served again over the old or the new data as a whole with
\* every service started (but for HalfMoved), and no entry of the old data is lost
\* before the services run over the new.
THEOREM RestoreSafe == BackupSpec => []RestoreIsSafe
BY BackupStarts, BackupSteps, BackupInvSafe, PTL DEF BackupSpec

-----------------------------------------------------------------------------
(***************************************************************************)
(* The files of plugins                                                    *)
(*                                                                         *)
(* What a market update displaces stays in a backup until the new file     *)
(* registers; texts are numbered, so a version that was displaced is never *)
(* mistaken for the one that replaced it.                                  *)
(***************************************************************************)

CatalogTypes ==
  /\ dirOf \in [Plugins -> Contents] /\ fileOf \in [Plugins -> Contents]
  /\ displaced \in [Plugins -> Contents]
  /\ backups \in [Plugins -> SUBSET Contents]
  /\ source \in [Plugins -> {"none", "dir", "file"}]
  /\ installing \in [plugin : Plugins \cup {"none"}, step : {"idle", "copy", "reload"},
                     backup : Contents]
  /\ installing.step # "idle" => installing.plugin \in Plugins
  /\ installing.step = "idle" => installing = Idle
  /\ texts \in 0 .. MaxVersion

\* A text is numbered before it is written.
Numbered ==
  /\ \A p \in Plugins :
       /\ dirOf[p].version <= texts /\ fileOf[p].version <= texts
       /\ displaced[p].version <= texts
       /\ \A c \in backups[p] : c.version <= texts
  /\ installing.backup.version <= texts

\* The registry took a plugin from its directory only when its file does not register.
FromDirectory == \A p \in Plugins : source[p] = "dir" => ~fileOf[p].whole

\* A displaced version is not in its place; and the backup that an update may delete
\* because the file registers is not that of a displaced version.
Away ==
  /\ \A p \in Plugins : displaced[p] # None => dirOf[p] # displaced[p]
  /\ \A p \in Plugins :
       /\ installing.plugin = p /\ installing.step # "idle"
       /\ fileOf[p].whole /\ displaced[p] # None
       => displaced[p] # installing.backup

\* What was set aside is in a backup until the update is settled.
SetAsideKept ==
  installing.step # "idle" =>
    installing.backup \in backups[installing.plugin] \cup {None}

CatalogInv ==
  CatalogTypes /\ Numbered /\ FromDirectory /\ Away /\ SetAsideKept /\ OldVersionKept

LEMMA NoneIsContent == None \in Contents /\ ~None.whole /\ None.version = 0
  BY CatalogAssumption DEF None, Contents

LEMMA FreshIsNew ==
  ASSUME CatalogTypes, NewText, NEW w \in BOOLEAN
  PROVE  /\ Fresh(w) \in Contents /\ Fresh(w) # None
         /\ Fresh(w).version = texts + 1 /\ Fresh(w).whole = w
         /\ texts' = texts + 1 /\ texts' \in 0 .. MaxVersion /\ texts \in Nat
  BY CatalogAssumption DEF CatalogTypes, NewText, Fresh, Contents, None

LEMMA CatalogInvInit == CatalogInit => CatalogInv
  BY CatalogAssumption, NoneIsContent
     DEF CatalogInit, CatalogInv, CatalogTypes, Numbered, FromDirectory, Away, SetAsideKept,
         OldVersionKept, Idle

\* An operation beside the updates: it writes at most one text, and the two places of
\* a plugin are left alone, emptied or given that text.
Written(x, old) ==
  \/ x = old
  \/ x = None
  \/ NewText /\ \E w \in BOOLEAN : x = Fresh(w)
Plain(p, d, f) ==
  /\ Free /\ Quietly /\ Reload /\ (NewText \/ UNCHANGED texts)
  /\ dirOf' = [dirOf EXCEPT ![p] = d] /\ Written(d, dirOf[p])
  /\ fileOf' = [fileOf EXCEPT ![p] = f] /\ Written(f, fileOf[p])

LEMMA PlainOperation ==
  ASSUME CatalogInv, NEW p \in Plugins, NEW d \in Contents, NEW f \in Contents,
         Plain(p, d, f)
  PROVE  CatalogInv'
<1> USE DEF Plain, Written
<1>1. /\ texts \in Nat /\ texts' \in 0 .. MaxVersion /\ texts <= texts'
      /\ CatalogTypes /\ MaxVersion \in Nat
  <2>1. CatalogTypes /\ texts \in 0 .. MaxVersion /\ MaxVersion \in Nat
    BY CatalogAssumption DEF CatalogInv, CatalogTypes
  <2>2. NewText \/ texts' = texts
    OBVIOUS
  <2>3. NewText => texts' = texts + 1 /\ texts < MaxVersion
    BY DEF NewText
  <2> QED  BY ONLY <2>1, <2>2, <2>3
<1>2. d.version <= texts' /\ f.version <= texts'
  BY FreshIsNew, NoneIsContent, <1>1 DEF CatalogInv, CatalogTypes, Numbered, Contents
<1>3. d # dirOf[p] => displaced[p] = None \/ displaced[p] # d
  <2>1. displaced[p].version <= texts
    BY DEF CatalogInv, Numbered
  <2> QED  BY <2>1, <1>1, FreshIsNew DEF CatalogTypes, Contents
<1>4. CatalogTypes'
  BY <1>1, NoneIsContent DEF CatalogTypes, Quietly, Reload, SourceOf, Idle
<1>5. Numbered'
  BY <1>1, <1>2 DEF CatalogInv, CatalogTypes, Numbered, Quietly, Contents
<1>6. FromDirectory'
  BY <1>1 DEF FromDirectory, Reload, SourceOf
<1>7. Away'
  BY <1>1, <1>3 DEF CatalogInv, CatalogTypes, Away, Quietly, Free, Idle
<1>8. SetAsideKept' /\ OldVersionKept'
  BY DEF CatalogInv, SetAsideKept, OldVersionKept, Quietly
<1> QED  BY <1>4, <1>5, <1>6, <1>7, <1>8 DEF CatalogInv

LEMMA PlainTexts ==
  ASSUME NEW x, NEW old, x \in {old, None}
  PROVE  Written(x, old)
  BY DEF Written

LEMMA SameEntry ==
  ASSUME CatalogTypes, NEW p \in Plugins
  PROVE  /\ dirOf[p] \in Contents /\ dirOf = [dirOf EXCEPT ![p] = dirOf[p]]
         /\ fileOf[p] \in Contents /\ fileOf = [fileOf EXCEPT ![p] = fileOf[p]]
  BY DEF CatalogTypes

\* Every operation but the market update is a plain one.
LEMMA PlainStep ==
  ASSUME CatalogInv, NEW p \in Plugins,
         \/ Uninstall(p) \/ Delete(p) \/ InstallRemote(p) \/ Upload(p) \/ Clone(p)
         \/ Create(p) \/ EditSource(p) \/ ImportBundle(p)
  PROVE  CatalogInv'
<1>t. CatalogTypes
  BY DEF CatalogInv
<1>e. /\ dirOf[p] \in Contents /\ dirOf = [dirOf EXCEPT ![p] = dirOf[p]]
      /\ fileOf[p] \in Contents /\ fileOf = [fileOf EXCEPT ![p] = fileOf[p]]
  BY <1>t, SameEntry
<1>n. ASSUME NewText, NEW w \in BOOLEAN
      PROVE  Fresh(w) \in Contents /\ Written(Fresh(w), dirOf[p]) /\ Written(Fresh(w), fileOf[p])
  BY <1>n, <1>t, FreshIsNew DEF Written
<1>o. /\ Written(dirOf[p], dirOf[p]) /\ Written(fileOf[p], fileOf[p])
      /\ Written(None, dirOf[p]) /\ Written(None, fileOf[p])
  BY PlainTexts
<1>1. CASE Uninstall(p)
  <2>1. Plain(p, None, fileOf[p]) \/ Plain(p, None, None)
    BY <1>1, <1>e, <1>o DEF Uninstall, Plain
  <2> QED  BY <2>1, <1>e, NoneIsContent, PlainOperation
<1>7. CASE Delete(p)
  <2>1. Plain(p, None, fileOf[p]) \/ Plain(p, dirOf[p], None)
    BY <1>7, <1>e, <1>o DEF Delete, Plain
  <2> QED  BY <2>1, <1>e, NoneIsContent, PlainOperation
<1>2. CASE InstallRemote(p)
  <2>1. PICK w \in BOOLEAN : fileOf' = [fileOf EXCEPT ![p] = IF w THEN Fresh(w) ELSE None]
    BY <1>2 DEF InstallRemote
  <2>2. Plain(p, dirOf[p], Fresh(w)) \/ Plain(p, dirOf[p], None)
    BY <1>2, <1>e, <1>n, <1>o, <2>1 DEF InstallRemote, Plain
  <2> QED  BY <1>2, <1>e, <1>n, <2>2, NoneIsContent, PlainOperation DEF InstallRemote
<1>3. CASE Upload(p) \/ Clone(p)
  <2>1. PICK w \in BOOLEAN :
          fileOf' = [fileOf EXCEPT ![p] =
                       IF SourceOf(dirOf[p], Fresh(w)) # "none" THEN Fresh(w) ELSE None]
    BY <1>3 DEF Upload, Clone, WriteFile
  <2>2. NewText /\ (Plain(p, dirOf[p], Fresh(w)) \/ Plain(p, dirOf[p], None))
    BY <1>3, <1>e, <1>n, <1>o, <2>1 DEF Upload, Clone, WriteFile, Plain
  <2> QED  BY <1>e, <1>n, <2>2, NoneIsContent, PlainOperation
<1>4. CASE Create(p)
  <2>1. NewText /\ Plain(p, Fresh(TRUE), fileOf[p])
    BY <1>4, <1>e, <1>n, <1>o DEF Create, Plain
  <2> QED  BY <1>e, <1>n, <2>1, PlainOperation
<1>5. CASE ImportBundle(p)
  <2>1. PICK w \in BOOLEAN :
          \/ dirOf' = [dirOf EXCEPT ![p] = Fresh(w)] /\ UNCHANGED fileOf
          \/ fileOf' = [fileOf EXCEPT ![p] = Fresh(w)] /\ UNCHANGED dirOf
    BY <1>5 DEF ImportBundle
  <2>2. NewText /\ (Plain(p, Fresh(w), fileOf[p]) \/ Plain(p, dirOf[p], Fresh(w)))
    BY <1>5, <1>e, <1>n, <1>o, <2>1 DEF ImportBundle, Plain
  <2> QED  BY <1>e, <1>n, <2>2, PlainOperation
<1>6. CASE EditSource(p)
  <2>1. PICK w \in BOOLEAN, d \in Contents, f \in Contents :
          /\ d \in {dirOf[p], Fresh(w)} /\ f \in {fileOf[p], Fresh(w)}
          /\ dirOf' = [dirOf EXCEPT ![p] = d] /\ fileOf' = [fileOf EXCEPT ![p] = f]
    BY <1>6, <1>e, <1>n DEF EditSource
  <2>2. Plain(p, d, f)
    BY <1>6, <1>n, <1>o, <2>1 DEF EditSource, Plain
  <2> QED  BY <2>2, PlainOperation
<1> QED  BY <1>1, <1>2, <1>3, <1>4, <1>5, <1>6, <1>7

-----------------------------------------------------------------------------
(* The market update *)

LEMMA SetAsideStep ==
  ASSUME CatalogInv, NEW p \in Plugins, SetAside(p) PROVE CatalogInv'
<1> USE NoneIsContent DEF CatalogInv
<1>1. CatalogTypes'
  BY DEF SetAside, CatalogTypes
<1>2. Numbered'
  BY CatalogAssumption DEF SetAside, CatalogTypes, Numbered
<1>3. FromDirectory'
  BY DEF SetAside, FromDirectory
<1>4. Away'
  BY DEF SetAside, CatalogTypes, Away, FromDirectory
<1>5. SetAsideKept' /\ OldVersionKept'
  BY DEF SetAside, CatalogTypes, SetAsideKept, OldVersionKept
<1> QED  BY <1>1, <1>2, <1>3, <1>4, <1>5

LEMMA CopyInStep ==
  ASSUME CatalogInv, NEW p \in Plugins, CopyIn(p) PROVE CatalogInv'
<1> USE DEF CatalogInv
<1>0. PICK w \in BOOLEAN : dirOf' = [dirOf EXCEPT ![p] = Fresh(w)]
  BY DEF CopyIn
<1>f. /\ Fresh(w) \in Contents /\ Fresh(w) # None
      /\ Fresh(w).version = texts + 1 /\ Fresh(w).whole = w
      /\ texts' = texts + 1 /\ texts' \in 0 .. MaxVersion /\ texts \in Nat
  BY FreshIsNew DEF CopyIn
<1>1. CatalogTypes'
  BY <1>0, <1>f DEF CopyIn, CatalogTypes, Updating
<1>2. Numbered'
  BY <1>0, <1>f DEF CopyIn, CatalogTypes, Numbered, Contents
<1>3. FromDirectory'
  BY DEF CopyIn, FromDirectory
<1>4. Away'
  BY <1>0, <1>f DEF CopyIn, CatalogTypes, Away, Numbered, Contents, Updating
<1>5. SetAsideKept' /\ OldVersionKept'
  BY DEF CopyIn, CatalogTypes, SetAsideKept, OldVersionKept, Updating
<1> QED  BY <1>1, <1>2, <1>3, <1>4, <1>5

LEMMA CopyFailsStep ==
  ASSUME CatalogInv, NEW p \in Plugins, CopyFails(p) PROVE CatalogInv'
<1> USE NoneIsContent DEF CatalogInv
<1>0. PICK part \in {None, Fresh(FALSE)} :
        /\ dirOf' = [dirOf EXCEPT ![p] = RestoreInto(part)]
        /\ backups' = IF part = None THEN [backups EXCEPT ![p] = @ \ {installing.backup}]
                      ELSE backups
  BY DEF CopyFails
<1>f. /\ Fresh(FALSE) \in Contents /\ Fresh(FALSE) # None
      /\ Fresh(FALSE).version = texts + 1
      /\ texts' = texts + 1 /\ texts' \in 0 .. MaxVersion /\ texts \in Nat
  BY FreshIsNew DEF CopyFails
<1>r. /\ RestoreInto(part) = IF part = None THEN installing.backup ELSE part
      /\ RestoreInto(part) \in Contents
  BY <1>0, <1>f DEF RestoreInto, CatalogTypes
<1>d. displaced' = [displaced EXCEPT ![p] = IF RestoreInto(part) = @ THEN None ELSE @]
  BY <1>0 DEF CopyFails, Displaced, CatalogTypes
<1>1. CatalogTypes'
  <2>1. displaced' \in [Plugins -> Contents]
    BY <1>d DEF CatalogTypes
  <2>2. backups' \in [Plugins -> SUBSET Contents]
    BY <1>0 DEF CatalogTypes
  <2>3. installing' = Idle /\ Idle \in [plugin : Plugins \cup {"none"}, step : {"idle", "copy", "reload"},
                     backup : Contents]
    BY DEF CopyFails, Idle
  <2> QED  BY <1>0, <1>f, <1>r, <2>1, <2>2, <2>3 DEF CopyFails, CatalogTypes, Idle
<1>2. Numbered'
  <2>0. texts <= texts' /\ installing.backup.version <= texts /\ installing.backup.version \in Nat
    BY <1>f DEF Numbered, CatalogTypes, Contents
  <2>1. RestoreInto(part).version <= texts' /\ texts <= texts'
    <3>1. CASE part = None
      BY <3>1, <1>r, <1>f, <2>0
    <3>2. CASE part = Fresh(FALSE)
      <4>1. RestoreInto(part) = Fresh(FALSE)
        BY <3>2, <1>r, <1>f
      <4>2. RestoreInto(part).version = texts'
        BY <4>1, <1>f
      <4> QED  BY <4>2, <1>f
    <3> QED  BY <3>1, <3>2, <1>0
  <2>2. \A q \in Plugins : displaced'[q].version <= texts'
    BY <1>d, <2>1, <1>f DEF CatalogTypes, Numbered, Contents
  <2>3. \A q \in Plugins : dirOf'[q].version <= texts' /\ fileOf'[q].version <= texts'
    BY <1>0, <1>f, <1>r, <2>1 DEF CopyFails, CatalogTypes, Numbered, Contents
  <2>4. \A q \in Plugins : \A c \in backups'[q] : c.version <= texts'
    BY <1>0, <1>f, <2>1 DEF CatalogTypes, Numbered, Contents
  <2> QED  BY <2>1, <2>2, <2>3, <2>4, <1>f DEF CopyFails, Numbered, Idle
<1>3. FromDirectory'
  BY DEF CopyFails, FromDirectory
<1>4. Away'
  BY <1>0, <1>r, <1>d DEF CopyFails, CatalogTypes, Away, Idle
<1>5. SetAsideKept'
  BY DEF CopyFails, SetAsideKept, Idle
<1>6. OldVersionKept'
  BY <1>0, <1>r, <1>d DEF CatalogTypes, OldVersionKept
<1> QED  BY <1>1, <1>2, <1>3, <1>4, <1>5, <1>6

LEMMA SettleStep ==
  ASSUME CatalogInv, NEW p \in Plugins, Settle(p) PROVE CatalogInv'
<1> USE NoneIsContent DEF CatalogInv
<1>0. /\ installing.plugin = p /\ installing.step # "idle"
      /\ installing' = Idle /\ UNCHANGED <<fileOf, texts>>
      /\ backups' = [backups EXCEPT ![p] = @ \ {installing.backup}]
  BY DEF Settle, Updating
<1>1. PICK d \in Contents, x \in Contents :
        /\ dirOf' = [dirOf EXCEPT ![p] = d] /\ displaced' = [displaced EXCEPT ![p] = x]
        /\ d \in {dirOf[p], installing.backup}
        /\ x \in {displaced[p], None}
        /\ x # None => d # x
        /\ x # None => x # installing.backup
  <2>1. CASE Registered(p)
    <3> DEFINE x == IF dirOf[p].whole THEN None ELSE displaced[p]
    <3>1. displaced' = [displaced EXCEPT ![p] = x] /\ dirOf' = [dirOf EXCEPT ![p] = dirOf[p]]
      BY <2>1 DEF Settle, CatalogTypes
    <3>2. x # None => fileOf[p].whole
      BY <2>1 DEF Registered, SourceOf
    <3> QED  BY <1>0, <3>1, <3>2 DEF CatalogTypes, Away
  <2>2. CASE ~Registered(p)
    <3> DEFINE x == IF installing.backup = displaced[p] THEN None ELSE displaced[p]
    <3>1. displaced' = [displaced EXCEPT ![p] = x]
          /\ dirOf' = [dirOf EXCEPT ![p] = installing.backup]
      BY <2>2 DEF Settle, CatalogTypes, Displaced
    <3> QED  BY <1>0, <3>1 DEF CatalogTypes
  <2> QED  BY <2>1, <2>2
<1>2. CatalogTypes'
  <2>1. source' \in [Plugins -> {"none", "dir", "file"}]
    BY DEF Settle, Reload, SourceOf
  <2>2. installing' \in [plugin : Plugins \cup {"none"}, step : {"idle", "copy", "reload"},
                     backup : Contents]
    BY <1>0 DEF Idle
  <2> QED  BY <1>0, <1>1, <2>1, <2>2 DEF CatalogTypes, Idle
<1>3. Numbered'
  BY <1>0, <1>1 DEF CatalogTypes, Numbered, Contents, Idle
<1>4. FromDirectory'
  BY <1>0 DEF Settle, FromDirectory, Reload, SourceOf
<1>5. Away'
  BY <1>0, <1>1 DEF CatalogTypes, Away, Idle
<1>6. SetAsideKept' /\ OldVersionKept'
  BY <1>0, <1>1 DEF CatalogTypes, SetAsideKept, OldVersionKept, Idle
<1> QED  BY <1>2, <1>3, <1>4, <1>5, <1>6

LEMMA StopStep ==
  ASSUME CatalogInv, StopAndStart PROVE CatalogInv'
<1> USE NoneIsContent DEF CatalogInv
<1>1. CatalogTypes' /\ Numbered'
  BY CatalogAssumption DEF StopAndStart, CatalogTypes, Numbered, Reload, SourceOf, Idle
<1>2. FromDirectory'
  BY DEF StopAndStart, FromDirectory, Reload, SourceOf
<1>3. Away' /\ SetAsideKept' /\ OldVersionKept'
  BY DEF StopAndStart, Away, SetAsideKept, OldVersionKept, Idle
<1> QED  BY <1>1, <1>2, <1>3

LEMMA CatalogInvStep == CatalogInv /\ [CatalogNext]_catalogVars => CatalogInv'
<1>1. CatalogInv /\ UNCHANGED catalogVars => CatalogInv'
  BY DEF catalogVars, CatalogInv, CatalogTypes, Numbered, FromDirectory, Away, SetAsideKept,
         OldVersionKept
<1> QED
  BY <1>1, PlainStep, SetAsideStep, CopyInStep, CopyFailsStep, SettleStep, StopStep
     DEF CatalogNext

\* Every content is a text that was written, and a market update under way has its
\* backup.
THEOREM CatalogTyped == CatalogSpec => []CatalogTypeOK
<1>1. CatalogInv => CatalogTypeOK
  BY NoneIsContent, CatalogAssumption
     DEF CatalogInv, CatalogTypes, Numbered, SetAsideKept, CatalogTypeOK, Idle
<1> QED  BY <1>1, CatalogInvInit, CatalogInvStep, PTL DEF CatalogSpec

\* A version that a market update has taken from its place is never lost, whatever
\* failed and wherever the process stopped.
THEOREM OldVersionsKept == CatalogSpec => []OldVersionKept
<1>1. CatalogInv => OldVersionKept  BY DEF CatalogInv
<1> QED  BY <1>1, CatalogInvInit, CatalogInvStep, PTL DEF CatalogSpec

-----------------------------------------------------------------------------
(***************************************************************************)
(* The change of an account                                                *)
(*                                                                         *)
(* Copied: a path is touched only after its original is staged.  Planned:  *)
(* going forward each file is as far as the phase says.  Rolling back      *)
(* removes only what the change created and restores what was staged, the  *)
(* directory first.                                                        *)
(***************************************************************************)

Places == [old : {"original", "edited", "torn", "none"},
           new : {"original", "edited", "other", "none"}]
Ahead == Forward \cup {"stopping", "syncing", "done"}
Phases == Ahead \cup {"removing", "restoring"} \cup Gone

ChangeTypes ==
  /\ operation \in {"rename", "delete", "purge"}
  /\ disk \in [Items -> Places]
  /\ Snapped \subseteq Units /\ created \subseteq Units /\ todo \subseteq Units
  /\ taken \subseteq Items
  /\ torn = {} \/ \E u \in Items : torn = {u}
  /\ phase \in Phases
  /\ phase \in Forward => todo \subseteq Work(phase)
  /\ phase \in {"stopping", "syncing", "done"} => todo = {}
  /\ phase = "removing" => todo \subseteq created
  /\ phase = "restoring" => todo \subseteq Snapped

\* Before a path is touched its original is in the staging directory, and it stays
\* there until the change has ended.
Copied ==
  /\ phase \notin {"done", "restored"} => \A i \in Items :
       /\ i \in Snapped => staged[i] = [j \in {i} |-> "original"]
       /\ i \notin Snapped => disk[i].old = "original"
  /\ phase = "configs" => (OwnTasks \cup SharedTasks) \ todo \subseteq Snapped
  /\ phase \in {"directory", "history", "syncing"} => OwnTasks \subseteq Snapped
  /\ Dir \in Snapped => /\ OwnTasks \subseteq Snapped
                        /\ staged[Dir] \in [OwnTasks -> {"original", "edited", "torn", "none"}]

\* The roll back has restored what it no longer has to do, the directory first.
RollingBack ==
  /\ phase = "restoring" =>
       /\ Dir \in todo => todo = Snapped
       /\ \A i \in Items \cap Snapped : i \notin todo => disk[i].old = "original"
  /\ phase \in {"restored", "kept"} => \A i \in Items : disk[i].old = "original"

\* The change and the roll back write only to destinations that were free.
OwnDestinations ==
  /\ \A i \in taken : disk[i].new = "other"
  /\ \A u \in created : DestinationFree(u)
  /\ phase \in Forward => torn \cap Histories \subseteq created
  /\ phase = "stopping" => created = {}

-----------------------------------------------------------------------------
(* Going forward: each file is as far as the phase says *)

After(p) ==
  CASE p = "files" -> {"configs", "directory", "history", "syncing", "done"}
    [] p = "configs" -> {"directory", "history", "syncing", "done"}
    [] p = "directory" -> {"history", "syncing", "done"}
    [] p = "history" -> {"syncing", "done"}
WorkedIn(p, u) == phase \in After(p) \/ (phase = p /\ u \notin todo)
At(i, o, n) == disk[i] = [old |-> o, new |-> n]

FilesPlanned == \A i \in SessionFiles \ taken :
  /\ ~WorkedIn("files", i) => At(i, "original", "none")
  /\ WorkedIn("files", i) => At(i, "none", IF operation = "rename" THEN "original" ELSE "none")
SharedPlanned == \A i \in SharedTasks \ taken :
  /\ ~WorkedIn("configs", i) => At(i, "original", "none")
  /\ WorkedIn("configs", i) => At(i, IF i \in torn THEN "torn" ELSE "edited", "none")
OwnPlanned == \A i \in OwnTasks \ taken :
  /\ ~WorkedIn("configs", i) => At(i, "original", "none")
  /\ WorkedIn("configs", i) /\ operation # "rename" => At(i, "none", "none")
  /\ WorkedIn("configs", i) /\ operation = "rename" /\ ~WorkedIn("directory", Dir) =>
       At(i, IF i \in torn THEN "torn" ELSE "edited", "none")
  /\ operation = "rename" /\ WorkedIn("directory", Dir) => At(i, "none", "edited")
HistoriesPlanned == \A i \in Histories \ taken :
  /\ ~WorkedIn("history", i) \/ operation = "delete" => At(i, "original", "none")
  /\ WorkedIn("history", i) /\ operation = "rename" =>
       At(i, "none", IF i \in torn THEN "original" ELSE "edited")
  /\ WorkedIn("history", i) /\ operation = "purge" => At(i, "none", "none")
TornPlanned ==
  /\ torn \cap todo = {}
  /\ phase \notin {"configs", "history"} => torn = {}
  /\ phase = "configs" => torn \subseteq OwnTasks \cup SharedTasks
  /\ phase = "history" => torn \subseteq Histories
  /\ phase = "history" /\ operation # "rename" => torn = {}
  /\ phase = "configs" /\ operation # "rename" => torn \cap OwnTasks = {}

Planned ==
  phase \in Ahead =>
    FilesPlanned /\ SharedPlanned /\ OwnPlanned /\ HistoriesPlanned /\ TornPlanned

ChangeInv == ChangeTypes /\ Copied /\ RollingBack /\ OwnDestinations /\ Planned

-----------------------------------------------------------------------------
LEMMA UnitFacts ==
  /\ Dir \in Units /\ Items \subseteq Units /\ Units = Items \cup {Dir} /\ Dir \notin Items
  /\ \A i \in Items : Within(i) = {i} /\ i # Dir
  /\ Within(Dir) = OwnTasks
  /\ SessionFiles \subseteq Items /\ OwnTasks \subseteq Items
  /\ SharedTasks \subseteq Items /\ Histories \subseteq Items
  /\ \A i \in Items : i \in SessionFiles \/ i \in OwnTasks \/ i \in SharedTasks \/ i \in Histories
  BY ChangeAssumption DEF Units, Items, Within

LEMMA Apart ==
  /\ \A i \in SessionFiles : i \notin OwnTasks /\ i \notin SharedTasks /\ i \notin Histories
  /\ \A i \in OwnTasks : i \notin SharedTasks /\ i \notin Histories
  /\ \A i \in SharedTasks : i \notin Histories
  BY ChangeAssumption

LEMMA WorkFacts ==
  /\ Work("files") = SessionFiles /\ Work("configs") = OwnTasks \cup SharedTasks
  /\ operation = "rename" => Work("directory") = {Dir}
  /\ operation # "rename" => Work("directory") = {}
  /\ operation # "delete" => Work("history") = Histories
  /\ operation = "delete" => Work("history") = {}
  /\ Work("syncing") = {} /\ Work("stopping") = {} /\ Work("done") = {}
  /\ \A p \in Forward : Work(p) \subseteq Units
  BY DEF Work, Units, Items, Forward

LEMMA FollowingFacts ==
  /\ Following("stopping") = "files" /\ Following("files") = "configs"
  /\ Following("configs") = "directory" /\ Following("directory") = "history"
  /\ Following("history") = "syncing"
  BY DEF Following

LEMMA ChangeInvInit == ChangeInit => ChangeInv
<1> SUFFICES ASSUME ChangeInit PROVE ChangeInv
  OBVIOUS
<1> USE DEF ChangeInit
<1>1. Snapped = {}
  BY DEF Snapped
<1>2. ChangeTypes
  BY <1>1, UnitFacts DEF ChangeTypes, Places, Phases, Ahead, Forward, Gone
<1>3. Copied
  BY <1>1 DEF Copied
<1>4. RollingBack /\ OwnDestinations
  BY DEF RollingBack, OwnDestinations, Forward
<1>5. Planned
  BY UnitFacts DEF Planned, FilesPlanned, SharedPlanned, OwnPlanned, HistoriesPlanned, TornPlanned,
       WorkedIn, After, At
<1> QED  BY <1>2, <1>3, <1>4, <1>5 DEF ChangeInv

LEMMA NextPhaseStep ==
  ASSUME ChangeInv, NextPhase PROVE ChangeInv'
<1> USE DEF ChangeInv
<1>0. /\ todo = {} /\ torn = {} /\ torn' = {} /\ Snapped' = Snapped
      /\ UNCHANGED <<operation, disk, staged, created, taken>>
  BY DEF NextPhase, Snapped
<1>1. \/ phase = "stopping" /\ phase' = "files" /\ todo' = SessionFiles
      \/ phase = "files" /\ phase' = "configs" /\ todo' = OwnTasks \cup SharedTasks
      \/ phase = "configs" /\ phase' = "directory" /\ todo' = Work("directory")
      \/ phase = "directory" /\ phase' = "history" /\ todo' = Work("history")
      \/ phase = "history" /\ phase' = "syncing" /\ todo' = {}
  BY FollowingFacts, WorkFacts DEF NextPhase, Forward
<1>2. ChangeTypes'
  <2>1. phase' \in Forward => todo' \subseteq Work(phase)'
    BY <1>0, <1>1 DEF Work, Forward
  <2>2. phase' \in Forward \cup {"syncing"} /\ todo' \subseteq Units
    BY <1>1, WorkFacts, UnitFacts DEF Forward
  <2> QED  BY <1>0, <1>1, <2>1, <2>2 DEF ChangeTypes, Phases, Ahead, Gone
<1>3. Copied'
  BY <1>0, <1>1 DEF Copied
<1>4. RollingBack' /\ OwnDestinations'
  BY <1>0, <1>1 DEF RollingBack, OwnDestinations, DestinationFree
<1>5. Planned'
  <2>0. Planned /\ phase \in Ahead
    BY <1>1 DEF Ahead, Forward
  <2>1. FilesPlanned'
    BY <1>0, <1>1, <2>0 DEF Planned, FilesPlanned, WorkedIn, After, At
  <2>2. SharedPlanned'
    BY <1>0, <1>1, <2>0 DEF Planned, SharedPlanned, WorkedIn, After, At
  <2>3. OwnPlanned'
    BY <1>0, <1>1, <2>0, WorkFacts DEF Planned, OwnPlanned, WorkedIn, After, At
  <2>4. HistoriesPlanned'
    BY <1>0, <1>1, <2>0, WorkFacts DEF Planned, HistoriesPlanned, WorkedIn, After, At, ChangeTypes
  <2>5. TornPlanned'
    BY <1>0 DEF TornPlanned
  <2> QED  BY <2>1, <2>2, <2>3, <2>4, <2>5 DEF Planned
<1> QED  BY <1>2, <1>3, <1>4, <1>5

LEMMA TakenStep ==
  ASSUME ChangeInv, NEW u \in Units, DestinationTaken(u) PROVE ChangeInv'
<1> USE DEF ChangeInv
<1>0. /\ phase = "stopping" /\ phase' = "stopping" /\ taken' = taken \cup Within(u)
      /\ Within(u) \subseteq Items /\ Snapped' = Snapped
      /\ UNCHANGED <<operation, staged, created, todo, torn>>
  BY UnitFacts DEF DestinationTaken, Snapped
<1>1. /\ \A i \in Items : disk'[i] = IF i \in Within(u) THEN [disk[i] EXCEPT !.new = "other"] ELSE disk[i]
      /\ disk' \in [Items -> Places]
  BY DEF DestinationTaken, ChangeTypes, Places
<1>2. \A i \in Items : /\ disk'[i].old = disk[i].old
                       /\ i \in Within(u) => disk'[i].new = "other"
                       /\ i \notin Within(u) => disk'[i] = disk[i]
  BY <1>1 DEF ChangeTypes, Places
<1>3. ChangeTypes'
  BY <1>0, <1>1 DEF ChangeTypes, Forward
<1>4. Copied' /\ RollingBack'
  BY <1>0, <1>2 DEF Copied, RollingBack
<1>5. OwnDestinations'
  BY <1>0, <1>2 DEF OwnDestinations, Forward, ChangeTypes
<1>6. Planned'
  <2>0. Planned /\ phase \in Ahead
    BY <1>0 DEF Ahead
  <2>1. FilesPlanned' /\ SharedPlanned'
    BY <1>0, <1>2, <2>0, UnitFacts DEF Planned, FilesPlanned, SharedPlanned, WorkedIn, After, At
  <2>2. OwnPlanned' /\ HistoriesPlanned'
    BY <1>0, <1>2, <2>0, UnitFacts DEF Planned, OwnPlanned, HistoriesPlanned, WorkedIn, After, At
  <2> QED  BY <1>0, <2>0, <2>1, <2>2 DEF Planned, TornPlanned
<1> QED  BY <1>3, <1>4, <1>5, <1>6

LEMMA SnapshotStep ==
  ASSUME ChangeInv, NEW u \in Units, Snapshot(u) PROVE ChangeInv'
<1> USE DEF ChangeInv
<1>0. /\ phase \in Forward /\ u \in todo /\ u \notin Snapped /\ u \in Work(phase)
      /\ UNCHANGED <<operation, disk, created, phase, todo, torn, taken>>
  BY DEF Snapshot, ChangeTypes
<1>1. /\ Snapped' = Snapped \cup {u} /\ staged'[u] = CopyOf(u)
      /\ \A v \in Snapped : staged'[v] = staged[v]
  BY <1>0 DEF Snapshot, Snapped
<1>2. ChangeTypes'
  <2>1. Work(phase)' = Work(phase)
    BY <1>0 DEF Work
  <2> QED  BY <1>0, <1>1, <2>1 DEF ChangeTypes, Forward
<1>3. Copied'
  <2>1. u \in Items => staged'[u] = [j \in {u} |-> "original"]
    BY <1>0, <1>1, UnitFacts DEF CopyOf, Copied, Forward
  <2>2. u = Dir => phase = "directory" /\ OwnTasks \subseteq Snapped
    BY <1>0, UnitFacts DEF Copied, Forward, Work, ChangeTypes
  <2>3. u = Dir => staged'[u] \in [OwnTasks -> {"original", "edited", "torn", "none"}]
    BY <1>1, UnitFacts DEF CopyOf, ChangeTypes, Places
  <2> QED  BY <1>0, <1>1, <2>1, <2>2, <2>3 DEF Copied
<1>4. RollingBack' /\ OwnDestinations'
  BY <1>0, <1>1 DEF RollingBack, OwnDestinations, DestinationFree, Forward
<1>5. Planned'
  BY <1>0 DEF Planned, FilesPlanned, SharedPlanned, OwnPlanned, HistoriesPlanned, TornPlanned,
       WorkedIn, At
<1> QED  BY <1>2, <1>3, <1>4, <1>5

LEMMA MoveStep ==
  ASSUME ChangeInv, NEW u \in Units, Move(u) PROVE ChangeInv'
<1> USE DEF ChangeInv
<1>0. /\ phase \in Forward /\ u \in todo /\ u \in Snapped /\ u \in Work(phase)
      /\ operation = "rename" /\ torn = {} /\ DestinationFree(u)
      /\ u \notin SharedTasks /\ u \notin OwnTasks
      /\ created' = created \cup {u} /\ todo' = todo \ {u} /\ Snapped' = Snapped
      /\ torn' = IF u \in Histories THEN {u} ELSE {}
      /\ UNCHANGED <<operation, staged, phase, taken>>
  BY DEF Move, Moves, Ready, ChangeTypes, Snapped
<1>1. /\ \A i \in Items : disk'[i] = IF i \in Within(u) THEN [old |-> "none", new |-> disk[i].old]
                                     ELSE disk[i]
      /\ DOMAIN disk' = Items
  BY DEF Move
<1>2. \/ phase = "files" /\ u \in SessionFiles
      \/ phase = "directory" /\ u = Dir
      \/ phase = "history" /\ u \in Histories
  BY <1>0, WorkFacts DEF Forward
<1>3. \A i \in Within(u) : i \in Items /\ i \notin taken /\ i \notin SharedTasks
                           /\ disk[i].old \in {"original", "edited"}
  <2>0. Planned /\ phase \in Ahead
    BY <1>0 DEF Ahead
  <2>1. CASE u = Dir
    BY <1>0, <1>2, <2>0, <2>1, UnitFacts, Apart
       DEF DestinationFree, Planned, OwnPlanned, WorkedIn, After, At
  <2>2. CASE u \in Items
    <3>1. Within(u) = {u} /\ u \notin taken
      BY <1>0, <2>2, UnitFacts DEF DestinationFree
    <3>2. At(u, "original", "none")
      BY <1>0, <1>2, <2>0, <2>2, <3>1, UnitFacts
         DEF Planned, FilesPlanned, HistoriesPlanned, WorkedIn, After
    <3> QED  BY <1>0, <2>2, <3>1, <3>2 DEF At
  <2> QED  BY <2>1, <2>2, UnitFacts
<1>4. ChangeTypes'
  <2>1. disk' \in [Items -> Places]
    <3>1. \A i \in Items : disk'[i] \in Places
      BY <1>1, <1>3 DEF ChangeTypes, Places
    <3> QED  BY <3>1 DEF Move
  <2>2. Work(phase)' = Work(phase)
    BY <1>0 DEF Work
  <2>3. torn' = {} \/ \E v \in Items : torn' = {v}
    BY <1>0, UnitFacts
  <2> QED  BY <1>0, <2>1, <2>2, <2>3 DEF ChangeTypes, Forward
<1>5. Copied'
  BY <1>0, <1>1, <1>2, UnitFacts DEF Copied, Forward
<1>6. RollingBack' /\ OwnDestinations'
  BY <1>0, <1>1, <1>3 DEF RollingBack, OwnDestinations, DestinationFree, Forward, ChangeTypes
<1>7. Planned'
  <2>0. Planned /\ phase \in Ahead
    BY <1>0 DEF Ahead
  <2>1. FilesPlanned'
    BY <1>0, <1>1, <1>2, <1>3, <2>0, UnitFacts, Apart
       DEF Planned, FilesPlanned, WorkedIn, After, At
  <2>2. SharedPlanned'
    BY <1>0, <1>1, <1>2, <1>3, <2>0, UnitFacts, Apart
       DEF Planned, SharedPlanned, WorkedIn, After, At
  <2>3. OwnPlanned'
    BY <1>0, <1>1, <1>2, <1>3, <2>0, UnitFacts, Apart
       DEF Planned, OwnPlanned, WorkedIn, After, At
  <2>4. HistoriesPlanned'
    BY <1>0, <1>1, <1>2, <1>3, <2>0, UnitFacts, Apart
       DEF Planned, HistoriesPlanned, WorkedIn, After, At
  <2>5. TornPlanned'
    BY <1>0, <1>2, <2>0, UnitFacts, Apart DEF Planned, TornPlanned
  <2> QED  BY <2>1, <2>2, <2>3, <2>4, <2>5 DEF Planned
<1> QED  BY <1>4, <1>5, <1>6, <1>7

LEMMA RemoveStep ==
  ASSUME ChangeInv, NEW u \in Units, RemoveItem(u) PROVE ChangeInv'
<1> USE DEF ChangeInv
<1>0. /\ phase \in Forward /\ u \in todo /\ u \in Snapped /\ u \in Work(phase)
      /\ operation # "rename" /\ torn = {} /\ u \notin SharedTasks
      /\ todo' = todo \ {u} /\ Snapped' = Snapped
      /\ UNCHANGED <<operation, staged, created, phase, torn, taken>>
  BY DEF RemoveItem, Removes, Ready, ChangeTypes, Snapped
<1>2. /\ \/ phase = "files" /\ u \in SessionFiles
         \/ phase = "configs" /\ u \in OwnTasks
         \/ phase = "history" /\ u \in Histories /\ operation # "delete"
      /\ u \in Items
  BY <1>0, WorkFacts, UnitFacts DEF Forward
<1>1. /\ \A i \in Items : i # u => disk'[i] = disk[i]
      /\ disk'[u] = [old |-> "none", new |-> disk[u].new]
      /\ disk' \in [Items -> Places]
  BY <1>2 DEF RemoveItem, ChangeTypes, Places
<1>4. ChangeTypes'
  <2>2. Work(phase)' = Work(phase)
    BY <1>0 DEF Work
  <2> QED  BY <1>0, <1>1, <2>2 DEF ChangeTypes, Forward
<1>5. Copied'
  BY <1>0, <1>1, <1>2, UnitFacts DEF Copied, Forward
<1>6. RollingBack' /\ OwnDestinations'
  BY <1>0, <1>1, <1>2 DEF RollingBack, OwnDestinations, DestinationFree, Forward, ChangeTypes
<1>7. Planned'
  <2>0. Planned /\ phase \in Ahead
    BY <1>0 DEF Ahead
  <2>1. FilesPlanned'
    BY <1>0, <1>1, <1>2, <2>0, UnitFacts, Apart DEF Planned, FilesPlanned, WorkedIn, After, At
  <2>2. SharedPlanned'
    BY <1>0, <1>1, <1>2, <2>0, UnitFacts, Apart DEF Planned, SharedPlanned, WorkedIn, After, At
  <2>3. OwnPlanned'
    BY <1>0, <1>1, <1>2, <2>0, UnitFacts, Apart DEF Planned, OwnPlanned, WorkedIn, After, At
  <2>4. HistoriesPlanned'
    BY <1>0, <1>1, <1>2, <2>0, UnitFacts, Apart DEF Planned, HistoriesPlanned, WorkedIn, After, At
  <2>5. TornPlanned'
    BY <1>0, <2>0 DEF Planned, TornPlanned
  <2> QED  BY <2>1, <2>2, <2>3, <2>4, <2>5 DEF Planned
<1> QED  BY <1>4, <1>5, <1>6, <1>7

LEMMA TruncateStep ==
  ASSUME ChangeInv, NEW u \in Units, Truncate(u) PROVE ChangeInv'
<1> USE DEF ChangeInv
<1>0. /\ phase \in Forward /\ u \in todo /\ u \in Snapped /\ u \in Work(phase)
      /\ operation # "rename" => u \in SharedTasks
      /\ operation = "rename" => u \in SharedTasks \cup OwnTasks
      /\ torn = {} /\ torn' = {u} /\ todo' = todo \ {u} /\ Snapped' = Snapped
      /\ UNCHANGED <<operation, staged, created, phase, taken>>
  BY DEF Truncate, Moves, Removes, Ready, ChangeTypes, Snapped
<1>2. phase = "configs" /\ u \in Items /\ u \notin Histories /\ u \notin SessionFiles
  BY <1>0, WorkFacts, UnitFacts, Apart DEF Forward
<1>1. /\ \A i \in Items : i # u => disk'[i] = disk[i]
      /\ disk'[u] = [old |-> "torn", new |-> disk[u].new]
      /\ disk' \in [Items -> Places]
  BY <1>2 DEF Truncate, ChangeTypes, Places
<1>4. ChangeTypes'
  <2>2. Work(phase)' = Work(phase)
    BY <1>0 DEF Work
  <2> QED  BY <1>0, <1>1, <1>2, <2>2 DEF ChangeTypes, Forward
<1>5. Copied'
  BY <1>0, <1>1, <1>2, UnitFacts DEF Copied, Forward
<1>6. RollingBack' /\ OwnDestinations'
  BY <1>0, <1>1, <1>2 DEF RollingBack, OwnDestinations, DestinationFree, Forward, ChangeTypes
<1>7. Planned'
  <2>0. Planned /\ phase \in Ahead
    BY <1>0 DEF Ahead
  <2>1. FilesPlanned'
    BY <1>0, <1>1, <1>2, <2>0, UnitFacts, Apart DEF Planned, FilesPlanned, WorkedIn, After, At
  <2>2. SharedPlanned'
    BY <1>0, <1>1, <1>2, <2>0, UnitFacts, Apart DEF Planned, SharedPlanned, WorkedIn, After, At
  <2>3. OwnPlanned'
    BY <1>0, <1>1, <1>2, <2>0, UnitFacts, Apart DEF Planned, OwnPlanned, WorkedIn, After, At
  <2>4. HistoriesPlanned'
    BY <1>0, <1>1, <1>2, <2>0, UnitFacts, Apart DEF Planned, HistoriesPlanned, WorkedIn, After, At
  <2>5. TornPlanned'
    BY <1>0, <1>2, <2>0, Apart DEF Planned, TornPlanned
  <2> QED  BY <2>1, <2>2, <2>3, <2>4, <2>5 DEF Planned
<1> QED  BY <1>4, <1>5, <1>6, <1>7

LEMMA WriteStep ==
  ASSUME ChangeInv, NEW u \in Units, Write(u) PROVE ChangeInv'
<1> USE DEF ChangeInv
<1>0. /\ phase \in Forward /\ torn = {u} /\ torn' = {} /\ Snapped' = Snapped
      /\ u \in Items /\ u \notin todo
      /\ UNCHANGED <<operation, staged, created, phase, todo, taken>>
  BY DEF Write, ChangeTypes, Snapped, Planned, TornPlanned, Ahead
<1>2. /\ \/ phase = "configs" /\ u \in OwnTasks \cup SharedTasks
            /\ (u \in OwnTasks => operation = "rename")
         \/ phase = "history" /\ u \in Histories
      /\ u \in Histories => u \in created /\ u \notin taken
  BY <1>0, UnitFacts DEF Planned, TornPlanned, Ahead, Forward, OwnDestinations, DestinationFree
<1>1. /\ \A i \in Items : i # u => disk'[i] = disk[i]
      /\ u \in Histories => disk'[u] = [old |-> disk[u].old, new |-> "edited"]
      /\ u \notin Histories => disk'[u] = [old |-> "edited", new |-> disk[u].new]
      /\ disk' \in [Items -> Places]
  BY <1>0 DEF Write, ChangeTypes, Places
<1>3. u \notin taken => /\ u \in Histories => At(u, "none", "original") /\ operation = "rename"
                        /\ u \notin Histories => At(u, "torn", "none")
  <2>0. Planned /\ phase \in Ahead /\ u \in torn /\ operation \in {"rename", "delete", "purge"}
    BY <1>0 DEF Ahead, ChangeTypes
  <2>1. CASE u \in SharedTasks
    BY <1>0, <1>2, <2>0, <2>1, Apart DEF Planned, SharedPlanned, WorkedIn
  <2>2. CASE u \in OwnTasks
    BY <1>0, <1>2, <2>0, <2>2, Apart DEF Planned, OwnPlanned, WorkedIn, After
  <2>3. CASE u \in Histories
    BY <1>0, <1>2, <2>0, <2>3, Apart DEF Planned, HistoriesPlanned, TornPlanned, WorkedIn
  <2> QED  BY <1>2, <2>1, <2>2, <2>3, Apart
<1>t. u \notin taken => /\ u \in Histories => At(u, "none", "edited")' /\ operation = "rename"
                        /\ u \notin Histories => At(u, "edited", "none")'
  BY <1>1, <1>3 DEF At
<1>4. ChangeTypes'
  <2>2. Work(phase)' = Work(phase)
    BY <1>0 DEF Work
  <2> QED  BY <1>0, <1>1, <1>2, <2>2 DEF ChangeTypes, Forward
<1>5. Copied'
  <2>1. u \in Histories => disk'[u].old = disk[u].old
    BY <1>1
  <2>2. u \notin Histories => u \in Snapped
    BY <1>0, <1>2 DEF Copied
  <2> QED  BY <1>0, <1>1, <2>1, <2>2 DEF Copied, Forward
<1>6. RollingBack' /\ OwnDestinations'
  BY <1>0, <1>1, <1>2 DEF RollingBack, OwnDestinations, DestinationFree, Forward, ChangeTypes
<1>7. Planned'
  <2>0. Planned /\ phase \in Ahead
    BY <1>0 DEF Ahead
  <2>1. FilesPlanned'
    BY <1>0, <1>1, <1>2, <2>0, UnitFacts, Apart DEF Planned, FilesPlanned, WorkedIn, After, At
  <2>2. SharedPlanned'
    BY <1>0, <1>1, <1>2, <1>t, <2>0, UnitFacts, Apart DEF Planned, SharedPlanned, WorkedIn, After, At
  <2>3. OwnPlanned'
    BY <1>0, <1>1, <1>2, <1>t, <2>0, UnitFacts, Apart DEF Planned, OwnPlanned, WorkedIn, After, At
  <2>4. HistoriesPlanned'
    <3>1. ASSUME NEW i \in Histories \ taken, i = u
          PROVE  /\ WorkedIn("history", i)' /\ operation' = "rename"
                 /\ At(i, "none", IF i \in torn THEN "original" ELSE "edited")'
      BY <1>0, <1>2, <1>t, <3>1, Apart DEF WorkedIn, At
    <3>2. ASSUME NEW i \in Histories \ taken, i # u
          PROVE  disk'[i] = disk[i] /\ i \notin torn /\ i \notin torn'
      BY <1>0, <1>1, <3>2, UnitFacts
    <3>3. \A i \in Histories : WorkedIn("history", i)' = WorkedIn("history", i)
      BY <1>0 DEF WorkedIn
    <3> QED  BY <1>0, <2>0, <3>1, <3>2, <3>3 DEF Planned, HistoriesPlanned, At
  <2>5. TornPlanned'
    BY <1>0, <1>2, <2>0, Apart DEF Planned, TornPlanned
  <2> QED  BY <2>1, <2>2, <2>3, <2>4, <2>5 DEF Planned
<1> QED  BY <1>4, <1>5, <1>6, <1>7

LEMMA ApplyStep ==
  ASSUME ChangeInv, Apply PROVE ChangeInv'
<1> USE DEF ChangeInv
<1>0. /\ phase = "syncing" /\ phase' = "done" /\ Snapped' = {} /\ todo = {} /\ torn = {}
      /\ UNCHANGED <<operation, disk, created, todo, torn, taken>>
  BY DEF Apply, Snapped, ChangeTypes, Planned, TornPlanned, Ahead
<1>1. ChangeTypes' /\ Copied' /\ RollingBack' /\ OwnDestinations'
  BY <1>0 DEF ChangeTypes, Copied, RollingBack, OwnDestinations, DestinationFree, Forward, Phases,
              Ahead, Gone
<1>7. Planned'
  <2>0. Planned /\ phase \in Ahead
    BY <1>0 DEF Ahead
  <2>1. FilesPlanned' /\ SharedPlanned'
    BY <1>0, <2>0 DEF Planned, FilesPlanned, SharedPlanned, WorkedIn, After, At
  <2>3. OwnPlanned' /\ HistoriesPlanned'
    BY <1>0, <2>0 DEF Planned, OwnPlanned, HistoriesPlanned, WorkedIn, After, At
  <2> QED  BY <1>0, <2>1, <2>3 DEF Planned, TornPlanned
<1> QED  BY <1>1, <1>7

-----------------------------------------------------------------------------
(* Rolling back *)

LEMMA RaiseStep ==
  ASSUME ChangeInv, Raise PROVE ChangeInv'
<1> USE DEF ChangeInv
<1>0. /\ phase \in Forward \cup {"stopping", "syncing"} /\ phase' = "removing"
      /\ todo' = created /\ torn' = {} /\ Snapped' = Snapped
      /\ UNCHANGED <<operation, disk, staged, created, taken>>
  BY DEF Raise, Snapped
<1>1. ChangeTypes'
  BY <1>0 DEF ChangeTypes, Forward, Phases
<1>2. Copied' /\ RollingBack' /\ OwnDestinations' /\ Planned'
  BY <1>0 DEF Copied, RollingBack, OwnDestinations, DestinationFree, Forward, Planned, Ahead
<1> QED  BY <1>1, <1>2

LEMMA RemoveCreatedStep ==
  ASSUME ChangeInv, NEW u \in Units, RemoveCreated(u) PROVE ChangeInv'
<1> USE DEF ChangeInv
<1>0. /\ phase = "removing" /\ phase' = phase /\ u \in todo /\ u \in created
      /\ DestinationFree(u) /\ Snapped' = Snapped
      /\ todo' = todo \ {u}
      /\ UNCHANGED <<operation, staged, created, torn, taken>>
  BY DEF RemoveCreated, Snapped, ChangeTypes, OwnDestinations
<1>1. /\ \A i \in Items : disk'[i] = IF i \in Within(u) THEN [disk[i] EXCEPT !.new = "none"] ELSE disk[i]
      /\ disk' \in [Items -> Places]
  BY DEF RemoveCreated, ChangeTypes, Places
<1>2. \A i \in Items : /\ disk'[i].old = disk[i].old
                       /\ i \notin Within(u) => disk'[i] = disk[i]
  BY <1>1 DEF ChangeTypes, Places
<1>3. ChangeTypes'
  BY <1>0, <1>1 DEF ChangeTypes, Forward
<1>4. Copied' /\ RollingBack' /\ Planned'
  BY <1>0, <1>2 DEF Copied, RollingBack, Planned, Ahead, Forward
<1>5. OwnDestinations'
  BY <1>0, <1>2 DEF OwnDestinations, DestinationFree, Forward, ChangeTypes
<1> QED  BY <1>3, <1>4, <1>5

LEMMA RestoreStep ==
  ASSUME ChangeInv, NEW u \in Units, Restore(u) PROVE ChangeInv'
<1> USE DEF ChangeInv
<1>0. /\ phase = "restoring" /\ phase' = phase /\ u \in todo /\ u \in Snapped
      /\ Dir \in todo => u = Dir
      /\ Snapped' = Snapped /\ todo' = todo \ {u}
      /\ UNCHANGED <<operation, staged, created, torn, taken>>
  BY DEF Restore, MayRestore, Snapped, ChangeTypes
<1>1. \A i \in Items : disk'[i] = IF i \in Within(u) THEN [disk[i] EXCEPT !.old = staged[u][i]] ELSE disk[i]
  BY DEF Restore
<1>2. \A i \in Within(u) : /\ i \in Items /\ i \in Snapped
                           /\ staged[u][i] \in {"original", "edited", "torn", "none"}
                           /\ u # Dir => i = u /\ staged[u][i] = "original"
                           /\ u = Dir => i \in todo /\ i # Dir
  <2>1. CASE u = Dir
    BY <1>0, <2>1, UnitFacts DEF Copied, RollingBack
  <2>2. CASE u \in Items
    <3>1. staged[u] = [j \in {u} |-> "original"] /\ Within(u) = {u} /\ u # Dir
      BY <1>0, <2>2, UnitFacts DEF Copied
    <3> QED  BY <1>0, <2>2, <3>1
  <2> QED  BY <2>1, <2>2, UnitFacts
<1>3. \A i \in Items : /\ disk'[i].new = disk[i].new
                       /\ i \in Within(u) => disk'[i].old = staged[u][i]
                       /\ i \notin Within(u) => disk'[i] = disk[i]
                       /\ disk'[i] \in Places
  BY <1>1, <1>2 DEF ChangeTypes, Places
<1>4. ChangeTypes'
  <2>1. disk' \in [Items -> Places]
    BY <1>3 DEF Restore
  <2> QED  BY <1>0, <2>1 DEF ChangeTypes, Forward
<1>5. Copied'
  BY <1>0, <1>2, <1>3 DEF Copied, Forward
<1>6. RollingBack'
  <2>1. Dir \notin todo'
    BY <1>0
  <2>2. ASSUME NEW i \in Items, i \in Snapped, i \notin todo' PROVE disk'[i].old = "original"
    <3>1. CASE i \in Within(u)
      BY <1>0, <1>2, <1>3, <2>2, <3>1
    <3>2. CASE i \notin Within(u)
      <4>1. i # u /\ i \notin todo
        BY <1>0, <2>2, <3>2, UnitFacts
      <4> QED  BY <1>0, <1>3, <2>2, <3>2, <4>1 DEF RollingBack
    <3> QED  BY <3>1, <3>2
  <2> QED  BY <1>0, <2>1, <2>2 DEF RollingBack
<1>7. OwnDestinations' /\ Planned'
  BY <1>0, <1>3 DEF OwnDestinations, DestinationFree, Forward, Planned, Ahead, ChangeTypes
<1> QED  BY <1>4, <1>5, <1>6, <1>7

LEMMA RollBackStep ==
  ASSUME ChangeInv, StartRestoring \/ RolledBack \/ Die PROVE ChangeInv'
<1> USE DEF ChangeInv
<1>1. CASE StartRestoring
  <2>0. /\ phase = "removing" /\ phase' = "restoring" /\ todo' = Snapped /\ Snapped' = Snapped
        /\ UNCHANGED <<operation, disk, staged, created, torn, taken>>
    BY <1>1 DEF StartRestoring, Snapped
  <2> QED  BY <2>0 DEF ChangeTypes, Phases, Forward, Copied, RollingBack, OwnDestinations,
                       DestinationFree, Planned, Ahead
<1>2. CASE RolledBack
  <2>0. /\ phase = "restoring" /\ todo = {} /\ todo' = {}
        /\ UNCHANGED <<operation, disk, created, torn, taken>>
        /\ \/ phase' = "restored" /\ Snapped' = {}
           \/ phase' = "kept" /\ staged' = staged /\ Snapped' = Snapped
    BY <1>2 DEF RolledBack, Snapped
  <2>1. \A i \in Items : disk[i].old = "original"
    BY <2>0 DEF RollingBack, Copied
  <2> QED  BY <2>0, <2>1 DEF ChangeTypes, Phases, Gone, Forward, Copied, RollingBack, OwnDestinations,
                       DestinationFree, Planned, Ahead
<1>3. CASE Die
  <2>0. /\ phase \notin Gone /\ phase' = "crashed" /\ Snapped' = Snapped
        /\ UNCHANGED <<operation, disk, staged, created, todo, torn, taken>>
    BY <1>3 DEF Die, Snapped
  <2> QED  BY <2>0 DEF ChangeTypes, Phases, Gone, Forward, Copied, RollingBack, OwnDestinations,
                       DestinationFree, Planned, Ahead
<1> QED  BY <1>1, <1>2, <1>3

LEMMA ChangeInvStep == ChangeInv /\ [ChangeNext]_changeVars => ChangeInv'
<1> SUFFICES ASSUME ChangeInv, [ChangeNext]_changeVars PROVE ChangeInv'
  OBVIOUS
<1>1. CASE UNCHANGED changeVars
  <2>1. UNCHANGED <<operation, disk, staged, created, phase, todo, torn, taken>> /\ Snapped' = Snapped
    BY <1>1 DEF changeVars, Snapped
  <2>2. ChangeTypes' /\ Copied' /\ RollingBack' /\ OwnDestinations'
    BY <2>1 DEF ChangeInv, ChangeTypes, Copied, RollingBack, OwnDestinations, DestinationFree, Work
  <2>3. Planned'
    BY <2>1 DEF ChangeInv, Planned, FilesPlanned, SharedPlanned, OwnPlanned, HistoriesPlanned,
                TornPlanned, WorkedIn, At
  <2> QED  BY <2>2, <2>3 DEF ChangeInv
<1>2. ASSUME NEW u \in Units, ChangeUnit(u) PROVE ChangeInv'
  BY <1>2, TakenStep, SnapshotStep, MoveStep, RemoveStep, TruncateStep, WriteStep,
     RemoveCreatedStep, RestoreStep DEF ChangeUnit
<1> QED  BY <1>1, <1>2, NextPhaseStep, ApplyStep, RaiseStep, RollBackStep DEF ChangeNext

LEMMA ChangeInvSafe == ChangeInv => ChangeIsSafe
<1> SUFFICES ASSUME ChangeInv PROVE ChangeIsSafe
  OBVIOUS
<1> USE DEF ChangeInv
<1>1. ASSUME phase = "done", NEW i \in Items \ taken PROVE disk[i] = Changed(i)
  <2>0. /\ Planned /\ phase \in Ahead /\ torn = {}
        /\ \A u : WorkedIn("files", u) /\ WorkedIn("configs", u) /\ WorkedIn("directory", u)
                  /\ WorkedIn("history", u)
    BY <1>1 DEF Ahead, Planned, TornPlanned, WorkedIn, After
  <2>1. operation \in {"rename", "delete", "purge"}
    BY DEF ChangeTypes
  <2>2. CASE i \in SessionFiles
    BY <2>0, <2>1, <2>2, Apart DEF Planned, FilesPlanned, At, Changed
  <2>3. CASE i \in SharedTasks
    <3>1. At(i, "edited", "none")
      BY <1>1, <2>0, <2>3 DEF Planned, SharedPlanned
    <3> QED  BY <2>3, <3>1, Apart DEF At, Changed
  <2>4. CASE i \in OwnTasks
    BY <2>0, <2>1, <2>4, Apart DEF Planned, OwnPlanned, At, Changed
  <2>5. CASE i \in Histories
    BY <2>0, <2>1, <2>5, Apart DEF Planned, HistoriesPlanned, At, Changed
  <2> QED  BY <2>2, <2>3, <2>4, <2>5, UnitFacts
<1>2. ASSUME phase # "done", NEW i \in Items
      PROVE  \/ disk[i].old \in {"original", "edited"}
             \/ \E u \in Snapped : i \in Within(u) /\ staged[u][i] \in {"original", "edited"}
  BY <1>2, UnitFacts DEF Copied, RollingBack
<1> QED  BY <1>1, <1>2 DEF ChangeIsSafe, AllOrNothing, NothingLost, RollingBack, OwnDestinations

\* The files of a change, at both their places, have their types in each phase, and one
\* write at most is torn, for any files of each kind.
THEOREM ChangeTyped == ChangeSpec => []ChangeTypeOK
<1>1. ASSUME ChangeTypes PROVE ChangeTypeOK
  <2>1. Cardinality(torn) <= 1
    BY <1>1, FS_EmptySet, FS_Singleton DEF ChangeTypes
  <2> QED  BY <1>1, <2>1 DEF ChangeTypes, ChangeTypeOK, Places
<1>2. ChangeInv => ChangeTypeOK
  BY <1>1 DEF ChangeInv
<1> QED  BY <1>2, ChangeInvInit, ChangeInvStep, PTL DEF ChangeSpec

\* A rename, a delete or a purge of an account is made as a whole or rolled back as a
\* whole, no file of the account is ever without a copy that is intact, and a file of
\* somebody else is never touched: for any files of each kind, any of them taken, and
\* through errors, torn writes and a stop of the process between any two steps.
THEOREM ChangesAreSafe == ChangeSpec => []ChangeIsSafe
<1> QED  BY ChangeInvInit, ChangeInvStep, ChangeInvSafe, PTL DEF ChangeSpec

-----------------------------------------------------------------------------
(***************************************************************************)
(* The configurations of tasks                                             *)
(*                                                                         *)
(* The path locks are those of the updates under way (LockedByUpdates).    *)
(* As long as no request has changed a copy since, what a sync has read at *)
(* each of its steps is what is there (SyncKnows).                         *)
(***************************************************************************)

Works == [todo : SUBSET Owners, taken : SUBSET Owners]
Syncs == [step : {"idle", "expanding", "scheduling"}, existing : SUBSET Owners,
          base : SUBSET {"on", "off"}, todo : SUBSET Owners, on : SUBSET Owners,
          off : SUBSET Owners]
Writing == {u \in Updates : at[u] \in {"on", "off"}}

TaskTypes ==
  /\ copy \in [Owners -> {"none", "on", "off"}] /\ starred \subseteq Present
  /\ tombs \subseteq Owners /\ jobs \subseteq Owners /\ listed \subseteq Owners
  /\ wanted \in BOOLEAN /\ unsynced \in BOOLEAN
  /\ DOMAIN at = Requests
  /\ work \in [Requests -> Works]
  /\ DOMAIN read = Requests
  /\ sync \in Syncs
  /\ sync.on \cap sync.off = {}

\* What a delete has read of a copy, between two of its steps.
ReadByDelete ==
  \A d \in Requests :
    /\ at[d] = "marking" => read[d] \in Owners
    /\ at[d] = "writing" => read[d] \in Owners \X {"on", "off"}

\* The path locks are those of the updates under way, and each is of one of them.
LockedByUpdates ==
  /\ \A a : a \in pathLock <=> \E u \in Writing : a \in work[u].taken
  /\ \A u, v \in Writing : u # v => work[u].taken \cap work[v].taken = {}

\* As long as nothing is changed, what a sync has read is as it was.
SyncKnows ==
  ~unsynced =>
    /\ sync.step = "idle" => jobs = Enabled
    /\ sync.step # "idle" => sync.existing = jobs
    /\ sync.step = "scheduling" => sync.on = Enabled /\ sync.off = Present \ Enabled

TasksInv == TaskTypes /\ ReadByDelete /\ LockedByUpdates /\ SyncKnows

LEMMA TasksInvInit == TasksInit => TasksInv
<1> SUFFICES ASSUME TasksInit PROVE TasksInv
  OBVIOUS
<1>1. PICK a \in Owners : /\ copy = [b \in Owners |-> IF b = a THEN "on" ELSE "none"]
                          /\ starred = {a} /\ jobs = {a} /\ listed = {a}
  BY DEF TasksInit
<1>2. copy \in [Owners -> {"none", "on", "off"}] /\ starred \subseteq Present
  BY <1>1 DEF Present
<1>3. sync = [step |-> "idle", existing |-> {}, base |-> {}, todo |-> {}, on |-> {},
              off |-> {}]
  BY DEF TasksInit, NoSync
<1>4. work \in [Requests -> Works]
  BY DEF TasksInit, Works
<1>5. TaskTypes
  BY <1>1, <1>2, <1>3, <1>4 DEF TasksInit, TaskTypes, Syncs
<1>6. Writing = {}
  BY DEF TasksInit, Writing, Requests
<1> QED  BY <1>5, <1>6 DEF TasksInit, TasksInv, ReadByDelete, LockedByUpdates, SyncKnows

LEMMA GoFacts ==
  ASSUME DOMAIN at = Requests, NEW r \in Requests, NEW s, Go(r, s)
  PROVE  DOMAIN at' = Requests /\ at'[r] = s /\ \A q \in Requests : q # r => at'[q] = at[q]
<1>1. at' = [at EXCEPT ![r] = s]
  BY DEF Go
<1> QED  BY <1>1

LEMMA TodoFacts ==
  ASSUME work \in [Requests -> Works], NEW r \in Requests, NEW S \in SUBSET Owners, Todo(r, S)
  PROVE  /\ work' \in [Requests -> Works]
         /\ \A q \in Requests : work'[q].taken = work[q].taken
<1>1. work' = [work EXCEPT ![r] = [work[r] EXCEPT !.todo = S]]
  BY DEF Todo
<1>2. work[r] \in Works
  OBVIOUS
<1>3. [work[r] EXCEPT !.todo = S] \in Works /\ [work[r] EXCEPT !.todo = S].taken = work[r].taken
  BY <1>2 DEF Works
<1> QED  BY <1>1, <1>3

\* A step that begins or ends no update keeps the locks.
LEMMA LocksStay ==
  ASSUME TasksInv, Writing' = Writing, pathLock' = pathLock,
         \A u \in Writing : work'[u].taken = work[u].taken
  PROVE  LockedByUpdates'
  BY DEF TasksInv, LockedByUpdates

\* A change of a copy or of a job is seen by no sync that has begun.
LEMMA UnsyncedKnows == unsynced' = TRUE => SyncKnows'
  BY DEF SyncKnows

LEMMA UpdatesAreRequests == Writing \subseteq Requests /\ Updates \subseteq Requests
                            /\ Deletes \subseteq Requests /\ Toggles \subseteq Requests
  BY DEF Writing, Requests

\* A delete is between steps of its own.
LEMMA DeleteMoves ==
  ASSUME TasksInv, NEW d \in Requests, NEW s, Go(d, s),
         at[d] \notin {"on", "off"}, s \notin {"on", "off"}
  PROVE  /\ DOMAIN at' = Requests /\ at'[d] = s /\ \A q \in Requests : q # d => at'[q] = at[q]
         /\ Writing' = Writing
<1>1. DOMAIN at' = Requests /\ at'[d] = s /\ \A q \in Requests : q # d => at'[q] = at[q]
  BY GoFacts DEF TasksInv, TaskTypes
<1> QED  BY <1>1, UpdatesAreRequests DEF Writing

LEMMA CopyFacts ==
  ASSUME TaskTypes, NEW a \in Owners, NEW c \in {"none", "on", "off"},
         copy' = [copy EXCEPT ![a] = c]
  PROVE  /\ copy' \in [Owners -> {"none", "on", "off"}]
         /\ starred \ {a} \subseteq Present'
         /\ c # "none" => starred \cup {a} \subseteq Present'
<1>1. /\ copy' \in [Owners -> {"none", "on", "off"}] /\ copy'[a] = c
      /\ \A b \in Owners : b # a => copy'[b] = copy[b]
  BY DEF TaskTypes
<1> QED  BY <1>1 DEF TaskTypes, Present

-----------------------------------------------------------------------------
LEMMA DeleteBeginsStep == ASSUME TasksInv, NEW d \in Deletes, DeleteBegins(d) PROVE TasksInv'
<1>0. d \in Requests
  BY UpdatesAreRequests
<1>1. /\ DOMAIN at' = Requests /\ at'[d] = "removing" /\ Writing' = Writing
      /\ \A q \in Requests : q # d => at'[q] = at[q]
  BY <1>0, DeleteMoves DEF DeleteBegins
<1>2. [todo |-> listed, taken |-> listed] \in Works
  BY DEF TasksInv, TaskTypes, Works
<1>3. /\ work' \in [Requests -> Works] /\ \A q \in Requests : q # d => work'[q] = work[q]
  BY <1>0, <1>2 DEF DeleteBegins, TasksInv, TaskTypes
<1>4. d \notin Writing
  BY DEF DeleteBegins, Writing
<1>5. TaskTypes'
  BY <1>1, <1>3 DEF DeleteBegins, TasksInv, TaskTypes, Present
<1>6. LockedByUpdates'
  BY <1>1, <1>3, <1>4, UpdatesAreRequests, LocksStay DEF DeleteBegins
<1>7. ReadByDelete' /\ SyncKnows'
  BY <1>0, <1>1 DEF DeleteBegins, TasksInv, ReadByDelete, SyncKnows, Enabled, Present
<1> QED  BY <1>5, <1>6, <1>7 DEF TasksInv

LEMMA RemoveCopyStep ==
  ASSUME TasksInv, NEW d \in Deletes, NEW a \in Owners, RemoveCopy(d, a) PROVE TasksInv'
<1>0. d \in Requests
  BY UpdatesAreRequests
<1>1. /\ DOMAIN at' = Requests /\ at'[d] = "marking" /\ Writing' = Writing
      /\ \A q \in Requests : q # d => at'[q] = at[q]
  BY <1>0, DeleteMoves DEF RemoveCopy
<1>2. work[d].todo \ {a} \in SUBSET Owners
  BY <1>0 DEF TasksInv, TaskTypes, Works
<1>3. work' \in [Requests -> Works] /\ \A q \in Requests : work'[q].taken = work[q].taken
  BY <1>0, <1>2, TodoFacts DEF RemoveCopy, TasksInv, TaskTypes
<1>4. copy' \in [Owners -> {"none", "on", "off"}] /\ starred' \subseteq Present'
  BY CopyFacts DEF RemoveCopy, TasksInv
<1>5. /\ DOMAIN read' = Requests /\ read'[d] = a
      /\ \A q \in Requests : q # d => read'[q] = read[q]
  BY <1>0 DEF RemoveCopy, TasksInv, TaskTypes
<1>6. TaskTypes'
  BY <1>1, <1>3, <1>4, <1>5 DEF RemoveCopy, TasksInv, TaskTypes
<1>7. LockedByUpdates'
  BY <1>1, <1>3, UpdatesAreRequests, LocksStay DEF RemoveCopy
<1>8. ReadByDelete'
  BY <1>1, <1>5 DEF TasksInv, ReadByDelete
<1> QED  BY <1>6, <1>7, <1>8, UnsyncedKnows DEF TasksInv, RemoveCopy

LEMMA MarkRemovedStep == ASSUME TasksInv, NEW d \in Deletes, MarkRemoved(d) PROVE TasksInv'
<1>0. d \in Requests /\ read[d] \in Owners
  BY UpdatesAreRequests DEF MarkRemoved, TasksInv, ReadByDelete
<1>1. /\ DOMAIN at' = Requests /\ at'[d] \in {"stripping", "removing"} /\ Writing' = Writing
      /\ \A q \in Requests : q # d => at'[q] = at[q]
  <2>1. CASE work[d].todo = {}
    BY <1>0, <2>1, DeleteMoves DEF MarkRemoved
  <2>2. CASE work[d].todo # {}
    BY <1>0, <2>2, DeleteMoves DEF MarkRemoved
  <2> QED  BY <2>1, <2>2
<1>2. Owners \ work[d].taken \in SUBSET Owners
  OBVIOUS
<1>3. work' \in [Requests -> Works] /\ \A q \in Requests : work'[q].taken = work[q].taken
  BY <1>0, <1>2, TodoFacts DEF MarkRemoved, TasksInv, TaskTypes
<1>4. TaskTypes'
  BY <1>0, <1>1, <1>3 DEF MarkRemoved, TasksInv, TaskTypes, Present
<1>5. LockedByUpdates'
  BY <1>1, <1>3, UpdatesAreRequests, LocksStay DEF MarkRemoved
<1>6. ReadByDelete'
  BY <1>1 DEF TasksInv, ReadByDelete, MarkRemoved
<1> QED  BY <1>4, <1>5, <1>6, UnsyncedKnows DEF TasksInv, MarkRemoved

LEMMA StripReadsStep ==
  ASSUME TasksInv, NEW d \in Deletes, NEW a \in Owners, StripReads(d, a) PROVE TasksInv'
<1>0. d \in Requests
  BY UpdatesAreRequests
<1>1. CASE a \in starred
  <2>1. /\ DOMAIN at' = Requests /\ at'[d] = "writing" /\ Writing' = Writing
        /\ \A q \in Requests : q # d => at'[q] = at[q]
    BY <1>0, <1>1, DeleteMoves DEF StripReads
  <2>2. <<a, copy[a]>> \in Owners \X {"on", "off"}
    BY <1>1 DEF TasksInv, TaskTypes, Present
  <2>3. /\ DOMAIN read' = Requests /\ read'[d] = <<a, copy[a]>>
        /\ \A q \in Requests : q # d => read'[q] = read[q]
    BY <1>0, <1>1 DEF StripReads, TasksInv, TaskTypes
  <2>4. TaskTypes'
    BY <1>1, <2>1, <2>3 DEF StripReads, TasksInv, TaskTypes, Present
  <2>5. LockedByUpdates'
    BY <1>1, <2>1, LocksStay DEF StripReads
  <2>6. ReadByDelete'
    BY <2>1, <2>2, <2>3 DEF TasksInv, ReadByDelete
  <2>7. SyncKnows'
    BY <1>1 DEF StripReads, TasksInv, SyncKnows, Enabled, Present
  <2> QED  BY <2>4, <2>5, <2>6, <2>7 DEF TasksInv
<1>2. CASE a \notin starred
  <2>1. work[d].todo \ {a} \in SUBSET Owners
    BY <1>0 DEF TasksInv, TaskTypes, Works
  <2>2. work' \in [Requests -> Works] /\ \A q \in Requests : work'[q].taken = work[q].taken
    BY <1>0, <1>2, <2>1, TodoFacts DEF StripReads, TasksInv, TaskTypes
  <2>3. Writing' = Writing
    BY <1>2 DEF StripReads, Writing
  <2>4. TaskTypes'
    BY <1>2, <2>2 DEF StripReads, TasksInv, TaskTypes, Present
  <2>5. LockedByUpdates'
    BY <2>2, <2>3, UpdatesAreRequests, LocksStay DEF StripReads
  <2>6. ReadByDelete' /\ SyncKnows'
    BY <1>2 DEF StripReads, TasksInv, ReadByDelete, SyncKnows, Enabled, Present
  <2> QED  BY <2>4, <2>5, <2>6 DEF TasksInv
<1> QED  BY <1>1, <1>2

LEMMA StripWritesStep == ASSUME TasksInv, NEW d \in Deletes, StripWrites(d) PROVE TasksInv'
<1> DEFINE a == read[d][1]
           c == IF StarOnly THEN "none" ELSE read[d][2]
<1>0. d \in Requests /\ a \in Owners /\ c \in {"none", "on", "off"}
  BY UpdatesAreRequests, TasksAssumption DEF StripWrites, TasksInv, ReadByDelete
<1>1. /\ DOMAIN at' = Requests /\ at'[d] = "stripping" /\ Writing' = Writing
      /\ \A q \in Requests : q # d => at'[q] = at[q]
  BY <1>0, DeleteMoves DEF StripWrites
<1>2. work[d].todo \ {a} \in SUBSET Owners
  BY <1>0 DEF TasksInv, TaskTypes, Works
<1>3. work' \in [Requests -> Works] /\ \A q \in Requests : work'[q].taken = work[q].taken
  <2>1. Todo(d, work[d].todo \ {a})
    BY DEF StripWrites
  <2> QED  BY <1>0, <1>2, <2>1, TodoFacts DEF TasksInv, TaskTypes
<1>4. copy' \in [Owners -> {"none", "on", "off"}] /\ starred' \subseteq Present'
  <2>1. copy' = [copy EXCEPT ![a] = c] /\ starred' = starred \ {a}
    BY DEF StripWrites
  <2> HIDE DEF a, c
  <2> QED  BY <1>0, <2>1, CopyFacts DEF TasksInv
<1>5. TaskTypes'
  BY <1>1, <1>3, <1>4 DEF StripWrites, TasksInv, TaskTypes
<1>6. LockedByUpdates'
  BY <1>1, <1>3, UpdatesAreRequests, LocksStay DEF StripWrites
<1>7. ReadByDelete'
  BY <1>1 DEF TasksInv, ReadByDelete, StripWrites
<1> QED  BY <1>5, <1>6, <1>7, UnsyncedKnows DEF TasksInv, StripWrites

LEMMA DeleteEndsStep == ASSUME TasksInv, NEW d \in Deletes, DeleteEnds(d) PROVE TasksInv'
<1>0. d \in Requests
  BY UpdatesAreRequests
<1>1. /\ DOMAIN at' = Requests /\ at'[d] = "done" /\ Writing' = Writing
      /\ \A q \in Requests : q # d => at'[q] = at[q]
  BY <1>0, DeleteMoves DEF DeleteEnds
<1>2. listed' \subseteq Owners /\ wanted' \in BOOLEAN
  BY DEF DeleteEnds, TasksInv, TaskTypes, Present
<1>3. TaskTypes'
  BY <1>1, <1>2 DEF DeleteEnds, TasksInv, TaskTypes, Present
<1>4. LockedByUpdates'
  BY <1>1, LocksStay DEF DeleteEnds
<1>5. ReadByDelete' /\ SyncKnows'
  BY <1>1 DEF DeleteEnds, TasksInv, ReadByDelete, SyncKnows, Enabled, Present
<1> QED  BY <1>3, <1>4, <1>5 DEF TasksInv

-----------------------------------------------------------------------------
LEMMA UpdateBeginsStep == ASSUME TasksInv, NEW u \in Updates, UpdateBegins(u) PROVE TasksInv'
<1>0. u \in Requests
  BY UpdatesAreRequests
<1>1. /\ DOMAIN at' = Requests /\ at'[u] \in {"on", "off"}
      /\ \A q \in Requests : q # u => at'[q] = at[q]
  BY <1>0, GoFacts DEF UpdateBegins, TasksInv, TaskTypes
<1>2. [todo |-> Owners, taken |-> listed] \in Works
  BY DEF TasksInv, TaskTypes, Works
<1>3. /\ work' \in [Requests -> Works] /\ work'[u].taken = listed
      /\ \A q \in Requests : q # u => work'[q] = work[q]
  BY <1>0, <1>2 DEF UpdateBegins, TasksInv, TaskTypes
<1>4. Writing' = Writing \cup {u} /\ u \notin Writing
  BY <1>1, UpdatesAreRequests DEF UpdateBegins, Writing
<1>5. TaskTypes'
  BY <1>1, <1>3 DEF UpdateBegins, TasksInv, TaskTypes, Present
<1>6. LockedByUpdates'
  <2>1. pathLock' = pathLock \cup listed /\ listed \cap pathLock = {}
    BY DEF UpdateBegins
  <2> QED  BY <1>3, <1>4, <2>1, UpdatesAreRequests DEF TasksInv, LockedByUpdates
<1>7. ReadByDelete' /\ SyncKnows'
  BY <1>1 DEF UpdateBegins, TasksInv, ReadByDelete, SyncKnows, Enabled, Present
<1> QED  BY <1>5, <1>6, <1>7 DEF TasksInv

LEMMA UpdateWritesStep ==
  ASSUME TasksInv, NEW u \in Updates, NEW a \in Owners, UpdateWrites(u, a) PROVE TasksInv'
<1>0. u \in Requests
  BY UpdatesAreRequests
<1>1. work[u].todo \ {a} \in SUBSET Owners
  BY <1>0 DEF TasksInv, TaskTypes, Works
<1>2. work' \in [Requests -> Works] /\ \A q \in Requests : work'[q].taken = work[q].taken
  BY <1>0, <1>1, TodoFacts DEF UpdateWrites, TasksInv, TaskTypes
<1>3. copy' \in [Owners -> {"none", "on", "off"}] /\ starred' \subseteq Present'
  BY CopyFacts DEF UpdateWrites, TasksInv
<1>4. jobs' \subseteq Owners
  BY DEF UpdateWrites, TasksInv, TaskTypes
<1>5. TaskTypes'
  BY <1>2, <1>3, <1>4 DEF UpdateWrites, TasksInv, TaskTypes
<1>6. Writing' = Writing
  BY DEF UpdateWrites, Writing
<1>7. LockedByUpdates'
  BY <1>2, <1>6, UpdatesAreRequests, LocksStay DEF UpdateWrites
<1>8. ReadByDelete'
  BY DEF TasksInv, ReadByDelete, UpdateWrites
<1> QED  BY <1>5, <1>7, <1>8, UnsyncedKnows DEF TasksInv, UpdateWrites

LEMMA UpdateEndsStep == ASSUME TasksInv, NEW u \in Updates, UpdateEnds(u) PROVE TasksInv'
<1>0. u \in Requests /\ u \in Writing
  BY UpdatesAreRequests DEF UpdateEnds, Writing
<1>1. /\ DOMAIN at' = Requests /\ at'[u] = "done"
      /\ \A q \in Requests : q # u => at'[q] = at[q]
  BY <1>0, GoFacts DEF UpdateEnds, TasksInv, TaskTypes
<1>2. Writing' = Writing \ {u}
  BY <1>1, UpdatesAreRequests DEF Writing
<1>3. TaskTypes'
  BY <1>1 DEF UpdateEnds, TasksInv, TaskTypes, Present
<1>4. LockedByUpdates'
  <2>1. pathLock' = pathLock \ work[u].taken /\ work' = work
    BY DEF UpdateEnds
  <2> QED  BY <1>0, <1>2, <2>1 DEF TasksInv, LockedByUpdates
<1>5. ReadByDelete' /\ SyncKnows'
  BY <1>1 DEF UpdateEnds, TasksInv, ReadByDelete, SyncKnows, Enabled, Present
<1> QED  BY <1>3, <1>4, <1>5 DEF TasksInv

LEMMA ToggleStep ==
  ASSUME TasksInv, NEW t \in Toggles, NEW a \in Owners, Toggle(t, a) PROVE TasksInv'
<1>0. t \in Requests
  BY UpdatesAreRequests
<1>1. /\ DOMAIN at' = Requests /\ at'[t] = "done" /\ Writing' = Writing
      /\ \A q \in Requests : q # t => at'[q] = at[q]
  BY <1>0, DeleteMoves DEF Toggle
<1>2. PICK c \in {"on", "off"} : copy' = [copy EXCEPT ![a] = c]
  BY DEF Toggle
<1>3. copy' \in [Owners -> {"none", "on", "off"}] /\ starred' \subseteq Present'
  BY <1>2, CopyFacts DEF Toggle, TasksInv
<1>4. TaskTypes'
  BY <1>1, <1>3 DEF Toggle, TasksInv, TaskTypes
<1>5. LockedByUpdates'
  BY <1>1, LocksStay DEF Toggle
<1>6. ReadByDelete'
  BY <1>1 DEF TasksInv, ReadByDelete, Toggle
<1> QED  BY <1>4, <1>5, <1>6, UnsyncedKnows DEF TasksInv, Toggle

-----------------------------------------------------------------------------
(* The sync *)

LEMMA SyncStep ==
  ASSUME TasksInv, SyncBegins \/ SyncLists \/ SyncSchedules \/ (\E a \in Owners : Expand(a))
  PROVE  TasksInv'
<1> USE DEF TasksInv
<1>1. UNCHANGED <<tombs, pathLock, at, work, read>>
  BY DEF SyncBegins, SyncLists, SyncSchedules, Expand
<1>2. ReadByDelete' /\ LockedByUpdates'
  BY <1>1, LocksStay DEF ReadByDelete, Writing
<1>3. CASE SyncBegins
  <2>1. sync' = [step |-> "expanding", existing |-> jobs, base |-> {copy[a] : a \in starred},
                 todo |-> IF starred = {} THEN {} ELSE Owners \ tombs, on |-> {}, off |-> {}]
    BY <1>3 DEF SyncBegins, NoSync
  <2>2. {copy[a] : a \in starred} \subseteq {"on", "off"}
    BY DEF TaskTypes, Present
  <2>3. TaskTypes'
    <3>1. /\ jobs \in SUBSET Owners
          /\ (IF starred = {} THEN {} ELSE Owners \ tombs) \in SUBSET Owners
      BY DEF TaskTypes
    <3>2. sync' \in Syncs /\ sync'.on \cap sync'.off = {}
      BY <2>1, <2>2, <3>1 DEF Syncs
    <3> QED  BY <1>1, <1>3, <3>2 DEF SyncBegins, TaskTypes, Present
  <2>4. SyncKnows'
    BY <1>3, <2>1 DEF SyncBegins, SyncKnows
  <2> QED  BY <1>2, <2>3, <2>4
<1>4. CASE SyncLists
  <2>1. sync' = [step |-> "scheduling", existing |-> sync.existing, base |-> sync.base,
                 todo |-> sync.todo, on |-> Enabled, off |-> Present \ Enabled]
    BY <1>4 DEF SyncLists, TaskTypes, Syncs
  <2>2. TaskTypes'
    <3>1. sync' \in Syncs /\ sync'.on \cap sync'.off = {}
      BY <2>1 DEF TaskTypes, Syncs, Present, Enabled
    <3> QED  BY <1>1, <1>4, <3>1 DEF SyncLists, TaskTypes, Present
  <2>3. SyncKnows'
    BY <1>4, <2>1 DEF SyncLists, SyncKnows, Enabled, Present
  <2> QED  BY <1>2, <2>2, <2>3
<1>5. CASE SyncSchedules
  <2>1. /\ sync' = [step |-> "idle", existing |-> {}, base |-> {}, todo |-> {}, on |-> {},
                    off |-> {}]
        /\ jobs' = Scheduled(sync)
    BY <1>5 DEF SyncSchedules, NoSync
  <2>2. TaskTypes'
    BY <1>1, <1>5, <2>1 DEF SyncSchedules, TaskTypes, Syncs, Scheduled, Present
  <2>3. ASSUME ~unsynced PROVE jobs' = Enabled'
    <3>1. sync.existing = jobs /\ sync.on = Enabled /\ sync.off = Present \ Enabled
      BY <1>5, <2>3 DEF SyncSchedules, SyncKnows
    <3>2. Scheduled(sync) = sync.on
      BY <3>1 DEF Scheduled
    <3> QED  BY <1>5, <2>1, <3>1, <3>2 DEF SyncSchedules, Enabled
  <2> QED  BY <1>2, <1>5, <2>1, <2>2, <2>3 DEF SyncSchedules, SyncKnows
<1>6. ASSUME NEW a \in Owners, Expand(a) PROVE TasksInv'
  <2>1. sync' = [step |-> sync.step, existing |-> sync.existing, base |-> sync.base,
                 todo |-> sync.todo \ {a}, on |-> sync.on, off |-> sync.off]
    BY <1>6 DEF Expand, TaskTypes, Syncs
  <2>2. copy' \in [Owners -> {"none", "on", "off"}] /\ starred' \subseteq Present'
    <3>1. CASE copy[a] # "none"
      BY <1>6, <3>1 DEF Expand, TaskTypes, Present
    <3>2. CASE copy[a] = "none"
      <4>1. PICK c \in sync.base : copy' = [copy EXCEPT ![a] = c]
        BY <1>6, <3>2 DEF Expand
      <4>2. c \in {"on", "off"} /\ starred' = starred \cup {a}
        BY <1>6, <3>2 DEF Expand, TaskTypes, Syncs
      <4> QED  BY <4>1, <4>2, CopyFacts
    <3> QED  BY <3>1, <3>2
  <2>3. TaskTypes'
    BY <1>1, <1>6, <2>1, <2>2 DEF Expand, TaskTypes, Syncs
  <2>4. SyncKnows'
    BY <1>6, <2>1 DEF Expand, SyncKnows
  <2> QED  BY <1>2, <2>3, <2>4
<1> QED  BY <1>3, <1>4, <1>5, <1>6

LEMMA TasksInvStep == TasksInv /\ [TasksNext]_tasksVars => TasksInv'
<1> SUFFICES ASSUME TasksInv, [TasksNext]_tasksVars PROVE TasksInv'
  OBVIOUS
<1>1. CASE UNCHANGED tasksVars
  BY <1>1 DEF tasksVars, TasksInv, TaskTypes, ReadByDelete, LockedByUpdates, SyncKnows,
              Writing, Present, Enabled
<1>2. CASE TasksRest
  BY <1>1, <1>2 DEF TasksRest
<1> QED
  BY <1>1, <1>2, DeleteBeginsStep, RemoveCopyStep, MarkRemovedStep, StripReadsStep,
     StripWritesStep, DeleteEndsStep, UpdateBeginsStep, UpdateWritesStep, UpdateEndsStep,
     ToggleStep, SyncStep DEF TasksNext

\* Copies, jobs and locks have their types, and the path locks are those of the updates
\* under way: for any accounts and any number of deletes, updates and toggles.
THEOREM TasksTyped == TasksSpec => []TasksTypeOK
<1>1. ASSUME TasksInv PROVE TasksTypeOK
  <2>1. pathLock = UNION {work[u].taken : u \in Writing}
    BY <1>1 DEF TasksInv, LockedByUpdates
  <2>2. pathLock \subseteq Owners
    BY <1>1, UpdatesAreRequests DEF TasksInv, LockedByUpdates, TaskTypes, Works
  <2> QED
    BY <1>1, <2>1, <2>2 DEF TasksInv, TaskTypes, TasksTypeOK, Writing, Syncs
<1>2. TasksInv => TasksTypeOK
  BY <1>1
<1> QED  BY <1>2, TasksInvInit, TasksInvStep, PTL DEF TasksSpec

\* A sync that began after the last change leaves exactly the jobs of the enabled
\* copies, whatever deletes, updates, toggles and earlier syncs it overlapped.
THEOREM JobsSettle == TasksSpec => []SyncSettlesJobs
<1>1. TasksInv => SyncSettlesJobs
  BY DEF TasksInv, SyncKnows, SyncSettlesJobs
<1> QED  BY <1>1, TasksInvInit, TasksInvStep, PTL DEF TasksSpec

-----------------------------------------------------------------------------
(***************************************************************************)
(* The history of the runs                                                 *)
(*                                                                         *)
(* What a thread has loaded under the lock of a file holds all that the    *)
(* file still has, so that what it writes loses no run.  Without an        *)
(* overlap one thread works at a time, and at each of its steps index,     *)
(* cache and files differ by no more than it has still to do.              *)
(***************************************************************************)

HistoryOps == {"none", "record", "delete", "clear", "clean", "list", "cache"}
HistorySteps ==
  {"none", "store", "append", "prepend", "trim", "trimmed", "lines", "rewrite", "forget",
   "unlink", "rebuild", "write", "sync", "read"}
HistoryJobs ==
  [op : HistoryOps, step : HistorySteps, files : SUBSET RunFiles,
   copy : SUBSET RunRecords, which : SUBSET (RunRecords \cup RecentReads)]

\* The steps of each operation.
OnCourse(w) ==
  /\ doing[w].step = "none" <=> doing[w] = AtRest
  /\ doing[w].op = "none" => doing[w].step = "none"
  /\ doing[w].op = "record" =>
       w = "loop" /\ doing[w].step \in {"store", "append", "prepend", "trim", "trimmed"}
  /\ doing[w].op = "delete" => doing[w].step \in {"store", "lines", "rewrite", "forget"}
  /\ doing[w].op = "clear" => doing[w].step \in {"unlink", "forget"}
  /\ doing[w].op = "clean" => doing[w].step \in {"rebuild", "write", "sync"}
  /\ doing[w].op = "list" => doing[w].step \in {"rebuild", "write", "sync", "read"}
                             /\ doing[w].which \subseteq RecentReads
  /\ doing[w].op = "cache" => doing[w].step = "sync"

HistoryTypes ==
  /\ kept \in [RunFiles -> SUBSET RunRecords]
  /\ fileLock \in [RunFiles -> HistoryWorkers \cup {Nobody}]
  /\ doing \in [HistoryWorkers -> HistoryJobs]
  /\ lines \subseteq stored /\ memory \subseteq stored /\ Cardinality(memory) <= RecentLimit
  /\ indexed \in BOOLEAN /\ crossed \in BOOLEAN
  /\ stored \subseteq RunRecords /\ gone \subseteq stored
  /\ \A w \in HistoryWorkers :
       /\ OnCourse(w) /\ doing[w].copy \subseteq stored
       /\ doing[w].step \in {"append", "prepend"} => doing[w].which \subseteq stored
  /\ ~indexed => lines = {}

\* Runs are numbered in the order in which they are recorded.
RunsNumbered ==
  /\ IsFiniteSet(stored)
  /\ \A r \in stored : r[2] <= Cardinality(stored)
  /\ \A r, s \in stored : r[2] = s[2] => r = s

\* A file has records of its task, as many as it may.
FilesSized ==
  \A t \in RunFiles :
    /\ kept[t] \subseteq stored /\ Cardinality(kept[t]) <= HistoryLimit
    /\ \A r \in kept[t] : r[1] = t

\* Whoever is about to write the file t has its lock and a copy of all it still has.
HasLoaded(w, t) ==
  /\ doing[w].files = {t} /\ fileLock[t] = w
  /\ kept[t] \subseteq doing[w].copy /\ Cardinality(doing[w].copy) <= HistoryLimit
  /\ \A r \in doing[w].copy : r[1] = t
  /\ doing[w].op = "record" => doing[w].which = {<<t, Cardinality(stored) + 1>>}
                               /\ Cardinality(stored) < MaxHistoryRuns
  /\ doing[w].op = "delete" => \A r \in doing[w].which : r[1] = t
Loaded ==
  /\ \A t \in RunFiles : fileLock[t] # Nobody =>
       doing[fileLock[t]].step = "store" /\ doing[fileLock[t]].files = {t}
  /\ \A w \in HistoryWorkers : doing[w].step = "store" => \E t \in RunFiles : HasLoaded(w, t)

HistoryFiles == HistoryTypes /\ RunsNumbered /\ FilesSized /\ Loaded /\ RecordsKept

-----------------------------------------------------------------------------
(* The index and the cache without an overlap *)

PushedOut(r) == NewerRuns(r, {r[1]}) >= HistoryLimit
Beyond(r) == NewerRuns(r, RunFiles) >= IndexLimit
\* Lines are those of runs in the files but for S, runs in the files but S have lines.
LinesTrue(S) == \A r \in lines : r \in kept[r[1]] \/ PushedOut(r) \/ r \in S
FilesIndexed(S) == \A t \in RunFiles : \A r \in kept[t] : r \in lines \/ Beyond(r) \/ r \in S
\* The cache has the newest lines, or some of these that are newer than all others.
TopOf(S, T) == S \subseteq T /\ \A r \in S, s \in T : Older(r, s) => s \in S
Few(S, T) == \A r \in S : Cardinality({s \in T : Older(r, s)}) < RecentLimit
Recent == TopOf(memory, lines) /\ Few(memory, lines)

Agreed == LinesTrue({}) /\ FilesIndexed({}) /\ Recent
AtWork(w) ==
  LET step == doing[w].step
      loaded == doing[w].copy
      which == doing[w].which
  IN
  /\ step \in {"store", "trim", "trimmed", "read"} \/ doing[w].op = "cache" => Agreed
  /\ step = "store" => \A t \in doing[w].files : kept[t] = loaded
  /\ step = "trimmed" => loaded = NewestRuns(lines, IndexLimit)
  /\ step = "append" =>
       /\ LinesTrue({}) /\ FilesIndexed(which) /\ Recent
       /\ \A r \in which : r \in kept[r[1]] /\ \A s \in stored : ~Older(r, s)
  /\ step = "prepend" =>
       /\ LinesTrue({}) /\ FilesIndexed({})
       /\ memory \subseteq lines /\ TopOf(which \cup memory, lines)
  /\ step \in {"lines", "rewrite"} =>
       /\ LinesTrue(which) /\ FilesIndexed({}) /\ Recent
       /\ \A t \in RunFiles : kept[t] \cap which = {}
  /\ step = "rewrite" => loaded = lines
  /\ step = "forget" => LinesTrue({}) /\ FilesIndexed({})
  /\ step = "unlink" => \A t \in RunFiles \ doing[w].files : kept[t] = {}
  /\ step = "write" => loaded = NewestRuns(UNION {kept[t] : t \in RunFiles}, IndexLimit)
  /\ step = "sync" => LinesTrue({}) /\ FilesIndexed({}) /\ TopOf(loaded, lines)

Alone == \A v, w \in HistoryWorkers : doing[v] # AtRest /\ doing[w] # AtRest => v = w
Resting == \A w \in HistoryWorkers : doing[w] = AtRest
IndexInv ==
  ~crossed => /\ Alone
              /\ Resting => Agreed
              /\ \A w \in HistoryWorkers : doing[w] # AtRest => AtWork(w)

HistoryInv == HistoryFiles /\ IndexInv

-----------------------------------------------------------------------------
\* A record is a run of a file, with a number.
LEMMA RecordFacts ==
  ASSUME NEW r \in RunRecords
  PROVE  r[1] \in RunFiles /\ r[2] \in 1 .. MaxHistoryRuns /\ r[2] \in Nat
BY HistoryAssumption DEF RunRecords

LEMMA CountedRuns ==
  ASSUME HistoryTypes, RunsNumbered, NEW S \in SUBSET stored
  PROVE  IsFiniteSet(S) /\ Cardinality(S) \in Nat
BY FS_Subset, FS_CardinalityType DEF RunsNumbered

\* The same of a part of a set that was counted.
LEMMA FewerRuns ==
  ASSUME NEW T, IsFiniteSet(T), NEW S \in SUBSET T
  PROVE  /\ IsFiniteSet(S) /\ Cardinality(S) \in Nat /\ Cardinality(T) \in Nat
         /\ Cardinality(S) <= Cardinality(T)
BY FS_Subset, FS_CardinalityType

\* What a limit cuts off has that many newer runs.
NewerOf(r, T, files) == Cardinality({s \in T : s[1] \in files /\ Older(r, s)})
LEMMA CutOff ==
  ASSUME NEW T, IsFiniteSet(T), T \subseteq RunRecords, NEW S \in SUBSET T, NEW n \in Nat,
         NEW r \in S, r \notin NewestRuns(S, n), NEW files, \A s \in S : s[1] \in files
  PROVE  NewerOf(r, T, files) >= n
<1>1. {s \in S : Older(r, s)} \subseteq {s \in T : s[1] \in files /\ Older(r, s)}
  OBVIOUS
<1>2. IsFiniteSet({s \in T : s[1] \in files /\ Older(r, s)})
  BY FS_Subset
<1>3. ~(Cardinality({s \in S : Older(r, s)}) < n)
  BY DEF NewestRuns
<1> QED  BY <1>1, <1>2, <1>3, FewerRuns DEF NewerOf

\* A limit leaves no more than it says.
LEMMA NewestBound ==
  ASSUME NEW S, IsFiniteSet(S), S \subseteq RunRecords, NEW n \in Nat,
         \A r, s \in S : r[2] = s[2] => r = s
  PROVE  IsFiniteSet(NewestRuns(S, n)) /\ Cardinality(NewestRuns(S, n)) <= n
<1>1. NewestRuns(S, n) \subseteq S /\ IsFiniteSet(NewestRuns(S, n))
  BY FS_Subset DEF NewestRuns
<1>2. CASE NewestRuns(S, n) = {}
  BY <1>1, <1>2, FS_EmptySet
<1>3. CASE NewestRuns(S, n) # {}
  <2> DEFINE numbers == {r[2] : r \in NewestRuns(S, n)}
             R == OpToRel(<, Nat)
  <2>1. numbers \in SUBSET Nat /\ numbers # {}
    BY <1>1, <1>3, RecordFacts
  <2>2. PICK least \in numbers : \A i \in numbers : least <= i
    <3>1. IsWellFoundedOn(R, Nat)
      BY NatLessThanWellFounded
    <3> HIDE DEF R, numbers
    <3>2. PICK i \in numbers : \A j \in numbers : <<j, i>> \notin R
      BY <2>1, <3>1, WFMin
    <3>3. \A j \in numbers : ~(j < i)
      BY <2>1, <3>2 DEF R, OpToRel
    <3> QED  BY <2>1, <3>3
  <2>3. PICK m \in NewestRuns(S, n) : \A r \in NewestRuns(S, n) : m[2] <= r[2]
    BY <2>2
  <2> DEFINE newer == {s \in S : Older(m, s)}
  <2>4. IsFiniteSet(newer) /\ Cardinality(newer) \in Nat /\ Cardinality(newer) < n
    BY <2>3, FewerRuns DEF NewestRuns
  <2>5. NewestRuns(S, n) \subseteq newer \cup {m}
    <3> SUFFICES ASSUME NEW r \in NewestRuns(S, n), r # m PROVE Older(m, r)
      BY <1>1
    <3>1. r \in S /\ m \in S /\ r[2] # m[2]
      BY <1>1
    <3>2. r[2] \in Nat /\ m[2] \in Nat /\ m[2] <= r[2]
      BY <2>3, <3>1, RecordFacts
    <3> QED  BY <3>1, <3>2 DEF Older
  <2>6. IsFiniteSet(newer \cup {m}) /\ Cardinality(newer \cup {m}) <= n
    <3> HIDE DEF newer
    <3>1. IsFiniteSet(newer \cup {m})
          /\ Cardinality(newer \cup {m}) = IF m \in newer THEN Cardinality(newer)
                                          ELSE Cardinality(newer) + 1
      BY <2>4, FS_AddElement
    <3> QED  BY <2>4, <3>1
  <2>7. Cardinality(NewestRuns(S, n)) <= Cardinality(newer \cup {m})
        /\ Cardinality(NewestRuns(S, n)) \in Nat /\ Cardinality(newer \cup {m}) \in Nat
    BY <2>5, <2>6, FewerRuns
  <2> QED  BY <1>1, <2>6, <2>7
<1> QED  BY <1>2, <1>3

\* The newest of the top are the top, and few.
LEMMA TopNewest ==
  ASSUME NEW T, IsFiniteSet(T), T \subseteq RunRecords, NEW S, TopOf(S, T), NEW n \in Nat
  PROVE  /\ TopOf(NewestRuns(S, n), T)
         /\ \A r \in NewestRuns(S, n) : Cardinality({s \in T : Older(r, s)}) < n
<1>1. NewestRuns(S, n) \subseteq S /\ S \subseteq T
  BY DEF NewestRuns, TopOf
<1>2. \A r \in S : {s \in T : Older(r, s)} = {s \in S : Older(r, s)}
  BY <1>1 DEF TopOf
<1>3. ASSUME NEW r \in NewestRuns(S, n), NEW s \in T, Older(r, s) PROVE s \in NewestRuns(S, n)
  <2>1. r \in S /\ s \in S
    BY <1>1, <1>3 DEF TopOf
  <2>2. r[2] \in Nat /\ s[2] \in Nat /\ \A u \in S : u[2] \in Nat
    BY <1>1, <2>1, RecordFacts
  <2>3. {u \in S : Older(s, u)} \subseteq {u \in S : Older(r, u)}
    BY <1>3, <2>2 DEF Older
  <2>4. IsFiniteSet({u \in S : Older(r, u)})
    BY <1>1, FS_Subset
  <2>5. Cardinality({u \in S : Older(r, u)}) < n
    BY DEF NewestRuns
  <2> QED  BY <2>1, <2>3, <2>4, <2>5, FewerRuns DEF NewestRuns
<1> QED  BY <1>1, <1>2, <1>3 DEF TopOf, NewestRuns

\* A run that was displaced stays so, and a run beyond the index.
LEMMA NewerGrow ==
  ASSUME stored \subseteq stored', IsFiniteSet(stored'), NEW r, NEW files
  PROVE  /\ NewerRuns(r, files) \in Nat /\ NewerRuns(r, files)' \in Nat
         /\ NewerRuns(r, files) <= NewerRuns(r, files)'
<1>1. {s \in stored : s[1] \in files /\ Older(r, s)} \subseteq {s \in stored' : s[1] \in files /\ Older(r, s)}
  OBVIOUS
<1>2. IsFiniteSet({s \in stored' : s[1] \in files /\ Older(r, s)})
  BY FS_Subset
<1> QED  BY <1>1, <1>2, FewerRuns DEF NewerRuns

-----------------------------------------------------------------------------
\* A step changes the job of one thread.
OnlyMoves(w) ==
  /\ doing' \in [HistoryWorkers -> HistoryJobs]
  /\ \A v \in HistoryWorkers : v # w => doing'[v] = doing[v]
KeepsRest(w) ==
  /\ OnlyMoves(w) /\ doing'[w].op = doing[w].op
  /\ doing'[w].files = doing[w].files /\ doing'[w].which = doing[w].which
HistoryData == <<kept, fileLock, stored, gone>>

LEMMA JobFacts ==
  ASSUME HistoryTypes, NEW w \in HistoryWorkers
  PROVE  /\ doing[w].op \in HistoryOps /\ doing[w].step \in HistorySteps
         /\ doing[w].files \in SUBSET RunFiles /\ doing[w].copy \in SUBSET RunRecords
         /\ doing[w].which \in SUBSET (RunRecords \cup RecentReads)
BY DEF HistoryTypes, HistoryJobs

LEMMA ProceedFacts ==
  ASSUME HistoryTypes, NEW w \in HistoryWorkers, NEW step \in HistorySteps, Proceeds(w, step)
  PROVE  KeepsRest(w) /\ doing'[w].step = step /\ doing'[w].copy = doing[w].copy
<1>1. doing' = [doing EXCEPT ![w].step = step] /\ doing \in [HistoryWorkers -> HistoryJobs]
  BY DEF Proceeds, HistoryTypes
<1> QED  BY <1>1 DEF KeepsRest, OnlyMoves, HistoryJobs

LEMMA ProceedWithFacts ==
  ASSUME HistoryTypes, NEW w \in HistoryWorkers, NEW step \in HistorySteps,
         NEW loaded \in SUBSET RunRecords, ProceedsWith(w, step, loaded)
  PROVE  KeepsRest(w) /\ doing'[w].step = step /\ doing'[w].copy = loaded
<1>1. /\ doing' = [doing EXCEPT ![w].step = step, ![w].copy = loaded]
      /\ doing \in [HistoryWorkers -> HistoryJobs]
  BY DEF ProceedsWith, HistoryTypes
<1> QED  BY <1>1 DEF KeepsRest, OnlyMoves, HistoryJobs

LEMMA RestIsJob == AtRest \in HistoryJobs
BY DEF AtRest, HistoryJobs, HistoryOps, HistorySteps

LEMMA CacheFacts ==
  ASSUME HistoryTypes, NEW w \in HistoryWorkers, NEW loaded \in SUBSET RunRecords,
         doing' = [doing EXCEPT ![w].step = "sync", ![w].op = "cache", ![w].copy = loaded]
  PROVE  OnlyMoves(w) /\ doing'[w].step = "sync" /\ doing'[w].op = "cache"
         /\ doing'[w].copy = loaded
<1>1. doing \in [HistoryWorkers -> HistoryJobs] /\ doing[w] \in HistoryJobs
  BY DEF HistoryTypes
<1> DEFINE job == [[[doing[w] EXCEPT !.step = "sync"] EXCEPT !.op = "cache"] EXCEPT !.copy = loaded]
<1>2. doing' = [doing EXCEPT ![w] = job]
  BY <1>1
<1>3. job \in HistoryJobs /\ job.step = "sync" /\ job.op = "cache" /\ job.copy = loaded
  BY <1>1 DEF HistoryJobs, HistoryOps, HistorySteps
<1> HIDE DEF job
<1> QED  BY <1>1, <1>2, <1>3 DEF OnlyMoves

LEMMA FinishFacts ==
  ASSUME HistoryTypes, NEW w \in HistoryWorkers, Finishes(w)
  PROVE  OnlyMoves(w) /\ doing'[w] = AtRest
<1>1. doing' = [doing EXCEPT ![w] = AtRest] /\ doing \in [HistoryWorkers -> HistoryJobs]
  BY DEF Finishes, HistoryTypes
<1> QED  BY <1>1, RestIsJob DEF OnlyMoves

LEMMA BeginFacts ==
  ASSUME HistoryTypes, NEW w \in HistoryWorkers, NEW op \in HistoryOps \ {"none"},
         NEW step \in HistorySteps \ {"none"},
         NEW files \in SUBSET RunFiles, NEW loaded \in SUBSET RunRecords,
         NEW which \in SUBSET (RunRecords \cup RecentReads),
         Begins(w, op, step, files, loaded, which)
  PROVE  /\ OnlyMoves(w) /\ doing[w] = AtRest /\ doing'[w] # AtRest
         /\ doing'[w].op = op /\ doing'[w].step = step /\ doing'[w].files = files
         /\ doing'[w].copy = loaded /\ doing'[w].which = which
         /\ crossed' = (crossed \/ OthersBusy(w) # {}) /\ crossed' \in BOOLEAN
<1> DEFINE job == [op |-> op, step |-> step, files |-> files, copy |-> loaded, which |-> which]
<1>1. /\ doing' = [doing EXCEPT ![w] = job] /\ doing \in [HistoryWorkers -> HistoryJobs]
      /\ doing[w] = AtRest /\ crossed' = (crossed \/ OthersBusy(w) # {}) /\ crossed \in BOOLEAN
  BY DEF Begins, HistoryTypes
<1>2. job \in HistoryJobs /\ job # AtRest
  BY DEF HistoryJobs, AtRest
<1>3. OnlyMoves(w) /\ doing'[w] = job
  BY <1>1, <1>2 DEF OnlyMoves
<1> QED  BY <1>1, <1>2, <1>3

\* A step that is no store, and leads to none, may unlink files: what is said of them stays.
LEMMA FilesUnlinked ==
  ASSUME HistoryFiles, NEW w \in HistoryWorkers, OnlyMoves(w), UNCHANGED <<fileLock, stored>>,
         doing[w].step # "store", doing'[w].step # "store", gone \subseteq gone',
         \A t \in RunFiles : \/ kept'[t] = kept[t]
                             \/ kept'[t] = {} /\ kept[t] \subseteq gone'
  PROVE  RunsNumbered' /\ FilesSized' /\ Loaded' /\ RecordsKept'
<1>1. HistoryTypes /\ RunsNumbered /\ FilesSized /\ Loaded /\ RecordsKept
  BY DEF HistoryFiles
<1>2. RunsNumbered'
  BY <1>1 DEF RunsNumbered
<1>3. FilesSized'
  <2>1. Cardinality({}) <= HistoryLimit
    BY FS_EmptySet, HistoryAssumption
  <2>2. ASSUME NEW t \in RunFiles
        PROVE  /\ kept'[t] \subseteq stored' /\ Cardinality(kept'[t]) <= HistoryLimit
               /\ \A r \in kept'[t] : r[1] = t
    BY <1>1, <2>1 DEF FilesSized
  <2> QED  BY <2>2 DEF FilesSized
<1>4. RecordsKept'
  <2> SUFFICES ASSUME NEW r \in stored' \ gone', r \notin kept'[r[1]]
               PROVE  NewerRuns(r, {r[1]})' >= HistoryLimit
    BY DEF RecordsKept
  <2>1. r \in stored \ gone /\ r \in RunRecords /\ r[1] \in RunFiles
    BY <1>1, RecordFacts DEF HistoryTypes
  <2>2. r \notin kept[r[1]]
    BY <2>1
  <2> QED  BY <1>1, <2>1, <2>2 DEF RecordsKept, NewerRuns
<1>5. ASSUME NEW t \in RunFiles, fileLock'[t] # Nobody
      PROVE  doing'[fileLock'[t]].step = "store" /\ doing'[fileLock'[t]].files = {t}
  <2>1. fileLock[t] \in HistoryWorkers /\ fileLock[t] # Nobody
    BY <1>1, <1>5 DEF HistoryTypes
  <2>2. doing[fileLock[t]].step = "store" /\ doing[fileLock[t]].files = {t}
    BY <1>1, <2>1 DEF Loaded
  <2>3. fileLock[t] # w
    BY <2>2
  <2> QED  BY <2>1, <2>2, <2>3 DEF OnlyMoves
<1>6. ASSUME NEW v \in HistoryWorkers, doing'[v].step = "store"
      PROVE  \E t \in RunFiles : HasLoaded(v, t)'
  <2>1. v # w
    BY <1>6
  <2>2. doing'[v] = doing[v]
    BY <2>1 DEF OnlyMoves
  <2>3. PICK t \in RunFiles : HasLoaded(v, t)
    BY <1>1, <1>6, <2>2 DEF Loaded
  <2>4. kept'[t] \subseteq kept[t]
    OBVIOUS
  <2>5. HasLoaded(v, t)'
    BY <2>2, <2>3, <2>4 DEF HasLoaded
  <2> QED  BY <2>5
<1>7. Loaded'
  BY <1>5, <1>6 DEF Loaded
<1> QED  BY <1>2, <1>3, <1>4, <1>7

LEMMA FilesStay ==
  ASSUME HistoryFiles, UNCHANGED HistoryData, NEW w \in HistoryWorkers, OnlyMoves(w),
         doing[w].step # "store", doing'[w].step # "store"
  PROVE  RunsNumbered' /\ FilesSized' /\ Loaded' /\ RecordsKept'
<1>1. UNCHANGED <<kept, fileLock, stored, gone>>
  BY DEF HistoryData
<1> QED  BY <1>1, FilesUnlinked

\* What is left to show of a step for the types.
LEMMA TypesStep ==
  ASSUME HistoryTypes, NEW w \in HistoryWorkers, OnlyMoves(w),
         kept' \in [RunFiles -> SUBSET RunRecords],
         fileLock' \in [RunFiles -> HistoryWorkers \cup {Nobody}],
         lines' \subseteq stored', memory' \subseteq stored', Cardinality(memory') <= RecentLimit,
         indexed' \in BOOLEAN, crossed' \in BOOLEAN, ~indexed' => lines' = {},
         stored' \subseteq RunRecords, gone' \subseteq stored', stored \subseteq stored',
         OnCourse(w)', doing'[w].copy \subseteq stored',
         doing'[w].step \in {"append", "prepend"} => doing'[w].which \subseteq stored'
  PROVE  HistoryTypes'
<1>1. doing' \in [HistoryWorkers -> HistoryJobs]
      /\ \A v \in HistoryWorkers : v # w => doing'[v] = doing[v]
  BY DEF OnlyMoves
<1>2. ASSUME NEW v \in HistoryWorkers, v # w
      PROVE  OnCourse(v)' /\ doing'[v].copy \subseteq stored'
             /\ (doing'[v].step \in {"append", "prepend"} => doing'[v].which \subseteq stored')
  <2>1. doing'[v] = doing[v]
    BY <1>1, <1>2
  <2>2. OnCourse(v) /\ doing[v].copy \subseteq stored
        /\ (doing[v].step \in {"append", "prepend"} => doing[v].which \subseteq stored)
    BY DEF HistoryTypes
  <2>3. OnCourse(v)'
    BY <2>1, <2>2 DEF OnCourse
  <2> QED  BY <2>1, <2>2, <2>3
<1>3. \A v \in HistoryWorkers : OnCourse(v)' /\ doing'[v].copy \subseteq stored'
             /\ (doing'[v].step \in {"append", "prepend"} => doing'[v].which \subseteq stored')
  BY <1>2
<1> QED  BY <1>1, <1>3 DEF HistoryTypes

\* The course of a thread that goes on, or ends.
LEMMA RestOnCourse ==
  ASSUME NEW w, doing'[w] = AtRest
  PROVE  OnCourse(w)' /\ doing'[w].copy = {} /\ doing'[w].step = "none"
<1>1. doing'[w].op = "none" /\ doing'[w].step = "none" /\ doing'[w].copy = {}
  BY DEF AtRest
<1> QED  BY <1>1 DEF OnCourse

LEMMA NotAtRest ==
  ASSUME HistoryTypes, NEW w \in HistoryWorkers, doing[w].step # "none"
  PROVE  doing[w] # AtRest /\ doing[w].op # "none" /\ OnCourse(w)
<1>1. OnCourse(w)
  BY DEF HistoryTypes
<1> QED  BY <1>1 DEF OnCourse

LEMMA NewestFacts ==
  ASSUME HistoryTypes, RunsNumbered, NEW S \in SUBSET stored, NEW n \in Nat
  PROVE  /\ NewestRuns(S, n) \subseteq S /\ IsFiniteSet(NewestRuns(S, n))
         /\ Cardinality(NewestRuns(S, n)) \in Nat /\ Cardinality(NewestRuns(S, n)) <= n
<1>1. S \subseteq RunRecords /\ IsFiniteSet(S) /\ \A r, s \in S : r[2] = s[2] => r = s
  BY CountedRuns DEF HistoryTypes, RunsNumbered
<1> QED  BY <1>1, NewestBound, FS_CardinalityType DEF NewestRuns

LEMMA Limits ==
  /\ HistoryLimit \in Nat \ {0} /\ IndexLimit \in Nat \ {0} /\ RecentLimit \in Nat \ {0}
  /\ RecentReads \subseteq Nat \ {0} /\ RecentLimit <= IndexLimit /\ MaxHistoryRuns \in Nat
BY HistoryAssumption

\* The steps on the index and the cache leave the files, and have their types.
IndexStep(w) ==
  \/ AppendLine(w) \/ Prepend(w) \/ TrimRead(w) \/ TrimWrite(w) \/ LinesRead(w)
  \/ LinesRewrite(w) \/ Forget(w) \/ RebuildRead(w) \/ RebuildWrite(w) \/ ReadRecent(w)
  \/ SyncMemory(w)

LEMMA MoveOnCourse ==
  ASSUME HistoryTypes, NEW w \in HistoryWorkers, OnlyMoves(w),
         NEW from, NEW to, doing[w].step = from, doing'[w].step = to,
         doing'[w].op = doing[w].op, doing'[w].which = doing[w].which,
         <<from, to>> \in {<<"append", "prepend">>, <<"prepend", "trim">>, <<"trim", "trimmed">>,
           <<"store", "append">>, <<"store", "lines">>, <<"lines", "rewrite">>,
           <<"rewrite", "forget">>, <<"unlink", "unlink">>, <<"unlink", "forget">>,
           <<"rebuild", "write">>, <<"write", "sync">>, <<"write", "read">>, <<"sync", "read">>},
         <<from, to>> \in {<<"write", "read">>, <<"sync", "read">>} => doing[w].op = "list",
         <<from, to>> = <<"store", "append">> => doing[w].op = "record",
         <<from, to>> = <<"store", "lines">> => doing[w].op = "delete"
  PROVE  OnCourse(w)'
<1>1. OnCourse(w)
  BY DEF HistoryTypes
<1>2. doing[w].op \in HistoryOps
  BY JobFacts
<1>3. to # "none" /\ from # "none"
  OBVIOUS
<1>4. doing'[w] # AtRest
  BY <1>3 DEF AtRest
<1>5. /\ from = "append" \/ from = "prepend" \/ from = "trim" => doing[w].op = "record"
      /\ from = "lines" \/ from = "rewrite" => doing[w].op = "delete"
      /\ from = "unlink" => doing[w].op = "clear"
      /\ from = "rebuild" \/ from = "write" => doing[w].op \in {"clean", "list"}
      /\ from = "sync" => doing[w].op \in {"clean", "list", "cache"}
      /\ from = "store" => doing[w].op \in {"record", "delete"}
      /\ doing[w].op = "list" => doing[w].which \subseteq RecentReads
  BY <1>1, <1>2, <1>3 DEF OnCourse, HistoryOps
<1>6. doing[w].op = "record" => w = "loop"
  BY <1>1 DEF OnCourse
<1> QED  BY <1>2, <1>3, <1>4, <1>5, <1>6 DEF OnCourse

LEMMA IndexFiles ==
  ASSUME HistoryFiles, NEW w \in HistoryWorkers, IndexStep(w) PROVE HistoryFiles'
<1>1. HistoryTypes /\ RunsNumbered /\ stored \subseteq RunRecords
  BY DEF HistoryFiles, HistoryTypes
<1>2. UNCHANGED HistoryData /\ doing[w].step \notin {"store", "none"}
  BY DEF IndexStep, AppendLine, Prepend, TrimRead, TrimWrite, LinesRead, LinesRewrite, Forget,
         RebuildRead, RebuildWrite, ReadRecent, SyncMemory, HistoryData, Reached
<1>3. SUFFICES /\ OnlyMoves(w) /\ doing'[w].step # "store" /\ OnCourse(w)'
               /\ doing'[w].copy \subseteq stored /\ lines' \subseteq stored
               /\ memory' \subseteq stored /\ Cardinality(memory') <= RecentLimit
               /\ indexed' \in BOOLEAN /\ crossed' \in BOOLEAN /\ (~indexed' => lines' = {})
               /\ (doing'[w].step \in {"append", "prepend"} => doing'[w].which \subseteq stored)
  <2>1. /\ kept' \in [RunFiles -> SUBSET RunRecords]
        /\ fileLock' \in [RunFiles -> HistoryWorkers \cup {Nobody}]
        /\ stored' = stored /\ gone' = gone /\ gone \subseteq stored
    BY <1>1, <1>2 DEF HistoryTypes, HistoryData
  <2>2. HistoryTypes'
    BY <1>1, <1>3, <2>1, TypesStep
  <2>3. RunsNumbered' /\ FilesSized' /\ Loaded' /\ RecordsKept'
    BY <1>2, <1>3, FilesStay
  <2> QED  BY <2>2, <2>3 DEF HistoryFiles
<1>4. /\ lines \subseteq stored /\ memory \subseteq stored /\ Cardinality(memory) <= RecentLimit
      /\ indexed \in BOOLEAN /\ crossed \in BOOLEAN /\ (~indexed => lines = {})
      /\ OnCourse(w) /\ doing[w].copy \subseteq stored
      /\ doing[w].step \in {"append", "prepend"} => doing[w].which \subseteq stored
  BY <1>1 DEF HistoryTypes
<1>5. ASSUME Finishes(w)
      PROVE  /\ OnlyMoves(w) /\ doing'[w].step # "store" /\ OnCourse(w)'
             /\ doing'[w].copy \subseteq stored /\ doing'[w].step \notin {"append", "prepend"}
  <2>1. OnlyMoves(w) /\ doing'[w] = AtRest
    BY <1>1, <1>5, FinishFacts
  <2> QED  BY <2>1, RestOnCourse
<1>6. CASE AppendLine(w)
  <2>1. CASE /\ lines' = lines \cup doing[w].which /\ indexed' = TRUE
             /\ Proceeds(w, "prepend") /\ UNCHANGED <<crossed, memory>> /\ doing[w].step = "append"
    <3>1. KeepsRest(w) /\ doing'[w].step = "prepend" /\ doing'[w].copy = doing[w].copy
      BY <1>1, <2>1, ProceedFacts DEF HistorySteps
    <3>2. OnCourse(w)'
      BY <1>1, <2>1, <3>1, MoveOnCourse DEF KeepsRest
    <3> QED  BY <1>4, <2>1, <3>1, <3>2 DEF KeepsRest
  <2>2. CASE Finishes(w) /\ crossed' = TRUE /\ UNCHANGED <<lines, indexed, memory>>
    BY <1>4, <1>5, <2>2
  <2> QED  BY <1>6, <2>1, <2>2 DEF AppendLine, Reached
<1>7. CASE Prepend(w)
  <2>1. /\ doing[w].step = "prepend" /\ memory' = NewestRuns(doing[w].which \cup memory, RecentLimit)
        /\ Proceeds(w, "trim") /\ UNCHANGED <<lines, indexed, crossed>>
    BY <1>7 DEF Prepend, Reached
  <2>2. KeepsRest(w) /\ doing'[w].step = "trim" /\ doing'[w].copy = doing[w].copy
    BY <1>1, <2>1, ProceedFacts DEF HistorySteps
  <2>3. OnCourse(w)'
    BY <1>1, <2>1, <2>2, MoveOnCourse DEF KeepsRest
  <2>4. memory' \subseteq stored /\ Cardinality(memory') <= RecentLimit
    <3>1. doing[w].which \cup memory \in SUBSET stored
      BY <1>4, <2>1
    <3> QED  BY <1>1, <2>1, <3>1, NewestFacts, Limits
  <2> QED  BY <1>4, <2>1, <2>2, <2>3, <2>4 DEF KeepsRest
<1>8. CASE TrimRead(w)
  <2>1. CASE Finishes(w)
    BY <1>4, <1>5, <1>8, <2>1 DEF TrimRead
  <2>2. CASE ProceedsWith(w, "trimmed", NewestRuns(lines, IndexLimit))
    <3>1. NewestRuns(lines, IndexLimit) \subseteq stored
      BY <1>4 DEF NewestRuns
    <3>2. KeepsRest(w) /\ doing'[w].step = "trimmed" /\ doing'[w].copy = NewestRuns(lines, IndexLimit)
      BY <1>1, <2>2, <3>1, ProceedWithFacts DEF HistorySteps
    <3>3. OnCourse(w)'
      BY <1>1, <1>8, <3>2, MoveOnCourse DEF KeepsRest, TrimRead, Reached
    <3> QED  BY <1>4, <1>8, <3>1, <3>2, <3>3 DEF KeepsRest, TrimRead
  <2> QED  BY <1>8, <2>1, <2>2 DEF TrimRead
<1>9. CASE TrimWrite(w)
  BY <1>4, <1>5, <1>9 DEF TrimWrite
<1>10. CASE LinesRead(w)
  <2>1. CASE Finishes(w)
    BY <1>4, <1>5, <1>10, <2>1 DEF LinesRead
  <2>2. CASE ProceedsWith(w, "rewrite", lines)
    <3>1. KeepsRest(w) /\ doing'[w].step = "rewrite" /\ doing'[w].copy = lines
      BY <1>1, <1>4, <2>2, ProceedWithFacts DEF HistorySteps
    <3>2. OnCourse(w)'
      BY <1>1, <1>10, <3>1, MoveOnCourse DEF KeepsRest, LinesRead, Reached
    <3> QED  BY <1>4, <1>10, <3>1, <3>2 DEF KeepsRest, LinesRead
  <2> QED  BY <1>10, <2>1, <2>2 DEF LinesRead
<1>11. CASE LinesRewrite(w)
  <2>1. CASE Finishes(w) /\ UNCHANGED <<lines, indexed, memory>> /\ crossed' \in BOOLEAN
    BY <1>4, <1>5, <2>1
  <2>2. CASE /\ lines' = doing[w].copy \ doing[w].which
             /\ indexed' = (doing[w].copy \ doing[w].which # {})
             /\ Proceeds(w, "forget") /\ UNCHANGED <<crossed, memory>> /\ doing[w].step = "rewrite"
    <3>1. KeepsRest(w) /\ doing'[w].step = "forget" /\ doing'[w].copy = doing[w].copy
      BY <1>1, <2>2, ProceedFacts DEF HistorySteps
    <3>2. OnCourse(w)'
      BY <1>1, <2>2, <3>1, MoveOnCourse DEF KeepsRest
    <3> QED  BY <1>4, <2>2, <3>1, <3>2 DEF KeepsRest
  <2> QED  BY <1>4, <1>11, <2>1, <2>2 DEF LinesRewrite, Reached
<1>12. CASE Forget(w)
  <2>1. memory' = {} /\ Finishes(w) /\ UNCHANGED <<lines, indexed, crossed>>
    BY <1>12 DEF Forget
  <2>2. Cardinality(memory') <= RecentLimit
    BY <2>1, FS_EmptySet, Limits
  <2> QED  BY <1>4, <1>5, <2>1, <2>2
<1>13. CASE RebuildRead(w)
  <2> DEFINE all == NewestRuns(UNION {kept[t] : t \in RunFiles}, IndexLimit)
  <2>1. all \subseteq stored
    BY DEF NewestRuns, HistoryFiles, FilesSized
  <2>2. /\ ProceedsWith(w, "write", all) /\ UNCHANGED <<lines, indexed, memory>>
        /\ crossed' = (OthersBusy(w) # {}) /\ doing[w].step = "rebuild"
    BY <1>13 DEF RebuildRead, Reached
  <2> HIDE DEF all
  <2>3. KeepsRest(w) /\ doing'[w].step = "write" /\ doing'[w].copy = all
    BY <1>1, <2>1, <2>2, ProceedWithFacts DEF HistorySteps
  <2>4. OnCourse(w)'
    BY <1>1, <2>2, <2>3, MoveOnCourse DEF KeepsRest
  <2> QED  BY <1>4, <2>1, <2>2, <2>3, <2>4 DEF KeepsRest
<1>14. CASE RebuildWrite(w)
  <2>1. CASE /\ lines' = doing[w].copy /\ indexed' = TRUE /\ doing[w].step = "write"
             /\ Proceeds(w, "sync") /\ UNCHANGED <<crossed, memory>>
    <3>1. KeepsRest(w) /\ doing'[w].step = "sync" /\ doing'[w].copy = doing[w].copy
      BY <1>1, <2>1, ProceedFacts DEF HistorySteps
    <3>2. OnCourse(w)'
      BY <1>1, <2>1, <3>1, MoveOnCourse DEF KeepsRest
    <3> QED  BY <1>4, <2>1, <3>1, <3>2 DEF KeepsRest
  <2>2. CASE /\ doing[w].op = "list" /\ Proceeds(w, "read") /\ doing[w].step = "write"
             /\ crossed' = TRUE /\ UNCHANGED <<lines, indexed, memory>>
    <3>1. KeepsRest(w) /\ doing'[w].step = "read" /\ doing'[w].copy = doing[w].copy
      BY <1>1, <2>2, ProceedFacts DEF HistorySteps
    <3>2. OnCourse(w)'
      BY <1>1, <2>2, <3>1, MoveOnCourse DEF KeepsRest
    <3> QED  BY <1>4, <2>2, <3>1, <3>2 DEF KeepsRest
  <2>3. CASE Finishes(w) /\ crossed' = TRUE /\ UNCHANGED <<lines, indexed, memory>>
    BY <1>4, <1>5, <2>3
  <2> QED  BY <1>14, <2>1, <2>2, <2>3 DEF RebuildWrite, Reached
<1>15. CASE ReadRecent(w)
  <2>1. PICK n \in doing[w].which :
          IF lines = {} THEN Finishes(w)
          ELSE doing' = [doing EXCEPT ![w].step = "sync", ![w].op = "cache",
                                      ![w].copy = NewestRuns(lines, n)]
    BY <1>15 DEF ReadRecent
  <2>2. CASE Finishes(w)
    BY <1>4, <1>5, <1>15, <2>2 DEF ReadRecent
  <2>3. CASE doing' = [doing EXCEPT ![w].step = "sync", ![w].op = "cache",
                                    ![w].copy = NewestRuns(lines, n)]
    <3>1. NewestRuns(lines, n) \subseteq stored
      BY <1>4 DEF NewestRuns
    <3>2. PICK newest \in SUBSET RunRecords : newest = NewestRuns(lines, n)
      BY <1>1, <3>1
    <3>3. /\ OnlyMoves(w) /\ doing'[w].step = "sync" /\ doing'[w].op = "cache"
          /\ doing'[w].copy = newest
      <4>1. doing' = [doing EXCEPT ![w].step = "sync", ![w].op = "cache", ![w].copy = newest]
        BY <2>3, <3>2
      <4> QED  BY <1>1, <4>1, CacheFacts
    <3>4. OnCourse(w)'
      BY <3>3 DEF OnCourse, AtRest
    <3> QED  BY <1>4, <1>15, <3>1, <3>2, <3>3, <3>4 DEF ReadRecent
  <2> QED  BY <2>1, <2>2, <2>3
<1>16. CASE SyncMemory(w)
  <2>1. /\ memory' = NewestRuns(doing[w].copy, RecentLimit) /\ UNCHANGED <<lines, indexed, crossed>>
        /\ doing[w].step = "sync"
        /\ IF doing[w].op = "list" THEN Proceeds(w, "read") ELSE Finishes(w)
    BY <1>16 DEF SyncMemory, Reached
  <2>2. memory' \subseteq stored /\ Cardinality(memory') <= RecentLimit
    BY <1>1, <1>4, <2>1, NewestFacts, Limits
  <2>3. CASE Finishes(w)
    BY <1>4, <1>5, <2>1, <2>2, <2>3
  <2>4. CASE doing[w].op = "list" /\ Proceeds(w, "read")
    <3>1. KeepsRest(w) /\ doing'[w].step = "read" /\ doing'[w].copy = doing[w].copy
      BY <1>1, <2>4, ProceedFacts DEF HistorySteps
    <3>2. OnCourse(w)'
      BY <1>1, <2>1, <2>4, <3>1, MoveOnCourse DEF KeepsRest
    <3> QED  BY <1>4, <2>1, <2>2, <3>1, <3>2 DEF KeepsRest
  <2> QED  BY <2>1, <2>3, <2>4
<1> QED  BY <1>6, <1>7, <1>8, <1>9, <1>10, <1>11, <1>12, <1>13, <1>14, <1>15, <1>16 DEF IndexStep

\* A lock that is free is nobody's while its holder has loaded the file.
LEMMA LoadFiles ==
  ASSUME HistoryFiles, NEW w \in HistoryWorkers, NEW t \in RunFiles, NEW op \in {"record", "delete"},
         NEW which \in SUBSET RunRecords, LockAndLoad(w, t, op, which),
         op = "record" => w = "loop" /\ which = {<<t, Cardinality(stored) + 1>>}
                          /\ Cardinality(stored) < MaxHistoryRuns,
         op = "delete" => \A r \in which : r[1] = t
  PROVE  HistoryFiles'
<1>1. HistoryTypes /\ RunsNumbered /\ FilesSized /\ Loaded /\ RecordsKept
  BY DEF HistoryFiles
<1>2. /\ fileLock[t] = Nobody /\ fileLock' = [fileLock EXCEPT ![t] = w]
      /\ Begins(w, op, "store", {t}, kept[t], which)
      /\ UNCHANGED <<kept, lines, indexed, memory, stored, gone>>
  BY DEF LockAndLoad, Locks
<1>3. /\ kept[t] \in SUBSET RunRecords /\ kept[t] \subseteq stored
      /\ fileLock \in [RunFiles -> HistoryWorkers \cup {Nobody}]
  BY <1>1 DEF HistoryTypes, FilesSized
<1>4. /\ OnlyMoves(w) /\ doing[w] = AtRest /\ doing'[w] # AtRest
      /\ doing'[w].op = op /\ doing'[w].step = "store" /\ doing'[w].files = {t}
      /\ doing'[w].copy = kept[t] /\ doing'[w].which = which /\ crossed' \in BOOLEAN
  BY <1>1, <1>2, <1>3, BeginFacts DEF HistoryOps, HistorySteps
<1>5. OnCourse(w)'
  BY <1>2, <1>4 DEF OnCourse
<1>6. /\ fileLock' \in [RunFiles -> HistoryWorkers \cup {Nobody}] /\ fileLock'[t] = w
      /\ \A u \in RunFiles : u # t => fileLock'[u] = fileLock[u]
  BY <1>2, <1>3
<1>7. HistoryTypes'
  <2>1. /\ kept \in [RunFiles -> SUBSET RunRecords] /\ lines \subseteq stored /\ memory \subseteq stored
        /\ Cardinality(memory) <= RecentLimit /\ indexed \in BOOLEAN /\ (~indexed => lines = {})
        /\ stored \subseteq RunRecords /\ gone \subseteq stored
    BY <1>1 DEF HistoryTypes
  <2> QED  BY <1>1, <1>2, <1>3, <1>4, <1>5, <1>6, <2>1, TypesStep
<1>8. RunsNumbered' /\ FilesSized' /\ RecordsKept'
  BY <1>1, <1>2 DEF RunsNumbered, FilesSized, RecordsKept, NewerRuns
<1>9. doing[w].step # "store"
  BY <1>4 DEF AtRest
<1>10. ASSUME NEW u \in RunFiles, fileLock'[u] # Nobody
       PROVE  doing'[fileLock'[u]].step = "store" /\ doing'[fileLock'[u]].files = {u}
  <2>1. CASE u = t
    BY <1>4, <1>6, <2>1
  <2>2. CASE u # t
    <3>1. fileLock'[u] = fileLock[u] /\ fileLock[u] # Nobody /\ fileLock[u] \in HistoryWorkers
      BY <1>3, <1>6, <1>10, <2>2
    <3>2. doing[fileLock[u]].step = "store" /\ doing[fileLock[u]].files = {u}
      BY <1>1, <3>1 DEF Loaded
    <3>3. fileLock[u] # w
      BY <1>9, <3>2
    <3> QED  BY <1>4, <3>1, <3>2, <3>3 DEF OnlyMoves
  <2> QED  BY <2>1, <2>2
<1>11. ASSUME NEW v \in HistoryWorkers, doing'[v].step = "store"
       PROVE  \E u \in RunFiles : HasLoaded(v, u)'
  <2>1. CASE v = w
    <3>1. Cardinality(kept[t]) <= HistoryLimit /\ \A r \in kept[t] : r[1] = t
      BY <1>1 DEF FilesSized
    <3>2. op # "record" \/ op # "delete"
      OBVIOUS
    <3>3. HasLoaded(w, t)'
      BY <1>2, <1>4, <1>6, <3>1, <3>2 DEF HasLoaded
    <3> QED  BY <2>1, <3>3
  <2>2. CASE v # w
    <3>1. doing'[v] = doing[v]
      BY <1>4, <2>2 DEF OnlyMoves
    <3>2. PICK u \in RunFiles : HasLoaded(v, u)
      BY <1>1, <1>11, <3>1 DEF Loaded
    <3>3. u # t
      <4>1. v # Nobody
        BY HistoryAssumption DEF HistoryWorkers, Nobody
      <4> QED  BY <1>2, <3>2, <4>1 DEF HasLoaded
    <3>4. HasLoaded(v, u)'
      BY <1>2, <1>6, <3>1, <3>2, <3>3 DEF HasLoaded
    <3> QED  BY <3>4
  <2> QED  BY <2>1, <2>2
<1>12. Loaded'
  BY <1>10, <1>11 DEF Loaded
<1> QED  BY <1>7, <1>8, <1>12 DEF HistoryFiles

LEMMA BeginRecordFiles ==
  ASSUME HistoryFiles, NEW t \in RunFiles, BeginRecord(t) PROVE HistoryFiles'
<1>1. IsFiniteSet(stored) /\ Cardinality(stored) \in Nat
  BY FS_CardinalityType DEF HistoryFiles, RunsNumbered
<1>2. Cardinality(stored) < MaxHistoryRuns /\ "loop" \in HistoryWorkers
      /\ LockAndLoad("loop", t, "record", {<<t, Cardinality(stored) + 1>>})
  BY DEF BeginRecord, HistoryWorkers
<1>3. {<<t, Cardinality(stored) + 1>>} \in SUBSET RunRecords
  BY <1>1, <1>2, Limits DEF RunRecords
<1> QED  BY <1>2, <1>3, LoadFiles

LEMMA BeginDeleteFiles ==
  ASSUME HistoryFiles, NEW w \in HistoryPool, NEW r \in RunRecords, BeginDelete(w, r)
  PROVE  HistoryFiles'
<1>1. LockAndLoad(w, r[1], "delete", {r}) /\ w \in HistoryWorkers /\ r[1] \in RunFiles
      /\ {r} \in SUBSET RunRecords
  BY RecordFacts DEF BeginDelete, HistoryWorkers
<1> QED  BY <1>1, LoadFiles

LEMMA BeginClearAccountFiles ==
  ASSUME HistoryFiles, NEW w \in HistoryPool, NEW t \in RunFiles, BeginClearAccount(w, t)
  PROVE  HistoryFiles'
<1>1. LockAndLoad(w, t, "delete", {t} \X (1..MaxHistoryRuns)) /\ w \in HistoryWorkers
  BY DEF BeginClearAccount, HistoryWorkers
<1>2. {t} \X (1..MaxHistoryRuns) \in SUBSET RunRecords
      /\ \A r \in {t} \X (1..MaxHistoryRuns) : r[1] = t
  BY DEF RunRecords
<1> QED  BY <1>1, <1>2, LoadFiles

\* What was loaded says which file is written.
LEMMA StoreFacts ==
  ASSUME HistoryFiles, NEW w \in HistoryWorkers, StoreFile(w)
  PROVE  /\ doing[w].step = "store" /\ HasLoaded(w, TheFile(w)) /\ TheFile(w) \in RunFiles
         /\ fileLock' = [fileLock EXCEPT ![TheFile(w)] = Nobody]
         /\ UNCHANGED <<lines, indexed, memory, crossed>>
         /\ \/ /\ doing[w].op = "record" /\ doing[w].which = {<<TheFile(w), Cardinality(stored) + 1>>}
               /\ kept' = [kept EXCEPT ![TheFile(w)] =
                             NewestRuns(doing[w].which \cup doing[w].copy, HistoryLimit)]
               /\ stored' = stored \cup doing[w].which /\ gone' = gone
               /\ KeepsRest(w) /\ doing'[w].step = "append" /\ doing'[w].copy = doing[w].copy
            \/ /\ doing[w].op = "delete" /\ \A r \in doing[w].which : r[1] = TheFile(w)
               /\ kept' = [kept EXCEPT ![TheFile(w)] = doing[w].copy \ doing[w].which]
               /\ gone' = gone \cup (doing[w].which \cap doing[w].copy) /\ stored' = stored
               /\ KeepsRest(w) /\ doing'[w].step = "lines" /\ doing'[w].copy = doing[w].copy
<1>1. HistoryTypes /\ doing[w].step = "store"
  BY DEF HistoryFiles, StoreFile, Reached
<1>2. PICK t \in RunFiles : HasLoaded(w, t)
  BY <1>1 DEF HistoryFiles, Loaded
<1>3. TheFile(w) = t
  BY <1>2 DEF HasLoaded, TheFile
<1>4. /\ fileLock' = [fileLock EXCEPT ![t] = Nobody]
      /\ UNCHANGED <<lines, indexed, memory, crossed>>
      /\ \/ /\ doing[w].op = "record"
            /\ kept' = [kept EXCEPT ![t] = NewestRuns(doing[w].which \cup doing[w].copy, HistoryLimit)]
            /\ stored' = stored \cup doing[w].which /\ gone' = gone /\ Proceeds(w, "append")
         \/ /\ doing[w].op = "delete"
            /\ kept' = [kept EXCEPT ![t] = doing[w].copy \ doing[w].which]
            /\ gone' = gone \cup (doing[w].which \cap doing[w].copy) /\ stored' = stored
            /\ Proceeds(w, "lines")
  BY <1>3 DEF StoreFile
<1>5. CASE Proceeds(w, "append")
  <2>1. KeepsRest(w) /\ doing'[w].step = "append" /\ doing'[w].copy = doing[w].copy
    BY <1>1, <1>5, ProceedFacts DEF HistorySteps
  <2>2. doing[w].op = "delete" => FALSE
    <3>1. doing[w].op = "delete" => doing'[w].step = "lines"
      BY <1>1, <1>4, ProceedFacts DEF HistorySteps
    <3> QED  BY <2>1, <3>1
  <2> QED  BY <1>1, <1>2, <1>3, <1>4, <2>1, <2>2 DEF HasLoaded
<1>6. CASE Proceeds(w, "lines")
  <2>1. KeepsRest(w) /\ doing'[w].step = "lines" /\ doing'[w].copy = doing[w].copy
    BY <1>1, <1>6, ProceedFacts DEF HistorySteps
  <2>2. doing[w].op = "record" => FALSE
    <3>1. doing[w].op = "record" => doing'[w].step = "append"
      BY <1>1, <1>4, ProceedFacts DEF HistorySteps
    <3> QED  BY <2>1, <3>1
  <2> QED  BY <1>1, <1>2, <1>3, <1>4, <2>1, <2>2 DEF HasLoaded
<1> QED  BY <1>4, <1>5, <1>6

\* The lock that is given back: others have theirs as before.
LEMMA StoreLoaded ==
  ASSUME HistoryFiles, NEW w \in HistoryWorkers, StoreFile(w),
         doing[w].op = "delete" \/ \A v \in HistoryWorkers : v # w => doing[v].op # "record"
  PROVE  Loaded'
<1> DEFINE t == TheFile(w)
<1>1. HistoryTypes /\ Loaded
  BY DEF HistoryFiles
<1>2. /\ doing[w].step = "store" /\ HasLoaded(w, t) /\ t \in RunFiles
      /\ fileLock' = [fileLock EXCEPT ![t] = Nobody]
      /\ OnlyMoves(w) /\ doing'[w].step # "store"
      /\ doing[w].op = "record" \/ stored' = stored
  BY StoreFacts DEF KeepsRest
<1>3. \A u \in RunFiles : u # t => kept'[u] = kept[u]
  <2>1. kept \in [RunFiles -> SUBSET RunRecords]
    BY <1>1 DEF HistoryTypes
  <2> QED  BY <2>1, StoreFacts
<1>4. /\ fileLock \in [RunFiles -> HistoryWorkers \cup {Nobody}] /\ fileLock'[t] = Nobody
      /\ \A u \in RunFiles : u # t => fileLock'[u] = fileLock[u]
  BY <1>1, <1>2 DEF HistoryTypes
<1> HIDE DEF t
<1>5. ASSUME NEW u \in RunFiles, fileLock'[u] # Nobody
      PROVE  doing'[fileLock'[u]].step = "store" /\ doing'[fileLock'[u]].files = {u}
  <2>1. u # t /\ fileLock'[u] = fileLock[u] /\ fileLock[u] # Nobody
        /\ fileLock[u] \in HistoryWorkers
    BY <1>4, <1>5
  <2>2. doing[fileLock[u]].step = "store" /\ doing[fileLock[u]].files = {u}
    BY <1>1, <2>1 DEF Loaded
  <2>3. fileLock[u] # w
    BY <1>2, <2>1, <2>2 DEF HasLoaded
  <2> QED  BY <1>2, <2>1, <2>2, <2>3 DEF OnlyMoves
<1>6. ASSUME NEW v \in HistoryWorkers, doing'[v].step = "store"
      PROVE  \E u \in RunFiles : HasLoaded(v, u)'
  <2>1. v # w /\ doing'[v] = doing[v]
    BY <1>2, <1>6 DEF OnlyMoves
  <2>2. PICK u \in RunFiles : HasLoaded(v, u)
    BY <1>1, <1>6, <2>1 DEF Loaded
  <2>3. u # t
    BY <1>2, <2>1, <2>2 DEF HasLoaded
  <2>4. kept'[u] = kept[u] /\ fileLock'[u] = fileLock[u]
    BY <1>3, <1>4, <2>3
  <2>5. doing[v].op = "record" => stored' = stored
    <3>1. CASE doing[w].op = "delete"
      BY <1>2, <3>1
    <3> QED  BY <2>1, <3>1
  <2>6. HasLoaded(v, u)'
    BY <2>1, <2>2, <2>4, <2>5 DEF HasLoaded
  <2> QED  BY <2>6
<1> QED  BY <1>5, <1>6 DEF Loaded

\* What is displaced or gone is accounted for, all else is in its file.
LEMMA StoreFiles ==
  ASSUME HistoryFiles, NEW w \in HistoryWorkers, StoreFile(w) PROVE HistoryFiles'
<1>1. /\ HistoryTypes /\ RunsNumbered /\ FilesSized /\ Loaded /\ RecordsKept
      /\ IsFiniteSet(stored) /\ Cardinality(stored) \in Nat
  BY FS_CardinalityType DEF HistoryFiles, RunsNumbered
<1>2. PICK t \in RunFiles : t = TheFile(w)
  BY StoreFacts
<1>3. PICK loaded \in SUBSET stored, which \in SUBSET (RunRecords \cup RecentReads) :
        loaded = doing[w].copy /\ which = doing[w].which
  BY <1>1, JobFacts DEF HistoryTypes
<1>4. /\ kept[t] \subseteq loaded /\ Cardinality(loaded) <= HistoryLimit
      /\ \A r \in loaded : r[1] = t
      /\ doing[w].step = "store" /\ OnlyMoves(w) /\ fileLock' = [fileLock EXCEPT ![t] = Nobody]
      /\ UNCHANGED <<lines, indexed, memory, crossed>> /\ OnCourse(w) /\ doing'[w].op = doing[w].op
      /\ doing'[w].copy = loaded /\ doing'[w].which = which
  <2>1. HasLoaded(w, t) /\ doing[w].step = "store" /\ fileLock' = [fileLock EXCEPT ![t] = Nobody]
        /\ UNCHANGED <<lines, indexed, memory, crossed>> /\ KeepsRest(w)
        /\ doing'[w].copy = doing[w].copy
    BY <1>2, StoreFacts
  <2>2. OnCourse(w)
    BY <1>1 DEF HistoryTypes
  <2> QED  BY <1>3, <2>1, <2>2 DEF HasLoaded, KeepsRest
<1>5. /\ kept \in [RunFiles -> SUBSET RunRecords] /\ lines \subseteq stored /\ memory \subseteq stored
      /\ Cardinality(memory) <= RecentLimit /\ indexed \in BOOLEAN /\ (~indexed => lines = {})
      /\ stored \subseteq RunRecords /\ gone \subseteq stored /\ crossed \in BOOLEAN
      /\ fileLock' \in [RunFiles -> HistoryWorkers \cup {Nobody}]
  BY <1>1, <1>2, <1>4 DEF HistoryTypes
<1>6. loaded \subseteq RunRecords
  BY <1>5
<1>7. CASE doing[w].op = "record"
  <2> DEFINE new == <<t, Cardinality(stored) + 1>>
  <2>1. /\ which = {new} /\ kept' = [kept EXCEPT ![t] = NewestRuns({new} \cup loaded, HistoryLimit)]
        /\ stored' = stored \cup {new} /\ gone' = gone /\ doing'[w].step = "append"
        /\ Cardinality(stored) < MaxHistoryRuns
    <3>1. HasLoaded(w, t)
      BY <1>2, StoreFacts
    <3>2. /\ kept' = [kept EXCEPT ![t] = NewestRuns(which \cup loaded, HistoryLimit)]
          /\ stored' = stored \cup which /\ gone' = gone /\ doing'[w].step = "append"
      BY <1>2, <1>3, <1>7, StoreFacts
    <3> QED  BY <1>3, <1>7, <3>1, <3>2 DEF HasLoaded
  <2>2. new \in RunRecords /\ new[1] = t /\ new[2] = Cardinality(stored) + 1
    BY <1>1, <2>1, Limits DEF RunRecords
  <2>3. \A r \in stored : r[2] \in Nat /\ r[2] < new[2]
    BY <1>1, <1>5, <2>2, RecordFacts DEF RunsNumbered
  <2> HIDE DEF new
  <2>4. new \notin stored
    BY <1>1, <2>2, <2>3
  <2>5. IsFiniteSet(stored') /\ Cardinality(stored') = Cardinality(stored) + 1
    BY <1>1, <2>1, <2>4, FS_AddElement
  <2>6. RunsNumbered'
    <3>1. \A r \in stored' : r[2] <= Cardinality(stored')
      BY <1>1, <2>1, <2>2, <2>3, <2>5
    <3>2. \A r, s \in stored' : r[2] = s[2] => r = s
      BY <1>1, <2>1, <2>2, <2>3 DEF RunsNumbered
    <3> QED  BY <2>5, <3>1, <3>2 DEF RunsNumbered
  <2>7. {new} \cup loaded \subseteq stored' /\ {new} \cup loaded \subseteq RunRecords
        /\ stored' \subseteq RunRecords /\ stored \subseteq stored'
    BY <1>5, <1>6, <2>1, <2>2
  <2> DEFINE left == NewestRuns({new} \cup loaded, HistoryLimit)
  <2>8. left \subseteq {new} \cup loaded /\ Cardinality(left) <= HistoryLimit
    <3>1. IsFiniteSet({new} \cup loaded)
      BY <2>5, <2>7, FS_Subset
    <3>2. \A r, s \in {new} \cup loaded : r[2] = s[2] => r = s
      BY <2>6, <2>7 DEF RunsNumbered
    <3> QED  BY <2>7, <3>1, <3>2, NewestBound, Limits DEF NewestRuns
  <2>9. kept' \in [RunFiles -> SUBSET RunRecords] /\ kept'[t] = left
        /\ \A u \in RunFiles : u # t => kept'[u] = kept[u]
    BY <1>5, <2>1, <2>7, <2>8
  <2>10. FilesSized'
    <3>1. ASSUME NEW u \in RunFiles
          PROVE  /\ kept'[u] \subseteq stored' /\ Cardinality(kept'[u]) <= HistoryLimit
                 /\ \A r \in kept'[u] : r[1] = u
      <4>1. CASE u = t
        BY <1>4, <2>2, <2>7, <2>8, <2>9, <4>1
      <4>2. CASE u # t
        BY <1>1, <2>7, <2>9, <4>2 DEF FilesSized
      <4> QED  BY <4>1, <4>2
    <3> QED  BY <3>1 DEF FilesSized
  <2>11. RecordsKept'
    <3> SUFFICES ASSUME NEW r \in stored' \ gone', r \notin kept'[r[1]]
                 PROVE  NewerRuns(r, {r[1]})' >= HistoryLimit
      BY DEF RecordsKept
    <3>1. CASE r \in {new} \cup loaded
      <4>1. r[1] = t /\ \A s \in {new} \cup loaded : s[1] \in {t}
        BY <1>4, <2>2, <3>1
      <4>2. r \notin left
        BY <2>9, <4>1
      <4>3. Cardinality({s \in stored' : s[1] \in {t} /\ Older(r, s)}) >= HistoryLimit
        <5>1. PICK all \in SUBSET stored' : all = {new} \cup loaded
          BY <2>7
        <5>2. r \in all /\ r \notin NewestRuns(all, HistoryLimit) /\ \A s \in all : s[1] \in {t}
          BY <3>1, <4>1, <4>2, <5>1
        <5>3. HistoryLimit \in Nat /\ IsFiniteSet(stored') /\ stored' \subseteq RunRecords
          BY <2>5, <2>7, Limits
        <5>4. PICK T : T = stored'
          OBVIOUS
        <5>5. NewerOf(r, T, {t}) >= HistoryLimit
          BY <5>1, <5>2, <5>3, <5>4, CutOff
        <5> QED  BY <5>4, <5>5 DEF NewerOf
      <4> QED  BY <4>1, <4>3 DEF NewerRuns
    <3>2. CASE r \notin {new} \cup loaded
      <4>1. r \in stored \ gone /\ r[1] \in RunFiles
        BY <1>5, <2>1, <3>2, RecordFacts
      <4>2. r \notin kept[r[1]]
        BY <1>4, <2>9, <3>2, <4>1
      <4>3. NewerRuns(r, {r[1]}) >= HistoryLimit
        BY <1>1, <4>1, <4>2 DEF RecordsKept
      <4>4. /\ NewerRuns(r, {r[1]}) \in Nat /\ NewerRuns(r, {r[1]})' \in Nat
            /\ NewerRuns(r, {r[1]}) <= NewerRuns(r, {r[1]})'
        BY <2>5, <2>7, NewerGrow
      <4> QED  BY <4>3, <4>4, Limits
    <3> QED  BY <3>1, <3>2
  <2>12. OnCourse(w)'
    BY <1>1, <1>3, <1>4, <1>7, <2>1, MoveOnCourse
  <2>13. HistoryTypes'
    BY <1>1, <1>4, <1>5, <2>1, <2>7, <2>9, <2>12, TypesStep
  <2>14. \A v \in HistoryWorkers : v # w => doing[v].op # "record"
    BY <1>1, <1>7 DEF HistoryTypes, OnCourse
  <2>15. Loaded'
    BY <2>14, StoreLoaded
  <2> QED  BY <2>6, <2>10, <2>11, <2>13, <2>15 DEF HistoryFiles
<1>8. CASE doing[w].op # "record"
  <2>1. /\ doing[w].op = "delete" /\ kept' = [kept EXCEPT ![t] = loaded \ which]
        /\ gone' = gone \cup (which \cap loaded) /\ stored' = stored /\ doing'[w].step = "lines"
    BY <1>2, <1>3, <1>8, StoreFacts
  <2>2. kept' \in [RunFiles -> SUBSET RunRecords] /\ kept'[t] = loaded \ which
        /\ \A u \in RunFiles : u # t => kept'[u] = kept[u]
    BY <1>5, <1>6, <2>1
  <2>3. RunsNumbered'
    BY <1>1, <2>1 DEF RunsNumbered
  <2>4. FilesSized'
    <3>1. ASSUME NEW u \in RunFiles
          PROVE  /\ kept'[u] \subseteq stored' /\ Cardinality(kept'[u]) <= HistoryLimit
                 /\ \A r \in kept'[u] : r[1] = u
      <4>1. CASE u = t
        <5>1. kept'[u] \subseteq loaded /\ IsFiniteSet(loaded)
          BY <1>1, <2>2, <4>1, CountedRuns
        <5>2. /\ Cardinality(kept'[u]) \in Nat /\ Cardinality(loaded) \in Nat
              /\ Cardinality(kept'[u]) <= Cardinality(loaded)
          BY <5>1, FewerRuns
        <5> QED  BY <1>4, <2>1, <4>1, <5>1, <5>2, Limits
      <4>2. CASE u # t
        BY <1>1, <2>1, <2>2, <4>2 DEF FilesSized
      <4> QED  BY <4>1, <4>2
    <3> QED  BY <3>1 DEF FilesSized
  <2>5. RecordsKept'
    <3> SUFFICES ASSUME NEW r \in stored' \ gone', r \notin kept'[r[1]]
                 PROVE  NewerRuns(r, {r[1]})' >= HistoryLimit
      BY DEF RecordsKept
    <3>1. r \in stored \ gone /\ r[1] \in RunFiles /\ r \notin which \cap loaded
      BY <1>5, <2>1, RecordFacts
    <3>2. r \notin kept[r[1]]
      BY <1>4, <2>2, <3>1
    <3>3. NewerRuns(r, {r[1]}) >= HistoryLimit
      BY <1>1, <3>1, <3>2 DEF RecordsKept
    <3> QED  BY <2>1, <3>3 DEF NewerRuns
  <2>6. OnCourse(w)'
    BY <1>1, <1>3, <1>4, <2>1, MoveOnCourse
  <2>7. HistoryTypes'
    BY <1>1, <1>4, <1>5, <2>1, <2>2, <2>6, TypesStep
  <2>8. Loaded'
    BY <2>1, StoreLoaded
  <2> QED  BY <2>3, <2>4, <2>5, <2>7, <2>8 DEF HistoryFiles
<1> QED  BY <1>7, <1>8

\* Beginnings without a lock, and the removals without one.
LEMMA BeginClearFiles ==
  ASSUME HistoryFiles, NEW w \in HistoryPool, BeginClear(w) PROVE HistoryFiles'
<1>1. /\ HistoryTypes /\ w \in HistoryWorkers
      /\ Begins(w, "clear", "unlink", RunFiles, {}, {})
      /\ UNCHANGED <<kept, fileLock, lines, indexed, memory, stored, gone>>
  BY DEF HistoryFiles, BeginClear, HistoryWorkers
<1>2. /\ OnlyMoves(w) /\ doing[w] = AtRest /\ doing'[w] # AtRest /\ doing'[w].op = "clear"
      /\ doing'[w].step = "unlink" /\ doing'[w].copy = {} /\ crossed' \in BOOLEAN
  BY <1>1, BeginFacts DEF HistoryOps, HistorySteps
<1>3. doing[w].step # "store"
  BY <1>2 DEF AtRest
<1>4. OnCourse(w)'
  BY <1>2 DEF OnCourse
<1>5. HistoryTypes'
  BY <1>1, <1>2, <1>4, TypesStep DEF HistoryTypes
<1>6. RunsNumbered' /\ FilesSized' /\ Loaded' /\ RecordsKept'
  BY <1>1, <1>2, <1>3, FilesStay DEF HistoryData
<1> QED  BY <1>5, <1>6 DEF HistoryFiles

LEMMA BeginListFiles ==
  ASSUME HistoryFiles, NEW w \in HistoryWorkers, NEW n \in RecentReads, BeginList(w, n)
  PROVE  HistoryFiles'
<1> DEFINE first == IF indexed THEN "read" ELSE "rebuild"
<1>1. /\ HistoryTypes /\ Begins(w, "list", first, {}, {}, {n})
      /\ UNCHANGED <<kept, fileLock, lines, indexed, memory, stored, gone>>
  BY DEF HistoryFiles, BeginList
<1>2. first \in {"read", "rebuild"}
  OBVIOUS
<1> HIDE DEF first
<1>3. /\ OnlyMoves(w) /\ doing[w] = AtRest /\ doing'[w] # AtRest /\ doing'[w].op = "list"
      /\ doing'[w].step = first /\ doing'[w].copy = {} /\ doing'[w].which = {n}
      /\ crossed' \in BOOLEAN
  BY <1>1, <1>2, BeginFacts DEF HistoryOps, HistorySteps
<1>4. doing[w].step # "store"
  BY <1>3 DEF AtRest
<1>5. OnCourse(w)'
  BY <1>2, <1>3 DEF OnCourse
<1>6. HistoryTypes'
  BY <1>1, <1>2, <1>3, <1>5, TypesStep DEF HistoryTypes
<1>7. RunsNumbered' /\ FilesSized' /\ Loaded' /\ RecordsKept'
  BY <1>1, <1>2, <1>3, <1>4, FilesStay DEF HistoryData
<1> QED  BY <1>6, <1>7 DEF HistoryFiles

LEMMA CleanUpFiles ==
  ASSUME HistoryFiles, NEW old \in SUBSET RunFiles, CleanUp(old) PROVE HistoryFiles'
<1> DEFINE w == "loop"
<1>1. /\ HistoryTypes /\ FilesSized /\ w \in HistoryWorkers
      /\ Begins(w, "clean", "rebuild", {}, {}, {})
      /\ kept' = [t \in RunFiles |-> IF t \in old THEN {} ELSE kept[t]]
      /\ gone' = gone \cup UNION {kept[t] : t \in old}
      /\ UNCHANGED <<fileLock, lines, indexed, memory, stored>>
  BY DEF HistoryFiles, CleanUp, HistoryWorkers
<1> HIDE DEF w
<1>2. /\ OnlyMoves(w) /\ doing[w] = AtRest /\ doing'[w] # AtRest /\ doing'[w].op = "clean"
      /\ doing'[w].step = "rebuild" /\ doing'[w].copy = {} /\ crossed' \in BOOLEAN
  BY <1>1, BeginFacts DEF HistoryOps, HistorySteps
<1>3. doing[w].step # "store"
  BY <1>2 DEF AtRest
<1>4. OnCourse(w)'
  BY <1>2 DEF OnCourse
<1>5. kept' \in [RunFiles -> SUBSET RunRecords] /\ gone' \subseteq stored
  BY <1>1 DEF HistoryTypes, FilesSized
<1>6. HistoryTypes'
  BY <1>1, <1>2, <1>4, <1>5, TypesStep DEF HistoryTypes
<1>7. \A t \in RunFiles : kept'[t] = kept[t] \/ (kept'[t] = {} /\ kept[t] \subseteq gone')
  BY <1>1
<1>8. RunsNumbered' /\ FilesSized' /\ Loaded' /\ RecordsKept'
  BY <1>1, <1>2, <1>3, <1>7, FilesUnlinked
<1> QED  BY <1>6, <1>8 DEF HistoryFiles

\* A file of the clear, or its end.
LEMMA UnlinkFacts ==
  ASSUME HistoryTypes, NEW w \in HistoryWorkers, Unlink(w)
  PROVE  /\ doing[w].step = "unlink" /\ UNCHANGED <<fileLock, memory, stored, crossed>>
         /\ \/ \E t \in doing[w].files :
                 /\ kept' = [kept EXCEPT ![t] = {}] /\ gone' = gone \cup kept[t]
                 /\ OnlyMoves(w) /\ doing'[w].op = doing[w].op /\ doing'[w].step = "unlink"
                 /\ doing'[w].files = doing[w].files \ {t} /\ doing'[w].copy = doing[w].copy
                 /\ doing'[w].which = doing[w].which /\ UNCHANGED <<lines, indexed>>
            \/ /\ doing[w].files = {} /\ lines' = {} /\ indexed' = FALSE
               /\ KeepsRest(w) /\ doing'[w].step = "forget" /\ doing'[w].copy = doing[w].copy
               /\ UNCHANGED <<kept, gone>>
<1>1. doing[w].step = "unlink" /\ UNCHANGED <<fileLock, memory, stored, crossed>>
  BY DEF Unlink, Reached
<1>2. ASSUME NEW t \in doing[w].files, doing' = [doing EXCEPT ![w].files = @ \ {t}]
      PROVE  /\ OnlyMoves(w) /\ doing'[w].op = doing[w].op /\ doing'[w].step = "unlink"
             /\ doing'[w].files = doing[w].files \ {t} /\ doing'[w].copy = doing[w].copy
             /\ doing'[w].which = doing[w].which
  <2>1. doing \in [HistoryWorkers -> HistoryJobs]
    BY DEF HistoryTypes
  <2> QED  BY <1>1, <1>2, <2>1 DEF OnlyMoves, HistoryJobs
<1>3. ASSUME Proceeds(w, "forget")
      PROVE  KeepsRest(w) /\ doing'[w].step = "forget" /\ doing'[w].copy = doing[w].copy
  BY <1>3, ProceedFacts DEF HistorySteps
<1> QED  BY <1>1, <1>2, <1>3 DEF Unlink

LEMMA UnlinkFiles ==
  ASSUME HistoryFiles, NEW w \in HistoryWorkers, Unlink(w) PROVE HistoryFiles'
<1>1. HistoryTypes /\ FilesSized /\ doing[w].files \in SUBSET RunFiles
  BY JobFacts DEF HistoryFiles
<1>2. doing[w].step = "unlink" /\ UNCHANGED <<fileLock, memory, stored, crossed>>
  BY <1>1, UnlinkFacts
<1>3. CASE /\ doing[w].files = {} /\ lines' = {} /\ indexed' = FALSE
           /\ KeepsRest(w) /\ doing'[w].step = "forget" /\ doing'[w].copy = doing[w].copy
           /\ UNCHANGED <<kept, gone>>
  <2>1. OnCourse(w)'
    BY <1>1, <1>2, <1>3, MoveOnCourse DEF KeepsRest
  <2>2. HistoryTypes'
    BY <1>1, <1>2, <1>3, <2>1, TypesStep DEF HistoryTypes, KeepsRest
  <2>3. RunsNumbered' /\ FilesSized' /\ Loaded' /\ RecordsKept'
    BY <1>2, <1>3, FilesStay DEF HistoryData, KeepsRest
  <2> QED  BY <2>2, <2>3 DEF HistoryFiles
<1>4. ASSUME NEW t \in doing[w].files,
             kept' = [kept EXCEPT ![t] = {}] /\ gone' = gone \cup kept[t],
             OnlyMoves(w) /\ doing'[w].op = doing[w].op /\ doing'[w].step = "unlink",
             doing'[w].files = doing[w].files \ {t} /\ doing'[w].copy = doing[w].copy,
             doing'[w].which = doing[w].which, UNCHANGED <<lines, indexed>>
      PROVE  HistoryFiles'
  <2>1. OnCourse(w)'
    BY <1>1, <1>2, <1>4, MoveOnCourse
  <2>2. /\ kept' \in [RunFiles -> SUBSET RunRecords] /\ gone' \subseteq stored
        /\ \A u \in RunFiles : kept'[u] = kept[u] \/ (kept'[u] = {} /\ kept[u] \subseteq gone')
    BY <1>1, <1>4 DEF HistoryTypes, FilesSized
  <2>3. HistoryTypes'
    BY <1>1, <1>2, <1>4, <2>1, <2>2, TypesStep DEF HistoryTypes
  <2>4. RunsNumbered' /\ FilesSized' /\ Loaded' /\ RecordsKept'
    BY <1>2, <1>4, <2>2, FilesUnlinked
  <2> QED  BY <2>3, <2>4 DEF HistoryFiles
<1> QED  BY <1>1, <1>3, <1>4, UnlinkFacts

\* A restart leaves files and index, and no job.
LEMMA CrashFiles ==
  ASSUME HistoryFiles, HistoryCrash PROVE HistoryFiles'
<1>1. /\ HistoryTypes /\ RunsNumbered /\ FilesSized /\ RecordsKept
      /\ doing' = [w \in HistoryWorkers |-> AtRest] /\ fileLock' = [t \in RunFiles |-> Nobody]
      /\ memory' = {} /\ crossed' \in BOOLEAN /\ UNCHANGED <<kept, lines, indexed, stored, gone>>
  BY DEF HistoryFiles, HistoryCrash, HistoryTypes
<1>2. \A w \in HistoryWorkers : /\ OnCourse(w)' /\ doing'[w].copy = {}
                                /\ doing'[w].step = "none"
  BY <1>1, RestOnCourse
<1>3. HistoryTypes'
  <2>1. Cardinality(memory') <= RecentLimit
    BY <1>1, FS_EmptySet, Limits
  <2>2. /\ doing' \in [HistoryWorkers -> HistoryJobs]
        /\ fileLock' \in [RunFiles -> HistoryWorkers \cup {Nobody}]
    BY <1>1, RestIsJob
  <2> QED  BY <1>1, <1>2, <2>1, <2>2 DEF HistoryTypes
<1>4. RunsNumbered' /\ FilesSized' /\ RecordsKept'
  BY <1>1 DEF RunsNumbered, FilesSized, RecordsKept, NewerRuns
<1>5. Loaded'
  BY <1>1, <1>2 DEF Loaded
<1> QED  BY <1>3, <1>4, <1>5 DEF HistoryFiles

LEMMA HistoryFilesInit == HistoryInit => HistoryFiles
<1> SUFFICES ASSUME HistoryInit PROVE HistoryFiles
  OBVIOUS
<1>1. /\ kept = [t \in RunFiles |-> {}] /\ fileLock = [t \in RunFiles |-> Nobody]
      /\ lines = {} /\ indexed = FALSE /\ memory = {} /\ stored = {} /\ gone = {}
      /\ doing = [w \in HistoryWorkers |-> AtRest] /\ crossed = FALSE
  BY DEF HistoryInit
<1>2. Cardinality({}) = 0 /\ IsFiniteSet({})
  BY FS_EmptySet
<1>3. \A w \in HistoryWorkers : OnCourse(w) /\ doing[w].copy = {} /\ doing[w].step = "none"
  BY <1>1 DEF OnCourse, AtRest
<1>4. HistoryTypes
  <2>1. /\ kept \in [RunFiles -> SUBSET RunRecords]
        /\ fileLock \in [RunFiles -> HistoryWorkers \cup {Nobody}]
    BY <1>1
  <2>2. doing \in [HistoryWorkers -> HistoryJobs]
    BY <1>1, RestIsJob
  <2>3. Cardinality(memory) <= RecentLimit
    BY <1>1, <1>2, Limits
  <2>4. /\ lines \subseteq stored /\ memory \subseteq stored /\ stored \subseteq RunRecords
        /\ gone \subseteq stored /\ indexed \in BOOLEAN /\ crossed \in BOOLEAN /\ lines = {}
    BY <1>1
  <2>5. \A w \in HistoryWorkers : OnCourse(w) /\ doing[w].copy \subseteq stored
          /\ (doing[w].step \in {"append", "prepend"} => doing[w].which \subseteq stored)
    BY <1>3
  <2> QED  BY <2>1, <2>2, <2>3, <2>4, <2>5 DEF HistoryTypes
<1>5. RunsNumbered /\ FilesSized /\ RecordsKept /\ Loaded
  BY <1>1, <1>2, <1>3, Limits DEF RunsNumbered, FilesSized, RecordsKept, Loaded
<1> QED  BY <1>4, <1>5 DEF HistoryFiles

-----------------------------------------------------------------------------
\* What is displaced or beyond the index stays so, as long as no run is forgotten.
LEMMA StayAway ==
  ASSUME HistoryFiles, HistoryFiles', stored \subseteq stored', NEW r
  PROVE  (PushedOut(r) => PushedOut(r)') /\ (Beyond(r) => Beyond(r)')
<1>1. IsFiniteSet(stored')
  BY DEF HistoryFiles, RunsNumbered
<1>2. /\ NewerRuns(r, RunFiles) \in Nat /\ NewerRuns(r, RunFiles)' \in Nat
      /\ NewerRuns(r, RunFiles) <= NewerRuns(r, RunFiles)'
  BY <1>1, NewerGrow
<1>3. PICK t : t = r[1]
  OBVIOUS
<1>4. /\ NewerRuns(r, {t}) \in Nat /\ NewerRuns(r, {t})' \in Nat
      /\ NewerRuns(r, {t}) <= NewerRuns(r, {t})'
  BY <1>1, NewerGrow
<1> QED  BY <1>2, <1>3, <1>4, Limits DEF PushedOut, Beyond

\* Index and files as before, lines and runs are named as before.
LEMMA SameIndex ==
  ASSUME HistoryFiles, HistoryFiles', UNCHANGED <<kept, lines, stored>>
  PROVE  (LinesTrue({}) => LinesTrue({})') /\ (FilesIndexed({}) => FilesIndexed({})')
<1>1. \A r : (PushedOut(r) => PushedOut(r)') /\ (Beyond(r) => Beyond(r)')
  BY StayAway
<1> QED  BY <1>1 DEF LinesTrue, FilesIndexed

LEMMA SameAgreed ==
  ASSUME HistoryFiles, HistoryFiles', UNCHANGED <<kept, lines, stored, memory>>, Agreed
  PROVE  Agreed'
<1>1. Recent'
  BY DEF Agreed, Recent, TopOf, Few
<1> QED  BY <1>1, SameIndex DEF Agreed

\* A step of the only thread that is busy.
LEMMA SoleStep ==
  ASSUME HistoryInv, NEW w \in HistoryWorkers, OnlyMoves(w), doing[w] # AtRest,
         crossed' \in {crossed, TRUE},
         ~crossed' /\ AtWork(w) => IF doing'[w] = AtRest THEN Agreed' ELSE AtWork(w)'
  PROVE  IndexInv'
<1> SUFFICES ASSUME ~crossed'
             PROVE  /\ Alone' /\ (Resting' => Agreed')
                    /\ \A v \in HistoryWorkers : doing'[v] # AtRest => AtWork(v)'
  BY DEF IndexInv
<1>1. ~crossed
  BY DEF HistoryInv, HistoryFiles, HistoryTypes
<1>2. AtWork(w) /\ \A v \in HistoryWorkers : v # w => doing[v] = AtRest
  BY <1>1 DEF HistoryInv, IndexInv, Alone
<1>3. \A v \in HistoryWorkers : v # w => doing'[v] = AtRest
  BY <1>2 DEF OnlyMoves
<1>4. IF doing'[w] = AtRest THEN Agreed' ELSE AtWork(w)'
  BY <1>2
<1>5. Alone'
  BY <1>3 DEF Alone
<1>6. Resting' => Agreed'
  BY <1>4 DEF Resting
<1>7. ASSUME NEW v \in HistoryWorkers, doing'[v] # AtRest PROVE AtWork(v)'
  <2>1. v = w
    BY <1>3, <1>7
  <2> QED  BY <1>4, <1>7, <2>1
<1> QED  BY <1>5, <1>6, <1>7

\* A thread begins when all others rest, or the operations have crossed.
LEMMA SoleBegin ==
  ASSUME HistoryInv, NEW w \in HistoryWorkers, OnlyMoves(w), doing[w] = AtRest,
         crossed' = (crossed \/ OthersBusy(w) # {}), doing'[w] # AtRest,
         Agreed => AtWork(w)'
  PROVE  IndexInv'
<1> SUFFICES ASSUME ~crossed'
             PROVE  /\ Alone' /\ (Resting' => Agreed')
                    /\ \A v \in HistoryWorkers : doing'[v] # AtRest => AtWork(v)'
  BY DEF IndexInv
<1>1. ~crossed /\ \A v \in HistoryWorkers : v # w => doing[v] = AtRest
  BY DEF OthersBusy
<1>2. Agreed
  BY <1>1 DEF HistoryInv, IndexInv, Resting
<1>3. \A v \in HistoryWorkers : v # w => doing'[v] = AtRest
  BY <1>1 DEF OnlyMoves
<1>4. Alone' /\ ~Resting'
  BY <1>3 DEF Alone, Resting
<1>5. ASSUME NEW v \in HistoryWorkers, doing'[v] # AtRest PROVE AtWork(v)'
  <2>1. v = w
    BY <1>3, <1>5
  <2> QED  BY <1>2, <2>1
<1> QED  BY <1>4, <1>5

LEMMA LoadIndex ==
  ASSUME HistoryInv, HistoryFiles', NEW w \in HistoryWorkers, NEW t \in RunFiles,
         NEW op \in {"record", "delete"}, NEW which \in SUBSET RunRecords,
         LockAndLoad(w, t, op, which)
  PROVE  IndexInv'
<1>1. HistoryFiles /\ HistoryTypes /\ kept[t] \in SUBSET RunRecords
  BY DEF HistoryInv, HistoryFiles, HistoryTypes
<1>2. Begins(w, op, "store", {t}, kept[t], which) /\ UNCHANGED <<kept, lines, stored, memory>>
  BY DEF LockAndLoad
<1>3. /\ OnlyMoves(w) /\ doing[w] = AtRest /\ doing'[w] # AtRest
      /\ doing'[w].op = op /\ doing'[w].step = "store" /\ doing'[w].files = {t}
      /\ doing'[w].copy = kept[t] /\ crossed' = (crossed \/ OthersBusy(w) # {})
  BY <1>1, <1>2, BeginFacts DEF HistoryOps, HistorySteps
<1>4. Agreed => AtWork(w)'
  <2> SUFFICES ASSUME Agreed PROVE AtWork(w)'
    OBVIOUS
  <2>1. Agreed'
    BY <1>1, <1>2, SameAgreed
  <2>2. \A u \in doing'[w].files : kept'[u] = doing'[w].copy
    BY <1>2, <1>3
  <2> QED  BY <1>3, <2>1, <2>2 DEF AtWork
<1> QED  BY <1>3, <1>4, SoleBegin

LEMMA BeginRecordIndex ==
  ASSUME HistoryInv, NEW t \in RunFiles, BeginRecord(t) PROVE HistoryInv'
<1>1. IsFiniteSet(stored) /\ Cardinality(stored) \in Nat /\ HistoryFiles
  BY FS_CardinalityType DEF HistoryInv, HistoryFiles, RunsNumbered
<1>2. Cardinality(stored) < MaxHistoryRuns /\ "loop" \in HistoryWorkers
      /\ LockAndLoad("loop", t, "record", {<<t, Cardinality(stored) + 1>>})
  BY DEF BeginRecord, HistoryWorkers
<1>3. {<<t, Cardinality(stored) + 1>>} \in SUBSET RunRecords
  BY <1>1, <1>2, Limits DEF RunRecords
<1>4. HistoryFiles'
  BY <1>1, BeginRecordFiles
<1> QED  BY <1>2, <1>3, <1>4, LoadIndex DEF HistoryInv

LEMMA BeginDeleteIndex ==
  ASSUME HistoryInv, NEW w \in HistoryPool, NEW r \in RunRecords, BeginDelete(w, r)
  PROVE  HistoryInv'
<1>1. LockAndLoad(w, r[1], "delete", {r}) /\ w \in HistoryWorkers /\ r[1] \in RunFiles
      /\ {r} \in SUBSET RunRecords
  BY RecordFacts DEF BeginDelete, HistoryWorkers
<1>2. HistoryFiles'
  BY BeginDeleteFiles DEF HistoryInv
<1> QED  BY <1>1, <1>2, LoadIndex DEF HistoryInv

LEMMA BeginClearAccountIndex ==
  ASSUME HistoryInv, NEW w \in HistoryPool, NEW t \in RunFiles, BeginClearAccount(w, t)
  PROVE  HistoryInv'
<1>1. LockAndLoad(w, t, "delete", {t} \X (1..MaxHistoryRuns)) /\ w \in HistoryWorkers
      /\ {t} \X (1..MaxHistoryRuns) \in SUBSET RunRecords
  BY DEF BeginClearAccount, HistoryWorkers, RunRecords
<1>2. HistoryFiles'
  BY BeginClearAccountFiles DEF HistoryInv
<1> QED  BY <1>1, <1>2, LoadIndex DEF HistoryInv

LEMMA BeginClearIndex ==
  ASSUME HistoryInv, NEW w \in HistoryPool, BeginClear(w) PROVE HistoryInv'
<1>1. /\ HistoryTypes /\ w \in HistoryWorkers /\ Begins(w, "clear", "unlink", RunFiles, {}, {})
  BY DEF HistoryInv, HistoryFiles, BeginClear, HistoryWorkers
<1>2. /\ OnlyMoves(w) /\ doing[w] = AtRest /\ doing'[w] # AtRest /\ doing'[w].op = "clear"
      /\ doing'[w].step = "unlink" /\ doing'[w].files = RunFiles
      /\ crossed' = (crossed \/ OthersBusy(w) # {})
  BY <1>1, BeginFacts DEF HistoryOps, HistorySteps
<1>3. AtWork(w)'
  BY <1>2 DEF AtWork
<1>4. IndexInv'
  BY <1>1, <1>2, <1>3, SoleBegin
<1> QED  BY <1>4, BeginClearFiles DEF HistoryInv

LEMMA BeginListIndex ==
  ASSUME HistoryInv, NEW w \in HistoryWorkers, NEW n \in RecentReads, BeginList(w, n)
  PROVE  HistoryInv'
<1> DEFINE first == IF indexed THEN "read" ELSE "rebuild"
<1>1. /\ HistoryFiles /\ HistoryTypes /\ Begins(w, "list", first, {}, {}, {n})
      /\ UNCHANGED <<kept, lines, stored, memory>>
  BY DEF HistoryInv, HistoryFiles, BeginList
<1>2. first \in {"read", "rebuild"}
  OBVIOUS
<1> HIDE DEF first
<1>3. /\ OnlyMoves(w) /\ doing[w] = AtRest /\ doing'[w] # AtRest /\ doing'[w].op = "list"
      /\ doing'[w].step = first /\ crossed' = (crossed \/ OthersBusy(w) # {})
  BY <1>1, <1>2, BeginFacts DEF HistoryOps, HistorySteps
<1>4. HistoryFiles'
  BY <1>1, BeginListFiles
<1>5. Agreed => AtWork(w)'
  <2>1. Agreed => Agreed'
    BY <1>1, <1>4, SameAgreed
  <2> QED  BY <1>2, <1>3, <2>1 DEF AtWork
<1>6. IndexInv'
  BY <1>3, <1>5, SoleBegin
<1> QED  BY <1>4, <1>6 DEF HistoryInv

LEMMA CleanUpIndex ==
  ASSUME HistoryInv, NEW old \in SUBSET RunFiles, CleanUp(old) PROVE HistoryInv'
<1>1. HistoryTypes /\ "loop" \in HistoryWorkers /\ Begins("loop", "clean", "rebuild", {}, {}, {})
  BY DEF HistoryInv, HistoryFiles, CleanUp, HistoryWorkers
<1>2. PICK w \in HistoryWorkers : w = "loop"
  BY <1>1
<1>3. Begins(w, "clean", "rebuild", {}, {}, {})
  BY <1>1, <1>2
<1>4. /\ OnlyMoves(w) /\ doing[w] = AtRest /\ doing'[w] # AtRest /\ doing'[w].op = "clean"
      /\ doing'[w].step = "rebuild" /\ crossed' = (crossed \/ OthersBusy(w) # {})
  BY <1>1, <1>3, BeginFacts DEF HistoryOps, HistorySteps
<1>5. AtWork(w)'
  BY <1>4 DEF AtWork
<1>6. IndexInv'
  BY <1>4, <1>5, SoleBegin
<1> QED  BY <1>6, CleanUpFiles DEF HistoryInv

\* A record that is new is in its file, and what it displaces is displaced.
LEMMA RecordCut ==
  ASSUME HistoryFiles, HistoryFiles', NEW w \in HistoryWorkers, StoreFile(w),
         doing[w].op = "record"
  PROVE  /\ \A r \in doing[w].which : r \in kept'[r[1]] /\ \A s \in stored' : ~Older(r, s)
         /\ \A r \in kept[TheFile(w)] : r \in kept'[TheFile(w)] \/ PushedOut(r)'
<1>1. /\ HistoryTypes /\ HistoryTypes' /\ RunsNumbered /\ RunsNumbered'
      /\ IsFiniteSet(stored) /\ Cardinality(stored) \in Nat
      /\ IsFiniteSet(stored') /\ stored' \subseteq RunRecords
  BY FS_CardinalityType DEF HistoryFiles, RunsNumbered, HistoryTypes
<1>2. PICK t \in RunFiles, loaded \in SUBSET stored : t = TheFile(w) /\ loaded = doing[w].copy
  BY <1>1, StoreFacts DEF HistoryTypes
<1>3. /\ doing[w].which = {<<t, Cardinality(stored) + 1>>} /\ stored' = stored \cup doing[w].which
      /\ kept' = [kept EXCEPT ![t] = NewestRuns(doing[w].which \cup loaded, HistoryLimit)]
      /\ kept[t] \subseteq loaded /\ \A r \in loaded : r[1] = t
  BY <1>2, StoreFacts DEF HasLoaded
<1>4. PICK new \in stored' : new = <<t, Cardinality(stored) + 1>>
  BY <1>3
<1>5. doing[w].which = {new} /\ new[1] = t /\ new[2] = Cardinality(stored) + 1
      /\ stored' = stored \cup {new}
  BY <1>3, <1>4
<1>6. kept'[t] = NewestRuns({new} \cup loaded, HistoryLimit)
  BY <1>1, <1>3, <1>5 DEF HistoryTypes
<1>7. \A s \in stored' : ~Older(new, s)
  <2>1. \A s \in stored : s[2] \in Nat /\ s[2] <= Cardinality(stored)
    BY <1>1, RecordFacts DEF RunsNumbered, HistoryTypes
  <2> QED  BY <1>1, <1>5, <2>1 DEF Older
<1>8. new \in kept'[t]
  <2>1. {s \in {new} \cup loaded : Older(new, s)} = {}
    BY <1>5, <1>7
  <2>2. Cardinality({s \in {new} \cup loaded : Older(new, s)}) < HistoryLimit
    BY <2>1, FS_EmptySet, Limits
  <2> QED  BY <1>6, <2>2 DEF NewestRuns
<1>9. ASSUME NEW r \in kept[t], r \notin kept'[t] PROVE PushedOut(r)'
  <2>1. PICK T \in SUBSET RunRecords : T = stored'
    BY <1>1
  <2> DEFINE all == {new} \cup loaded
  <2>2. /\ all \in SUBSET T /\ r \in all /\ r \notin NewestRuns(all, HistoryLimit)
        /\ \A s \in all : s[1] \in {t}
    BY <1>3, <1>5, <1>6, <1>9, <2>1
  <2> HIDE DEF all
  <2>3. HistoryLimit \in Nat /\ IsFiniteSet(T) /\ T \subseteq RunRecords
    BY <1>1, <2>1, Limits
  <2>4. NewerOf(r, T, {t}) >= HistoryLimit
    BY <2>2, <2>3, CutOff
  <2>5. r[1] = t
    BY <1>3, <1>9
  <2> QED  BY <2>1, <2>4, <2>5 DEF NewerOf, PushedOut, NewerRuns
<1> QED  BY <1>2, <1>5, <1>7, <1>8, <1>9

LEMMA StoreIndex ==
  ASSUME HistoryInv, NEW w \in HistoryWorkers, StoreFile(w) PROVE HistoryInv'
<1>1. HistoryFiles /\ HistoryTypes /\ FilesSized /\ HistoryFiles'
  BY StoreFiles DEF HistoryInv, HistoryFiles
<1>2. PICK t \in RunFiles, which \in SUBSET (RunRecords \cup RecentReads) :
        t = TheFile(w) /\ which = doing[w].which
  BY <1>1, JobFacts, StoreFacts
<1>3. /\ doing[w].step = "store" /\ HasLoaded(w, t) /\ UNCHANGED <<lines, memory, crossed>>
      /\ OnlyMoves(w) /\ doing'[w].which = which /\ doing'[w].op = doing[w].op
      /\ doing'[w].step \in {"append", "lines"} /\ stored \subseteq stored'
  BY <1>1, <1>2, StoreFacts DEF KeepsRest
<1>4. doing[w] # AtRest /\ doing'[w] # AtRest
  BY <1>3 DEF AtRest
<1>5. ASSUME ~crossed', AtWork(w) PROVE AtWork(w)'
  <2>1. LinesTrue({}) /\ FilesIndexed({}) /\ Recent /\ kept[t] = doing[w].copy
    BY <1>3, <1>5 DEF AtWork, Agreed, HasLoaded
  <2>2. Recent'
    BY <1>3, <2>1 DEF Recent, TopOf, Few
  <2>3. \A r : (PushedOut(r) => PushedOut(r)') /\ (Beyond(r) => Beyond(r)')
    BY <1>1, <1>3, StayAway
  <2>4. \A u \in RunFiles : u # t => kept'[u] = kept[u]
    BY <1>1, <1>2, StoreFacts DEF HistoryTypes
  <2>5. \A r \in lines : r[1] \in RunFiles
    BY <1>1, RecordFacts DEF HistoryTypes
  <2>6. CASE doing[w].op = "record"
    <3>1. /\ \A r \in which : r \in kept'[r[1]] /\ \A s \in stored' : ~Older(r, s)
          /\ \A r \in kept[t] : r \in kept'[t] \/ PushedOut(r)'
      BY <1>1, <1>2, <2>6, RecordCut
    <3>2. kept'[t] \subseteq which \cup kept[t] /\ doing'[w].step = "append"
      <4>1. kept'[t] = NewestRuns(which \cup doing[w].copy, HistoryLimit) /\ doing'[w].step = "append"
        BY <1>1, <1>2, <2>6, StoreFacts DEF HistoryTypes
      <4> QED  BY <2>1, <4>1 DEF NewestRuns
    <3>3. LinesTrue({})'
      BY <1>3, <2>1, <2>3, <2>4, <2>5, <3>1 DEF LinesTrue
    <3>4. FilesIndexed(doing[w].which)'
      BY <1>2, <1>3, <2>1, <2>3, <2>4, <3>2 DEF FilesIndexed
    <3> QED  BY <1>3, <2>2, <2>6, <3>1, <3>2, <3>3, <3>4 DEF AtWork
  <2>7. CASE doing[w].op # "record"
    <3>1. /\ doing[w].op = "delete" /\ kept'[t] = kept[t] \ which /\ doing'[w].step = "lines"
          /\ \A r \in which : r[1] = t
      <4>1. /\ doing[w].op = "delete" /\ \A r \in which : r[1] = t
            /\ kept' = [kept EXCEPT ![t] = doing[w].copy \ which] /\ doing'[w].step = "lines"
        BY <1>1, <1>2, <2>7, StoreFacts
      <4>2. kept \in [RunFiles -> SUBSET RunRecords]
        BY <1>1 DEF HistoryTypes
      <4> QED  BY <2>1, <4>1, <4>2
    <3>2. LinesTrue(doing[w].which)'
      BY <1>2, <1>3, <2>1, <2>3, <2>4, <2>5, <3>1 DEF LinesTrue
    <3>3. FilesIndexed({})'
      BY <1>3, <2>1, <2>3, <2>4, <3>1 DEF FilesIndexed
    <3>4. \A u \in RunFiles : kept'[u] \cap which = {}
      BY <1>1, <2>4, <3>1 DEF FilesSized
    <3> QED  BY <1>3, <2>2, <3>1, <3>2, <3>3, <3>4 DEF AtWork
  <2> QED  BY <2>6, <2>7
<1>6. IndexInv'
  BY <1>3, <1>4, <1>5, SoleStep
<1> QED  BY <1>1, <1>6 DEF HistoryInv

LEMMA AppendIndex ==
  ASSUME HistoryInv, HistoryFiles', NEW w \in HistoryWorkers, AppendLine(w) PROVE IndexInv'
<1>1. HistoryFiles /\ HistoryTypes /\ crossed \in BOOLEAN
      /\ doing[w].step = "append" /\ UNCHANGED <<kept, memory, stored>>
  BY DEF HistoryInv, HistoryFiles, HistoryTypes, AppendLine, Reached
<1>2. doing[w] # AtRest
  BY <1>1, NotAtRest
<1>3. CASE Finishes(w) /\ crossed' = TRUE
  BY <1>1, <1>2, <1>3, FinishFacts, SoleStep
<1>4. CASE lines' = lines \cup doing[w].which /\ Proceeds(w, "prepend") /\ UNCHANGED crossed
  <2>1. KeepsRest(w) /\ doing'[w].step = "prepend"
    BY <1>1, <1>4, ProceedFacts DEF HistorySteps
  <2>2. ASSUME AtWork(w) PROVE AtWork(w)'
    <3>1. PICK which : which = doing[w].which
      OBVIOUS
    <3>2. /\ LinesTrue({}) /\ FilesIndexed(which) /\ Recent
          /\ \A r \in which : r \in kept[r[1]] /\ \A s \in stored : ~Older(r, s)
      BY <1>1, <2>2, <3>1 DEF AtWork
    <3>3. \A r : (PushedOut(r) => PushedOut(r)') /\ (Beyond(r) => Beyond(r)')
      BY <1>1, StayAway
    <3>4. LinesTrue({})'
      BY <1>1, <1>4, <3>1, <3>2, <3>3 DEF LinesTrue
    <3>5. FilesIndexed({})'
      BY <1>1, <1>4, <3>1, <3>2, <3>3 DEF FilesIndexed
    <3>6. memory' \subseteq lines' /\ TopOf(which \cup memory', lines')
      <4>1. lines \subseteq stored
        BY <1>1 DEF HistoryTypes
      <4> QED  BY <1>1, <1>4, <3>1, <3>2, <4>1 DEF Recent, TopOf
    <3>7. doing'[w].which = which /\ doing'[w].op # "cache"
      <4>1. doing[w].op # "cache"
        BY <1>1, NotAtRest DEF OnCourse
      <4> QED  BY <2>1, <3>1, <4>1 DEF KeepsRest
    <3> QED  BY <2>1, <3>4, <3>5, <3>6, <3>7 DEF AtWork
  <2>3. doing'[w] # AtRest
    BY <2>1 DEF AtRest
  <2> QED  BY <1>2, <1>4, <2>1, <2>2, <2>3, SoleStep DEF KeepsRest
<1> QED  BY <1>3, <1>4 DEF AppendLine

LEMMA PrependIndex ==
  ASSUME HistoryInv, HistoryFiles', NEW w \in HistoryWorkers, Prepend(w) PROVE IndexInv'
<1>1. HistoryFiles /\ HistoryTypes /\ RunsNumbered /\ doing[w].step = "prepend"
      /\ UNCHANGED <<kept, lines, stored, crossed>>
      /\ memory' = NewestRuns(doing[w].which \cup memory, RecentLimit) /\ Proceeds(w, "trim")
  BY DEF HistoryInv, HistoryFiles, Prepend, Reached
<1>2. doing[w] # AtRest
  BY <1>1, NotAtRest
<1>3. KeepsRest(w) /\ doing'[w].step = "trim"
  BY <1>1, ProceedFacts DEF HistorySteps
<1>4. ASSUME AtWork(w) PROVE AtWork(w)'
  <2>1. LinesTrue({}) /\ FilesIndexed({}) /\ TopOf(doing[w].which \cup memory, lines)
    BY <1>1, <1>4 DEF AtWork
  <2>2. PICK T \in SUBSET stored, S \in SUBSET stored :
          T = lines /\ S = doing[w].which \cup memory
    BY <1>1 DEF HistoryTypes
  <2>3. IsFiniteSet(T) /\ T \subseteq RunRecords
    BY <1>1, CountedRuns DEF HistoryTypes
  <2>4. /\ TopOf(NewestRuns(S, RecentLimit), T)
        /\ \A r \in NewestRuns(S, RecentLimit) : Cardinality({s \in T : Older(r, s)}) < RecentLimit
    <3>1. TopOf(S, T) /\ RecentLimit \in Nat
      BY <2>1, <2>2, Limits
    <3> QED  BY <2>3, <3>1, TopNewest
  <2>5. lines' = T /\ memory' = NewestRuns(S, RecentLimit)
    BY <1>1, <2>2
  <2>6. Recent'
    BY <2>4, <2>5 DEF Recent, TopOf, Few
  <2>7. Agreed'
    BY <1>1, <2>1, <2>6, SameIndex DEF Agreed
  <2> QED  BY <1>3, <2>7 DEF AtWork
<1>5. doing'[w] # AtRest
  BY <1>3 DEF AtRest
<1> QED  BY <1>1, <1>2, <1>3, <1>4, <1>5, SoleStep DEF KeepsRest

\* The lines that a limit leaves, of runs and files that stay.
LEMMA LimitLines ==
  ASSUME HistoryFiles, NEW S \in SUBSET stored, NEW r \in S, r \notin NewestRuns(S, IndexLimit)
  PROVE  Beyond(r)
<1>1. PICK T \in SUBSET RunRecords : T = stored /\ IsFiniteSet(T)
  BY DEF HistoryFiles, HistoryTypes, RunsNumbered
<1>2. \A s \in S : s[1] \in RunFiles
  BY <1>1, RecordFacts
<1>3. NewerOf(r, T, RunFiles) >= IndexLimit
  BY <1>1, <1>2, CutOff, Limits
<1> QED  BY <1>1, <1>3 DEF NewerOf, Beyond, NewerRuns

LEMMA TrimReadIndex ==
  ASSUME HistoryInv, HistoryFiles', NEW w \in HistoryWorkers, TrimRead(w) PROVE IndexInv'
<1>1. HistoryFiles /\ HistoryTypes /\ doing[w].step = "trim"
      /\ UNCHANGED <<kept, lines, memory, stored, crossed>>
  BY DEF HistoryInv, HistoryFiles, TrimRead, Reached
<1>2. doing[w] # AtRest
  BY <1>1, NotAtRest
<1>3. AtWork(w) => Agreed'
  BY <1>1, SameAgreed DEF AtWork
<1>4. CASE Finishes(w)
  BY <1>1, <1>2, <1>3, <1>4, FinishFacts, SoleStep
<1>5. CASE ProceedsWith(w, "trimmed", NewestRuns(lines, IndexLimit))
  <2>1. PICK L \in SUBSET RunRecords : L = lines /\ L = lines'
    BY <1>1 DEF HistoryTypes
  <2>2. NewestRuns(L, IndexLimit) \in SUBSET RunRecords
    BY <2>1 DEF NewestRuns
  <2>3. KeepsRest(w) /\ doing'[w].step = "trimmed" /\ doing'[w].copy = NewestRuns(L, IndexLimit)
    BY <1>1, <1>5, <2>1, <2>2, ProceedWithFacts DEF HistorySteps
  <2>4. AtWork(w) => AtWork(w)'
    BY <1>3, <2>1, <2>3 DEF AtWork
  <2>5. doing'[w] # AtRest
    BY <2>3 DEF AtRest
  <2> QED  BY <1>1, <1>2, <2>3, <2>4, <2>5, SoleStep DEF KeepsRest
<1> QED  BY <1>4, <1>5 DEF TrimRead

LEMMA TrimWriteIndex ==
  ASSUME HistoryInv, HistoryFiles', NEW w \in HistoryWorkers, TrimWrite(w) PROVE IndexInv'
<1>1. HistoryFiles /\ HistoryTypes /\ RunsNumbered /\ doing[w].step = "trimmed"
      /\ UNCHANGED <<kept, memory, stored, crossed>> /\ lines' = doing[w].copy /\ Finishes(w)
      /\ IsFiniteSet(stored)
  BY DEF HistoryInv, HistoryFiles, TrimWrite, Reached, RunsNumbered
<1>2. doing[w] # AtRest
  BY <1>1, NotAtRest
<1>3. ASSUME AtWork(w) PROVE Agreed'
  <2>1. LinesTrue({}) /\ FilesIndexed({}) /\ Recent /\ doing[w].copy = NewestRuns(lines, IndexLimit)
    BY <1>1, <1>3 DEF AtWork, Agreed
  <2>2. PICK L \in SUBSET stored : L = lines
    BY <1>1 DEF HistoryTypes
  <2>3. lines' = NewestRuns(L, IndexLimit) /\ NewestRuns(L, IndexLimit) \subseteq L /\ IsFiniteSet(L)
    BY <1>1, <2>1, <2>2, CountedRuns DEF NewestRuns
  <2>4. \A r \in L : r \in lines' \/ Beyond(r)
    BY <1>1, <2>3, LimitLines
  <2>5. \A r : (PushedOut(r) => PushedOut(r)') /\ (Beyond(r) => Beyond(r)')
    BY <1>1, StayAway
  <2>6. LinesTrue({})'
    BY <1>1, <2>1, <2>2, <2>3, <2>5 DEF LinesTrue
  <2>7. FilesIndexed({})'
    BY <1>1, <2>1, <2>2, <2>4, <2>5 DEF FilesIndexed
  <2>8. ASSUME NEW r \in memory
        PROVE  r \in lines' /\ Cardinality({s \in lines' : Older(r, s)}) < RecentLimit
    <3>1. r \in L /\ Cardinality({s \in L : Older(r, s)}) < RecentLimit
      BY <2>1, <2>2 DEF Recent, TopOf, Few
    <3>2. PICK M \in SUBSET L : M = lines'
      BY <2>3
    <3>3. IsFiniteSet({s \in L : Older(r, s)})
      BY <2>3, FS_Subset
    <3>4. {s \in M : Older(r, s)} \subseteq {s \in L : Older(r, s)}
      OBVIOUS
    <3>5. /\ Cardinality({s \in L : Older(r, s)}) \in Nat /\ Cardinality({s \in M : Older(r, s)}) \in Nat
          /\ Cardinality({s \in M : Older(r, s)}) <= Cardinality({s \in L : Older(r, s)})
      BY <3>3, <3>4, FewerRuns
    <3>6. Cardinality({s \in L : Older(r, s)}) < IndexLimit
      BY <3>1, <3>5, Limits
    <3>7. r \in lines'
      BY <2>3, <3>1, <3>6 DEF NewestRuns
    <3>8. Cardinality({s \in M : Older(r, s)}) < RecentLimit
      BY <3>1, <3>5, Limits
    <3> QED  BY <3>2, <3>7, <3>8
  <2>9. Recent'
    <3>1. \A r \in memory, s \in lines' : Older(r, s) => s \in memory
      BY <2>1, <2>2, <2>3 DEF Recent, TopOf
    <3> QED  BY <1>1, <2>8, <3>1 DEF Recent, TopOf, Few
  <2> QED  BY <2>6, <2>7, <2>9 DEF Agreed
<1> QED  BY <1>1, <1>2, <1>3, FinishFacts, SoleStep

LEMMA LinesReadIndex ==
  ASSUME HistoryInv, HistoryFiles', NEW w \in HistoryWorkers, LinesRead(w) PROVE IndexInv'
<1>1. /\ HistoryFiles /\ HistoryTypes /\ doing[w].step = "lines"
      /\ UNCHANGED <<kept, lines, memory, stored, crossed>>
      /\ IF indexed THEN ProceedsWith(w, "rewrite", lines) ELSE Finishes(w)
  BY DEF HistoryInv, HistoryFiles, LinesRead, Reached
<1>2. doing[w] # AtRest
  BY <1>1, NotAtRest
<1>3. lines \in SUBSET RunRecords /\ (~indexed => lines = {})
  BY <1>1 DEF HistoryTypes
<1>4. CASE indexed
  <2>1. KeepsRest(w) /\ doing'[w].step = "rewrite" /\ doing'[w].copy = lines
    BY <1>1, <1>3, <1>4, ProceedWithFacts DEF HistorySteps
  <2>2. ASSUME AtWork(w) PROVE AtWork(w)'
    <3>1. PICK which : which = doing[w].which
      OBVIOUS
    <3>2. /\ LinesTrue(which) /\ FilesIndexed({}) /\ Recent
          /\ \A t \in RunFiles : kept[t] \cap which = {}
      BY <1>1, <2>2, <3>1 DEF AtWork
    <3>3. \A r : (PushedOut(r) => PushedOut(r)') /\ (Beyond(r) => Beyond(r)')
      BY <1>1, StayAway
    <3>4. doing'[w].which = which /\ doing'[w].op # "cache"
      <4>1. doing[w].op # "cache"
        BY <1>1, NotAtRest DEF OnCourse
      <4> QED  BY <2>1, <3>1, <4>1 DEF KeepsRest
    <3>5. LinesTrue(doing[w].which)'
      BY <1>1, <3>2, <3>3, <3>4 DEF LinesTrue
    <3>6. FilesIndexed({})' /\ Recent'
      BY <1>1, <3>2, SameIndex DEF Recent, TopOf, Few
    <3> QED  BY <1>1, <2>1, <3>2, <3>4, <3>5, <3>6 DEF AtWork
  <2>3. doing'[w] # AtRest
    BY <2>1 DEF AtRest
  <2> QED  BY <1>1, <1>2, <2>1, <2>2, <2>3, SoleStep DEF KeepsRest
<1>5. CASE ~indexed
  <2>1. AtWork(w) => FilesIndexed({}) /\ Recent
    BY <1>1 DEF AtWork
  <2>2. LinesTrue({})
    BY <1>3, <1>5 DEF LinesTrue
  <2>3. AtWork(w) => Agreed'
    BY <1>1, <2>1, <2>2, SameAgreed DEF Agreed
  <2> QED  BY <1>1, <1>2, <1>5, <2>3, FinishFacts, SoleStep
<1> QED  BY <1>4, <1>5

LEMMA LinesRewriteIndex ==
  ASSUME HistoryInv, HistoryFiles', NEW w \in HistoryWorkers, LinesRewrite(w) PROVE IndexInv'
<1>1. HistoryFiles /\ HistoryTypes /\ doing[w].step = "rewrite" /\ UNCHANGED <<kept, memory, stored>>
  BY DEF HistoryInv, HistoryFiles, LinesRewrite, Reached
<1>2. doing[w] # AtRest
  BY <1>1, NotAtRest
<1>3. PICK which : which = doing[w].which
  OBVIOUS
<1>4. AtWork(w) => /\ LinesTrue(which) /\ FilesIndexed({}) /\ Recent /\ doing[w].copy = lines
                   /\ \A t \in RunFiles : kept[t] \cap which = {}
  BY <1>1, <1>3 DEF AtWork
<1>5. CASE doing[w].copy \ which = doing[w].copy /\ Finishes(w) /\ UNCHANGED <<lines, crossed>>
  <2>1. ASSUME AtWork(w) PROVE Agreed'
    <3>1. lines \ which = lines /\ LinesTrue(which) /\ FilesIndexed({}) /\ Recent
      BY <1>4, <1>5, <2>1
    <3>2. LinesTrue({})
      BY <3>1 DEF LinesTrue
    <3> QED  BY <1>1, <1>5, <3>1, <3>2, SameAgreed DEF Agreed
  <2> QED  BY <1>1, <1>2, <1>5, <2>1, FinishFacts, SoleStep
<1>6. CASE lines' = doing[w].copy \ which /\ Proceeds(w, "forget") /\ UNCHANGED crossed
  <2>1. KeepsRest(w) /\ doing'[w].step = "forget"
    BY <1>1, <1>6, ProceedFacts DEF HistorySteps
  <2>2. ASSUME AtWork(w) PROVE AtWork(w)'
    <3>1. \A r : (PushedOut(r) => PushedOut(r)') /\ (Beyond(r) => Beyond(r)')
      BY <1>1, StayAway
    <3>2. lines' = lines \ which
      BY <1>4, <1>6, <2>2
    <3>3. LinesTrue({})'
      BY <1>1, <1>4, <2>2, <3>1, <3>2 DEF LinesTrue
    <3>4. FilesIndexed({})'
      BY <1>1, <1>4, <2>2, <3>1, <3>2 DEF FilesIndexed
    <3>5. doing'[w].op # "cache"
      <4>1. doing[w].op # "cache"
        BY <1>1, NotAtRest DEF OnCourse
      <4> QED  BY <2>1, <4>1 DEF KeepsRest
    <3> QED  BY <2>1, <3>3, <3>4, <3>5 DEF AtWork
  <2>3. doing'[w] # AtRest
    BY <2>1 DEF AtRest
  <2> QED  BY <1>2, <1>6, <2>1, <2>2, <2>3, SoleStep DEF KeepsRest
<1>7. CASE Finishes(w) /\ crossed' = TRUE
  BY <1>1, <1>2, <1>7, FinishFacts, SoleStep
<1> QED  BY <1>3, <1>5, <1>6, <1>7 DEF LinesRewrite

LEMMA ForgetIndex ==
  ASSUME HistoryInv, HistoryFiles', NEW w \in HistoryWorkers, Forget(w) PROVE IndexInv'
<1>1. HistoryFiles /\ HistoryTypes /\ doing[w].step = "forget" /\ memory' = {} /\ Finishes(w)
      /\ UNCHANGED <<kept, lines, stored, crossed>>
  BY DEF HistoryInv, HistoryFiles, Forget, Reached
<1>2. doing[w] # AtRest
  BY <1>1, NotAtRest
<1>3. Recent'
  BY <1>1 DEF Recent, TopOf, Few
<1>4. AtWork(w) => Agreed'
  BY <1>1, <1>3, SameIndex DEF AtWork, Agreed
<1> QED  BY <1>1, <1>2, <1>4, FinishFacts, SoleStep

LEMMA UnlinkIndex ==
  ASSUME HistoryInv, NEW w \in HistoryWorkers, Unlink(w) PROVE IndexInv'
<1>1. HistoryFiles /\ HistoryTypes /\ doing[w].files \in SUBSET RunFiles
  BY JobFacts DEF HistoryInv, HistoryFiles
<1>2. doing[w].step = "unlink" /\ crossed' = crossed /\ doing[w] # AtRest
  BY <1>1, UnlinkFacts, NotAtRest
<1>3. doing[w].op = "clear"
  BY <1>1, <1>2, NotAtRest, JobFacts DEF OnCourse, HistoryOps
<1>4. AtWork(w) => \A t \in RunFiles \ doing[w].files : kept[t] = {}
  BY <1>2 DEF AtWork
<1>5. CASE /\ doing[w].files = {} /\ lines' = {} /\ KeepsRest(w) /\ doing'[w].step = "forget"
           /\ UNCHANGED kept
  <2>1. ASSUME AtWork(w) PROVE AtWork(w)'
    <3>1. \A t \in RunFiles : kept'[t] = {}
      BY <1>4, <1>5, <2>1
    <3>2. LinesTrue({})' /\ FilesIndexed({})'
      BY <1>5, <3>1 DEF LinesTrue, FilesIndexed
    <3> QED  BY <1>3, <1>5, <3>2 DEF AtWork, KeepsRest
  <2>2. doing'[w] # AtRest
    BY <1>5 DEF AtRest
  <2>3. OnlyMoves(w) /\ crossed' \in {crossed, TRUE}
    BY <1>2, <1>5 DEF KeepsRest
  <2> QED  BY <1>2, <2>1, <2>2, <2>3, SoleStep
<1>6. ASSUME NEW t \in doing[w].files, kept' = [kept EXCEPT ![t] = {}],
             OnlyMoves(w) /\ doing'[w].op = doing[w].op /\ doing'[w].step = "unlink",
             doing'[w].files = doing[w].files \ {t}
      PROVE  IndexInv'
  <2>1. kept \in [RunFiles -> SUBSET RunRecords]
    BY <1>1 DEF HistoryTypes
  <2>2. AtWork(w) => \A u \in RunFiles \ doing'[w].files : kept'[u] = {}
    BY <1>1, <1>4, <1>6, <2>1
  <2>3. AtWork(w) => AtWork(w)'
    BY <1>3, <1>6, <2>2 DEF AtWork
  <2>4. doing'[w] # AtRest
    BY <1>6 DEF AtRest
  <2> QED  BY <1>2, <1>6, <2>3, <2>4, SoleStep
<1> QED
  <2>1. \/ \E t \in doing[w].files :
             /\ kept' = [kept EXCEPT ![t] = {}]
             /\ OnlyMoves(w) /\ doing'[w].op = doing[w].op /\ doing'[w].step = "unlink"
             /\ doing'[w].files = doing[w].files \ {t}
        \/ /\ doing[w].files = {} /\ lines' = {} /\ KeepsRest(w) /\ doing'[w].step = "forget"
           /\ UNCHANGED kept
    BY <1>1, UnlinkFacts
  <2> QED  BY <1>5, <1>6, <2>1

LEMMA RebuildReadIndex ==
  ASSUME HistoryInv, HistoryFiles', NEW w \in HistoryWorkers, RebuildRead(w) PROVE IndexInv'
<1>1. /\ HistoryTypes /\ FilesSized /\ doing[w].step = "rebuild" /\ UNCHANGED <<kept, lines>>
      /\ ProceedsWith(w, "write", NewestRuns(UNION {kept[t] : t \in RunFiles}, IndexLimit))
      /\ crossed' = (OthersBusy(w) # {})
  BY DEF HistoryInv, HistoryFiles, RebuildRead, Reached
<1>2. PICK K \in [RunFiles -> SUBSET RunRecords] : K = kept
  BY <1>1 DEF HistoryTypes
<1>3. NewestRuns(UNION {K[t] : t \in RunFiles}, IndexLimit) \in SUBSET RunRecords
  BY DEF NewestRuns
<1>4. PICK all \in SUBSET RunRecords : all = NewestRuns(UNION {K[t] : t \in RunFiles}, IndexLimit)
  BY <1>3
<1>5. ProceedsWith(w, "write", all)
  BY <1>1, <1>2, <1>4
<1>6. KeepsRest(w) /\ doing'[w].step = "write" /\ doing'[w].copy = all
  BY <1>1, <1>5, ProceedWithFacts DEF HistorySteps
<1>7. doing[w].op # "cache"
  BY <1>1, NotAtRest DEF OnCourse
<1>8. AtWork(w)'
  <2>1. kept' = K /\ all = NewestRuns(UNION {K[t] : t \in RunFiles}, IndexLimit)
    BY <1>1, <1>2, <1>4
  <2> QED  BY <1>6, <1>7, <2>1 DEF AtWork, KeepsRest
<1> SUFFICES ASSUME ~crossed'
             PROVE  /\ Alone' /\ (Resting' => Agreed')
                    /\ \A v \in HistoryWorkers : doing'[v] # AtRest => AtWork(v)'
  BY DEF IndexInv
<1>9. \A v \in HistoryWorkers : v # w => doing'[v] = AtRest
  BY <1>1, <1>6 DEF OthersBusy, KeepsRest, OnlyMoves
<1>10. doing'[w] # AtRest
  BY <1>6 DEF AtRest
<1>11. Alone' /\ ~Resting'
  BY <1>9, <1>10 DEF Alone, Resting
<1>12. ASSUME NEW v \in HistoryWorkers, doing'[v] # AtRest PROVE AtWork(v)'
  <2>1. v = w
    BY <1>9, <1>12
  <2> QED  BY <1>8, <2>1
<1> QED  BY <1>11, <1>12

LEMMA RebuildWriteIndex ==
  ASSUME HistoryInv, HistoryFiles', NEW w \in HistoryWorkers, RebuildWrite(w) PROVE IndexInv'
<1>1. /\ HistoryFiles /\ HistoryTypes /\ FilesSized /\ doing[w].step = "write"
      /\ UNCHANGED <<kept, memory, stored>>
  BY DEF HistoryInv, HistoryFiles, RebuildWrite, Reached
<1>2. doing[w] # AtRest
  BY <1>1, NotAtRest
<1>3. CASE lines' = doing[w].copy /\ Proceeds(w, "sync") /\ UNCHANGED crossed
  <2>1. KeepsRest(w) /\ doing'[w].step = "sync" /\ doing'[w].copy = doing[w].copy
    BY <1>1, <1>3, ProceedFacts DEF HistorySteps
  <2>2. ASSUME AtWork(w) PROVE AtWork(w)'
    <3>1. PICK all \in SUBSET stored : all = UNION {kept[t] : t \in RunFiles}
      BY <1>1 DEF FilesSized
    <3>2. lines' = NewestRuns(all, IndexLimit) /\ lines' \subseteq all
      BY <1>1, <1>3, <2>2, <3>1 DEF AtWork, NewestRuns
    <3>3. \A r \in all : r \in lines' \/ Beyond(r)
      BY <1>1, <3>2, LimitLines
    <3>4. \A r : (PushedOut(r) => PushedOut(r)') /\ (Beyond(r) => Beyond(r)')
      BY <1>1, StayAway
    <3>5. LinesTrue({})'
      <4>1. \A r \in all : r \in kept[r[1]]
        BY <1>1, <3>1 DEF FilesSized
      <4> QED  BY <1>1, <3>2, <4>1 DEF LinesTrue
    <3>6. FilesIndexed({})'
      <4>1. \A t \in RunFiles : \A r \in kept[t] : r \in all
        BY <3>1
      <4> QED  BY <1>1, <3>3, <3>4, <4>1 DEF FilesIndexed
    <3>7. TopOf(doing'[w].copy, lines')
      BY <1>3, <2>1 DEF TopOf
    <3>8. doing'[w].op # "cache"
      <4>1. doing[w].op # "cache"
        BY <1>1, NotAtRest DEF OnCourse
      <4> QED  BY <2>1, <4>1 DEF KeepsRest
    <3> QED  BY <2>1, <3>5, <3>6, <3>7, <3>8 DEF AtWork
  <2>3. doing'[w] # AtRest
    BY <2>1 DEF AtRest
  <2> QED  BY <1>2, <1>3, <2>1, <2>2, <2>3, SoleStep DEF KeepsRest
<1>4. CASE Finishes(w) /\ crossed' = TRUE
  BY <1>1, <1>2, <1>4, FinishFacts, SoleStep
<1>5. CASE Proceeds(w, "read") /\ crossed' = TRUE
  <2>1. OnlyMoves(w)
    BY <1>1, <1>5, ProceedFacts DEF HistorySteps, KeepsRest
  <2> QED  BY <1>2, <1>5, <2>1, SoleStep
<1> QED  BY <1>3, <1>4, <1>5 DEF RebuildWrite

LEMMA ReadRecentIndex ==
  ASSUME HistoryInv, HistoryFiles', NEW w \in HistoryWorkers, ReadRecent(w) PROVE IndexInv'
<1>1. HistoryFiles /\ HistoryTypes /\ RunsNumbered /\ doing[w].step = "read"
      /\ UNCHANGED <<kept, lines, memory, stored, crossed>>
  BY DEF HistoryInv, HistoryFiles, ReadRecent, Reached
<1>2. doing[w] # AtRest
  BY <1>1, NotAtRest
<1>3. AtWork(w) => Agreed'
  BY <1>1, SameAgreed DEF AtWork
<1>4. doing[w].which \subseteq Nat
  <2>1. doing[w].op = "list"
    BY <1>1, NotAtRest, JobFacts DEF OnCourse, HistoryOps
  <2> QED  BY <1>1, <2>1, NotAtRest, Limits DEF OnCourse
<1>5. CASE Finishes(w)
  BY <1>1, <1>2, <1>3, <1>5, FinishFacts, SoleStep
<1>6. ASSUME NEW n \in doing[w].which,
             doing' = [doing EXCEPT ![w].step = "sync", ![w].op = "cache",
                                    ![w].copy = NewestRuns(lines, n)]
      PROVE  IndexInv'
  <2>1. PICK L \in SUBSET stored : L = lines
    BY <1>1 DEF HistoryTypes
  <2>2. PICK newest \in SUBSET RunRecords : newest = NewestRuns(L, n)
    BY <1>1, <2>1 DEF NewestRuns, HistoryTypes
  <2>3. OnlyMoves(w) /\ doing'[w].step = "sync" /\ doing'[w].copy = newest
    <3>1. doing' = [doing EXCEPT ![w].step = "sync", ![w].op = "cache", ![w].copy = newest]
      BY <1>6, <2>1, <2>2
    <3> QED  BY <1>1, <3>1, CacheFacts
  <2>4. TopOf(newest, L)
    <3>1. IsFiniteSet(L) /\ L \subseteq RunRecords
      BY <1>1, CountedRuns DEF HistoryTypes
    <3>2. TopOf(L, L)
      BY DEF TopOf
    <3> QED  BY <1>4, <1>6, <2>2, <3>1, <3>2, TopNewest
  <2>5. lines' = L
    BY <1>1, <2>1
  <2>6. AtWork(w) => AtWork(w)'
    BY <1>3, <2>3, <2>4, <2>5 DEF AtWork, Agreed
  <2>7. doing'[w] # AtRest
    BY <2>3 DEF AtRest
  <2> QED  BY <1>1, <1>2, <2>3, <2>6, <2>7, SoleStep
<1> QED  BY <1>5, <1>6 DEF ReadRecent

LEMMA SyncMemoryIndex ==
  ASSUME HistoryInv, HistoryFiles', NEW w \in HistoryWorkers, SyncMemory(w) PROVE IndexInv'
<1>1. /\ HistoryFiles /\ HistoryTypes /\ RunsNumbered /\ doing[w].step = "sync"
      /\ UNCHANGED <<kept, lines, stored, crossed>>
      /\ memory' = NewestRuns(doing[w].copy, RecentLimit)
      /\ IF doing[w].op = "list" THEN Proceeds(w, "read") ELSE Finishes(w)
  BY DEF HistoryInv, HistoryFiles, SyncMemory, Reached
<1>2. doing[w] # AtRest
  BY <1>1, NotAtRest
<1>3. ASSUME AtWork(w) PROVE Agreed'
  <2>1. LinesTrue({}) /\ FilesIndexed({}) /\ TopOf(doing[w].copy, lines)
    BY <1>1, <1>3 DEF AtWork
  <2>2. PICK T \in SUBSET stored, S \in SUBSET stored : T = lines /\ S = doing[w].copy
    BY <1>1 DEF HistoryTypes
  <2>3. IsFiniteSet(T) /\ T \subseteq RunRecords
    BY <1>1, CountedRuns DEF HistoryTypes
  <2>4. TopOf(S, T) /\ RecentLimit \in Nat
    BY <2>1, <2>2, Limits
  <2>5. /\ TopOf(NewestRuns(S, RecentLimit), T)
        /\ \A r \in NewestRuns(S, RecentLimit) : Cardinality({s \in T : Older(r, s)}) < RecentLimit
    BY <2>3, <2>4, TopNewest
  <2>6. lines' = T /\ memory' = NewestRuns(S, RecentLimit)
    BY <1>1, <2>2
  <2>7. Recent'
    BY <2>5, <2>6 DEF Recent, TopOf, Few
  <2> QED  BY <1>1, <2>1, <2>7, SameIndex DEF Agreed
<1>4. CASE Finishes(w)
  BY <1>1, <1>2, <1>3, <1>4, FinishFacts, SoleStep
<1>5. CASE doing[w].op = "list" /\ Proceeds(w, "read")
  <2>1. KeepsRest(w) /\ doing'[w].step = "read"
    BY <1>1, <1>5, ProceedFacts DEF HistorySteps
  <2>2. AtWork(w) => AtWork(w)'
    BY <1>3, <1>5, <2>1 DEF AtWork
  <2>3. doing'[w] # AtRest
    BY <2>1 DEF AtRest
  <2> QED  BY <1>1, <1>2, <2>1, <2>2, <2>3, SoleStep DEF KeepsRest
<1> QED  BY <1>1, <1>4, <1>5

LEMMA CrashIndex ==
  ASSUME HistoryInv, HistoryCrash PROVE HistoryInv'
<1>1. HistoryFiles /\ HistoryFiles' /\ HistoryTypes
  BY CrashFiles DEF HistoryInv, HistoryFiles
<1>2. /\ \A w \in HistoryWorkers : doing'[w] = AtRest
      /\ memory' = {} /\ UNCHANGED <<kept, lines, stored>>
      /\ crossed' = (crossed \/ \E w \in HistoryWorkers : doing[w] # AtRest)
  BY DEF HistoryCrash
<1>3. Recent'
  BY <1>2 DEF Recent, TopOf, Few
<1>4. ~crossed' => Agreed'
  <2> SUFFICES ASSUME ~crossed' PROVE Agreed'
    OBVIOUS
  <2>1. ~crossed /\ Resting
    BY <1>2 DEF Resting
  <2>2. Agreed
    BY <2>1 DEF HistoryInv, IndexInv
  <2> QED  BY <1>1, <1>2, <1>3, <2>2, SameIndex DEF Agreed
<1>5. IndexInv'
  BY <1>2, <1>4 DEF IndexInv, Alone
<1> QED  BY <1>1, <1>5 DEF HistoryInv

LEMMA HistoryStepInv ==
  ASSUME HistoryInv, NEW w \in HistoryWorkers, HistoryStep(w) PROVE HistoryInv'
<1>1. IndexStep(w) => HistoryFiles'
  BY IndexFiles DEF HistoryInv
<1>2. IndexStep(w) => IndexInv'
  BY <1>1, AppendIndex, PrependIndex, TrimReadIndex, TrimWriteIndex, LinesReadIndex,
     LinesRewriteIndex, ForgetIndex, RebuildReadIndex, RebuildWriteIndex, ReadRecentIndex,
     SyncMemoryIndex DEF IndexStep
<1>3. IndexStep(w) => HistoryInv'
  BY <1>1, <1>2 DEF HistoryInv
<1>4. StoreFile(w) \/ IndexStep(w) \/ Unlink(w)
  BY DEF HistoryStep, IndexStep
<1>5. Unlink(w) => HistoryInv'
  BY UnlinkFiles, UnlinkIndex DEF HistoryInv
<1> QED  BY <1>3, <1>4, <1>5, StoreIndex

\* Nothing happens: all is as it was.
LEMMA HistoryStutter ==
  ASSUME HistoryInv, UNCHANGED historyVars PROVE HistoryInv'
<1>1. UNCHANGED <<kept, fileLock, lines, indexed, memory, doing, stored, gone, crossed>>
  BY DEF historyVars
<1>2. HistoryFiles'
  BY <1>1 DEF HistoryInv, HistoryFiles, HistoryTypes, OnCourse, RunsNumbered, FilesSized, Loaded,
              HasLoaded, RecordsKept, NewerRuns
<1>3. \A r : (PushedOut(r)' <=> PushedOut(r)) /\ (Beyond(r)' <=> Beyond(r))
  BY <1>1 DEF PushedOut, Beyond, NewerRuns
<1>4. Agreed => Agreed'
  BY <1>1, <1>2, SameAgreed DEF HistoryInv
<1>5. ASSUME NEW w \in HistoryWorkers, AtWork(w) PROVE AtWork(w)'
  BY <1>1, <1>3, <1>4, <1>5 DEF AtWork, LinesTrue, FilesIndexed, Recent, TopOf, Few
<1>6. IndexInv'
  BY <1>1, <1>4, <1>5 DEF HistoryInv, IndexInv, Alone, Resting
<1> QED  BY <1>2, <1>6 DEF HistoryInv

LEMMA HistoryInvStep ==
  ASSUME HistoryInv, [HistoryNext]_historyVars PROVE HistoryInv'
<1>1. CASE \E t \in RunFiles : BeginRecord(t)
  BY <1>1, BeginRecordIndex
<1>2. CASE \E w \in HistoryPool :
             \/ \E r \in RunRecords : BeginDelete(w, r)
             \/ \E t \in RunFiles : BeginClearAccount(w, t)
             \/ BeginClear(w)
  BY <1>2, BeginDeleteIndex, BeginClearAccountIndex, BeginClearIndex
<1>3. CASE \E old \in SUBSET RunFiles : CleanUp(old)
  BY <1>3, CleanUpIndex
<1>4. CASE \E w \in HistoryWorkers : (\E n \in RecentReads : BeginList(w, n)) \/ HistoryStep(w)
  BY <1>4, BeginListIndex, HistoryStepInv
<1>5. CASE HistoryCrash
  BY <1>5, CrashIndex
<1>6. CASE UNCHANGED historyVars
  BY <1>6, HistoryStutter
<1> QED  BY <1>1, <1>2, <1>3, <1>4, <1>5, <1>6 DEF HistoryNext

LEMMA HistoryInvInit == HistoryInit => HistoryInv
<1> SUFFICES ASSUME HistoryInit PROVE HistoryInv
  OBVIOUS
<1>1. /\ kept = [t \in RunFiles |-> {}] /\ lines = {} /\ memory = {}
      /\ doing = [w \in HistoryWorkers |-> AtRest]
  BY DEF HistoryInit
<1>2. Agreed
  BY <1>1 DEF Agreed, LinesTrue, FilesIndexed, Recent, TopOf, Few
<1>3. IndexInv
  BY <1>1, <1>2 DEF IndexInv, Alone
<1> QED  BY <1>3, HistoryFilesInit DEF HistoryInv

\* The invariant says what is claimed of files, index and cache.
LEMMA HistoryInvImplies == HistoryInv => HistoryTypeOK /\ HistoryIsKept
<1> SUFFICES ASSUME HistoryInv PROVE HistoryTypeOK /\ HistoryIsKept
  OBVIOUS
<1>1. HistoryFiles /\ HistoryTypes /\ FilesSized /\ RecordsKept
  BY DEF HistoryInv, HistoryFiles
<1>2. ASSUME NEW t \in RunFiles
      PROVE  Cardinality(kept[t]) <= HistoryLimit /\ kept[t] \subseteq {t} \X (1..MaxHistoryRuns)
  <2>1. kept[t] \in SUBSET RunRecords
    BY <1>1 DEF HistoryTypes
  <2> QED  BY <1>1, <2>1 DEF FilesSized, RunRecords
<1>3. HistoryTypeOK
  BY <1>1, <1>2 DEF HistoryTypeOK, HistoryTypes
<1>4. IndexAgrees
  <2> SUFFICES ASSUME ~crossed, Resting
               PROVE  /\ \A r \in lines :
                           r \in kept[r[1]] \/ NewerRuns(r, {r[1]}) >= HistoryLimit
                      /\ \A t \in RunFiles : \A r \in kept[t] :
                           r \in lines \/ NewerRuns(r, RunFiles) >= IndexLimit
                      /\ memory \subseteq lines
    BY DEF IndexAgrees, Resting
  <2>1. Agreed
    BY DEF HistoryInv, IndexInv
  <2> QED  BY <2>1 DEF Agreed, LinesTrue, FilesIndexed, PushedOut, Beyond, Recent, TopOf
<1> QED  BY <1>1, <1>3, <1>4 DEF HistoryIsKept

LEMMA HistoryInvAlways == HistorySpec => []HistoryInv
<1>1. HistoryInv /\ [HistoryNext]_historyVars => HistoryInv'
  BY HistoryInvStep
<1> QED  BY <1>1, HistoryInvInit, PTL DEF HistorySpec

\* Files, index, cache and threads keep their types (SignTaskHistoryStore and
\* SignTaskHistoryIndex).
THEOREM HistoryTyped == HistorySpec => []HistoryTypeOK
BY HistoryInvAlways, HistoryInvImplies, PTL

\* Whatever threads overlap in record_run, delete_history_entry and clear_history, a run that
\* was recorded is in its file until it is removed or displaced; and where operations came one
\* after the other, or did so since a rebuild, files, index lines and cache agree.
THEOREM HistoryKept == HistorySpec => []HistoryIsKept
BY HistoryInvAlways, HistoryInvImplies, PTL
=============================================================================
