--------------------------- MODULE BackupRestore ---------------------------
(***************************************************************************)
(* The online restore of a backup (import_backup_archive and               *)
(* _activate_staged_restore of backend/api/routes/ops.py): the archive is  *)
(* unpacked into a staging directory, the other requests are waited for,   *)
(* the services stopped, the data directory swapped for the staged one and *)
(* the services started over it; whatever fails is rolled back.            *)
(*                                                                         *)
(* Where the parent can be written the swap is two renames.  Where the     *)
(* data directory is a mount point its entries are moved one by one.  The  *)
(* process may stop between any two of these steps.                        *)
(* An entry is a pair of the generation it comes from and its name; what   *)
(* running services write into the directory is left out.                  *)
(***************************************************************************)
EXTENDS Naturals, Sequences, FiniteSets

CONSTANTS
  DataNames,     \* names of the entries of the data directory
  ArchiveNames,  \* names of the entries of the archive
  MaxRequests    \* requests served at a time (a bound)

ASSUME BackupAssumption ==
  /\ IsFiniteSet(DataNames) /\ IsFiniteSet(ArchiveNames) /\ ArchiveNames # {}
  /\ MaxRequests \in Nat \ {0}

OldData == {"old"} \X DataNames
NewData == {"new"} \X ArchiveNames

VARIABLES
  renames,     \* _can_rename_parent: the swap is two renames
  place,       \* the entries in the data, staging, old and failed directories
  running,     \* the producers that run
  maintenance, \* _restore_maintenance
  requests,    \* _active_restore_requests, the restoring one included
  swap,        \* what _activate_staged_restore is doing
  position,    \* its position among the services to stop or start
  moved,       \* its variable of that name
  healthy      \* its variable of that name
backupVars == <<renames, place, running, maintenance, requests, swap, position, moved,
                healthy>>

Directories == {"data", "staging", "aside", "failed"}
\* "jobs" stands for the scheduler and for the admission of sign runs, "runs" for
\* what they have under way.
StopOrder == <<"jobs", "chatops", "monitor", "runs", "stores">>
StartOrder == <<"stores", "monitor", "chatops", "jobs">>
Services == {StartOrder[i] : i \in DOMAIN StartOrder}

Stopping == {"stop", "undoStop"}
Starting == {"start", "reopen"}
\* "lost" is a rollback that failed, "down" a process that has stopped.
Swaps == {"none", "staged", "wait", "away", "install", "undoAway", "undoInstall", "clean",
          "done", "lost", "down"} \cup Stopping \cup Starting

BackupInit ==
  /\ renames \in BOOLEAN
  /\ place = [d \in Directories |-> IF d = "data" THEN OldData ELSE {}]
  /\ running = Services
  /\ maintenance = FALSE
  /\ requests = 0
  /\ swap = "none"
  /\ position = 1
  /\ moved = FALSE
  /\ healthy = TRUE

SwapStep(from, to) == swap = from /\ swap' = to
RestoreKeeps == UNCHANGED <<renames, moved, healthy>>

-----------------------------------------------------------------------------
(* The other requests, and the producers *)

\* restore_maintenance_gate refuses during the maintenance; it does not await
\* between the check and the count.
Admits == ~maintenance /\ requests < MaxRequests

RequestBegins == Admits /\ requests' = requests + 1
                 /\ UNCHANGED <<place, running, maintenance, swap, position>> /\ RestoreKeeps

Restoring == swap \notin {"none", "done", "lost", "down"}
RequestEnds == requests > (IF Restoring THEN 1 ELSE 0) /\ requests' = requests - 1
               /\ UNCHANGED <<place, running, maintenance, swap, position>> /\ RestoreKeeps

RunBegins == "jobs" \in running /\ running' = running \cup {"runs"}
             /\ UNCHANGED <<place, maintenance, requests, swap, position>> /\ RestoreKeeps
RunEnds == "runs" \in running /\ running' = running \ {"runs"}
           /\ UNCHANGED <<place, maintenance, requests, swap, position>> /\ RestoreKeeps

-----------------------------------------------------------------------------
(* From the upload to the stop of the services *)

\* import_backup_archive: the archive is unpacked and validated, or refused with no
\* more than a staging directory to remove.
StageArchive ==
  /\ SwapStep("none", "staged")
  /\ Admits /\ requests' = requests + 1
  /\ place' = [place EXCEPT !["staging"] = NewData]
  /\ UNCHANGED <<running, maintenance, position>> /\ RestoreKeeps

\* The file lock is free: another import that is still unpacking is a request here.
BeginRestore ==
  /\ SwapStep("staged", "wait")
  /\ maintenance' = TRUE
  /\ UNCHANGED <<place, running, requests, position>> /\ RestoreKeeps

OtherRequestsEnded ==
  /\ SwapStep("wait", "stop")
  /\ requests <= 1
  /\ healthy' = FALSE /\ position' = 1
  /\ UNCHANGED <<renames, moved, place, running, maintenance, requests>>

\* The request of the restore ends and its handler removes what is left in staging.
LeaveWith(s) ==
  /\ swap' = s /\ requests' = requests - 1
  /\ maintenance' = (s = "lost")
  /\ UNCHANGED <<renames, moved>>
ClearStaging == place' = [place EXCEPT !["staging"] = {}]

\* 30 seconds, or the cancellation of the request.
WaitFails ==
  /\ swap = "wait" /\ LeaveWith("done")
  /\ ClearStaging
  /\ UNCHANGED <<running, position, healthy>>

\* What follows an exception: a rollback needs the swap to have begun, and the
\* services are started again in any case.
Handler == IF moved THEN "undoStop" ELSE "reopen"
HandleException == swap' = Handler /\ position' = 1 /\ UNCHANGED <<requests, maintenance>> /\ RestoreKeeps
\* An exception inside the handler leaves the maintenance on.
RollbackFails ==
  /\ LeaveWith("lost") /\ ClearStaging /\ UNCHANGED <<position, healthy>>

-----------------------------------------------------------------------------
(* The services *)

AfterStop == IF swap = "stop" THEN "away" ELSE "undoAway"

StopService ==
  /\ swap \in Stopping
  /\ running' = running \ {StopOrder[position]}
  /\ IF position < Len(StopOrder) THEN position' = position + 1 /\ UNCHANGED swap
                                  ELSE position' = 1 /\ swap' = AfterStop
  /\ UNCHANGED <<place, maintenance, requests>> /\ RestoreKeeps

\* The first two calls of the stop do not await.
StopFails ==
  /\ position > 1 /\ UNCHANGED running
  /\ \/ swap = "stop" /\ HandleException /\ UNCHANGED place
     \/ swap = "undoStop" /\ RollbackFails

\* The last service is the scheduler; with it the restore is healthy, and a rollback
\* ends the request.
StartService ==
  /\ swap \in Starting
  /\ running' = running \cup {StartOrder[position]}
  /\ IF position < Len(StartOrder)
     THEN /\ position' = position + 1
          /\ UNCHANGED <<swap, place, maintenance, requests>> /\ RestoreKeeps
     ELSE /\ position' = 1 /\ healthy' = TRUE
          /\ \/ swap = "start" /\ swap' = "clean"
                /\ UNCHANGED <<renames, moved, place, maintenance, requests>>
             \/ swap = "reopen" /\ LeaveWith("done") /\ ClearStaging

\* The schema, the probe of the database, the synchronisation of the jobs, or the
\* restart of the monitor after it has registered its handlers.
StartFails ==
  /\ position \in {1, 2}
  /\ running' \in {running, running \cup {StartOrder[position]}}
  /\ \/ swap = "start" /\ HandleException /\ UNCHANGED place
     \/ swap = "reopen" /\ RollbackFails

-----------------------------------------------------------------------------
(* The directories *)

Rename(from, to) == place' = [place EXCEPT ![to] = place[from], ![from] = {}]
\* One round of _swap_dir_contents: an entry replaces the one of its name.
MoveEntry(from, to) ==
  \E e \in place[from] :
    place' = [place EXCEPT ![from] = @ \ {e},
                           ![to] = {f \in @ : f[2] # e[2]} \cup {e}]

SwapOf(s) ==
  CASE s = "away" -> [from |-> "data", to |-> "aside", then |-> "install"]
    [] s = "install" -> [from |-> "staging", to |-> "data", then |-> "start"]
    [] s = "undoAway" -> [from |-> "data", to |-> "failed", then |-> "undoInstall"]
    [] s = "undoInstall" -> [from |-> "aside", to |-> "data", then |-> "reopen"]
Moving == {"away", "install", "undoAway", "undoInstall"}

\* (seeded fault) the rollback is armed before the first entry is moved
MovedEarly == moved' = (moved \/ swap = "away")

\* moved is set when the first of the swaps is complete.
MarksMoved == moved' = (moved \/ swap' = "install")

MoveData ==
  /\ swap \in Moving
  /\ LET m == SwapOf(swap) IN
     \/ renames /\ Rename(m.from, m.to) /\ swap' = m.then
     \/ ~renames /\ MoveEntry(m.from, m.to) /\ UNCHANGED swap
     \/ ~renames /\ place[m.from] = {} /\ swap' = m.then /\ UNCHANGED place
  /\ MarksMoved
  /\ UNCHANGED <<renames, healthy, running, maintenance, requests, position>>

MoveFails ==
  /\ UNCHANGED running
  /\ \/ swap \in {"away", "install"} /\ HandleException /\ UNCHANGED place
     \/ swap \in {"undoAway", "undoInstall"} /\ RollbackFails

\* The old directory, and what a swap by entries has left of the staging directory,
\* are removed; then the maintenance ends and the request with it.
RemoveOld ==
  /\ swap = "clean" /\ LeaveWith("done")
  /\ place' = [place EXCEPT !["aside"] = {}, !["staging"] = {}]
  /\ UNCHANGED <<running, position, healthy>>

-----------------------------------------------------------------------------

\* The process stops and a new one starts over the directories as they are: nothing
\* reads the directories of a restore.
CrashDuringRestore ==
  /\ Restoring \/ swap = "lost"
  /\ swap' = "down" /\ requests' = 0 /\ maintenance' = FALSE /\ position' = 1
  /\ running' = Services
  /\ UNCHANGED place /\ RestoreKeeps

BackupNext ==
  \/ RequestBegins \/ RequestEnds \/ RunBegins \/ RunEnds
  \/ StageArchive \/ BeginRestore \/ OtherRequestsEnded \/ WaitFails
  \/ StopService \/ StopFails \/ StartService \/ StartFails
  \/ MoveData \/ MoveFails \/ RemoveOld
  \/ CrashDuringRestore

BackupSpec == BackupInit /\ [][BackupNext]_backupVars

-----------------------------------------------------------------------------
(* Properties *)

\* Requests, positions and places have their types.
BackupTypeOK ==
  /\ renames \in BOOLEAN /\ maintenance \in BOOLEAN /\ moved \in BOOLEAN /\ healthy \in BOOLEAN
  /\ place \in [Directories -> SUBSET (OldData \cup NewData)]
  /\ running \subseteq Services \cup {"runs"}
  /\ requests \in 0..MaxRequests
  /\ swap \in Swaps
  /\ position \in 1..Len(StopOrder)

\* Entries of the data directory are moved while nobody has it open: no producer and
\* no sign run is left, no other request is served and none is let in.
QuietWhileMoving ==
  swap \in Moving => running = {} /\ requests <= 1 /\ maintenance

\* A swap by entries that fails before the data directory is empty: the services are
\* started over the rest and the maintenance ends (see README).
HalfMoved == ~renames /\ ~moved /\ place["aside"] # {}

\* Whenever requests are served again the data directory is the old or the new one as
\* a whole, and every service runs, whatever failed on the way.
WholeWhenServed ==
  ~maintenance /\ swap # "down" =>
    /\ place["data"] \in {OldData, NewData} \/ HalfMoved
    /\ Services \subseteq running

\* Until the services run over the new data every entry of the old is in the data
\* directory or in the old one, also when the process stops or the rollback fails.
OldDataKept ==
  \/ OldData \subseteq place["data"] \cup place["aside"]
  \/ place["data"] = NewData /\ swap \in {"clean", "done", "down"}

\* A restore replaces the data as a whole or not at all (_activate_staged_restore).
RestoreIsSafe == QuietWhileMoving /\ WholeWhenServed /\ OldDataKept

\* (does not hold) WholeWhenServed without its exception.
NeverHalfMoved == ~maintenance /\ swap # "down" => place["data"] \in {OldData, NewData}
=============================================================================
