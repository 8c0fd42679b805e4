---------------------------- MODULE AccountChange ----------------------------
(***************************************************************************)
(* The files of one account while it is renamed or deleted                 *)
(* (apply_account_change_plan of account_lifecycle.py): every path is      *)
(* copied to a staging directory before it is moved, written or removed;   *)
(* an error rolls everything back from there, and the process may die      *)
(* between any two steps.  KeywordMonitor has the locks and the listeners  *)
(* around this change, here is what happens inside its one step.           *)
(***************************************************************************)
EXTENDS Naturals, FiniteSets

CONSTANTS
  SessionFiles,  \* session, avatar and sidecar files named after the account
  OwnTasks,      \* task directories inside the directory of the account
  SharedTasks,   \* configurations elsewhere that name the account
  Histories      \* history files of the account

Dir == "directory"  \* signs/<account>, with the directories of its tasks
Items == SessionFiles \cup OwnTasks \cup SharedTasks \cup Histories
Units == Items \cup {Dir}
Within(u) == IF u = Dir THEN OwnTasks ELSE {u}

\* The kinds lie in directories of their own.
ASSUME ChangeAssumption ==
  /\ Dir \notin Items
  /\ SessionFiles \cap (OwnTasks \cup SharedTasks \cup Histories) = {}
  /\ OwnTasks \cap (SharedTasks \cup Histories) = {}
  /\ SharedTasks \cap Histories = {}

VARIABLES
  operation,  \* "rename", "delete", or "purge": delete with its history
  disk,       \* what is at the old and at the new path of each item
  staged,     \* the paths copied to the staging directory, with the contents
  created,    \* the paths whose destination is in created
  phase, todo,
  torn,       \* the path that write_text has truncated and not filled yet
  taken       \* destinations that somebody else has taken since the plan
changeVars == <<operation, disk, staged, created, phase, todo, torn, taken>>

ChangeInit ==
  /\ operation \in {"rename", "delete", "purge"}
  /\ disk = [i \in Items |-> [old |-> "original", new |-> "none"]]
  /\ staged = [u \in {} |-> <<>>] /\ created = {}
  /\ phase = "stopping" /\ todo = {} /\ torn = {} /\ taken = {}

Snapped == DOMAIN staged
CopyOf(u) == [i \in Within(u) |-> disk[i].old]
Forward == {"files", "configs", "directory", "history"}
Gone == {"done", "restored", "kept", "crashed"}

\* The new path of a unit is free (dest.exists).
DestinationFree(u) == Within(u) \cap taken = {}

\* What a phase goes over, and the one after it.
Work(p) ==
  CASE p = "files" -> SessionFiles
    [] p = "configs" -> OwnTasks \cup SharedTasks
    [] p = "directory" -> IF operation = "rename" THEN {Dir} ELSE {}
    [] p = "history" -> IF operation = "delete" THEN {} ELSE Histories
    [] OTHER -> {}
Following(p) ==
  CASE p = "stopping" -> "files" [] p = "files" -> "configs"
    [] p = "configs" -> "directory" [] p = "directory" -> "history"
    [] p = "history" -> "syncing"

\* A phase is over.  While the listeners are stopped and the client is closed,
\* others run: a destination may be taken.
NextPhase ==
  /\ phase \in Forward \cup {"stopping"}
  /\ todo = {} /\ torn = {}
  /\ phase' = Following(phase) /\ todo' = Work(Following(phase))
  /\ UNCHANGED <<operation, disk, staged, created, torn, taken>>

DestinationTaken(u) ==
  /\ phase = "stopping" /\ DestinationFree(u) /\ u \notin SharedTasks
  /\ taken' = taken \cup Within(u)
  /\ disk' = [i \in Items |-> IF i \in Within(u) THEN [disk[i] EXCEPT !.new = "other"]
                                                 ELSE disk[i]]
  /\ UNCHANGED <<operation, staged, created, phase, todo, torn>>

-----------------------------------------------------------------------------
(* Going forward *)

Snapshot(u) ==
  /\ phase \in Forward /\ u \in todo \ Snapped /\ torn = {}
  /\ staged' = [v \in Snapped \cup {u} |-> IF v = u THEN CopyOf(u) ELSE staged[v]]
  /\ UNCHANGED <<operation, disk, created, phase, todo, torn, taken>>

Ready(u) == phase \in Forward /\ u \in todo \cap Snapped

Moves(u) == operation = "rename" /\ u \notin SharedTasks \cup OwnTasks
Removes(u) == operation # "rename" /\ u \notin SharedTasks

Move(u) ==
  /\ Moves(u) /\ Ready(u) /\ torn = {} /\ DestinationFree(u)
  /\ created' = created \cup {u}
  /\ disk' = [i \in Items |-> IF i \in Within(u)
                THEN [old |-> "none", new |-> disk[i].old] ELSE disk[i]]
  /\ torn' = IF u \in Histories THEN {u} ELSE {}  \* its entries are rewritten next
  /\ todo' = todo \ {u}
  /\ UNCHANGED <<operation, staged, phase, taken>>

RemoveItem(u) ==
  /\ Removes(u) /\ Ready(u) /\ torn = {}
  /\ disk' = [disk EXCEPT ![u].old = "none"]
  /\ todo' = todo \ {u}
  /\ UNCHANGED <<operation, staged, created, phase, torn, taken>>

\* write_text truncates the file before it writes.
Truncate(u) ==
  /\ ~Moves(u) /\ ~Removes(u) /\ Ready(u) /\ torn = {}
  /\ torn' = {u} /\ todo' = todo \ {u}
  /\ disk' = [disk EXCEPT ![u].old = "torn"]
  /\ UNCHANGED <<operation, staged, created, phase, taken>>

Write(u) ==
  /\ phase \in Forward /\ torn = {u} /\ torn' = {}
  /\ disk' = IF u \in Histories THEN [disk EXCEPT ![u].new = "edited"]
                                ELSE [disk EXCEPT ![u].old = "edited"]
  /\ UNCHANGED <<operation, staged, created, phase, todo, taken>>

\* The profile is renamed or deleted, the result is validated, the index rebuilt,
\* and the jobs and listeners start again under the new name.
Apply ==
  /\ phase = "syncing" /\ phase' = "done"
  /\ staged' = [u \in {} |-> <<>>]
  /\ UNCHANGED <<operation, disk, created, todo, torn, taken>>

-----------------------------------------------------------------------------
(* Rolling back *)

\* Any statement may raise; a destination that is taken does.
Raise ==
  /\ phase \in Forward \cup {"stopping", "syncing"}
  /\ phase' = "removing" /\ todo' = created /\ torn' = {}
  /\ UNCHANGED <<operation, disk, staged, created, taken>>

RemoveCreated(u) ==
  /\ phase = "removing" /\ u \in todo
  /\ disk' = [i \in Items |-> IF i \in Within(u) THEN [disk[i] EXCEPT !.new = "none"]
                                                 ELSE disk[i]]
  /\ todo' = todo \ {u}
  /\ UNCHANGED <<operation, staged, created, phase, torn, taken>>

StartRestoring ==
  /\ phase = "removing" /\ todo = {}
  /\ phase' = "restoring" /\ todo' = Snapped
  /\ UNCHANGED <<operation, disk, staged, created, torn, taken>>

\* (seeded fault) the copies are restored in any order
MayRestoreAny(u) == u \in todo

\* Shorter paths first: the copy of the directory was made after its
\* configurations had been edited.
MayRestore(u) == u \in todo /\ (Dir \in todo => u = Dir)

Restore(u) ==
  /\ phase = "restoring" /\ MayRestore(u)
  /\ disk' = [i \in Items |-> IF i \in Within(u) THEN [disk[i] EXCEPT !.old = staged[u][i]]
                                                 ELSE disk[i]]
  /\ todo' = todo \ {u}
  /\ UNCHANGED <<operation, staged, created, phase, torn, taken>>

\* The profile is put back and the listeners start again; when that fails the
\* copies stay for the operator.
RolledBack ==
  /\ phase = "restoring" /\ todo = {}
  /\ \/ phase' = "restored" /\ staged' = [u \in {} |-> <<>>]
     \/ phase' = "kept" /\ UNCHANGED staged
  /\ UNCHANGED <<operation, disk, created, todo, torn, taken>>

\* The process dies: nothing looks at the staging directory when it starts again.
Die ==
  /\ phase \notin Gone
  /\ phase' = "crashed"
  /\ UNCHANGED <<operation, disk, staged, created, todo, torn, taken>>

ChangeUnit(u) ==
  \/ DestinationTaken(u) \/ Snapshot(u) \/ Move(u) \/ RemoveItem(u) \/ Truncate(u)
  \/ Write(u) \/ RemoveCreated(u) \/ Restore(u)

ChangeNext ==
  \/ \E u \in Units : ChangeUnit(u)
  \/ NextPhase \/ Apply \/ Raise \/ StartRestoring \/ RolledBack \/ Die

ChangeSpec == ChangeInit /\ [][ChangeNext]_changeVars

-----------------------------------------------------------------------------
(* Properties *)

\* Only what a phase works on is left to do, one file at most is torn, and the
\* copies hold what was at the old paths.
ChangeTypeOK ==
  /\ operation \in {"rename", "delete", "purge"}
  /\ disk \in [Items -> [old : {"original", "edited", "torn", "none"},
                        new : {"original", "edited", "other", "none"}]]
  /\ Snapped \subseteq Units /\ created \subseteq Units /\ todo \subseteq Units
  /\ taken \subseteq Items /\ Cardinality(torn) <= 1
  /\ phase \in Forward => todo \subseteq Work(phase)

Changed(i) ==
  CASE i \in SharedTasks -> [old |-> "edited", new |-> "none"]
    [] i \in SessionFiles /\ operation = "rename" -> [old |-> "none", new |-> "original"]
    [] i \in OwnTasks \cup Histories /\ operation = "rename" ->
         [old |-> "none", new |-> "edited"]
    [] i \in Histories /\ operation = "delete" -> [old |-> "original", new |-> "none"]
    [] OTHER -> [old |-> "none", new |-> "none"]

\* A change that ends has changed every file or none, whichever step failed in
\* between ("A failed migration restores original files and profile").
AllOrNothing ==
  /\ phase = "done" => \A i \in Items \ taken : disk[i] = Changed(i)
  /\ phase \in {"restored", "kept"} => \A i \in Items : disk[i].old = "original"

\* Until the change has ended each file is complete somewhere, at its old or new
\* place or in the staging directory, even when the process dies between two
\* steps; and a destination that belongs to somebody else is never touched.
NothingLost ==
  /\ phase \notin {"done"} => \A i \in Items :
       \/ disk[i].old \in {"original", "edited"}
       \/ disk[i].new \in {"original", "edited"} /\ i \notin torn
       \/ \E u \in Snapped : i \in Within(u) /\ staged[u][i] \in {"original", "edited"}
  /\ \A i \in taken : disk[i].new = "other"

\* What an operator may rely on, as one invariant.
ChangeIsSafe == AllOrNothing /\ NothingLost

=============================================================================
