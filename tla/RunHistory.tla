----------------------------- MODULE RunHistory -----------------------------
(***************************************************************************)
(* The history of the runs (backend/services/sign_task_history_store.py    *)
(* and sign_task_history_index.py): one file per task with its newest      *)
(* records, an index of lines for all of them, and a cache of the newest   *)
(* lines in memory.  A file is changed under its path lock; the index and  *)
(* the cache have no lock around their read and write.                     *)
(*                                                                         *)
(* Runs are recorded, the daily maintenance cleans and the event stream    *)
(* reads on the event loop; the routes that delete, clear and list run in  *)
(* pool threads beside it, so that every file operation is a step.         *)
(* The short cache of filtered reads and the last_run field of the task's  *)
(* configuration are left out.                                             *)
(*                                                                         *)
(* Runs are numbered as they are recorded.  Files, index and cache hold    *)
(* their records in the order of the numbers (a new record is put before,  *)
(* or behind, all others, and what is removed leaves the order), so that a *)
(* set says what they hold; a line that was written twice counts once.     *)
(***************************************************************************)
EXTENDS Naturals, FiniteSets

CONSTANTS
  RunFiles,      \* history files, each of one task of its own account
  HistoryPool,   \* pool threads
  MaxHistoryRuns,   \* runs recorded (a bound)
  HistoryLimit,  \* max_entries_per_file
  IndexLimit,    \* DEFAULT_MAX_LINES
  RecentLimit,   \* _memory_max
  RecentReads    \* the limits of the callers that list

ASSUME HistoryAssumption ==
  /\ HistoryPool \cap {"loop", "nobody"} = {}
  /\ MaxHistoryRuns \in Nat
  /\ {HistoryLimit, IndexLimit, RecentLimit} \cup RecentReads \subseteq Nat \ {0}
  /\ RecentLimit <= IndexLimit

\* The n-th run of all is a record of the task it was a run of.
RunRecords == RunFiles \X (1..MaxHistoryRuns)
Older(r, s) == r[2] < s[2]

VARIABLES
  kept,      \* the files; a file without records does not exist
  fileLock,  \* the holder of the path lock of each file
  lines,     \* the index
  indexed,   \* the index exists
  memory,    \* _memory_recent
  doing,      \* what each thread is doing
  stored,    \* the records that were written to their files (a history variable)
  gone,      \* those that were deleted, cleared or expired (a history variable)
  crossed    \* since the last rebuild two operations overlapped or one did not end
historyVars == <<kept, fileLock, lines, indexed, memory, doing, stored, gone, crossed>>

HistoryWorkers == {"loop"} \cup HistoryPool
Nobody == "nobody"
AtRest == [op |-> "none", step |-> "none", files |-> {}, copy |-> {}, which |-> {}]

HistoryInit ==
  /\ kept = [t \in RunFiles |-> {}]
  /\ fileLock = [t \in RunFiles |-> Nobody]
  /\ lines = {} /\ indexed = FALSE
  /\ memory = {}
  /\ doing = [w \in HistoryWorkers |-> AtRest]
  /\ stored = {} /\ gone = {}
  /\ crossed = FALSE

\* What a limit leaves: the first n entries of a file or of the cache, the last n lines.
NewestRuns(S, n) == {r \in S : Cardinality({s \in S : Older(r, s)}) < n}

OthersBusy(w) == {v \in HistoryWorkers \ {w} : doing[v] # AtRest}
Begins(w, op, step, files, copy, which) ==
  /\ doing[w] = AtRest
  /\ doing' = [doing EXCEPT ![w] = [op |-> op, step |-> step, files |-> files,
                                    copy |-> copy, which |-> which]]
  /\ crossed' = (crossed \/ OthersBusy(w) # {})
Reached(w, step) == doing[w].step = step
Proceeds(w, step) == doing' = [doing EXCEPT ![w].step = step]
ProceedsWith(w, step, copy) == doing' = [doing EXCEPT ![w].step = step, ![w].copy = copy]
Finishes(w) == doing' = [doing EXCEPT ![w] = AtRest]
TheFile(w) == CHOOSE t \in doing[w].files : TRUE

-----------------------------------------------------------------------------
(* Files: record_run, delete_history_entry and clear_history of an account *)

\* (seeded fault) the read is not part of the locked section
LocksLate(w, t) == fileLock[t] = Nobody /\ UNCHANGED fileLock

Locks(w, t) == fileLock[t] = Nobody /\ fileLock' = [fileLock EXCEPT ![t] = w]

\* path_write_lock around the whole of a change, which begins with the load.
LockAndLoad(w, t, op, which) ==
  /\ Locks(w, t)
  /\ Begins(w, op, "store", {t}, kept[t], which)
  /\ UNCHANGED <<kept, lines, indexed, memory, stored, gone>>

BeginRecord(t) ==
  /\ Cardinality(stored) < MaxHistoryRuns
  /\ LockAndLoad("loop", t, "record", {<<t, Cardinality(stored) + 1>>})

BeginDelete(w, r) ==
  /\ r \in kept[r[1]]
  /\ LockAndLoad(w, r[1], "delete", {r})

BeginClearAccount(w, t) == LockAndLoad(w, t, "delete", {t} \X (1..MaxHistoryRuns))

StoreFile(w) ==
  /\ Reached(w, "store")
  /\ LET t == TheFile(w)
         S == doing[w].which
     IN /\ fileLock' = [fileLock EXCEPT ![t] = Nobody]
        /\ \/ /\ doing[w].op = "record"
              /\ kept' = [kept EXCEPT ![t] = NewestRuns(S \cup doing[w].copy, HistoryLimit)]
              /\ stored' = stored \cup S /\ UNCHANGED gone
              /\ Proceeds(w, "append")
           \/ /\ doing[w].op = "delete"
              /\ kept' = [kept EXCEPT ![t] = doing[w].copy \ S]
              /\ gone' = gone \cup (S \cap doing[w].copy) /\ UNCHANGED stored
              /\ Proceeds(w, "lines")
  /\ UNCHANGED <<lines, indexed, memory, crossed>>

-----------------------------------------------------------------------------
(* The index: append_index_entry and remove_index_entries_matching *)

\* A line that cannot be written is given up, and so is the cache.
AppendLine(w) ==
  /\ Reached(w, "append")
  /\ \/ /\ lines' = lines \cup doing[w].which /\ indexed' = TRUE
        /\ Proceeds(w, "prepend") /\ UNCHANGED crossed
     \/ Finishes(w) /\ crossed' = TRUE /\ UNCHANGED <<lines, indexed>>
  /\ UNCHANGED <<kept, fileLock, memory, stored, gone>>

Prepend(w) ==
  /\ Reached(w, "prepend")
  /\ memory' = NewestRuns(doing[w].which \cup memory, RecentLimit)
  /\ Proceeds(w, "trim")
  /\ UNCHANGED <<kept, fileLock, lines, indexed, stored, gone, crossed>>

\* The size of the file decides, which need not be the number of its lines.
TrimRead(w) ==
  /\ Reached(w, "trim")
  /\ \/ Finishes(w)
     \/ Cardinality(lines) > IndexLimit
        /\ ProceedsWith(w, "trimmed", NewestRuns(lines, IndexLimit))
  /\ UNCHANGED <<kept, fileLock, lines, indexed, memory, stored, gone, crossed>>

TrimWrite(w) ==
  /\ Reached(w, "trimmed")
  /\ lines' = doing[w].copy /\ indexed' = TRUE
  /\ Finishes(w)
  /\ UNCHANGED <<kept, fileLock, memory, stored, gone, crossed>>

LinesRead(w) ==
  /\ Reached(w, "lines")
  /\ IF indexed THEN ProceedsWith(w, "rewrite", lines) ELSE Finishes(w)
  /\ UNCHANGED <<kept, fileLock, lines, indexed, memory, stored, gone, crossed>>

\* Without a line that matches nothing is written, and the cache stays as it is.
LinesRewrite(w) ==
  /\ Reached(w, "rewrite")
  /\ LET left == doing[w].copy \ doing[w].which IN
     \/ left = doing[w].copy /\ Finishes(w) /\ UNCHANGED <<lines, indexed, crossed>>
     \/ left # doing[w].copy /\ lines' = left /\ indexed' = (left # {})
        /\ Proceeds(w, "forget") /\ UNCHANGED crossed
     \/ left # doing[w].copy /\ Finishes(w) /\ crossed' = TRUE /\ UNCHANGED <<lines, indexed>>
  /\ UNCHANGED <<kept, fileLock, memory, stored, gone>>

Forget(w) ==
  /\ Reached(w, "forget")
  /\ memory' = {}
  /\ Finishes(w)
  /\ UNCHANGED <<kept, fileLock, lines, indexed, stored, gone, crossed>>

-----------------------------------------------------------------------------
(* clear_history of everything: no file is locked *)

BeginClear(w) ==
  /\ Begins(w, "clear", "unlink", RunFiles, {}, {})
  /\ UNCHANGED <<kept, fileLock, lines, indexed, memory, stored, gone>>

Unlink(w) ==
  /\ Reached(w, "unlink")
  /\ \/ \E t \in doing[w].files :
          /\ kept' = [kept EXCEPT ![t] = {}]
          /\ gone' = gone \cup kept[t]
          /\ doing' = [doing EXCEPT ![w].files = @ \ {t}]
          /\ UNCHANGED <<lines, indexed>>
     \/ /\ doing[w].files = {}
        /\ lines' = {} /\ indexed' = FALSE
        /\ Proceeds(w, "forget") /\ UNCHANGED <<kept, gone>>
  /\ UNCHANGED <<fileLock, memory, stored, crossed>>

-----------------------------------------------------------------------------
(* cleanup_expired, ensure_index and list_recent_from_index *)

\* The maintenance unlinks the files nobody has written for days.
CleanUp(old) ==
  /\ old # {} /\ \A t \in old : kept[t] # {}
  /\ Begins("loop", "clean", "rebuild", {}, {}, {})
  /\ kept' = [t \in RunFiles |-> IF t \in old THEN {} ELSE kept[t]]
  /\ gone' = gone \cup UNION {kept[t] : t \in old}
  /\ UNCHANGED <<fileLock, lines, indexed, memory, stored>>

\* A list that the cache cannot serve.
BeginList(w, n) ==
  /\ memory = {}
  /\ Begins(w, "list", IF indexed THEN "read" ELSE "rebuild", {}, {}, {n})
  /\ UNCHANGED <<kept, fileLock, lines, indexed, memory, stored, gone>>

\* A rebuild that has the files for itself makes up for what went wrong before.
RebuildRead(w) ==
  /\ Reached(w, "rebuild")
  /\ ProceedsWith(w, "write", NewestRuns(UNION {kept[t] : t \in RunFiles}, IndexLimit))
  /\ crossed' = (OthersBusy(w) # {})
  /\ UNCHANGED <<kept, fileLock, lines, indexed, memory, stored, gone>>

RebuildWrite(w) ==
  /\ Reached(w, "write")
  /\ \/ /\ lines' = doing[w].copy /\ indexed' = TRUE
        /\ Proceeds(w, "sync") /\ UNCHANGED crossed
     \/ /\ IF doing[w].op = "list" THEN Proceeds(w, "read") ELSE Finishes(w)
        /\ crossed' = TRUE /\ UNCHANGED <<lines, indexed>>
  /\ UNCHANGED <<kept, fileLock, memory, stored, gone>>

ReadRecent(w) ==
  /\ Reached(w, "read")
  /\ \E n \in doing[w].which :
       IF lines = {} THEN Finishes(w)
       ELSE doing' = [doing EXCEPT ![w].step = "sync", ![w].op = "cache",
                                 ![w].copy = NewestRuns(lines, n)]
  /\ UNCHANGED <<kept, fileLock, lines, indexed, memory, stored, gone, crossed>>

\* _sync_memory, after a rebuild and after a read.
SyncMemory(w) ==
  /\ Reached(w, "sync")
  /\ memory' = NewestRuns(doing[w].copy, RecentLimit)
  /\ IF doing[w].op = "list" THEN Proceeds(w, "read") ELSE Finishes(w)
  /\ UNCHANGED <<kept, fileLock, lines, indexed, stored, gone, crossed>>

\* The process stops and starts again over the files.
HistoryCrash ==
  /\ doing' = [w \in HistoryWorkers |-> AtRest]
  /\ fileLock' = [t \in RunFiles |-> Nobody]
  /\ memory' = {}
  /\ crossed' = (crossed \/ \E w \in HistoryWorkers : doing[w] # AtRest)
  /\ UNCHANGED <<kept, lines, indexed, stored, gone>>

HistoryStep(w) ==
  \/ StoreFile(w)
  \/ AppendLine(w) \/ Prepend(w) \/ TrimRead(w) \/ TrimWrite(w)
  \/ LinesRead(w) \/ LinesRewrite(w) \/ Forget(w)
  \/ Unlink(w)
  \/ RebuildRead(w) \/ RebuildWrite(w) \/ ReadRecent(w) \/ SyncMemory(w)

HistoryNext ==
  \/ \E t \in RunFiles : BeginRecord(t)
  \/ \E w \in HistoryPool :
       \/ \E r \in RunRecords : BeginDelete(w, r)
       \/ \E t \in RunFiles : BeginClearAccount(w, t)
       \/ BeginClear(w)
  \/ \E old \in SUBSET RunFiles : CleanUp(old)
  \/ \E w \in HistoryWorkers :
       \/ \E n \in RecentReads : BeginList(w, n)
       \/ HistoryStep(w)
  \/ HistoryCrash

HistorySpec == HistoryInit /\ [][HistoryNext]_historyVars

-----------------------------------------------------------------------------
(* Properties *)

\* Files, index, cache and threads have their types.
HistoryTypeOK ==
  /\ DOMAIN kept = RunFiles
  /\ \A t \in RunFiles : Cardinality(kept[t]) <= HistoryLimit
                         /\ kept[t] \subseteq {t} \X (1..MaxHistoryRuns)
  /\ fileLock \in [RunFiles -> HistoryWorkers \cup {Nobody}]
  /\ lines \subseteq RunRecords /\ indexed \in BOOLEAN
  /\ memory \subseteq RunRecords /\ Cardinality(memory) <= RecentLimit
  /\ DOMAIN doing = HistoryWorkers
  /\ stored \subseteq RunRecords /\ gone \subseteq stored
  /\ crossed \in BOOLEAN

NewerRuns(r, files) == Cardinality({s \in stored : s[1] \in files /\ Older(r, s)})

\* A run that was recorded is in the file of its task until somebody removes it or
\* newer runs of the task displace it, whichever operations overlap (record_run).
RecordsKept ==
  \A r \in stored \ gone :
    r \in kept[r[1]] \/ NewerRuns(r, {r[1]}) >= HistoryLimit

\* Files and index name the same runs, up to their limits, and the cache names no other,
\* when operations came one after the other, or came so since a rebuild.
IndexAgrees ==
  ~crossed /\ (\A w \in HistoryWorkers : doing[w] = AtRest) =>
    /\ \A r \in lines :
         r \in kept[r[1]] \/ NewerRuns(r, {r[1]}) >= HistoryLimit
    /\ indexed => \A t \in RunFiles : \A r \in kept[t] :
         r \in lines \/ NewerRuns(r, RunFiles) >= IndexLimit
    /\ memory \subseteq lines

\* The history of the runs (SignTaskHistoryStore).
HistoryIsKept == RecordsKept /\ IndexAgrees

\* (does not hold) what was removed does not come back.
GoneStaysGone == \A t \in RunFiles : kept[t] \cap gone = {}

\* (does not hold) the cache holds the newest lines, even without any overlap.
RecentIsNewest ==
  ~crossed /\ memory # {} /\ (\A w \in HistoryWorkers : doing[w] = AtRest) =>
    memory = NewestRuns(lines, RecentLimit)
=============================================================================
