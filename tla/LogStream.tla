------------------------------ MODULE LogStream ------------------------------
(***************************************************************************)
(* The live log of one run: task_log_broadcaster.py and the web socket of  *)
(* sign_tasks_v2.py that subscribes to it.  A reader that connects before  *)
(* the run has an identifier follows the task, and changes to the stream   *)
(* of the run later; a subscription replays the history, while the run     *)
(* goes on publishing from the loop, and a cancel request from its thread. *)
(***************************************************************************)
EXTENDS Naturals, Sequences, FiniteSets, SequencesExt

CONSTANTS
  LogLines,      \* bound: events published, "done" included
  StreamHistory, \* history_size: events that the history of a stream keeps
  QueueSize      \* max_queue_size of a subscription

ASSUME LogAssumption ==
  LogLines \in Nat /\ StreamHistory \in Nat /\ QueueSize \in Nat \ {0}

VARIABLES
  published,  \* sequence number of the last event of the history
  doneAt,     \* that of the "done" event, 0 before it
  foreign,    \* the events another thread has published
  posting,    \* an event it has stored and not posted yet, with its target
  posted,     \* deliveries the loop has still to make (call_soon_threadsafe)
  socket,     \* where the reader is
  known,      \* it follows the run, not the task
  queueId,    \* its subscription, 0 for none
  queue,
  overflowed, \* events its full queues have lost
  evicted,    \* (history) events no longer in the history when it subscribed
  shown       \* what it has accepted and sent to the browser, delivered_event_ids
logVars == <<published, doneAt, foreign, posting, posted, socket, known, queueId,
             queue, overflowed, evicted, shown>>
readerVars == <<socket, known, queueId, evicted, shown>>
runVars == <<published, doneAt, foreign, posting>>

LogInit ==
  /\ published = 0 /\ doneAt = 0 /\ foreign = {}
  /\ posting = <<>> /\ posted = <<>>
  /\ socket = "connecting" /\ known \in BOOLEAN
  /\ queueId = 0 /\ queue = <<>> /\ overflowed = 0 /\ evicted = {} /\ shown = <<>>

-----------------------------------------------------------------------------
(* The broadcaster *)

\* _deliver_to_queue, once or again and again: the oldest entries make room.
Latest(s) == IF Len(s) <= QueueSize THEN s ELSE SubSeq(s, Len(s) - QueueSize + 1, Len(s))
Delivered(q, e) == Latest(Append(q, e))

DeliverTo(id, e) ==
  IF id # queueId \/ queueId = 0
  THEN UNCHANGED <<queue, overflowed>>
  ELSE /\ queue' = Delivered(queue, e)
       /\ overflowed' = overflowed + IF Len(queue) = QueueSize THEN 1 ELSE 0

\* publish_nowait of the run, in the loop, between two steps of the reader;
\* publish_done_nowait is the last one.
PublishLine(done) ==
  /\ doneAt = 0 /\ published < LogLines /\ socket \notin {"replaying", "top", "changing"}
  /\ published' = published + 1
  /\ doneAt' = IF done THEN published + 1 ELSE 0
  /\ DeliverTo(queueId, published + 1)
  /\ UNCHANGED <<foreign, posting, posted, readerVars>>

\* The line of a cancel request: under the lock it gets its number and targets,
Store ==
  /\ published \in 1 .. LogLines - 1 /\ foreign = {}
  /\ published' = published + 1 /\ foreign' = {published + 1}
  /\ posting' = IF queueId = 0 THEN <<>> ELSE <<[to |-> queueId, event |-> published + 1]>>
  /\ UNCHANGED <<doneAt, posted, queue, overflowed, readerVars>>

\* and is posted to the loop afterwards.
PostLine ==
  /\ posting # <<>> /\ posting' = <<>> /\ posted' = posted \o posting
  /\ UNCHANGED <<published, doneAt, foreign, queue, overflowed, readerVars>>

\* A subscription that was given up takes nothing any more.
DeliverPosted ==
  /\ posted # <<>> /\ posted' = Tail(posted) /\ socket \notin {"replaying", "top", "changing"}
  /\ DeliverTo(Head(posted).to, Head(posted).event)
  /\ UNCHANGED <<runVars, readerVars>>

-----------------------------------------------------------------------------
(* The web socket *)

\* subscribe: the new queue is registered under the lock. Who connects when the
\* run has an identifier follows the run at once.
Listen ==
  /\ socket \in {"connecting", "changing"}
  /\ known' = (known \/ published > 0)
  /\ queueId' = queueId + 1 /\ queue' = <<>> /\ socket' = "replaying"
  /\ UNCHANGED <<runVars, posted, overflowed, evicted, shown>>

LastSent == Max(ToSet(shown) \cup {0})

\* The last event that the history cannot give any more, or that was delivered.
Before == Max({LastSent, published - StreamHistory})

\* (seeded fault) the replay begins one event too late
ReplayedLate == [i \in 1 .. (published - Before - 1) |-> Before + 1 + i]

\* What the history, a deque of bounded length, has after the last event delivered so far
Replayed == [i \in 1 .. (published - Before) |-> Before + i]

\* The history is read in a second section: a thread may have published between.
\* The task has no history of its own. The queue may be too small for a replay, and
\* the history may have lost what the reader asks for.
Replay ==
  LET backlog == IF known THEN Replayed ELSE <<>>
      excess == (Len(queue) + Len(backlog)) - QueueSize
  IN /\ socket = "replaying" /\ socket' = "top"
     /\ queue' = Latest(queue \o backlog)
     /\ overflowed' = overflowed + IF Len(queue) + Len(backlog) > QueueSize THEN excess ELSE 0
     /\ evicted' = IF known THEN evicted \cup (LastSent + 1 .. Before) ELSE evicted
     /\ UNCHANGED <<runVars, posted, known, queueId, shown>>

\* The top of the loop: the run has an identifier by now, so that the reader
\* changes over to its stream, unless nothing of the run is known yet.
ChangeStream ==
  /\ socket = "top" /\ ~known
  /\ known' = TRUE /\ queueId' = queueId /\ queue' = <<>> /\ socket' = "changing"
  /\ UNCHANGED <<runVars, posted, overflowed, evicted, shown>>

Wait ==
  /\ socket = "top" /\ (known \/ published = 0)
  /\ socket' = "waiting"
  /\ UNCHANGED <<runVars, posted, known, queueId, queue, overflowed, evicted, shown>>

\* The run is over, and what has come was sent: the reader ends by itself.
EndsIdle ==
  /\ socket = "top" /\ doneAt > 0 /\ queue = <<>> /\ shown # <<>> /\ known
  /\ socket' = "closed"
  /\ UNCHANGED <<runVars, posted, known, queueId, queue, overflowed, evicted, shown>>

\* _is_duplicate_and_track
IsDuplicate(s, e) == e \in ToSet(s)

\* An event is compared with those accepted so far, the earlier ones of its batch
\* among them; the k-th that is no duplicate is the k-th that is sent.
Unsent(s, events) ==
  {i \in DOMAIN events : ~IsDuplicate(s \o SubSeq(events, 1, i - 1), events[i])}
Forwarded(s, events) ==
  LET unsent == Unsent(s, events)
  IN s \o [k \in 1 .. Cardinality(unsent) |->
             events[CHOOSE i \in unsent : Cardinality(unsent \cap 1 .. i) = k]]

\* The lines that wait in the queue are sent as one message; a "done" behind
\* them goes to the end of the queue again.
ReadLines ==
  LET ends == {i \in DOMAIN queue : queue[i] = doneAt}
      n == IF ends = {} THEN Len(queue) ELSE Min(ends) - 1
  IN /\ socket = "waiting" /\ queue # <<>> /\ Head(queue) # doneAt
     /\ queue' = IF n = Len(queue) THEN <<>>
                 ELSE SubSeq(queue, n + 2, Len(queue)) \o <<doneAt>>
     /\ shown' = Forwarded(shown, SubSeq(queue, 1, n))
     /\ socket' = IF shown' = shown THEN "top" ELSE "sending"
     /\ UNCHANGED <<runVars, posted, known, queueId, overflowed, evicted>>

SendEnds ==
  /\ socket = "sending" /\ socket' = "top"
  /\ UNCHANGED <<runVars, posted, known, queueId, queue, overflowed, evicted, shown>>

ReadDone ==
  /\ socket = "waiting" /\ queue # <<>> /\ Head(queue) = doneAt
  /\ queue' = Tail(queue) /\ shown' = Append(shown, doneAt) /\ socket' = "closed"
  /\ UNCHANGED <<runVars, posted, known, queueId, overflowed, evicted>>

LogNext ==
  \/ \E done \in BOOLEAN : PublishLine(done)
  \/ Store \/ PostLine \/ DeliverPosted
  \/ Listen \/ Replay \/ ChangeStream \/ Wait \/ EndsIdle
  \/ ReadLines \/ SendEnds \/ ReadDone

LogSpec == LogInit /\ [][LogNext]_logVars

-----------------------------------------------------------------------------
(* Properties *)

\* Numbers of events do not exceed the history, whose end "done" is; the thread
\* has one event under way.
LogTypeOK ==
  /\ published \in 0 .. LogLines /\ doneAt \in 0 .. published
  /\ foreign \subseteq 1 .. published /\ Len(posting) + Len(posted) <= 1
  /\ socket \in {"connecting", "replaying", "top", "changing", "waiting", "sending", "closed"}
  /\ known \in BOOLEAN /\ queueId \in 0 .. 2 /\ overflowed \in Nat
  /\ evicted \subseteq 1 .. published
  /\ Len(queue) <= QueueSize /\ ToSet(queue) \cup ToSet(shown) \subseteq 1 .. published

\* No line reaches the browser twice, although the replay and the live delivery
\* overlap (_is_duplicate_and_track).
EachLineOnce == IsInjective(shown)

\* A connection that "done" has closed has sent every line the run published, except
\* those that a full queue has counted as overflowed (dropped_count), and those that
\* the bounded history had lost, uncounted, before the reader subscribed; a line of a
\* cancel request may come too late.
NoLineMissed ==
  socket = "closed" =>
    Cardinality(1 .. doneAt - 1 \ (ToSet(shown) \cup foreign \cup evicted)) <= overflowed

\* What a reader may rely on, as one invariant.
ReaderSeesAll == EachLineOnce /\ NoLineMissed

=============================================================================
