-------------------------- MODULE MonitorMessages --------------------------
(***************************************************************************)
(* How the keyword monitor recognises a message that it has had before     *)
(* (backend/services/keyword_monitor/runtime.py): for one chat of one      *)
(* account, a watermark that is written to seen.json from time to time and *)
(* whenever the listeners stop, a baseline that is the watermark of the    *)
(* last load, and a window of the identifiers taken since.                 *)
(*                                                                         *)
(* Telegram delivers messages late, out of order, and again after a        *)
(* reconnection: any message may be delivered at any time.  A message is   *)
(* marked before its rules are looked at, without an await in between.     *)
(***************************************************************************)
EXTENDS Naturals, FiniteSets

CONSTANTS
  MaxMessage,   \* messages are 1..MaxMessage (a bound)
  WindowLimit,  \* 300 in the program
  WindowKeep    \* 200 in the program

ASSUME MessagesAssumption ==
  /\ MaxMessage \in Nat
  /\ WindowLimit \in Nat /\ WindowKeep \in Nat /\ WindowKeep <= WindowLimit

Messages == 1..MaxMessage

VARIABLES
  top,       \* _seen: the watermark in memory, 0 when the key is absent
  baseline,  \* _seen_baseline
  recent,    \* _seen_window
  dirty,     \* _seen_dirty
  filed,     \* the watermark in seen.json
  handlers,  \* the handler of the account is registered
  hasRules,  \* the account has rules
  restart,   \* the step of restart_from_tasks
  passed,    \* how often each message has got past the check (at most 2)
  lost       \* messages the monitor cannot know any more
messageVars == <<top, baseline, recent, dirty, filed, handlers, hasRules, restart,
                 passed, lost>>

\* The n greatest members of S.
Newest(S, n) == {m \in S : Cardinality({o \in S : o > m}) < n}

Had == {m \in Messages : passed[m] > 0}
Loaded == top' = filed' /\ baseline' = filed' /\ recent' = {} /\ dirty' = FALSE

MessagesInit ==
  /\ top = 0 /\ baseline = 0 /\ recent = {} /\ dirty = FALSE /\ filed = 0
  /\ handlers = TRUE /\ hasRules = TRUE /\ restart = "idle"
  /\ passed = [m \in Messages |-> 0]
  /\ lost = {}

-----------------------------------------------------------------------------
(* A message *)

Bounded(S) == IF Cardinality(S) > WindowLimit THEN Newest(S, WindowKeep) ELSE S

Passes(m) == m > baseline /\ m \notin recent

\* _is_seen_message: a message that raises the watermark may be written at once, if
\* 30 seconds have passed since the last time and the file can be written.
TakeMessage(m) ==
  /\ handlers /\ Passes(m)
  /\ passed[m] < 2 /\ passed' = [passed EXCEPT ![m] = @ + 1]
  /\ recent' = Bounded(recent \cup {m})
  /\ IF m > top
     THEN /\ top' = m
          /\ \/ filed' = m /\ dirty' = FALSE
             \/ UNCHANGED filed /\ dirty' = TRUE
     ELSE UNCHANGED <<top, filed, dirty>>
  /\ UNCHANGED <<baseline, handlers, hasRules, restart, lost>>

-----------------------------------------------------------------------------
(* restart_from_tasks and the process *)

\* An edit of the rules: _prune_inactive_rule_state forgets the account when it has
\* no rule left; its handler is there until stop() has its account lock.
EditRules ==
  /\ restart = "idle" /\ restart' = "stopping"
  /\ hasRules' \in BOOLEAN
  /\ IF hasRules' THEN UNCHANGED <<top, baseline, recent, dirty, lost>>
     ELSE top' = 0 /\ baseline' = 0 /\ recent' = {} /\ dirty' = (dirty \/ top > 0)
          /\ lost' = lost \cup Had
  /\ UNCHANGED <<filed, handlers, passed>>

\* (seeded fault) the watermark is written only when its interval has passed
StopLeaves == filed' \in {top, filed} /\ lost' = lost

\* stop() writes the watermark of a change whatever the interval; the write may fail.
StopWrites ==
  \/ filed' = (IF dirty THEN top ELSE filed) /\ lost' = lost
  \/ dirty /\ filed' = filed /\ lost' = lost \cup {m \in Had : m > filed}

\* The end of stop(), and, if any account has rules, the load that follows it.
StopListeners ==
  /\ restart = "stopping"
  /\ handlers' = FALSE
  /\ StopWrites
  /\ \/ Loaded
     \/ ~hasRules /\ UNCHANGED <<top, baseline, recent>>
        /\ dirty' = (dirty /\ filed' # top)
  /\ restart' = IF hasRules THEN "connect" ELSE "idle"
  /\ UNCHANGED <<hasRules, passed>>

\* The account is connected, or its proxy or session keeps it from being.
ListenAgain ==
  /\ restart = "connect" /\ restart' = "idle"
  /\ handlers' \in BOOLEAN
  /\ UNCHANGED <<top, baseline, recent, dirty, filed, hasRules, passed, lost>>

\* The process stops; the next one loads the file.
MonitorCrash ==
  /\ handlers' = FALSE /\ UNCHANGED filed
  /\ Loaded
  /\ lost' = lost \cup {m \in Had : m > filed}
  /\ restart' = IF hasRules THEN "connect" ELSE "idle"
  /\ UNCHANGED <<hasRules, passed>>

MessagesNext ==
  \/ \E m \in Messages : TakeMessage(m)
  \/ EditRules \/ StopListeners \/ ListenAgain \/ MonitorCrash

MessagesSpec == MessagesInit /\ [][MessagesNext]_messageVars

-----------------------------------------------------------------------------
(* Properties *)

\* Watermarks, windows and counts have their types.
MessagesTypeOK ==
  /\ top \in 0..MaxMessage /\ baseline \in 0..MaxMessage /\ filed \in 0..MaxMessage
  /\ recent \subseteq Messages /\ Cardinality(recent) <= WindowLimit
  /\ dirty \in BOOLEAN /\ handlers \in BOOLEAN /\ hasRules \in BOOLEAN
  /\ restart \in {"idle", "stopping", "connect"}
  /\ passed \in [Messages -> 0..2]
  /\ lost \subseteq Messages

\* As many newer messages as the window keeps have been taken.
Aged(m) == Cardinality({o \in Had : o > m}) >= WindowKeep

\* However messages, edits, reconnections and stops of the process interleave, no
\* message is acted on twice (_is_seen_message) unless its trace was lost to a crash or a
\* failed write, to the removal of the account's rules, or to the bound of the window.
TakenOnce == \A m \in Messages : passed[m] > 1 => m \in lost \/ Aged(m)

\* (does not hold) a message that was not taken before a restart is taken when it
\* arrives: it may be below the watermark of a newer one.
LateOnesTaken == handlers => \A m \in Messages : m <= baseline => passed[m] > 0
=============================================================================
