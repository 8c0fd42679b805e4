----------------------------- MODULE FlowReply -----------------------------
(***************************************************************************)
(* A flow's action and the WaitEventNode behind it: the messages of the    *)
(* chat reach the runner's handler, are published on the event bus         *)
(* (flow_event_bus.py: a bounded history with backfill, bounded queues,    *)
(* counted losses), and the node looks in them for the bot's answer        *)
(* (flow_engine.py _run_wait_event_node), sending the action again when    *)
(* the bot asks for it.                                                    *)
(***************************************************************************)
EXTENDS Naturals, Sequences, FiniteSets

CONSTANTS ReplyEvents,   \* bound: messages of the bot
          HistorySize,   \* buffer_size of the bus
          ReplyQueueSize,\* queue_size of the bus
          ReplyRetries,  \* max_retries of the node
          Assisted,      \* semantic_result with mode "assist"
          LastActions    \* subset of {"send", "click"}: what the action is

ASSUME ReplyAssumption ==
    /\ {ReplyEvents, HistorySize, ReplyQueueSize} \subseteq Nat \ {0}
    /\ ReplyRetries \in Nat /\ Assisted \in BOOLEAN
    /\ LastActions \subseteq {"send", "click"} /\ LastActions # {}

Says == {"yes", "no", "again", "other"}   \* which rule of the node a text meets

VARIABLES action, asked, lastId, told, replyQueue, dropped,
          watermark, waitStep, seen, resends, verdict, answer, flowStatus
replyVars == <<action, asked, lastId, told, replyQueue, dropped,
               watermark, waitStep, seen, resends, verdict, answer, flowStatus>>

(***************************************************************************)
(* asked counts the operations begun; told are the bot's events in order,  *)
(* each with its message id, what it says and the operations begun before. *)
(* The queue holds places in told: it is in the order of the events.       *)
(***************************************************************************)
ReplyInit ==
    /\ action \in LastActions
    /\ asked = 0 /\ lastId = 0 /\ told = <<>>
    /\ replyQueue = {} /\ dropped = 0
    /\ watermark = 0 /\ waitStep = "before"
    /\ seen = {} /\ resends = 0
    /\ verdict = "none" /\ answer = 0 /\ flowStatus = "none"

Subscribed == waitStep \in {"waiting", "judging", "sleeping", "resending"}

(* (seeded fault) no watermark on the events of the queue                   *)
AnyEvent(e) == TRUE

(* The bus keeps the last events of a chat, and counts those pushed out.    *)
History == {i \in DOMAIN told : i + HistorySize > Len(told)}
Evicted == IF Len(told) > HistorySize THEN Len(told) - HistorySize ELSE 0

Full == Cardinality(replyQueue) = ReplyQueueSize

(***************************************************************************)
(* _on_message and publish: the event enters the history, which pushes out *)
(* its oldest, and the queue of the subscriber unless it is full.          *)
(***************************************************************************)
Publish(e) ==
    /\ told' = Append(told, e)
    /\ replyQueue' = IF Subscribed /\ ~Full THEN replyQueue \cup {Len(told) + 1}
                     ELSE replyQueue
    /\ dropped' = IF Subscribed /\ Full THEN dropped + 1 ELSE dropped
    /\ UNCHANGED <<action, asked, watermark, waitStep, seen, resends, verdict, answer,
                   flowStatus>>

MayTell == Len(told) < ReplyEvents /\ waitStep # "over"

BotWrites ==
    /\ MayTell
    /\ lastId' = lastId + 1
    /\ \E s \in Says :
         Publish([id |-> lastId + 1, says |-> s, after |-> asked])

BotEdits ==
    /\ MayTell
    /\ \E m \in {told[i].id : i \in DOMAIN told}, s \in Says :
         Publish([id |-> m, says |-> s, after |-> asked])
    /\ UNCHANGED lastId

(***************************************************************************)
(* The action: a message of ours, whose id becomes the watermark when the  *)
(* call returns; a click returns no message and leaves the watermark.      *)
(***************************************************************************)
Operate ==
    /\ asked' = asked + 1
    /\ lastId' = IF action = "send" THEN lastId + 1 ELSE lastId
    /\ watermark' = IF action = "send" THEN lastId + 1 ELSE watermark

(* An earlier step of the flow sent the message the bot's keyboard answers. *)
Act ==
    /\ waitStep = "before"
    /\ Operate
    /\ waitStep' = "acted"
    /\ UNCHANGED <<action, told, replyQueue, dropped, seen, resends,
                   verdict, answer, flowStatus>>

Newer(e) == e.id > watermark

(* subscribe: the backfill drops the newest events a full queue cannot take. *)
Subscribe ==
    /\ waitStep = "acted"
    /\ waitStep' = "waiting"
    /\ LET fitting == {i \in History : Newer(told[i])}
       IN \E kept \in SUBSET fitting :
            /\ \A i \in kept, j \in fitting \ kept : i < j
            /\ Cardinality(kept) = IF Cardinality(fitting) > ReplyQueueSize
                                    THEN ReplyQueueSize ELSE Cardinality(fitting)
            /\ replyQueue' = kept
            /\ dropped' = Evicted + Cardinality(fitting \ kept)
    /\ UNCHANGED <<action, asked, lastId, told, watermark, seen, resends, verdict,
                   answer, flowStatus>>

Gap == dropped > 0

Concluded(v, at) == verdict' = v /\ answer' = at /\ waitStep' = "over"

GapFound ==
    /\ waitStep = "waiting" /\ Gap
    /\ Concluded("gap", 0)
    /\ UNCHANGED <<action, asked, lastId, told, replyQueue, dropped,
                   watermark, seen, resends, flowStatus>>

WaitTimesOut ==
    /\ waitStep = "waiting" /\ ~Gap
    /\ Concluded("timeout", 0)
    /\ UNCHANGED <<action, asked, lastId, told, replyQueue, dropped,
                   watermark, seen, resends, flowStatus>>

(***************************************************************************)
(* The event at the head of the queue: older than the watermark, it is     *)
(* passed over; a retry word asks for the action again while retries are   *)
(* left; then the failure rules, the success rules, and no rule at all.    *)
(***************************************************************************)
Gapless == ~Gap

TakeReply(i) ==
    /\ waitStep = "waiting" /\ Gapless
    /\ i \in replyQueue /\ \A j \in replyQueue : i <= j
    /\ replyQueue' = replyQueue \ {i}
    /\ seen' = seen \cup {i}
    /\ LET e == told[i]
       IN \/ ~Newer(e) /\ UNCHANGED <<waitStep, verdict, answer>>
          \/ /\ Newer(e) /\ e.says = "other"
             /\ waitStep' = IF Assisted THEN "judging" ELSE "waiting"
             /\ answer' = IF Assisted THEN i ELSE 0
             /\ UNCHANGED verdict
          \/ /\ Newer(e) /\ e.says = "again" /\ resends < ReplyRetries
             /\ waitStep' = "sleeping" /\ UNCHANGED <<verdict, answer>>
          \/ /\ Newer(e) /\ e.says = "again" /\ resends = ReplyRetries
             /\ Concluded("exhausted", i)
          \/ Newer(e) /\ e.says = "no" /\ Concluded("failure", i)
          \/ Newer(e) /\ e.says = "yes" /\ Concluded("success", i)
    /\ UNCHANGED <<action, asked, lastId, told, dropped, watermark, resends, flowStatus>>

(* The semantic service has judged a text no rule knows: the losses are     *)
(* looked at again before it may confirm.                                   *)
Judged ==
    /\ waitStep = "judging"
    /\ \/ Gapless /\ Concluded("success", answer)
       \/ Gap /\ Concluded("gap", 0)
       \/ Concluded("failure", answer)
       \/ waitStep' = "waiting" /\ answer' = 0 /\ UNCHANGED verdict
    /\ UNCHANGED <<action, asked, lastId, told, replyQueue, dropped,
                   watermark, seen, resends, flowStatus>>

WakeToResend ==
    /\ waitStep = "sleeping"
    /\ waitStep' = "resending" /\ resends' = resends + 1
    /\ UNCHANGED <<action, asked, lastId, told, replyQueue, dropped,
                   watermark, seen, verdict, answer, flowStatus>>

Resend ==
    /\ waitStep = "resending"
    /\ Operate
    /\ waitStep' = "waiting"
    /\ UNCHANGED <<action, told, replyQueue, dropped, seen, resends,
                   verdict, answer, flowStatus>>

(* The executor raised, timed out or returned another outcome than SUCCESS. *)
ResendFails ==
    /\ waitStep = "resending"
    /\ Concluded("failure", 0)
    /\ UNCHANGED <<action, asked, lastId, told, replyQueue, dropped,
                   watermark, seen, resends, flowStatus>>

(* PulseFlowEngine.run: the receipts know of no unknown operation here. *)
StatusOf(v) == IF v = "success" THEN "confirmed" ELSE "failed"

FlowReports ==
    /\ waitStep = "over" /\ flowStatus = "none"
    /\ flowStatus' = StatusOf(verdict)
    /\ UNCHANGED <<action, asked, lastId, told, replyQueue, dropped,
                   watermark, waitStep, seen, resends, verdict, answer>>

ReplyNext ==
    \/ BotWrites \/ BotEdits \/ Act \/ Subscribe \/ GapFound \/ WaitTimesOut
    \/ \E i \in replyQueue : TakeReply(i)
    \/ Judged \/ WakeToResend \/ Resend \/ ResendFails \/ FlowReports

ReplySpec == ReplyInit /\ [][ReplyNext]_replyVars

----------------------------------------------------------------------------
(* The queue keeps its size; the node's watermark is a message *)
(* that exists, and its answer an event it has taken.                       *)
ReplyTypeOK ==
    /\ Len(told) <= ReplyEvents /\ replyQueue \subseteq DOMAIN told
    /\ Cardinality(replyQueue) <= ReplyQueueSize /\ resends \in 0..ReplyRetries
    /\ watermark \in 0..lastId /\ asked \in 0..(ReplyRetries + 1)
    /\ seen \subseteq DOMAIN told /\ answer \in seen \cup {0}
    /\ dropped \in Nat
    /\ waitStep = "over" <=> verdict # "none"

(* The event that confirms an action came after the action was last begun:  *)
(* never an old message, or a reply to the attempt before ("strictly ignore *)
(* old messages").  A click leaves the watermark of the message before it,  *)
(* so it is true of sent messages only.                                     *)
ConfirmedByLaterReply ==
    verdict = "success" /\ action = "send" => told[answer].after = asked

(* A success has read every event of its attempt that came before the       *)
(* confirming one: an event that was dropped on a full queue, or pushed out *)
(* of the history before the node subscribed, could have been a failure.    *)
SuccessSawAll ==
    verdict = "success" =>
        \A i \in 1..answer : told[i].id > watermark => i \in seen

(* What a success of the node means, as one invariant.                      *)
SuccessIsAnAnswer == ConfirmedByLaterReply /\ SuccessSawAll

(* An event delivery gap is reported as unknown (architecture.md).          *)
GapReportedUnknown ==
    verdict = "gap" /\ flowStatus # "none" => flowStatus = "unknown"
=============================================================================
