-------------------------- MODULE BotConversation --------------------------
(***************************************************************************)
(* The conversation of a task with its bot: the actions of a chat one      *)
(* after the other, with retries (_run_classic_chat of signer_runner.py),  *)
(* each of them done by wait_for of signer_actions.py: a text is sent, a   *)
(* button with a given text is clicked, or a question is solved and its    *)
(* answer clicked, one button after the other.                             *)
(*                                                                         *)
(* The messages of the bot are known twice: from the handler, which fills  *)
(* a cache some time later, and from the history of the chat.  What has    *)
(* changed since an action began is told by a snapshot taken before it.    *)
(* All messages are within the part of the history that is read; of what   *)
(* they say only "prompt" (something to click) and "success" are told      *)
(* apart, and a success is not edited any more.  Which prompt has the      *)
(* button of an action, or a question that can be answered, is a choice.   *)
(***************************************************************************)
EXTENDS Naturals, Sequences

CONSTANTS
  Script,       \* the actions of the chat: "send", "click" or "solve"
  Enders,       \* those with stop_flow_on_terminal
  Lenient,      \* those with continue_on_error
  FlowAttempts, \* max_flow_attempts
  Backoff,      \* retry_backoff_steps
  Buttons,      \* buttons of an answer
  ChatLength    \* messages of the bot (a bound)

ASSUME ConversationAssumption ==
  /\ Script \in Seq({"send", "click", "solve"}) /\ Script # <<>>
  /\ Enders \subseteq DOMAIN Script /\ Lenient \subseteq DOMAIN Script
  /\ {FlowAttempts, Buttons, ChatLength} \subseteq Nat \ {0} /\ Backoff \in Nat

VARIABLES
  chat,     \* the messages of the bot as Telegram has them
  heard,    \* the versions of them that the handler has seen
  cache,    \* context.chat_messages
  before,   \* before_state
  blind,    \* the history was not read for it
  changed,  \* (history) the messages changed since that snapshot
  replies,  \* (history) the messages changed since the operation
  attempt, index, done, \* flow_attempt, index, last_successful_index
  tries,    \* _step_attempt
  deed,     \* what the current action is doing
  target,   \* the message it handles
  cached,   \* which it has from the cache
  lastSeen, \* last_message
  clicked,  \* the buttons of the answer that are clicked
  cancelled,\* the run was cancelled
  outcome
chatVars == <<chat, heard, cache>>
attemptVars == <<attempt, index, done, tries, outcome>>
shotVars == <<before, blind, changed, replies>>
stepVars == <<deed, target, cached, lastSeen, clicked, shotVars>>
talkVars == <<chatVars, attemptVars, stepVars, cancelled>>

Ids == 1..ChatLength
BotMessages == [says : {"prompt", "success"}, rev : 0..1]
Absent == [says |-> "absent", rev |-> 0]
\* None in the cache: the message was handled; an edit puts it back.
Handled == [says |-> "handled", rev |-> 0]

\* What earlier runs have left in the chat; the cache was cleared after them.
TalkInit ==
  /\ chat \in {<<>>} \cup {<<[says |-> s, rev |-> 0]>> : s \in {"prompt", "success"}}
  /\ heard = [i \in Ids |-> IF i \in DOMAIN chat THEN 1 ELSE 0]
  /\ cache = [i \in Ids |-> Absent] /\ before = [i \in Ids |-> Absent]
  /\ blind = FALSE /\ changed = {} /\ replies = {}
  /\ attempt = 1 /\ index = 1 /\ done = 0 /\ tries = 1 /\ outcome = "none"
  /\ deed = "begin" /\ target = 0 /\ cached = FALSE /\ lastSeen = Handled /\ clicked = 0
  /\ cancelled = FALSE

Talking == outcome = "none"
Doing(kind, p) == Talking /\ deed = p /\ Script[index] = kind
HasNext == index < Len(Script)

-----------------------------------------------------------------------------
(* The bot, and the handler *)

Compares ==
  deed \in {"send", "sent", "after", "doubt"} \/ (deed = "press" /\ Script[index] = "click")
Wrote(i) ==
  /\ changed' = changed \cup (IF Compares THEN {i} ELSE {})
  /\ replies' = replies \cup (IF Compares THEN {i} ELSE {})
  /\ UNCHANGED <<heard, cache, before, blind, attemptVars, deed, target, cached, lastSeen,
                 clicked, cancelled>>

BotSays ==
  /\ Talking /\ Len(chat) < ChatLength
  /\ \E s \in {"prompt", "success"} : chat' = Append(chat, [says |-> s, rev |-> 0])
  /\ Wrote(Len(chat) + 1)

BotChanges ==
  \E i \in DOMAIN chat, s \in {"prompt", "success"} :
    /\ Talking /\ chat[i] = [says |-> "prompt", rev |-> 0]
    /\ chat' = [chat EXCEPT ![i] = [says |-> s, rev |-> 1]]
    /\ Wrote(i)

\* _on_message; it may come late, even after a change of the message.
Version(i, v) == IF v = chat[i].rev THEN chat[i] ELSE [says |-> "prompt", rev |-> 0]
Hear ==
  \E i \in DOMAIN chat : \E v \in heard[i]..chat[i].rev :
    /\ Talking
    /\ heard' = [heard EXCEPT ![i] = v + 1]
    /\ cache' = [cache EXCEPT ![i] = Version(i, v)]
    /\ UNCHANGED <<chat, attemptVars, stepVars, cancelled>>

-----------------------------------------------------------------------------
(* The attempts and the steps *)

\* An attempt goes on at the step that failed, or Backoff steps before it.
StartIndex ==
  IF attempt = 1 \/ done = 0 \/ done + 1 <= Backoff THEN 1 ELSE done + 1 - Backoff

BeginAttempt ==
  /\ Talking /\ deed = "begin"
  /\ index' = StartIndex /\ tries' = 1 /\ deed' = "step"
  /\ cache' = IF StartIndex = 1 THEN [i \in Ids |-> Absent] ELSE cache
  /\ UNCHANGED <<chat, heard, attempt, done, outcome, target, cached, lastSeen, clicked,
                 shotVars, cancelled>>

\* The variables of wait_for go with it.
NoShot == [i \in Ids |-> Absent]
Rests == /\ target' = 0 /\ cached' = FALSE /\ lastSeen' = Handled /\ clicked' = 0
         /\ before' = NoShot /\ blind' = FALSE /\ changed' = {} /\ replies' = {}

\* wait_for has returned; a task found complete ends the flow before its last step.
StepDone(complete) ==
  /\ done' = index /\ tries' = 1 /\ Rests /\ UNCHANGED attempt
  /\ IF complete \/ ~HasNext THEN outcome' = "ok" /\ deed' = "over" /\ UNCHANGED index
                             ELSE index' = index + 1 /\ deed' = "step" /\ UNCHANGED outcome

FlowFails ==
  /\ Rests /\ UNCHANGED <<index, done, tries>>
  /\ IF attempt < FlowAttempts THEN attempt' = attempt + 1 /\ deed' = "begin" /\ UNCHANGED outcome
                               ELSE outcome' = "failed" /\ deed' = "over" /\ UNCHANGED attempt

\* The step has returned False, or raised what a repetition of it would not heal.
StepFails == IF index \in Lenient THEN StepDone(FALSE) ELSE FlowFails

StepRaises ==
  \/ tries = 1 /\ tries' = 2 /\ deed' = "step" /\ Rests
     /\ UNCHANGED <<attempt, index, done, outcome>>
  \/ StepFails

-----------------------------------------------------------------------------
(* What has changed since the action began *)

\* (seeded fault) a snapshot of the cache alone
CachedShot(read) == [i \in Ids |-> IF cache[i] \in BotMessages THEN cache[i] ELSE Absent]

\* The messages of the cache, overwritten by those of the history if it can be read.
ShotOf(read) ==
  [i \in Ids |-> IF read /\ i \in DOMAIN chat THEN chat[i]
                 ELSE IF cache[i] \in BotMessages THEN cache[i] ELSE Absent]

TakesShot ==
  \E read \in BOOLEAN :
    /\ before' = ShotOf(read) /\ blind' = ~read
    /\ changed' = {} /\ replies' = {}

\* A changed message says w; one reading tells what has changed, a second one what it says.
Tells(i, w, shot, scan) ==
  /\ ShotOf(shot)[i] \in BotMessages \ {before[i]}
  /\ w \in {cache[i].says} \cup (IF scan /\ i \in DOMAIN chat THEN {chat[i].says} ELSE {})

\* _wait_for_terminal_success
SuccessFound == \E i \in Ids, shot, scan \in BOOLEAN : Tells(i, "success", shot, scan)
\* _wait_for_next_action_candidate
NextFound == \E i \in Ids, shot, scan \in BOOLEAN : Tells(i, "prompt", shot, scan)

OnlyTalk == UNCHANGED <<chat, heard, cancelled>>
MarkHandled == cache' = IF cached THEN [cache EXCEPT ![target] = Handled] ELSE cache

-----------------------------------------------------------------------------
(* A text *)

BeginSend ==
  /\ Doing("send", "step") /\ TakesShot /\ deed' = "send"
  /\ UNCHANGED <<chatVars, attemptVars, target, cached, lastSeen, clicked, cancelled>>

SendText ==
  /\ Doing("send", "send") /\ replies' = {} /\ deed' = "sent"
  /\ UNCHANGED <<chatVars, before, blind, changed, attemptVars, target, cached, lastSeen,
                 clicked, cancelled>>

\* The text may have been sent all the same.
SendFails ==
  /\ Doing("send", "send") /\ StepRaises
  /\ UNCHANGED <<chatVars, cancelled>>

\* _maybe_stop_after_send
EndsHere == index \in Enders \/ ~HasNext
SendSettles ==
  /\ Doing("send", "sent")
  /\ \/ SuccessFound /\ StepDone(EndsHere)
     \/ StepDone(FALSE)
  /\ OnlyTalk /\ UNCHANGED cache

-----------------------------------------------------------------------------
(* A button *)

\* The cache is looked through, and every 1.5 seconds the history.
FindButton ==
  /\ Doing("click", "step")
  /\ \E i \in Ids, c \in BOOLEAN :
       /\ (IF c THEN cache[i] ELSE ShotOf(TRUE)[i]).says = "prompt"
       /\ target' = i /\ cached' = c
  /\ TakesShot /\ deed' = "press"
  /\ UNCHANGED <<chatVars, attemptVars, lastSeen, clicked, cancelled>>

NoButton ==
  /\ Doing("click", "step") /\ StepFails
  /\ UNCHANGED <<chatVars, cancelled>>

\* Answered; or not confirmed, as for a button that is no longer there.
ButtonClicked ==
  /\ Doing("click", "press") /\ replies' = {}
  /\ IF HasNext
     THEN deed' = "after" /\ UNCHANGED <<cache, attemptVars, target, cached, lastSeen,
                                        clicked, before, blind, changed>>
     ELSE StepDone(FALSE) /\ MarkHandled
  /\ UNCHANGED <<chat, heard, cancelled>>

ButtonRefused ==
  /\ Doing("click", "press") /\ replies' = {} /\ deed' = "doubt"
  /\ UNCHANGED <<chatVars, before, blind, changed, attemptVars, target, cached, lastSeen,
                 clicked, cancelled>>

\* A long FloodWait, or the text of a reply keyboard is not sent: raised for a message of
\* the cache, forgotten for one of the history.
ButtonRaises ==
  /\ Doing("click", "press")
  /\ IF cached THEN StepRaises ELSE deed' = "step" /\ Rests /\ UNCHANGED attemptVars
  /\ UNCHANGED <<chatVars, cancelled>>

\* _handle_post_click_followup of a click that counts: its answer says success, or a
\* message does, or the time is over; only a success may end the flow.
ClickSettles ==
  /\ Doing("click", "after")
  /\ \/ SuccessFound /\ StepDone(index \in Enders)
     \/ \E tip \in BOOLEAN : StepDone(tip /\ index \in Enders)
  /\ MarkHandled /\ OnlyTalk

\* ... and of one that does not: something must have moved.
DoubtSettles ==
  /\ Doing("click", "doubt")
  /\ \/ SuccessFound /\ StepDone(index \in Enders)
     \/ HasNext /\ NextFound /\ StepDone(FALSE)
     \/ StepFails
  /\ UNCHANGED cache /\ OnlyTalk

-----------------------------------------------------------------------------
(* A question *)

OnlyStep == UNCHANGED <<chatVars, attemptVars, cancelled>>
SameShot == UNCHANGED <<clicked, shotVars>>

\* The last entry of the cache, taken to be the newest message.
NewestHeard ==
  LET in == {i \in Ids : cache[i] # Absent} IN
  IF in = {} THEN Handled ELSE cache[CHOOSE i \in in : \A j \in in : j <= i]

\* A pass over the cache begins when its newest message is another one (a handled one is
\* no news at first: last_message begins with None), and goes on, with the versions it
\* began with, after an answer that was not clicked.
TakeQuestion ==
  /\ Doing("solve", "step")
  /\ \E i \in Ids :
       /\ target' = i
       /\ \/ cache[i].says = "prompt" /\ NewestHeard # lastSeen /\ lastSeen' = NewestHeard
          \/ /\ cache[i].says = "prompt" \/ cache[i].rev = 1
             /\ target # 0 /\ i > target /\ UNCHANGED lastSeen
  /\ cached' = TRUE /\ deed' = "think" /\ SameShot
  /\ OnlyStep

NoQuestion ==
  /\ Doing("solve", "step") /\ NewestHeard # lastSeen
  /\ lastSeen' = NewestHeard /\ target' = 0 /\ UNCHANGED <<deed, cached>> /\ SameShot
  /\ OnlyStep

\* After the timeout the history is looked through, the newest message first.
WaitEnds ==
  /\ Doing("solve", "step") /\ deed' = "late" /\ target' = ChatLength + 1
  /\ UNCHANGED <<cached, lastSeen>> /\ SameShot
  /\ OnlyStep
TakeLate ==
  /\ Doing("solve", "late")
  /\ \E i \in DOMAIN chat : i < target /\ chat[i].says = "prompt" /\ target' = i
  /\ deed' = "think" /\ cached' = FALSE /\ UNCHANGED lastSeen /\ SameShot
  /\ OnlyStep
NothingLate ==
  /\ Doing("solve", "late") /\ StepFails
  /\ UNCHANGED <<chatVars, cancelled>>

\* The model provider's answer; and after each button the pause and the message anew.
Answers ==
  /\ Talking /\ deed \in {"think", "pause"} /\ deed' = "press"
  /\ UNCHANGED <<target, cached, lastSeen>> /\ SameShot
  /\ OnlyStep

\* An error while the cache is looked through is the error of the step; later it ends
\* the look at the history.
QuestionRaises == IF cached THEN StepRaises ELSE StepFails
ThinkFails ==
  /\ Talking /\ deed = "think" /\ QuestionRaises
  /\ UNCHANGED <<chatVars, cancelled>>

AnswerClicked ==
  /\ Doing("solve", "press")
  /\ IF clicked + 1 < Buttons
     THEN /\ deed' = "pause" /\ clicked' = clicked + 1
          /\ UNCHANGED <<cache, attemptVars, target, cached, lastSeen, shotVars>>
     ELSE StepDone(FALSE) /\ MarkHandled
  /\ UNCHANGED <<chat, heard, cancelled>>

\* SequenceClickPartialError when some buttons are clicked and the next is not.
AnswerRefused ==
  /\ Doing("solve", "press")
  /\ \/ clicked > 0 /\ StepFails
     \/ clicked = 0 /\ deed' = (IF cached THEN "step" ELSE "late")
        /\ UNCHANGED <<attemptVars, target, cached, lastSeen>> /\ SameShot
     \/ clicked = 0 /\ QuestionRaises
  /\ UNCHANGED <<chatVars, cancelled>>

-----------------------------------------------------------------------------

\* A cancellation ends the run at any await, but the awaits of an answer whose first
\* button is clicked turn it into a SequenceClickPartialError.
CancelTalk ==
  /\ Talking /\ ~cancelled /\ cancelled' = TRUE
  /\ IF clicked > 0 THEN StepFails
     ELSE outcome' = "cancelled" /\ deed' = "over" /\ Rests
          /\ UNCHANGED <<attempt, index, done, tries>>
  /\ UNCHANGED chatVars

TalkNext ==
  \/ BotSays \/ BotChanges \/ Hear
  \/ BeginAttempt \/ BeginSend \/ SendText \/ SendFails \/ SendSettles
  \/ FindButton \/ NoButton \/ ButtonClicked \/ ButtonRefused \/ ButtonRaises
  \/ ClickSettles \/ DoubtSettles
  \/ TakeQuestion \/ NoQuestion \/ WaitEnds \/ TakeLate \/ NothingLate
  \/ Answers \/ ThinkFails \/ AnswerClicked \/ AnswerRefused
  \/ CancelTalk

TalkSpec == TalkInit /\ [][TalkNext]_talkVars

-----------------------------------------------------------------------------
(* Properties *)

\* Messages, snapshots and positions have their types.
TalkTypeOK ==
  /\ chat \in UNION {[1..n -> BotMessages] : n \in 0..ChatLength}
  /\ heard \in [Ids -> 0..2] /\ cache \in [Ids -> BotMessages \cup {Absent, Handled}]
  /\ before \in [Ids -> BotMessages \cup {Absent}] /\ {blind, cached, cancelled} \subseteq BOOLEAN
  /\ replies \subseteq changed /\ changed \subseteq Ids
  /\ attempt \in 1..FlowAttempts /\ index \in DOMAIN Script /\ done \in 0..Len(Script)
  /\ tries \in 1..2 /\ outcome \in {"none", "ok", "failed", "cancelled"}
  /\ deed \in {"begin", "step", "send", "sent", "press", "after", "doubt", "late", "think",
             "pause", "over"}
  /\ target \in 0..ChatLength + 1 /\ lastSeen \in BotMessages \cup {Handled}
  /\ clicked \in 0..Buttons - 1

Settling == deed \in {"sent", "after", "doubt"}

\* "Only a change after the send counts, an unchanged success of the history does not"
\* (_maybe_stop_after_send), as long as the history was read to tell what has changed.
SuccessIsNew ==
  Settling /\ ~blind => \A i \in Ids, scan \in BOOLEAN :
    Tells(i, "success", TRUE, scan) => i \in changed /\ chat[i].says = "success"

\* An answer that comes at once is not missed: whatever the bot has changed since the
\* operation differs from the snapshot.
RepliesSeen == Settling => \A i \in replies : before[i] # chat[i]

\* An attempt that goes on where the last one failed repeats no step that is done.
DoneIsNotRepeated == Backoff = 0 /\ deed \notin {"begin", "over"} => index > done

\* What wait_for and its retries promise, however late the handler hears of a message.
ConversationIsSafe == SuccessIsNew /\ RepliesSeen /\ DoneIsNotRepeated

\* (does not hold) SuccessIsNew without its exception.
OldSuccessIgnored ==
  Settling => \A i \in Ids, shot, scan \in BOOLEAN :
    Tells(i, "success", shot, scan) => i \in changed
\* (does not hold) A cancelled run ends (see CancelTalk).
CancelEndsRun == cancelled => outcome = "cancelled"
\* (does not hold) A sequence that has clicked some buttons "is not retryable"
\* (SequenceClickPartialError): the attempts of this flow do not look at the mark.
BrokenAnswerEnds == [][clicked > 0 /\ deed' = "begin" => FALSE]_talkVars
=============================================================================
