------------------------ MODULE MessageProofs ------------------------
(***************************************************************************)
(* What is done about messages: the operations of a flow, the reply that   *)
(* it waits for, the messages of the keyword monitor, the conversation with *)
(* a bot and the live log of a run, for every flow, any number of messages *)
(* and any sizes of queues and windows.                                    *)
(***************************************************************************)
EXTENDS FlowOperation, FlowReply, MonitorMessages, BotConversation, LogStream,
        FiniteSetTheorems, WellFoundedInduction, TLAPS

-----------------------------------------------------------------------------
(***************************************************************************)
(* The operations of a flow                                                *)
(*                                                                         *)
(* A request that was sent leaves a mark which every exit of the call      *)
(* keeps; nodes ahead are unsent unless their call timed out; and a        *)
(* missing answer is on the record before the flow reports.                *)
(***************************************************************************)

InCall == callStep \in {"calling", "requested", "answered"}
Nodes == 1 .. FlowNodes

FlowTypes ==
  /\ flowTry \in 1 .. FlowTries /\ flowAt \in 1 .. Failed /\ nodeTry \in 0 .. NodeTries
  /\ failures \in 0 .. FlowNodes
  /\ callStep \in {"engine", "calling", "requested", "answered", "ended"}
  /\ receipt \in {"none", "not_started", "attempted", "confirmed", "unknown"}
  /\ sideEffect \in BOOLEAN /\ savedEffect \in BOOLEAN /\ retried \in BOOLEAN
  /\ unknownReceipt \in BOOLEAN /\ nonRetryable \in BOOLEAN
  /\ sent \in [Nodes -> Nat] /\ timedOut \in [Nodes -> BOOLEAN]
  /\ fate \in [Nodes -> {"none", "unknown", "known"}]
  /\ \A n \in Nodes : fate[n] = "none" <=> sent[n] = 0
  /\ flowAt \in Nodes => failures < flowAt
  /\ InCall => flowAt \in Nodes
  /\ callStep \in {"requested", "answered"} => sent[flowAt] > 0

\* The receipt of a call says that its request was sent, unless it is marked late.
ReceiptTold ==
  /\ callStep = "calling" => receipt = "not_started"
  /\ callStep \in {"requested", "answered"} /\ flowAt \notin MarkedLate =>
       receipt = "attempted"

\* A request that was sent has left its mark: on the context or, while a call is under
\* way, on what the call will restore and on its receipt.
MarkKept ==
  \A n \in Nodes \ MarkedLate : sent[n] > 0 =>
    IF InCall THEN savedEffect \/ sideEffect \/ Attempted ELSE sideEffect

\* The nodes still ahead have not been sent unless their call timed out.
AheadUnsent ==
  \A n \in Nodes \ MarkedLate :
    /\ timedOut[n] \/ sent[n] <= 1
    /\ flowAt <= n => \/ timedOut[n] \/ sent[n] = 0
                      \/ n = flowAt /\ callStep \in {"requested", "answered"}

\* An answer that is missing is on the record, or its call is under way.
UnknownTold ==
  /\ \A n \in Nodes \ (Tolerant \cup Nested \cup MarkedLate) : fate[n] = "unknown" =>
       unknownReceipt \/ (n = flowAt /\ callStep = "requested")
  /\ callStep = "ended" /\ unknownReceipt => business = "unknown"

FlowInv == FlowTypes /\ ReceiptTold /\ MarkKept /\ AheadUnsent /\ UnknownTold

LEMMA FlowConstants ==
  /\ FlowNodes \in Nat /\ FlowNodes > 0 /\ FlowTries \in Nat /\ FlowTries > 0
  /\ NodeTries \in Nat /\ FailureLimit \in Nat
  /\ Complete = FlowNodes + 1 /\ Failed = FlowNodes + 2
  /\ Nodes = 1 .. FlowNodes
  BY FlowOperationAssumption DEF Complete, Failed, Nodes

LEMMA FlowInvInit == FlowInit => FlowInv
<1> SUFFICES ASSUME FlowInit PROVE FlowInv
  OBVIOUS
<1>1. FlowTypes
  <2>1. /\ 1 \in 1 .. FlowTries /\ 1 \in 1 .. Failed /\ 0 \in 0 .. NodeTries
        /\ 0 \in 0 .. FlowNodes /\ FALSE \in BOOLEAN
    BY FlowConstants
  <2>2. /\ sent \in [Nodes -> Nat] /\ timedOut \in [Nodes -> BOOLEAN]
        /\ fate \in [Nodes -> {"none", "unknown", "known"}]
        /\ \A n \in Nodes : fate[n] = "none" /\ sent[n] = 0
    BY DEF FlowInit, Nodes
  <2>3. failures < flowAt /\ ~InCall
    BY DEF FlowInit, InCall
  <2> QED  BY <2>1, <2>2, <2>3 DEF FlowInit, FlowTypes
<1>2. ReceiptTold /\ MarkKept /\ AheadUnsent /\ UnknownTold
  BY FlowConstants DEF FlowInit, ReceiptTold, MarkKept, AheadUnsent, UnknownTold
<1> QED  BY <1>1, <1>2 DEF FlowInv

\* The engine goes on behind a node, or ends the flow.
LEMMA EngineGoesOn ==
  ASSUME FlowTypes, flowAt \in Nodes, NEW ending, EngineTakes(ending)
  PROVE  /\ nodeTry' = 0 /\ nodeTry' \in 0 .. NodeTries /\ failures' \in 0 .. FlowNodes
         /\ flowAt' \in 1 .. Failed /\ flowAt' > flowAt
         /\ nonRetryable' \in BOOLEAN
         /\ flowAt' \in Nodes => failures' < flowAt'
<1>1. /\ flowAt \in Nat /\ failures \in Nat /\ failures < flowAt /\ flowAt <= FlowNodes
  BY FlowConstants DEF FlowTypes
<1>2. flowAt' = flowAt + 1 \/ flowAt' = Failed
  BY DEF EngineTakes
<1>3. failures' = failures + 1 \/ failures' = 0 \/ failures' = failures
  BY DEF EngineTakes
<1>4. nodeTry' = 0 /\ nonRetryable' \in BOOLEAN
  BY DEF EngineTakes, FlowTypes
<1> QED  BY <1>1, <1>2, <1>3, <1>4, FlowConstants

\* A call that comes back to the engine: its mark is restored, what it sent is left.
LEMMA CallComesBack ==
  ASSUME FlowInv, InCall, callStep' = "engine",
         UNCHANGED <<flowTry, savedEffect, retried, business, sent, fate>>,
         sideEffect' = TRUE \/ sideEffect' = MarkAfter,
         receipt' \in {"none", "not_started", "attempted", "confirmed", "unknown"},
         unknownReceipt' \in BOOLEAN, unknownReceipt => unknownReceipt',
         timedOut' \in [Nodes -> BOOLEAN],
         \A n \in Nodes : timedOut[n] => timedOut'[n],
         flowAt' \in 1 .. Failed,
         flowAt' # flowAt => flowAt' > flowAt,
         flowAt' = flowAt => callStep = "calling" \/ flowAt \in MarkedLate \/ timedOut'[flowAt],
         nodeTry' \in 0 .. NodeTries, failures' \in 0 .. FlowNodes, nonRetryable' \in BOOLEAN,
         flowAt' \in Nodes => failures' < flowAt',
         callStep = "requested" =>
           unknownReceipt' \/ flowAt \in Tolerant \cup Nested \cup MarkedLate
  PROVE  FlowInv'
<1> USE DEF FlowInv
<1>0. sideEffect' \in BOOLEAN
  BY DEF MarkAfter, FlowTypes
<1>1. FlowTypes'
  BY <1>0, FlowConstants DEF FlowTypes, InCall
<1>2. ReceiptTold'
  BY DEF ReceiptTold
<1>3. MarkKept'
  <2>1. InCall /\ ~InCall'
    BY DEF InCall
  <2>2. savedEffect \/ sideEffect \/ Attempted => sideEffect'
    BY DEF MarkAfter
  <2> QED  BY <2>1, <2>2 DEF MarkKept
<1>4. AheadUnsent'
  BY FlowConstants DEF AheadUnsent, FlowTypes, InCall
<1>5. UnknownTold'
  BY DEF UnknownTold
<1> QED  BY <1>1, <1>2, <1>3, <1>4, <1>5

LEMMA SkipStep == ASSUME FlowInv, SkipNode PROVE FlowInv'
<1> USE DEF FlowInv
<1>0. /\ callStep = "engine" /\ flowAt \in Nodes
      /\ UNCHANGED <<flowTry, callStep, receipt, sideEffect, savedEffect, retried,
                     unknownReceipt, business, sent, fate, timedOut>>
      /\ EngineTakes("skipped")
  BY DEF SkipNode, InGraph, Nodes
<1>1. /\ nodeTry' \in 0 .. NodeTries /\ failures' \in 0 .. FlowNodes
      /\ flowAt' \in 1 .. Failed /\ flowAt' > flowAt /\ nonRetryable' \in BOOLEAN
      /\ flowAt' \in Nodes => failures' < flowAt'
  BY <1>0, EngineGoesOn
<1>2. FlowTypes'
  BY <1>0, <1>1 DEF FlowTypes, InCall
<1>3. ReceiptTold' /\ MarkKept' /\ UnknownTold'
  BY <1>0 DEF ReceiptTold, MarkKept, InCall, Attempted, UnknownTold
<1>4. AheadUnsent'
  BY <1>0, <1>1, FlowConstants DEF AheadUnsent, FlowTypes
<1> QED  BY <1>2, <1>3, <1>4

LEMMA BeginStep == ASSUME FlowInv, BeginCall PROVE FlowInv'
<1> USE DEF FlowInv
<1>0. flowAt \in Nodes /\ callStep = "engine" /\ callStep' = "calling"
      /\ receipt' = "not_started" /\ savedEffect' = sideEffect
      /\ UNCHANGED <<flowAt, unknownReceipt, sent, fate, timedOut>>
  BY DEF BeginCall, InGraph, Nodes
<1>1. FlowTypes'
  <2>1. nodeTry' \in 0 .. NodeTries
    BY FlowConstants DEF BeginCall, FlowTypes
  <2>2. UNCHANGED <<flowTry, failures, nonRetryable, business>>
        /\ sideEffect' = FALSE /\ retried' = FALSE
    BY DEF BeginCall
  <2> QED  BY <1>0, <2>1, <2>2 DEF FlowTypes, InCall
<1>2. ReceiptTold' /\ UnknownTold'
  BY <1>0 DEF ReceiptTold, UnknownTold
<1>3. MarkKept'
  BY <1>0 DEF MarkKept, InCall
<1>4. AheadUnsent'
  BY <1>0 DEF AheadUnsent
<1> QED  BY <1>1, <1>2, <1>3, <1>4

LEMMA SendStep == ASSUME FlowInv, SendRequest PROVE FlowInv'
<1> USE DEF FlowInv
<1>0. /\ flowAt \in Nodes /\ callStep = "calling" /\ callStep' = "requested"
      /\ receipt = "not_started"
      /\ receipt' = IF flowAt \in MarkedLate THEN receipt ELSE "attempted"
      /\ sent' = [sent EXCEPT ![flowAt] = @ + 1]
      /\ fate' = [fate EXCEPT ![flowAt] = "unknown"]
      /\ UNCHANGED <<flowTry, flowAt, nodeTry, failures, sideEffect, savedEffect,
                   retried, unknownReceipt, nonRetryable, business, timedOut>>
  BY DEF SendRequest, FlowTypes, InCall, ReceiptTold
<1>1. FlowTypes'
  BY <1>0, FlowConstants DEF FlowTypes, InCall
<1>2. ReceiptTold'
  BY <1>0 DEF ReceiptTold
<1>3. MarkKept'
  <2>1. ASSUME NEW n \in Nodes \ MarkedLate, sent'[n] > 0
        PROVE  (savedEffect \/ sideEffect \/ Attempted)'
    <3>1. CASE n = flowAt
      BY <1>0, <3>1 DEF Attempted
    <3>2. CASE n # flowAt
      <4>1. savedEffect \/ sideEffect \/ Attempted
        BY <1>0, <2>1, <3>2 DEF MarkKept, InCall, FlowTypes
      <4>2. ~Attempted
        BY <1>0 DEF Attempted
      <4> QED  BY <1>0, <4>1, <4>2
    <3> QED  BY <3>1, <3>2
  <2> QED  BY <1>0, <2>1 DEF MarkKept, InCall
<1>4. AheadUnsent'
  BY <1>0, FlowConstants DEF AheadUnsent, FlowTypes
<1>5. UnknownTold'
  BY <1>0 DEF UnknownTold, FlowTypes
<1> QED  BY <1>1, <1>2, <1>3, <1>4, <1>5

LEMMA AnswerStep == ASSUME FlowInv, RequestAnswered PROVE FlowInv'
<1> USE DEF FlowInv, RequestAnswered
<1>1. FlowTypes'
  BY FlowConstants DEF FlowTypes, InCall
<1>2. ReceiptTold' /\ AheadUnsent'
  BY DEF ReceiptTold, AheadUnsent
<1>3. MarkKept'
  BY DEF MarkKept, InCall
<1>5. UnknownTold'
  BY DEF UnknownTold, FlowTypes
<1> QED  BY <1>1, <1>2, <1>3, <1>5

LEMMA AdapterStep == ASSUME FlowInv, AdapterRetries PROVE FlowInv'
<1> USE DEF FlowInv
<1>0. /\ InCall /\ ~sideEffect /\ receipt = "not_started" /\ callStep' = "calling"
      /\ callStep # "calling" => flowAt \in MarkedLate
      /\ UNCHANGED <<flowTry, flowAt, nodeTry, failures, receipt, sideEffect,
                   savedEffect, unknownReceipt, nonRetryable, business, sent,
                   fate, timedOut>>
      /\ retried' = TRUE
  BY DEF AdapterRetries, HasSideEffect, Attempted, InCall, ReceiptTold
<1>1. FlowTypes'
  BY <1>0 DEF FlowTypes, InCall
<1>2. ReceiptTold' /\ AheadUnsent' /\ UnknownTold'
  BY <1>0 DEF ReceiptTold, AheadUnsent, UnknownTold, InCall
<1>3. MarkKept'
  BY <1>0 DEF MarkKept, InCall, Attempted
<1> QED  BY <1>1, <1>2, <1>3

LEMMA ReturnStep ==
  ASSUME FlowInv, NEW ending, ReturnCall(ending), InCall,
         sideEffect' = TRUE \/ sideEffect' = MarkAfter,
         callStep # "requested" \/ flowAt \in Tolerant
  PROVE  FlowInv'
<1> USE DEF FlowInv
<1>0. flowAt \in Nodes /\ EngineTakes(ending)
  BY DEF FlowTypes, ReturnCall
<1>1. /\ nodeTry' \in 0 .. NodeTries /\ failures' \in 0 .. FlowNodes
      /\ flowAt' \in 1 .. Failed /\ flowAt' > flowAt /\ nonRetryable' \in BOOLEAN
      /\ flowAt' \in Nodes => failures' < flowAt'
  BY <1>0, EngineGoesOn
<1>2. /\ callStep' = "engine"
      /\ UNCHANGED <<flowTry, savedEffect, retried, unknownReceipt, business, sent, fate, timedOut>>
      /\ receipt' \in {"none", "not_started", "attempted", "confirmed", "unknown"}
      /\ unknownReceipt \in BOOLEAN /\ timedOut \in [Nodes -> BOOLEAN]
  BY DEF ReturnCall, FlowTypes
<1>3. /\ unknownReceipt' \in BOOLEAN /\ (unknownReceipt => unknownReceipt')
      /\ timedOut' \in [Nodes -> BOOLEAN]
      /\ \A n \in Nodes : timedOut[n] => timedOut'[n]
      /\ UNCHANGED <<flowTry, savedEffect, retried, business, sent, fate>>
  BY <1>2
<1>4. flowAt' # flowAt /\ (callStep = "requested" => flowAt \in Tolerant \cup Nested \cup MarkedLate)
  BY <1>0, <1>1, FlowConstants DEF Nodes
<1> QED  BY <1>1, <1>2, <1>3, <1>4, CallComesBack

LEMMA ErrorStep ==
  ASSUME FlowInv, ErrorRaised \/ CallTimesOut PROVE FlowInv'
<1> USE DEF FlowInv
<1>0. /\ InCall /\ flowAt \in Nodes /\ callStep' = "engine"
      /\ UNCHANGED <<flowTry, savedEffect, retried, business, sent, fate>>
      /\ sideEffect' = MarkAfter
      /\ receipt' \in {"none", "not_started", "attempted", "confirmed", "unknown"}
  BY DEF ErrorRaised, CallTimesOut, InCall, FlowTypes, AfterError, AfterCancel
<1>u. /\ unknownReceipt' \in BOOLEAN /\ (unknownReceipt => unknownReceipt')
      /\ callStep # "requested" \/ unknownReceipt' \/ flowAt \in Tolerant \cup Nested \cup MarkedLate
  <2>1. callStep = "requested" /\ flowAt \notin MarkedLate => HasSideEffect /\ receipt = "attempted"
    BY DEF ReceiptTold, HasSideEffect, Attempted
  <2>2. unknownReceipt \in BOOLEAN
    BY DEF FlowTypes
  <2>3. CASE ErrorRaised
    <3>1. unknownReceipt' = (unknownReceipt \/ (HasSideEffect /\ flowAt \notin Nested))
      BY <2>3 DEF ErrorRaised
    <3> QED  BY <2>1, <2>2, <3>1
  <2>4. CASE CallTimesOut
    <3>1. unknownReceipt' = (unknownReceipt \/ (AfterCancel = "unknown" /\ flowAt \notin Nested))
      BY <2>4 DEF CallTimesOut
    <3>2. HasSideEffect => AfterCancel = "unknown"
      BY DEF AfterCancel
    <3> QED  BY <2>1, <2>2, <3>1, <3>2
  <2> QED  BY <2>3, <2>4
<1>t. /\ timedOut' \in [Nodes -> BOOLEAN]
      /\ \A n \in Nodes : timedOut[n] => timedOut'[n]
      /\ CallTimesOut => timedOut'[flowAt]
  <2>1. CASE CallTimesOut
    BY <1>0, <2>1 DEF CallTimesOut, FlowTypes
  <2>2. CASE ErrorRaised /\ ~CallTimesOut
    BY <2>2 DEF ErrorRaised, FlowTypes
  <2> QED  BY <2>1, <2>2
<1>1. CASE EngineTakes("controlled") \/ EngineTakes("failed")
  <2>1. /\ nodeTry' \in 0 .. NodeTries /\ failures' \in 0 .. FlowNodes
        /\ flowAt' \in 1 .. Failed /\ flowAt' > flowAt /\ nonRetryable' \in BOOLEAN
        /\ flowAt' \in Nodes => failures' < flowAt'
    BY <1>0, <1>1, EngineGoesOn
  <2> QED  BY <1>0, <1>u, <1>t, <2>1, CallComesBack
<1>2. CASE EngineRetries /\ (ErrorRaised /\ ~CallTimesOut => ~HasSideEffect)
  <2>0. UNCHANGED <<flowAt, nodeTry, failures, nonRetryable>>
    BY <1>2 DEF EngineRetries
  <2>1. /\ nodeTry' \in 0 .. NodeTries /\ failures' \in 0 .. FlowNodes
        /\ flowAt' = flowAt /\ flowAt' \in 1 .. Failed /\ nonRetryable' \in BOOLEAN
        /\ flowAt' \in Nodes => failures' < flowAt'
    BY <2>0 DEF FlowTypes
  <2>2. callStep = "calling" \/ flowAt \in MarkedLate \/ timedOut'[flowAt]
    BY <1>0, <1>2, <1>t DEF ReceiptTold, HasSideEffect, Attempted, InCall
  <2> QED  BY <1>0, <1>u, <1>t, <2>1, <2>2, CallComesBack
<1> QED  BY <1>1, <1>2 DEF ErrorRaised, CallTimesOut

LEMMA StopFlowStep == ASSUME FlowInv, StopFlow PROVE FlowInv'
<1> USE DEF FlowInv
<1>1. /\ InCall /\ callStep = "answered" /\ callStep' = "engine" /\ sideEffect' = TRUE
      /\ flowAt' = Complete /\ nodeTry' = 0 /\ failures' = 0
      /\ receipt' \in {"none", "not_started", "attempted", "confirmed", "unknown"}
      /\ UNCHANGED <<flowTry, savedEffect, retried, unknownReceipt, nonRetryable,
                     business, sent, fate, timedOut>>
  BY DEF StopFlow, InCall, FlowTypes
<1>2. /\ flowAt \in Nodes /\ unknownReceipt \in BOOLEAN /\ nonRetryable \in BOOLEAN
      /\ timedOut \in [Nodes -> BOOLEAN]
  BY <1>1 DEF FlowTypes
<1> QED  BY <1>1, <1>2, CallComesBack, FlowConstants

LEMMA EndStep == ASSUME FlowInv, FlowEnds PROVE FlowInv'
<1> USE DEF FlowInv
<1>0. /\ callStep = "engine" /\ flowAt \notin Nodes /\ callStep' = "ended"
      /\ business' = IF unknownReceipt THEN "unknown"
                   ELSE IF flowAt = Complete THEN "not_evaluated" ELSE "failed"
      /\ UNCHANGED <<flowTry, flowAt, nodeTry, failures, receipt, sideEffect,
                   savedEffect, retried, unknownReceipt, nonRetryable, sent,
                   fate, timedOut>>
  BY FlowConstants DEF FlowEnds
<1>1. FlowTypes'
  BY <1>0 DEF FlowTypes, InCall
<1>2. ReceiptTold' /\ MarkKept' /\ AheadUnsent' /\ UnknownTold'
  BY <1>0 DEF ReceiptTold, MarkKept, InCall, Attempted, AheadUnsent, UnknownTold
<1> QED  BY <1>1, <1>2

LEMMA RepeatStep == ASSUME FlowInv, RepeatFlow PROVE FlowInv'
<1> USE DEF FlowInv
<1>0. /\ callStep = "ended" /\ ~sideEffect /\ flowAt' = 1 /\ callStep' = "engine"
      /\ receipt' = "none" /\ unknownReceipt' = FALSE
      /\ UNCHANGED <<sideEffect, sent, fate, timedOut>>
  BY DEF RepeatFlow, FlowMayRepeat
<1>1. \A n \in Nodes \ MarkedLate : sent[n] = 0 /\ fate[n] = "none"
  BY <1>0 DEF MarkKept, InCall, FlowTypes
<1>2. FlowTypes'
  <2>1. flowTry' \in 1 .. FlowTries
    BY FlowConstants DEF RepeatFlow, FlowTypes
  <2>2. UNCHANGED <<savedEffect, retried, nonRetryable>> /\ nodeTry' = 0 /\ failures' = 0
    BY DEF RepeatFlow
  <2>3. /\ 1 \in 1 .. Failed /\ 0 \in 0 .. NodeTries /\ 0 \in 0 .. FlowNodes
        /\ FALSE \in BOOLEAN
    BY FlowConstants
  <2>4. callStep' = "engine" /\ receipt' = "none" /\ flowAt' = 1 /\ nodeTry' = 0 /\ failures' = 0
    BY <1>0, <2>2
  <2>5. failures' < flowAt' /\ ~InCall'
    BY <2>4 DEF InCall
  <2> QED  BY <1>0, <2>1, <2>2, <2>3, <2>4, <2>5 DEF FlowTypes
<1>3. ReceiptTold' /\ MarkKept' /\ AheadUnsent' /\ UnknownTold'
  BY <1>0, <1>1 DEF ReceiptTold, MarkKept, InCall, AheadUnsent, UnknownTold
<1> QED  BY <1>2, <1>3

LEMMA FlowInvStep == FlowInv /\ [FlowNext]_flowVars => FlowInv'
<1> SUFFICES ASSUME FlowInv, [FlowNext]_flowVars PROVE FlowInv'
  OBVIOUS
<1>1. CASE UNCHANGED flowVars
  BY <1>1 DEF flowVars, FlowInv, FlowTypes, InCall, ReceiptTold, MarkKept, Attempted,
              AheadUnsent, UnknownTold
<1>2. CASE CallSucceeds \/ CallReturnsFalse \/ ErrorTolerated
  <2>1. PICK ending : ReturnCall(ending)
    BY <1>2 DEF CallSucceeds, CallReturnsFalse, ErrorTolerated
  <2>2. InCall /\ (sideEffect' = TRUE \/ sideEffect' = MarkAfter)
        /\ (callStep # "requested" \/ flowAt \in Tolerant)
    BY <1>2 DEF CallSucceeds, CallReturnsFalse, ErrorTolerated, InCall
  <2> QED  BY <2>1, <2>2, ReturnStep
<1> QED
  BY <1>1, <1>2, SkipStep, BeginStep, SendStep, AnswerStep, AdapterStep, ErrorStep,
     StopFlowStep, EndStep, RepeatStep DEF FlowNext

\* The engine, the adapter and the call under way are at one node, and their counters
\* stay within their bounds, for any graph, retries and failures.
THEOREM FlowTyped == FlowSpec => []FlowTypeOK
<1>1. FlowInv => FlowTypeOK
  BY FlowConstants DEF FlowInv, FlowTypes, FlowTypeOK, Nodes
<1> QED  BY <1>1, FlowInvInit, FlowInvStep, PTL DEF FlowSpec

\* An operation of a flow is sent again only after a timeout of its node, over the
\* retries of the adapter, of the engine and of the flow; and one without an answer makes
\* the business status "unknown" unless the node hides it.
THEOREM FlowsDoNotReplay == FlowSpec => []NoSilentReplay
<1>1. ASSUME FlowInv PROVE NoSilentReplay
  <2>1. ReplayOnlyAfterTimeout
    BY <1>1 DEF FlowInv, FlowTypes, AheadUnsent, ReplayOnlyAfterTimeout, Nodes
  <2>2. UnknownReported
    BY <1>1 DEF FlowInv, UnknownTold, UnknownReported, Nodes
  <2> QED  BY <2>1, <2>2 DEF NoSilentReplay
<1>2. FlowInv => NoSilentReplay  BY <1>1
<1> QED  BY <1>2, FlowInvInit, FlowInvStep, PTL DEF FlowSpec

-----------------------------------------------------------------------------
(***************************************************************************)
(* The reply to an operation                                               *)
(*                                                                         *)
(* Everything told after the watermark is later than the operation; while  *)
(* nothing was dropped, all of it has been seen or waits in the queue.     *)
(***************************************************************************)

ReplyEventsSet == [id : Nat, says : Says, after : Nat]
Steps == {"before", "acted", "waiting", "judging", "sleeping", "resending", "over"}

ReplyTypes ==
  /\ action \in LastActions
  /\ asked \in Nat /\ lastId \in Nat /\ told \in Seq(ReplyEventsSet)
  /\ replyQueue \subseteq DOMAIN told /\ seen \subseteq DOMAIN told
  /\ dropped \in Nat /\ watermark \in Nat /\ resends \in Nat
  /\ waitStep \in Steps
  /\ answer \in Nat
  /\ verdict # "none" <=> waitStep = "over"
  /\ waitStep \in {"before", "acted"} => replyQueue = {} /\ seen = {}

\* A message that is newer than the watermark was written after the operation was last
\* begun: ids grow, and the message that we send takes the next.
NewerIsLater ==
  /\ watermark <= lastId
  /\ \A i \in DOMAIN told : told[i].id <= lastId
  /\ action = "send" => \A i \in DOMAIN told : Newer(told[i]) => told[i].after = asked

\* Without a loss every newer event has been taken or waits in the queue.
NothingMissed ==
  Subscribed /\ Gapless =>
    \A i \in DOMAIN told : Newer(told[i]) => i \in seen \cup replyQueue

\* What the answer stands on is settled when it is taken.
Settled ==
  waitStep = "judging" \/ verdict = "success" =>
    /\ answer \in DOMAIN told /\ Newer(told[answer])
    /\ \A i \in 1 .. answer : Newer(told[i]) => i \in seen

ReplyInv == ReplyTypes /\ NewerIsLater /\ NothingMissed /\ Settled

LEMMA ReplyInvInit == ReplyInit => ReplyInv
<1> SUFFICES ASSUME ReplyInit PROVE ReplyInv
  OBVIOUS
<1> USE DEF ReplyInit
<1>1. ReplyTypes
  BY DEF ReplyTypes, Steps
<1>2. NewerIsLater /\ NothingMissed /\ Settled
  BY DEF NewerIsLater, NothingMissed, Settled, Subscribed
<1> QED  BY <1>1, <1>2 DEF ReplyInv

LEMMA AppendFacts ==
  ASSUME NEW S, NEW s \in Seq(S), NEW x \in S
  PROVE  /\ Append(s, x) \in Seq(S)
         /\ DOMAIN Append(s, x) = DOMAIN s \cup {Len(s) + 1}
         /\ Len(s) + 1 \notin DOMAIN s /\ DOMAIN s = 1 .. Len(s) /\ Len(s) \in Nat
         /\ \A i \in DOMAIN s : Append(s, x)[i] = s[i]
         /\ Append(s, x)[Len(s) + 1] = x
  OBVIOUS

LEMMA IdsAreNumbers ==
  ASSUME NEW s \in Seq(ReplyEventsSet), NEW i \in DOMAIN s
  PROVE  s[i] \in ReplyEventsSet /\ s[i].id \in Nat
<1>1. s[i] \in ReplyEventsSet
  OBVIOUS
<1> QED  BY <1>1 DEF ReplyEventsSet

\* The bot speaks while the node waits or not: an event of the time after the action
\* is told.
LEMMA PublishStep ==
  ASSUME ReplyInv, NEW e \in ReplyEventsSet, Publish(e), waitStep # "over",
         lastId' \in Nat, lastId <= lastId', e.id <= lastId',
         action = "send" /\ Newer(e) => e.after = asked
  PROVE  ReplyInv'
<1> USE DEF ReplyInv
<1>0. /\ told' = Append(told, e)
      /\ UNCHANGED <<action, asked, watermark, waitStep, seen, resends, verdict, answer,
                     flowStatus>>
      /\ told \in Seq(ReplyEventsSet)
  BY DEF Publish, ReplyTypes
<1>a. /\ told' \in Seq(ReplyEventsSet)
      /\ DOMAIN told' = DOMAIN told \cup {Len(told) + 1}
      /\ Len(told) + 1 \notin DOMAIN told /\ DOMAIN told = 1 .. Len(told) /\ Len(told) \in Nat
      /\ \A i \in DOMAIN told : told'[i] = told[i]
      /\ told'[Len(told) + 1] = e
  BY <1>0, AppendFacts
<1>b. /\ replyQueue \subseteq replyQueue' /\ replyQueue' \subseteq replyQueue \cup {Len(told) + 1}
      /\ dropped' \in Nat /\ dropped <= dropped'
      /\ Subscribed => dropped' > dropped \/ Len(told) + 1 \in replyQueue'
      /\ ~Subscribed => replyQueue' = replyQueue
  BY DEF Publish, ReplyTypes
<1>1. ReplyTypes'
  BY <1>0, <1>a, <1>b DEF ReplyTypes, Subscribed, Steps
<1>2. NewerIsLater'
  <2>1. \A i \in DOMAIN told : told[i].id \in Nat
    BY IdsAreNumbers DEF ReplyTypes
  <2>2. watermark <= lastId' /\ \A i \in DOMAIN told' : told'[i].id <= lastId'
    BY <1>a, <2>1 DEF NewerIsLater, ReplyTypes
  <2>3. ASSUME action = "send", NEW i \in DOMAIN told', told'[i].id > watermark
        PROVE  told'[i].after = asked
    BY <1>a, <2>3 DEF NewerIsLater, Newer
  <2> QED  BY <1>0, <2>2, <2>3 DEF NewerIsLater, Newer
<1>3. NothingMissed'
  <2>1. Subscribed' = Subscribed /\ (Gapless' => Gapless /\ dropped' = dropped)
    BY <1>0, <1>b DEF Subscribed, Gapless, Gap, ReplyTypes
  <2>2. ASSUME Subscribed, Gapless, dropped' = dropped, NEW i \in DOMAIN told', Newer(told[i])' 
        PROVE  i \in seen' \cup replyQueue'
    <3>1. CASE i = Len(told) + 1
      BY <1>b, <2>2, <3>1 DEF ReplyTypes
    <3>2. CASE i \in DOMAIN told
      BY <1>0, <1>a, <1>b, <2>2, <3>2 DEF NothingMissed, Newer
    <3> QED  BY <1>a, <3>1, <3>2
  <2> QED  BY <2>1, <2>2 DEF NothingMissed
<1>4. Settled'
  <2> SUFFICES ASSUME waitStep = "judging" PROVE Settled'
    BY <1>0 DEF Settled, ReplyTypes
  <2>1. /\ answer \in DOMAIN told /\ Newer(told[answer])
        /\ \A i \in 1 .. answer : Newer(told[i]) => i \in seen
        /\ \A i \in 1 .. answer : i \in DOMAIN told
    BY <1>a DEF Settled, ReplyTypes
  <2> QED  BY <1>0, <1>a, <2>1 DEF Settled, Newer
<1> QED  BY <1>1, <1>2, <1>3, <1>4

LEMMA TellStep == ASSUME ReplyInv, BotWrites \/ BotEdits PROVE ReplyInv'
<1> USE DEF ReplyInv
<1>1. CASE BotWrites
  <2>1. PICK s \in Says : Publish([id |-> lastId + 1, says |-> s, after |-> asked])
    BY <1>1 DEF BotWrites
  <2> DEFINE e == [id |-> lastId + 1, says |-> s, after |-> asked]
  <2>2. e \in ReplyEventsSet /\ e.id = lastId + 1 /\ e.after = asked
    BY DEF ReplyTypes, ReplyEventsSet
  <2>3. waitStep # "over" /\ lastId' = lastId + 1 /\ lastId \in Nat
    BY <1>1 DEF BotWrites, MayTell, ReplyTypes
  <2> HIDE DEF e
  <2>4. Publish(e)
    BY <2>1 DEF e
  <2> QED  BY <2>2, <2>3, <2>4, PublishStep
<1>2. CASE BotEdits
  <2>1. PICK k \in DOMAIN told, s \in Says : Publish([id |-> told[k].id, says |-> s, after |-> asked])
    BY <1>2 DEF BotEdits
  <2> DEFINE e == [id |-> told[k].id, says |-> s, after |-> asked]
  <2>0. told[k] \in ReplyEventsSet
    BY DEF ReplyTypes
  <2>2. e \in ReplyEventsSet /\ e.id <= lastId /\ e.after = asked
    BY <2>0 DEF ReplyTypes, ReplyEventsSet, NewerIsLater
  <2>3. waitStep # "over" /\ lastId' = lastId /\ lastId \in Nat
    BY <1>2 DEF BotEdits, MayTell, ReplyTypes
  <2> HIDE DEF e
  <2>4. Publish(e)
    BY <2>1 DEF e
  <2> QED  BY <2>2, <2>3, <2>4, PublishStep
<1> QED  BY <1>1, <1>2

\* The action, the first time or again: the watermark rises over all that was told.
LEMMA OperateStep ==
  ASSUME ReplyInv, Act \/ Resend PROVE ReplyInv'
<1> USE DEF ReplyInv
<1>0. /\ asked' = asked + 1 /\ UNCHANGED <<action, told, replyQueue, dropped, seen, resends,
                                           verdict, answer>>
      /\ lastId' = IF action = "send" THEN lastId + 1 ELSE lastId
      /\ watermark' = IF action = "send" THEN lastId + 1 ELSE watermark
      /\ \/ waitStep = "before" /\ waitStep' = "acted"
         \/ waitStep = "resending" /\ waitStep' = "waiting"
  BY DEF Act, Resend, Operate
<1>1. ReplyTypes'
  BY <1>0 DEF ReplyTypes, Steps
<1>e. \A i \in DOMAIN told : told[i].id \in Nat
  BY IdsAreNumbers DEF ReplyTypes
<1>2. NewerIsLater'
  BY <1>0, <1>e DEF NewerIsLater, Newer, ReplyTypes
<1>3. NothingMissed'
  <2>1. \A i \in DOMAIN told : Newer(told[i])' => Newer(told[i])
    BY <1>0, <1>e DEF Newer, NewerIsLater, ReplyTypes
  <2> QED  BY <1>0, <2>1 DEF NothingMissed, Subscribed, Gapless, Gap
<1>4. Settled'
  BY <1>0 DEF Settled, ReplyTypes
<1> QED  BY <1>1, <1>2, <1>3, <1>4

LEMMA SubscribeStep == ASSUME ReplyInv, Subscribe PROVE ReplyInv'
<1> USE DEF ReplyInv
<1> DEFINE fitting == {i \in History : Newer(told[i])}
<1>0. /\ waitStep = "acted" /\ waitStep' = "waiting"
      /\ UNCHANGED <<action, asked, lastId, told, watermark, seen, resends, verdict,
                     answer, flowStatus>>
  BY DEF Subscribe
<1>1. PICK kept \in SUBSET fitting :
        replyQueue' = kept /\ dropped' = Evicted + Cardinality(fitting \ kept)
  BY DEF Subscribe
<1>f. Len(told) \in Nat /\ DOMAIN told = 1 .. Len(told)
  BY DEF ReplyTypes
<1>2. IsFiniteSet(fitting \ kept) /\ Cardinality(fitting \ kept) \in Nat
      /\ (Cardinality(fitting \ kept) = 0 <=> fitting \ kept = {})
  <2>1. IsFiniteSet(1 .. Len(told)) /\ fitting \ kept \subseteq 1 .. Len(told)
    BY <1>f, FS_Interval DEF History
  <2>2. IsFiniteSet(fitting \ kept)
    BY <2>1, FS_Subset
  <2> QED  BY <2>2, FS_CardinalityType, FS_EmptySet
<1>3. Evicted \in Nat /\ (Evicted = 0 => History = DOMAIN told)
  BY <1>f, ReplyAssumption DEF Evicted, History
<1>4. ReplyTypes'
  BY <1>0, <1>1, <1>2, <1>3 DEF ReplyTypes, Steps, History
<1>5. NewerIsLater' /\ Settled'
  BY <1>0 DEF NewerIsLater, Newer, Settled, ReplyTypes
<1>6. NothingMissed'
  <2>1. Gapless' => fitting \subseteq kept /\ History = DOMAIN told
    BY <1>1, <1>2, <1>3 DEF Gapless, Gap
  <2> QED  BY <1>0, <1>1, <2>1 DEF NothingMissed, Newer
<1> QED  BY <1>4, <1>5, <1>6

LEMMA TakeStep == ASSUME ReplyInv, NEW i \in replyQueue, TakeReply(i) PROVE ReplyInv'
<1> USE DEF ReplyInv
<1>0. /\ waitStep = "waiting" /\ Gapless /\ \A j \in replyQueue : i <= j
      /\ replyQueue' = replyQueue \ {i} /\ seen' = seen \cup {i}
      /\ UNCHANGED <<action, asked, lastId, told, dropped, watermark, resends, flowStatus>>
      /\ i \in DOMAIN told /\ verdict = "none"
      /\ Len(told) \in Nat /\ DOMAIN told = 1 .. Len(told)
  BY DEF TakeReply, ReplyTypes
<1>1. /\ waitStep' \in {"waiting", "judging", "sleeping", "over"} /\ answer' \in Nat
      /\ verdict' # "none" <=> waitStep' = "over"
      /\ waitStep' = "judging" \/ verdict' = "success" => answer' = i /\ Newer(told[i])
  <2> DEFINE e == told[i]
  <2>1. \/ ~Newer(e) /\ UNCHANGED <<waitStep, verdict, answer>>
        \/ waitStep' = "judging" /\ answer' = i /\ verdict' = verdict /\ Newer(e)
        \/ waitStep' = "waiting" /\ answer' = 0 /\ verdict' = verdict
        \/ waitStep' = "sleeping" /\ UNCHANGED <<verdict, answer>>
        \/ Concluded("exhausted", i) \/ Concluded("failure", i)
        \/ Newer(e) /\ Concluded("success", i)
    BY DEF TakeReply
  <2> HIDE DEF e
  <2>2. i \in Nat /\ answer \in Nat
    BY <1>0 DEF ReplyTypes
  <2> QED  BY <1>0, <2>1, <2>2 DEF Concluded, e
<1>2. ReplyTypes'
  BY <1>0, <1>1 DEF ReplyTypes, Steps
<1>3. NewerIsLater'
  BY <1>0 DEF NewerIsLater, Newer
<1>4. NothingMissed'
  BY <1>0 DEF NothingMissed, Subscribed, Gapless, Gap, Newer
<1>5. Settled'
  <2>1. \A j \in 1 .. i : Newer(told[j]) => j \in seen'
    BY <1>0 DEF NothingMissed, Subscribed, ReplyTypes
  <2>2. \A j \in DOMAIN told : Newer(told[j])' = Newer(told[j])
    BY <1>0 DEF Newer
  <2>3. 1 .. i \subseteq DOMAIN told
    BY <1>0
  <2> QED  BY <1>0, <1>1, <2>1, <2>2, <2>3 DEF Settled
<1> QED  BY <1>2, <1>3, <1>4, <1>5

LEMMA OtherReplySteps ==
  ASSUME ReplyInv,
         \/ GapFound \/ WaitTimesOut \/ Judged \/ WakeToResend \/ ResendFails \/ FlowReports
         \/ UNCHANGED replyVars
  PROVE  ReplyInv'
<1> USE DEF ReplyInv
<1>0. UNCHANGED <<action, asked, lastId, told, replyQueue, dropped, watermark, seen>>
  BY DEF GapFound, WaitTimesOut, Judged, WakeToResend, ResendFails, FlowReports, replyVars
<1>1. /\ waitStep' \in Steps /\ answer' \in Nat /\ resends' \in Nat
      /\ verdict' # "none" <=> waitStep' = "over"
      /\ waitStep' \in {"before", "acted"} => waitStep' = waitStep
      /\ Subscribed' => Subscribed
      /\ waitStep' = "judging" \/ verdict' = "success" =>
           (waitStep = "judging" \/ verdict = "success") /\ answer' = answer
  BY DEF GapFound, WaitTimesOut, Judged, WakeToResend, ResendFails, FlowReports, replyVars,
         ReplyTypes, Steps, Concluded, Subscribed
<1>2. ReplyTypes'
  BY <1>0, <1>1 DEF ReplyTypes
<1>3. NewerIsLater' /\ NothingMissed'
  BY <1>0, <1>1 DEF NewerIsLater, Newer, NothingMissed, Gapless, Gap
<1>4. Settled'
  BY <1>0, <1>1 DEF Settled, Newer
<1> QED  BY <1>2, <1>3, <1>4

LEMMA ReplyInvStep == ReplyInv /\ [ReplyNext]_replyVars => ReplyInv'
  BY TellStep, OperateStep, SubscribeStep, TakeStep, OtherReplySteps DEF ReplyNext

\* A success of a wait node after a message that it sent stands on an event told after
\* the last send, and every success on one before which the node has missed nothing: for
\* any sizes of the queue and of the history, any messages, edits and resends.
THEOREM SuccessIsProved == ReplySpec => []SuccessIsAnAnswer
<1>1. ASSUME ReplyInv PROVE SuccessIsAnAnswer
  BY <1>1 DEF ReplyInv, NewerIsLater, Settled, SuccessIsAnAnswer, ConfirmedByLaterReply,
              SuccessSawAll, Newer
<1>2. ReplyInv => SuccessIsAnAnswer
  BY <1>1
<1> QED  BY <1>2, ReplyInvInit, ReplyInvStep, PTL DEF ReplySpec

\* The sizes: the queue is never over its bound, and an operation is begun once for the
\* action and once for each resend.
Sized ==
  /\ Len(told) <= ReplyEvents /\ Cardinality(replyQueue) <= ReplyQueueSize
  /\ resends \in 0..ReplyRetries /\ asked <= resends + 1
  /\ waitStep = "before" => asked = 0
  /\ waitStep = "sleeping" => resends < ReplyRetries
  /\ waitStep = "resending" => asked <= resends
  /\ answer \in seen \cup {0}

LEMMA QueueIsFinite ==
  ASSUME ReplyTypes, NEW Q \in SUBSET DOMAIN told
  PROVE  IsFiniteSet(Q) /\ Cardinality(Q) \in Nat
<1>1. IsFiniteSet(1 .. Len(told)) /\ DOMAIN told = 1 .. Len(told)
  BY FS_Interval DEF ReplyTypes
<1> QED  BY <1>1, FS_Subset, FS_CardinalityType

LEMMA PublishSized ==
  ASSUME ReplyTypes, Sized, NEW e, Publish(e), MayTell
  PROVE  Sized'
<1>1. Cardinality(replyQueue') <= ReplyQueueSize
  <2>1. IsFiniteSet(replyQueue) /\ Cardinality(replyQueue) \in Nat
    BY QueueIsFinite DEF ReplyTypes
  <2>2. ASSUME ~Full, replyQueue' = replyQueue \cup {Len(told) + 1}
        PROVE  Cardinality(replyQueue') <= ReplyQueueSize
    <3>1. Cardinality(replyQueue') \in {Cardinality(replyQueue), Cardinality(replyQueue) + 1}
      BY <2>1, <2>2, FS_AddElement
    <3>2. Cardinality(replyQueue) < ReplyQueueSize
      BY <2>1, <2>2, ReplyAssumption DEF Full, Sized
    <3> QED  BY <2>1, <3>1, <3>2, ReplyAssumption
  <2> QED  BY <2>2 DEF Publish, Sized
<1>2. Len(told') <= ReplyEvents
  BY ReplyAssumption DEF Publish, MayTell, ReplyTypes
<1> QED  BY <1>1, <1>2 DEF Publish, Sized

LEMMA SubscribeSized ==
  ASSUME ReplyTypes, Sized, Subscribe
  PROVE  Sized'
<1>1. Cardinality(replyQueue') <= ReplyQueueSize
  <2> DEFINE fitting == {i \in History : Newer(told[i])}
  <2>1. Cardinality(fitting) \in Nat
    BY QueueIsFinite DEF History
  <2>2. Cardinality(replyQueue') = IF Cardinality(fitting) > ReplyQueueSize
                                   THEN ReplyQueueSize ELSE Cardinality(fitting)
    BY DEF Subscribe
  <2> QED  BY <2>1, <2>2, ReplyAssumption
<1> QED  BY <1>1 DEF Subscribe, Sized

LEMMA TakeSized ==
  ASSUME ReplyTypes, Sized, NEW i \in replyQueue, TakeReply(i)
  PROVE  Sized'
<1>1. Cardinality(replyQueue') <= ReplyQueueSize
  <2>1. IsFiniteSet(replyQueue) /\ Cardinality(replyQueue) \in Nat
    BY QueueIsFinite DEF ReplyTypes
  <2>2. Cardinality(replyQueue') = Cardinality(replyQueue) - 1
    BY <2>1, FS_RemoveElement DEF TakeReply
  <2> QED  BY <2>1, <2>2, ReplyAssumption DEF Sized
<1>2. answer' \in {answer, 0, i} /\ seen' = seen \cup {i}
  BY DEF TakeReply, Concluded
<1>3. waitStep' \in {"waiting", "judging", "sleeping", "over"}
  BY DEF TakeReply, Concluded
<1>4. waitStep' = "sleeping" => resends < ReplyRetries
  BY DEF TakeReply, Concluded
<1>5. UNCHANGED <<told, resends, asked>>
  BY DEF TakeReply
<1> QED  BY <1>1, <1>2, <1>3, <1>4, <1>5 DEF Sized

LEMMA SizedStep == ReplyTypes /\ Sized /\ [ReplyNext]_replyVars => Sized'
<1> SUFFICES ASSUME ReplyTypes, Sized, [ReplyNext]_replyVars PROVE Sized'
  OBVIOUS
<1>1. CASE BotWrites \/ BotEdits
  BY <1>1, PublishSized DEF BotWrites, BotEdits
<1>2. CASE Act \/ Resend
  BY <1>2, ReplyAssumption DEF Act, Resend, Operate, Sized, ReplyTypes
<1>3. CASE Subscribe
  BY <1>3, SubscribeSized
<1>4. ASSUME NEW i \in replyQueue, TakeReply(i) PROVE Sized'
  BY <1>4, TakeSized
<1>5. CASE GapFound \/ WaitTimesOut \/ Judged \/ ResendFails
  BY <1>5 DEF GapFound, WaitTimesOut, Judged, ResendFails, Concluded, Sized
<1>6. CASE WakeToResend
  BY <1>6, ReplyAssumption DEF WakeToResend, Sized, ReplyTypes
<1>7. CASE FlowReports \/ UNCHANGED replyVars
  BY <1>7 DEF FlowReports, replyVars, Sized
<1> QED  BY <1>1, <1>2, <1>3, <1>4, <1>5, <1>6, <1>7 DEF ReplyNext

\* The queue of the subscriber keeps its bound, an operation is begun once and once for
\* each resend, the watermark is a message that exists and the answer an event that was
\* taken: for any sizes, messages, edits and resends.
THEOREM ReplyTyped == ReplySpec => []ReplyTypeOK
<1>1. ReplyInit => Sized
  BY ReplyAssumption, FS_EmptySet DEF ReplyInit, Sized
<1>2. ASSUME ReplyInv, Sized PROVE ReplyTypeOK
  BY <1>2, ReplyAssumption DEF ReplyInv, ReplyTypes, NewerIsLater, Sized, ReplyTypeOK
<1>3. ReplyInv /\ Sized => ReplyTypeOK
  BY <1>2
<1>4. ReplyInv => ReplyTypes
  BY DEF ReplyInv
<1> QED  BY <1>1, <1>3, <1>4, ReplyInvInit, ReplyInvStep, SizedStep, PTL DEF ReplySpec

-----------------------------------------------------------------------------
(***************************************************************************)
(* The messages of the keyword monitor                                     *)
(*                                                                         *)
(* A message that was had is below the baseline, in the window, or older   *)
(* than all the window keeps; and below the watermark, which the file has  *)
(* as soon as nothing is left to write.                                    *)
(***************************************************************************)

MonitorTypes ==
  /\ top \in 0 .. MaxMessage /\ baseline \in 0 .. MaxMessage /\ filed \in 0 .. MaxMessage
  /\ recent \subseteq Had /\ Cardinality(recent) <= WindowLimit
  /\ dirty \in BOOLEAN /\ handlers \in BOOLEAN /\ hasRules \in BOOLEAN
  /\ restart \in {"idle", "stopping", "connect"}
  /\ passed \in [Messages -> 0 .. 2]
  /\ lost \subseteq Messages

\* A message that was had is below the baseline, in the window, or aged.
Recognised == \A m \in Had \ lost : m <= baseline \/ m \in recent \/ Aged(m)

\* The watermark is above every message that was had, and the file as soon as nothing
\* is left to write.
Watermarked ==
  /\ \A m \in Had \ lost : m <= top
  /\ ~dirty => top <= filed

MonitorInv == MonitorTypes /\ Recognised /\ Watermarked /\ TakenOnce

LEMMA MessagesFinite ==
  ASSUME NEW T, T \subseteq Messages
  PROVE  IsFiniteSet(T) /\ Cardinality(T) \in Nat
<1>1. IsFiniteSet(Messages)
  BY MessagesAssumption, FS_Interval DEF Messages
<1> QED  BY <1>1, FS_Subset, FS_CardinalityType

LEMMA MoreMessages ==
  ASSUME NEW T, NEW U, T \subseteq U, U \subseteq Messages
  PROVE  Cardinality(T) <= Cardinality(U)
  BY MessagesFinite, FS_Subset

\* A set of messages has a least one.
Below == OpToRel(<, Nat)
LEMMA LeastMessage ==
  ASSUME NEW T, T \subseteq Messages, T # {}
  PROVE  \E t \in T : \A o \in T : t <= o
<1>0. T \subseteq Nat
  BY DEF Messages
<1>1. IsWellFoundedOn(Below, Nat)
  BY NatLessThanWellFounded DEF Below
<1>2. PICK t \in T : \A o \in T : <<o, t>> \notin Below
  BY <1>0, <1>1, WFMin
<1>3. \A o \in T : ~(o < t)
  BY <1>0, <1>2 DEF Below, OpToRel
<1> QED  BY <1>0, <1>3

\* Newest(S, n) has n members at most.
LEMMA NewestBound ==
  ASSUME NEW S, S \subseteq Messages, NEW n \in Nat
  PROVE  Newest(S, n) \subseteq S /\ Cardinality(Newest(S, n)) <= n
<1> DEFINE T == Newest(S, n)
<1>1. T \subseteq S /\ T \subseteq Messages
  BY DEF Newest
<1>2. CASE T = {}
  BY <1>1, <1>2, FS_EmptySet
<1>3. CASE T # {}
  <2>1. PICK t \in T : \A o \in T : t <= o
    BY <1>1, <1>3, LeastMessage
  <2>2. Cardinality({o \in S : o > t}) < n
    BY <2>1 DEF Newest
  <2>3. T \ {t} \subseteq {o \in S : o > t} /\ {o \in S : o > t} \subseteq Messages
    <3>1. \A o \in T : o \in Int /\ t \in Int /\ (o # t => o > t)
      BY <1>1, <2>1 DEF Messages
    <3> HIDE DEF T
    <3> QED  BY <1>1, <2>1, <3>1
  <2>4. Cardinality(T \ {t}) <= Cardinality({o \in S : o > t})
    BY <2>3, MoreMessages
  <2>5. /\ IsFiniteSet(T) /\ Cardinality(T) \in Nat
        /\ Cardinality(T \ {t}) \in Nat /\ Cardinality({o \in S : o > t}) \in Nat
    BY <1>1, <2>3, MessagesFinite
  <2>6. Cardinality(T \ {t}) = Cardinality(T) - 1
    BY <2>1, <2>5, FS_RemoveElement
  <2>7. Cardinality(T) <= n
    <3> HIDE DEF T
    <3> QED  BY <2>2, <2>4, <2>5, <2>6
  <2> QED  BY <1>1, <2>7
<1> QED  BY <1>2, <1>3

LEMMA BoundedFacts ==
  ASSUME NEW S, S \subseteq Messages
  PROVE  /\ Bounded(S) \subseteq S /\ Cardinality(Bounded(S)) <= WindowLimit
         /\ \A m \in S \ Bounded(S) : Cardinality({o \in S : o > m}) >= WindowKeep
<1>1. /\ Cardinality(S) \in Nat /\ WindowLimit \in Nat /\ WindowKeep \in Nat
      /\ WindowKeep <= WindowLimit
  BY MessagesAssumption, MessagesFinite
<1>2. CASE Cardinality(S) > WindowLimit
  <2>1. Bounded(S) = Newest(S, WindowKeep)
    BY <1>2 DEF Bounded
  <2>2. Newest(S, WindowKeep) \subseteq S /\ Cardinality(Newest(S, WindowKeep)) <= WindowKeep
    BY <1>1, NewestBound
  <2>3. Cardinality(Newest(S, WindowKeep)) \in Nat
    BY <2>2, MessagesFinite
  <2>4. ASSUME NEW m \in S \ Newest(S, WindowKeep)
        PROVE  Cardinality({o \in S : o > m}) >= WindowKeep
    <3>1. {o \in S : o > m} \subseteq Messages
      OBVIOUS
    <3> QED  BY <1>1, <2>4, <3>1, MessagesFinite DEF Newest
  <2> QED  BY <1>1, <2>1, <2>2, <2>3, <2>4
<1>3. CASE ~(Cardinality(S) > WindowLimit)
  BY <1>1, <1>3 DEF Bounded
<1> QED  BY <1>2, <1>3

LEMMA MonitorInvInit == MessagesInit => MonitorInv
<1> SUFFICES ASSUME MessagesInit PROVE MonitorInv
  OBVIOUS
<1>1. Had = {} /\ 0 \in 0 .. MaxMessage /\ 0 \in 0 .. 2
  BY MessagesAssumption DEF MessagesInit, Had
<1>2. MonitorTypes
  <2>1. recent = {} /\ Cardinality(recent) = 0 /\ WindowLimit \in Nat
    BY MessagesAssumption, FS_EmptySet DEF MessagesInit
  <2>2. passed \in [Messages -> 0 .. 2]
    BY <1>1 DEF MessagesInit
  <2>3. recent \subseteq Had /\ Cardinality(recent) <= WindowLimit
    BY <2>1
  <2>4. /\ top \in 0 .. MaxMessage /\ baseline \in 0 .. MaxMessage
        /\ filed \in 0 .. MaxMessage /\ lost \subseteq Messages
    BY <1>1 DEF MessagesInit
  <2>5. /\ dirty \in BOOLEAN /\ handlers \in BOOLEAN /\ hasRules \in BOOLEAN
        /\ restart \in {"idle", "stopping", "connect"}
    BY DEF MessagesInit
  <2> QED  BY <2>2, <2>3, <2>4, <2>5 DEF MonitorTypes
<1> QED
  BY <1>1, <1>2 DEF MessagesInit, MonitorInv, Recognised, Watermarked, TakenOnce

\* What has been had stays had, and ages.
LEMMA AgedStays ==
  ASSUME Had \subseteq Had', NEW m \in Messages, Aged(m)
  PROVE  Aged(m)'
<1>1. /\ {o \in Had : o > m} \subseteq {o \in Had' : o > m}
      /\ {o \in Had' : o > m} \subseteq Messages /\ {o \in Had : o > m} \subseteq Messages
  BY DEF Had
<1>2. Cardinality({o \in Had : o > m}) <= Cardinality({o \in Had' : o > m})
  BY <1>1, MoreMessages
<1>3. Cardinality({o \in Had : o > m}) \in Nat /\ Cardinality({o \in Had' : o > m}) \in Nat
  BY <1>1, MessagesFinite
<1> QED  BY <1>2, <1>3, MessagesAssumption DEF Aged

LEMMA TakeMessageStep ==
  ASSUME MonitorInv, NEW m \in Messages, TakeMessage(m)
  PROVE  MonitorInv'
<1> USE DEF MonitorInv
<1> DEFINE S == recent \cup {m}
<1>1. /\ passed' = [passed EXCEPT ![m] = @ + 1] /\ passed[m] \in {0, 1}
      /\ passed'[m] = passed[m] + 1 /\ \A o \in Messages : o # m => passed'[o] = passed[o]
      /\ passed' \in [Messages -> 0 .. 2]
  BY DEF TakeMessage, MonitorTypes
<1>2. Had' = Had \cup {m} /\ Had \subseteq Messages /\ Had' \subseteq Messages
  BY <1>1 DEF Had, MonitorTypes
<1>3. S \subseteq Had' /\ S \subseteq Messages
  BY <1>2 DEF MonitorTypes
<1>4. recent' = Bounded(S)
  BY DEF TakeMessage
<1>5. /\ recent' \subseteq S /\ Cardinality(recent') <= WindowLimit
      /\ \A n \in S \ recent' : Cardinality({o \in S : o > n}) >= WindowKeep
  BY <1>3, <1>4, BoundedFacts
<1>6. \A n \in Messages : Aged(n) => Aged(n)'
  BY <1>2, AgedStays
<1>7. ASSUME NEW n \in S, n \notin recent' PROVE Aged(n)'
  <2>1. {o \in S : o > n} \subseteq {o \in Had' : o > n} /\ {o \in Had' : o > n} \subseteq Messages
    BY <1>2, <1>3
  <2>2. Cardinality({o \in S : o > n}) <= Cardinality({o \in Had' : o > n})
    BY <2>1, MoreMessages
  <2>3. Cardinality({o \in S : o > n}) \in Nat /\ Cardinality({o \in Had' : o > n}) \in Nat
    BY <2>1, MessagesFinite
  <2> QED  BY <1>5, <1>7, <2>2, <2>3, MessagesAssumption DEF Aged
<1>8. UNCHANGED <<baseline, handlers, hasRules, restart, lost>>
  BY DEF TakeMessage
<1>9. /\ top' \in 0 .. MaxMessage /\ filed' \in 0 .. MaxMessage /\ dirty' \in BOOLEAN
      /\ top <= top' /\ m <= top' /\ (~dirty' => top' <= filed')
  <2>1. m \in 0 .. MaxMessage /\ m \in Int /\ top \in Int
    BY MessagesAssumption DEF MonitorTypes, Messages
  <2>2. CASE m > top
    <3>1. top' = m /\ ((filed' = m /\ dirty' = FALSE) \/ (filed' = filed /\ dirty' = TRUE))
      BY <2>2 DEF TakeMessage
    <3>2. top' \in 0 .. MaxMessage /\ top <= top' /\ m <= top'
      BY <2>1, <2>2, <3>1
    <3>3. CASE filed' = m /\ dirty' = FALSE
      BY <2>1, <3>1, <3>2, <3>3
    <3>4. CASE filed' = filed /\ dirty' = TRUE
      BY <3>2, <3>4 DEF MonitorTypes
    <3> QED  BY <3>1, <3>3, <3>4
  <2>3. CASE ~(m > top)
    <3>1. top' = top /\ filed' = filed /\ dirty' = dirty
      BY <2>3 DEF TakeMessage
    <3> QED  BY <2>1, <2>3, <3>1 DEF MonitorTypes, Watermarked
  <2> QED  BY <2>2, <2>3
<1>10. MonitorTypes'
  BY <1>1, <1>2, <1>3, <1>5, <1>8, <1>9 DEF MonitorTypes
<1>11. Recognised'
  BY <1>2, <1>5, <1>6, <1>7, <1>8 DEF Recognised
<1>12. Watermarked'
  <2>1. \A n \in Had' \ lost' : n <= top'
    BY <1>2, <1>8, <1>9 DEF Watermarked, Messages, MonitorTypes
  <2> QED  BY <1>9, <2>1 DEF Watermarked
<1>13. TakenOnce'
  <2>1. ASSUME NEW n \in Messages, passed'[n] > 1 PROVE n \in lost' \/ Aged(n)'
    <3>1. CASE n = m
      <4>1. passed[m] = 1 /\ m \in Had
        BY <1>1, <2>1, <3>1 DEF Had
      <4>2. ~(m <= baseline) /\ m \notin recent
        BY DEF TakeMessage, Passes, Messages, MonitorTypes
      <4> QED  BY <1>6, <1>8, <3>1, <4>1, <4>2 DEF Recognised
    <3>2. CASE n # m
      BY <1>1, <1>6, <1>8, <2>1, <3>2 DEF TakenOnce
    <3> QED  BY <3>1, <3>2
  <2> QED  BY <2>1 DEF TakenOnce
<1> QED  BY <1>10, <1>11, <1>12, <1>13

\* The other steps take no message; what is no longer recognised is counted as lost.
LEMMA OtherMessageSteps ==
  ASSUME MonitorInv, EditRules \/ StopListeners \/ ListenAgain \/ MonitorCrash
         \/ UNCHANGED messageVars
  PROVE  MonitorInv'
<1> USE DEF MonitorInv
<1>1. passed' = passed /\ Had' = Had /\ Had \subseteq Messages
  BY DEF EditRules, StopListeners, ListenAgain, MonitorCrash, messageVars, Had
<1>2. \A m \in Messages : Aged(m) <=> Aged(m)'
  BY <1>1 DEF Aged
<1>3. lost \subseteq lost' /\ lost' \subseteq Messages
  BY <1>1 DEF EditRules, StopListeners, StopWrites, ListenAgain, MonitorCrash, messageVars,
              MonitorTypes
<1>4. TakenOnce'
  BY <1>1, <1>2, <1>3 DEF TakenOnce
<1>5. /\ 0 \in 0 .. MaxMessage /\ WindowLimit \in Nat
      /\ recent' = {} => Cardinality(recent') <= WindowLimit
  BY MessagesAssumption, FS_EmptySet
<1>6. CASE EditRules
  <2>1. CASE hasRules'
    BY <1>1, <1>2, <1>4, <1>6, <2>1
       DEF EditRules, MonitorTypes, Recognised, Watermarked
  <2>2. CASE ~hasRules'
    <3>1. /\ top' = 0 /\ baseline' = 0 /\ recent' = {} /\ dirty' = (dirty \/ top > 0)
          /\ lost' = lost \cup Had /\ filed' = filed /\ hasRules' \in BOOLEAN
          /\ restart' = "stopping" /\ handlers' = handlers
      BY <1>6, <2>2 DEF EditRules
    <3>2. MonitorTypes'
      BY <1>1, <1>3, <1>5, <3>1 DEF MonitorTypes
    <3>3. Recognised' /\ Watermarked'
      BY <1>1, <3>1 DEF Recognised, Watermarked, MonitorTypes
    <3> QED  BY <1>4, <3>2, <3>3
  <2> QED  BY <1>6, <2>1, <2>2 DEF EditRules
<1>7. CASE StopListeners
  <2>1. /\ filed' \in 0 .. MaxMessage /\ (~dirty => top <= filed')
        /\ \A m \in Had \ lost' : m <= filed'
    BY <1>1, <1>7 DEF StopListeners, StopWrites, MonitorTypes, Watermarked, Messages
  <2>2. /\ handlers' = FALSE /\ hasRules' = hasRules
        /\ restart' \in {"idle", "stopping", "connect"}
    BY <1>7 DEF StopListeners
  <2>3. CASE Loaded
    <3>1. MonitorTypes'
      BY <1>1, <1>3, <1>5, <2>1, <2>2, <2>3 DEF Loaded, MonitorTypes
    <3>2. Recognised' /\ Watermarked'
      BY <1>1, <2>1, <2>3 DEF Loaded, Recognised, Watermarked
    <3> QED  BY <1>4, <3>1, <3>2
  <2>4. CASE UNCHANGED <<top, baseline, recent>> /\ dirty' = (dirty /\ filed' # top)
    <3>1. MonitorTypes'
      BY <1>1, <1>3, <2>1, <2>2, <2>4 DEF MonitorTypes
    <3>2. Recognised'
      BY <1>1, <1>2, <1>3, <2>4 DEF Recognised
    <3>3. Watermarked'
      BY <1>1, <1>3, <2>1, <2>4 DEF Watermarked, MonitorTypes
    <3> QED  BY <1>4, <3>1, <3>2, <3>3
  <2> QED  BY <1>7, <2>3, <2>4 DEF StopListeners
<1>8. CASE ListenAgain
  BY <1>1, <1>2, <1>4, <1>8 DEF ListenAgain, MonitorTypes, Recognised, Watermarked
<1>9. CASE MonitorCrash
  <2>1. MonitorTypes'
    BY <1>1, <1>3, <1>5, <1>9 DEF MonitorCrash, Loaded, MonitorTypes
  <2>2. Recognised' /\ Watermarked'
    BY <1>1, <1>9 DEF MonitorCrash, Loaded, Recognised, Watermarked, MonitorTypes, Messages
  <2> QED  BY <1>4, <2>1, <2>2
<1>10. CASE UNCHANGED messageVars
  BY <1>1, <1>2, <1>4, <1>10 DEF messageVars, MonitorTypes, Recognised, Watermarked
<1> QED  BY <1>6, <1>7, <1>8, <1>9, <1>10

LEMMA MonitorInvStep == MonitorInv /\ [MessagesNext]_messageVars => MonitorInv'
  BY TakeMessageStep, OtherMessageSteps DEF MessagesNext

\* Watermarks, window and counts have their types: the window of identifiers keeps its
\* bound however many messages arrive.
THEOREM MessagesTyped == MessagesSpec => []MessagesTypeOK
<1>1. MonitorInv => MessagesTypeOK
  BY DEF MonitorInv, MonitorTypes, MessagesTypeOK, Had
<1> QED  BY <1>1, MonitorInvInit, MonitorInvStep, PTL DEF MessagesSpec

\* A message is acted on at most once, whatever is delivered again, late or out of order,
\* and over edits, reconnections and crashes, unless its trace was lost or it aged out
\* of the window: for any number of messages and any sizes of the window.
THEOREM MessagesTakenOnce == MessagesSpec => []TakenOnce
<1>1. MonitorInv => TakenOnce
  BY DEF MonitorInv
<1> QED  BY <1>1, MonitorInvInit, MonitorInvStep, PTL DEF MessagesSpec

-----------------------------------------------------------------------------
(***************************************************************************)
(* The conversation with a bot                                             *)
(*                                                                         *)
(* The cache and the snapshot know nothing newer than the chat has; what   *)
(* was written since the snapshot differs from it, the rest does not; and  *)
(* an attempt begins behind what is done.                                  *)
(***************************************************************************)

Deeds == {"begin", "step", "send", "sent", "press", "after", "doubt", "late", "think",
          "pause", "over"}

\* Messages, snapshots and positions have their types.
TalkTyped ==
  /\ chat \in Seq(BotMessages) /\ Len(chat) <= ChatLength
  /\ heard \in [Ids -> 0..2] /\ cache \in [Ids -> BotMessages \cup {Absent, Handled}]
  /\ before \in [Ids -> BotMessages \cup {Absent}]
  /\ blind \in BOOLEAN /\ cached \in BOOLEAN /\ cancelled \in BOOLEAN
  /\ replies \subseteq changed /\ changed \subseteq Ids
  /\ attempt \in 1..FlowAttempts /\ index \in DOMAIN Script /\ done \in 0..Len(Script)
  /\ tries \in 1..2 /\ outcome \in {"none", "ok", "failed", "cancelled"}
  /\ deed \in Deeds
  /\ target \in 0..ChatLength + 1 /\ lastSeen \in BotMessages \cup {Handled}
  /\ clicked \in 0..Buttons - 1

\* The cache and the snapshot know nothing newer than the chat has.
Chats ==
  /\ \A i \in Ids \ DOMAIN chat : cache[i] = Absent /\ before[i] = Absent
  /\ \A i \in DOMAIN chat :
       /\ cache[i].rev <= chat[i].rev /\ before[i].rev <= chat[i].rev
       /\ cache[i].says = "success" => cache[i] = chat[i]

\* What was written since the snapshot differs from it; the rest does not.
Shots ==
  /\ \A i \in changed : i \in DOMAIN chat /\ before[i] # chat[i]
  /\ Compares /\ ~blind => \A i \in DOMAIN chat \ changed : before[i] = chat[i]

\* Each deed belongs to one kind of action.
Kinds ==
  /\ deed \in {"late", "think", "pause"} => Script[index] = "solve"
  /\ deed \in {"send", "sent"} => Script[index] = "send"
  /\ deed \in {"after", "doubt"} => Script[index] = "click"
  /\ deed \in {"think", "pause", "press", "after"} /\ cached => target \in DOMAIN chat

\* The last step ends the flow, and an attempt begins behind what is done.
Positions ==
  /\ deed # "over" => done < Len(Script) /\ outcome = "none"
  /\ deed = "over" => outcome # "none"
  /\ deed = "begin" /\ attempt = 1 => done = 0
  /\ Backoff = 0 /\ deed \notin {"begin", "over"} => index > done

TalkInv == TalkTyped /\ Chats /\ Shots /\ Kinds /\ Positions

LEMMA ScriptType ==
  /\ Script \in Seq({"send", "click", "solve"}) /\ Len(Script) \in Nat \ {0}
  /\ FlowAttempts \in Nat \ {0} /\ Buttons \in Nat \ {0} /\ ChatLength \in Nat \ {0}
  /\ Backoff \in Nat /\ DOMAIN Script = 1..Len(Script)
BY ConversationAssumption

LEMMA ChatDomain ==
  ASSUME TalkTyped
  PROVE  /\ DOMAIN chat = 1..Len(chat) /\ DOMAIN chat \subseteq Ids /\ Len(chat) \in Nat
         /\ \A i \in DOMAIN chat : chat[i] \in BotMessages /\ chat[i].rev \in 0..1
<1>1. chat \in Seq(BotMessages) /\ Len(chat) <= ChatLength
  BY DEF TalkTyped
<1>2. \A m \in BotMessages : m.rev \in 0..1
  BY DEF BotMessages
<1>3. DOMAIN chat = 1..Len(chat) /\ Len(chat) \in Nat
  BY <1>1
<1>4. DOMAIN chat \subseteq Ids
  BY <1>1, <1>3, ScriptType DEF Ids
<1>5. \A i \in DOMAIN chat : chat[i] \in BotMessages
  BY <1>1, <1>3
<1> QED  BY <1>2, <1>3, <1>4, <1>5

\* A step that ends a deed: the next step begins, or the next attempt, or all is over.
Ends ==
  /\ Rests
  /\ attempt' \in 1..FlowAttempts /\ index' \in DOMAIN Script /\ done' \in 0..Len(Script)
  /\ tries' \in 1..2 /\ outcome' \in {"none", "ok", "failed", "cancelled"}
  /\ deed' \in {"step", "begin", "over"}
  /\ deed' # "over" => done' < Len(Script) /\ outcome' = "none"
  /\ deed' = "over" => outcome' # "none"
  /\ deed' = "begin" /\ attempt' = 1 => done' = 0
  /\ Backoff = 0 /\ deed' = "step" => index' > done'

LEMMA StepDoneEnds ==
  ASSUME TalkTyped, Positions, Talking, NEW complete, StepDone(complete) PROVE Ends
<1>1. CASE complete \/ ~HasNext
  BY <1>1, ScriptType DEF StepDone, Ends, TalkTyped
<1>2. CASE ~complete /\ HasNext
  <2>1. index' = index + 1 /\ deed' = "step" /\ outcome' = outcome
    BY <1>2 DEF StepDone
  <2> QED  BY <1>2, <2>1, ScriptType DEF StepDone, Ends, TalkTyped, HasNext, Talking
<1> QED  BY <1>1, <1>2

LEMMA FlowFailsEnds ==
  ASSUME TalkTyped, Positions, Talking, deed # "over", FlowFails PROVE Ends
BY ScriptType DEF FlowFails, Ends, TalkTyped, Positions, Talking

LEMMA StepFailsEnds ==
  ASSUME TalkTyped, Positions, Talking, deed # "over", StepFails PROVE Ends
BY StepDoneEnds, FlowFailsEnds DEF StepFails

LEMMA StepRaisesEnds ==
  ASSUME TalkTyped, Positions, Talking, deed \notin {"begin", "over"}, StepRaises PROVE Ends
<1>1. CASE StepFails
  BY <1>1, StepFailsEnds
<1>2. CASE tries = 1 /\ tries' = 2 /\ deed' = "step" /\ Rests
           /\ UNCHANGED <<attempt, index, done, outcome>>
  BY <1>2, ScriptType DEF Ends, TalkTyped, Positions, Talking
<1> QED  BY <1>1, <1>2 DEF StepRaises

\* The handler's cache loses entries, or marks them handled, at the end of a deed.
LEMMA EndKeeps ==
  ASSUME TalkInv, Ends, chat' = chat, heard' = heard, cancelled' \in BOOLEAN,
         \/ cache' = cache
         \/ MarkHandled /\ (cached => target \in DOMAIN chat)
  PROVE  TalkInv'
<1>1. TalkTyped /\ Chats
  BY DEF TalkInv
<1>2. \A i \in Ids : cache'[i] \in {cache[i], Handled} /\ (i \notin DOMAIN chat => cache'[i] = cache[i])
  BY <1>1 DEF MarkHandled, TalkTyped
<1>3. cache' \in [Ids -> BotMessages \cup {Absent, Handled}]
  BY <1>1, <1>2 DEF MarkHandled, TalkTyped
<1>4. before' = [i \in Ids |-> Absent] /\ changed' = {} /\ replies' = {} /\ blind' = FALSE
  BY DEF Ends, Rests, NoShot
<1>5. TalkTyped'
  <2>1. /\ target' = 0 /\ cached' = FALSE /\ lastSeen' = Handled /\ clicked' = 0
        /\ before' \in [Ids -> BotMessages \cup {Absent}]
    BY <1>4 DEF Ends, Rests
  <2>2. /\ attempt' \in 1..FlowAttempts /\ index' \in DOMAIN Script /\ done' \in 0..Len(Script)
        /\ tries' \in 1..2 /\ outcome' \in {"none", "ok", "failed", "cancelled"}
        /\ deed' \in Deeds
    BY DEF Ends, Deeds
  <2>3. 0 \in 0..ChatLength + 1 /\ 0 \in 0..Buttons - 1
    BY ScriptType
  <2> QED  BY <1>1, <1>3, <1>4, <2>1, <2>2, <2>3 DEF TalkTyped
<1>6. Chats'
  BY <1>1, <1>2, <1>4, ChatDomain DEF Chats, Absent, Handled, BotMessages
<1>7. Shots' /\ Kinds'
  BY <1>4 DEF Shots, Kinds, Ends, Compares
<1>8. Positions'
  BY DEF Positions, Ends
<1> QED  BY <1>5, <1>6, <1>7, <1>8 DEF TalkInv

\* The deeds of one action go on; the snapshot stays.
LEMMA DeedKeeps ==
  ASSUME TalkInv, UNCHANGED <<chatVars, before, blind, changed, attemptVars, cancelled>>,
         replies' \subseteq changed, deed' \in Deeds \ {"begin", "over"},
         deed \notin {"begin", "over"}, Compares' => Compares, Kinds',
         target' \in 0..ChatLength + 1, cached' \in BOOLEAN,
         lastSeen' \in BotMessages \cup {Handled}, clicked' \in 0..Buttons - 1
  PROVE  TalkInv'
<1>1. /\ UNCHANGED <<chat, heard, cache, before, blind, changed, attempt, index, done,
                     tries, outcome, cancelled>>
  BY DEF chatVars, attemptVars
<1>2. TalkTyped'
  BY <1>1 DEF TalkInv, TalkTyped
<1>3. Chats'
  BY <1>1 DEF TalkInv, Chats
<1>4. Shots'
  BY <1>1 DEF TalkInv, Shots
<1>5. Positions'
  BY <1>1 DEF TalkInv, Positions
<1> QED  BY <1>2, <1>3, <1>4, <1>5 DEF TalkInv

\* A snapshot is taken before the operation.
LEMMA ShotKeeps ==
  ASSUME TalkInv, TakesShot, UNCHANGED <<chatVars, attemptVars, cancelled>>,
         deed' \in {"send", "press"}, deed \notin {"begin", "over"}, Kinds',
         target' \in 0..ChatLength + 1, cached' \in BOOLEAN,
         lastSeen' \in BotMessages \cup {Handled}, clicked' \in 0..Buttons - 1
  PROVE  TalkInv'
<1>1. UNCHANGED <<chat, heard, cache, attempt, index, done, tries, outcome, cancelled>>
  BY DEF chatVars, attemptVars
<1>2. PICK read \in BOOLEAN : before' = ShotOf(read) /\ blind' = ~read
  BY DEF TakesShot
<1>3. changed' = {} /\ replies' = {}
  BY DEF TakesShot
<1>t. TalkTyped /\ Chats
  BY DEF TalkInv
<1>4. \A i \in Ids : /\ before'[i] \in BotMessages \cup {Absent}
                     /\ read /\ i \in DOMAIN chat => before'[i] = chat[i]
                     /\ i \notin DOMAIN chat => before'[i] = Absent
                     /\ before'[i] \in {Absent, cache[i]} \/ (i \in DOMAIN chat /\ before'[i] = chat[i])
  BY <1>2, <1>t, ChatDomain DEF ShotOf, Chats, Absent, BotMessages
<1>5. TalkTyped'
  <2>1. before' \in [Ids -> BotMessages \cup {Absent}]
    BY <1>2, <1>4 DEF ShotOf
  <2> QED  BY <1>1, <1>2, <1>3, <1>t, <2>1 DEF TalkTyped, Deeds
<1>6. Chats'
  BY <1>1, <1>4, <1>t, ChatDomain DEF Chats, Absent
<1>7. Shots'
  BY <1>1, <1>2, <1>3, <1>4, <1>t, ChatDomain DEF Shots
<1>8. Positions'
  BY <1>1 DEF TalkInv, Positions
<1> QED  BY <1>5, <1>6, <1>7, <1>8 DEF TalkInv

-----------------------------------------------------------------------------
(* The bot and the handler *)

LEMMA BotSaysKeeps == ASSUME TalkInv, BotSays PROVE TalkInv'
<1> DEFINE n == Len(chat) + 1
<1>t. TalkTyped /\ Chats /\ Shots
  BY DEF TalkInv
<1>1. PICK s \in {"prompt", "success"} : chat' = Append(chat, [says |-> s, rev |-> 0])
  BY DEF BotSays
<1>2. PICK m : m = [says |-> s, rev |-> 0]
  OBVIOUS
<1>3. m \in BotMessages /\ m.rev = 0 /\ m # Absent
  BY <1>2 DEF BotMessages, Absent
<1>4. /\ UNCHANGED <<heard, cache, before, blind, attempt, index, done, tries, outcome, deed,
                     target, cached, lastSeen, clicked, cancelled>>
      /\ changed' = changed \cup (IF Compares THEN {n} ELSE {})
      /\ replies' = replies \cup (IF Compares THEN {n} ELSE {})
      /\ Len(chat) < ChatLength
  BY DEF BotSays, Wrote, attemptVars
<1>5. /\ chat' \in Seq(BotMessages) /\ Len(chat') = n /\ DOMAIN chat' = DOMAIN chat \cup {n}
      /\ chat'[n] = m /\ n \notin DOMAIN chat /\ n \in Ids
      /\ \A i \in DOMAIN chat : chat'[i] = chat[i]
  <2>1. chat \in Seq(BotMessages) /\ Len(chat) \in Nat
    BY <1>t, ChatDomain DEF TalkTyped
  <2>2. chat' = Append(chat, m)
    BY <1>1, <1>2
  <2> QED  BY <1>3, <1>4, <2>1, <2>2, ScriptType DEF Ids
<1>6. cache[n] = Absent /\ before[n] = Absent
  BY <1>t, <1>5 DEF Chats
<1> HIDE DEF n
<1>7. TalkTyped'
  <2>1. Len(chat') <= ChatLength
    BY <1>t, <1>4, <1>5, ChatDomain, ScriptType DEF n
  <2>2. replies' \subseteq changed' /\ changed' \subseteq Ids
    BY <1>t, <1>4, <1>5 DEF TalkTyped
  <2> QED  BY <1>t, <1>4, <1>5, <2>1, <2>2 DEF TalkTyped
<1>8. Chats'
  BY <1>t, <1>3, <1>4, <1>5, <1>6 DEF Chats, Absent
<1>9. Shots'
  <2>1. Compares' <=> Compares
    BY <1>4 DEF Compares
  <2> QED  BY <1>t, <1>3, <1>4, <1>5, <1>6, <2>1 DEF Shots
<1>10. Kinds' /\ Positions'
  BY <1>4, <1>5 DEF TalkInv, Kinds, Positions
<1> QED  BY <1>7, <1>8, <1>9, <1>10 DEF TalkInv

LEMMA BotChangesKeeps == ASSUME TalkInv, BotChanges PROVE TalkInv'
<1>t. TalkTyped /\ Chats /\ Shots
  BY DEF TalkInv
<1>1. PICK n \in DOMAIN chat, s \in {"prompt", "success"} :
        /\ chat[n] = [says |-> "prompt", rev |-> 0]
        /\ chat' = [chat EXCEPT ![n] = [says |-> s, rev |-> 1]]
        /\ Wrote(n)
  BY DEF BotChanges
<1>2. PICK m : m = [says |-> s, rev |-> 1]
  OBVIOUS
<1>3. m \in BotMessages /\ m.rev = 1 /\ chat[n].rev = 0 /\ chat[n].says = "prompt"
  BY <1>1, <1>2 DEF BotMessages
<1>4. /\ UNCHANGED <<heard, cache, before, blind, attempt, index, done, tries, outcome, deed,
                     target, cached, lastSeen, clicked, cancelled>>
      /\ changed' = changed \cup (IF Compares THEN {n} ELSE {})
      /\ replies' = replies \cup (IF Compares THEN {n} ELSE {})
  BY <1>1 DEF Wrote, attemptVars
<1>5. /\ chat' \in Seq(BotMessages) /\ Len(chat') = Len(chat) /\ DOMAIN chat' = DOMAIN chat
      /\ chat'[n] = m /\ n \in Ids
      /\ \A i \in DOMAIN chat \ {n} : chat'[i] = chat[i]
  <2>1. chat \in Seq(BotMessages) /\ n \in Ids
    BY <1>t, ChatDomain DEF TalkTyped
  <2>2. chat' = [chat EXCEPT ![n] = m]
    BY <1>1, <1>2
  <2> QED  BY <1>3, <2>1, <2>2
<1>6. before[n] # m /\ before[n].rev = 0 /\ cache[n].rev = 0 /\ cache[n].says # "success"
  <2>1. before[n].rev <= 0 /\ cache[n].rev <= 0 /\ before[n].rev \in Nat /\ cache[n].rev \in Nat
    BY <1>t, <1>3, <1>5 DEF Chats, TalkTyped, BotMessages, Absent, Handled
  <2> QED  BY <1>t, <1>3, <2>1 DEF Chats
<1>7. TalkTyped'
  <2>2. replies' \subseteq changed' /\ changed' \subseteq Ids
    BY <1>t, <1>4, <1>5 DEF TalkTyped
  <2> QED  BY <1>t, <1>4, <1>5, <2>2 DEF TalkTyped
<1>8. Chats'
  BY <1>t, <1>3, <1>4, <1>5, <1>6 DEF Chats
<1>9. Shots'
  <2>1. Compares' <=> Compares
    BY <1>4 DEF Compares
  <2> QED  BY <1>t, <1>3, <1>4, <1>5, <1>6, <2>1 DEF Shots
<1>10. Kinds' /\ Positions'
  BY <1>4, <1>5 DEF TalkInv, Kinds, Positions
<1> QED  BY <1>7, <1>8, <1>9, <1>10 DEF TalkInv

LEMMA HearKeeps == ASSUME TalkInv, Hear PROVE TalkInv'
<1>t. TalkTyped /\ Chats /\ Shots
  BY DEF TalkInv
<1>1. PICK n \in DOMAIN chat : \E v \in heard[n]..chat[n].rev :
        /\ heard' = [heard EXCEPT ![n] = v + 1]
        /\ cache' = [cache EXCEPT ![n] = Version(n, v)]
        /\ UNCHANGED <<chat, attemptVars, stepVars, cancelled>>
  BY DEF Hear
<1>2. PICK v \in heard[n]..chat[n].rev :
        /\ heard' = [heard EXCEPT ![n] = v + 1]
        /\ cache' = [cache EXCEPT ![n] = Version(n, v)]
        /\ UNCHANGED <<chat, attemptVars, stepVars, cancelled>>
  BY <1>1
<1>3. UNCHANGED <<chat, before, blind, changed, replies, attempt, index, done, tries, outcome,
                  deed, target, cached, lastSeen, clicked, cancelled>>
  BY <1>2 DEF attemptVars, stepVars, shotVars
<1>4. n \in Ids /\ chat[n] \in BotMessages /\ chat[n].rev \in 0..1 /\ heard[n] \in 0..2
  BY <1>t, ChatDomain DEF TalkTyped
<1>5. v + 1 \in 0..2
  BY <1>4
<1>6. PICK m : m = Version(n, v)
  OBVIOUS
<1>7. /\ m \in BotMessages /\ m.rev <= chat[n].rev
      /\ m.says = "success" => m = chat[n]
  BY <1>4, <1>6 DEF Version, BotMessages
<1>8. heard' \in [Ids -> 0..2] /\ cache' \in [Ids -> BotMessages \cup {Absent, Handled}]
  BY <1>t, <1>2, <1>4, <1>5, <1>6, <1>7 DEF TalkTyped
<1>9. cache'[n] = m /\ \A i \in Ids \ {n} : cache'[i] = cache[i]
  BY <1>t, <1>2, <1>4, <1>6 DEF TalkTyped
<1>10. TalkTyped'
  BY <1>t, <1>3, <1>8 DEF TalkTyped
<1>11. Chats'
  BY <1>t, <1>3, <1>7, <1>9, ChatDomain DEF Chats
<1>12. Shots' /\ Kinds' /\ Positions'
  BY <1>3 DEF TalkInv, Shots, Kinds, Positions, Compares
<1> QED  BY <1>10, <1>11, <1>12 DEF TalkInv

-----------------------------------------------------------------------------
(* The steps of the conversation *)

LEMMA BeginAttemptKeeps == ASSUME TalkInv, BeginAttempt PROVE TalkInv'
<1>t. TalkTyped /\ Chats /\ Shots /\ Positions
  BY DEF TalkInv
<1>1. /\ UNCHANGED <<chat, heard, before, blind, changed, replies, attempt, done, outcome,
                     target, cached, lastSeen, clicked, cancelled>>
      /\ index' = StartIndex /\ tries' = 1 /\ deed' = "step" /\ deed = "begin"
      /\ cache' = cache \/ cache' = [i \in Ids |-> Absent]
  BY DEF BeginAttempt, shotVars
<1>2. done \in Nat /\ done < Len(Script) /\ outcome = "none"
  BY <1>t, <1>1, ScriptType DEF TalkTyped, Positions
<1>3. StartIndex \in DOMAIN Script
  BY <1>2, ScriptType DEF StartIndex
<1>4. cache' \in [Ids -> BotMessages \cup {Absent, Handled}]
  BY <1>t, <1>1 DEF TalkTyped
<1>5. TalkTyped'
  BY <1>t, <1>1, <1>3, <1>4 DEF TalkTyped, Deeds
<1>6. Chats'
  <2>1. CASE cache' = cache
    BY <1>t, <1>1, <2>1 DEF Chats
  <2>2. CASE cache' = [i \in Ids |-> Absent]
    BY <1>t, <1>1, <2>2, ChatDomain DEF Chats, Absent
  <2> QED  BY <1>1, <2>1, <2>2
<1>7. Shots' /\ Kinds'
  BY <1>t, <1>1 DEF Shots, Kinds, Compares
<1>8. Positions'
  <2>1. Backoff = 0 => index' > done
    BY <1>t, <1>1, <1>2 DEF StartIndex, Positions
  <2> QED  BY <1>1, <1>2, <2>1 DEF Positions
<1> QED  BY <1>5, <1>6, <1>7, <1>8 DEF TalkInv

\* Steps that end a deed.
LEMMA EndingKeeps ==
  ASSUME TalkInv,
         \/ SendFails \/ SendSettles \/ NoButton \/ ButtonRaises \/ ClickSettles
         \/ DoubtSettles \/ NothingLate \/ ThinkFails \/ CancelTalk
  PROVE  TalkInv'
<1>t. TalkTyped /\ Positions /\ Kinds
  BY DEF TalkInv
<1>1. Talking /\ deed # "over" /\ chat' = chat /\ heard' = heard
  BY <1>t DEF SendFails, SendSettles, NoButton, ButtonRaises, ClickSettles, DoubtSettles,
     NothingLate, ThinkFails, CancelTalk, Doing, chatVars, OnlyTalk, Talking, Positions
<1>2. cancelled' \in BOOLEAN
  BY <1>t DEF SendFails, SendSettles, NoButton, ButtonRaises, ClickSettles, DoubtSettles,
     NothingLate, ThinkFails, CancelTalk, OnlyTalk, TalkTyped
<1>3. \/ cache' = cache
      \/ MarkHandled /\ (cached => target \in DOMAIN chat)
  BY <1>t DEF SendFails, SendSettles, NoButton, ButtonRaises, ClickSettles, DoubtSettles,
     NothingLate, ThinkFails, CancelTalk, OnlyTalk, chatVars, Doing, Kinds
<1>4. Ends
  <2>1. CASE SendFails
    BY <1>t, <1>1, <2>1, StepRaisesEnds DEF SendFails, Doing
  <2>2. CASE SendSettles
    BY <1>t, <1>1, <2>2, StepDoneEnds DEF SendSettles
  <2>3. CASE NoButton \/ NothingLate
    BY <1>t, <1>1, <2>3, StepFailsEnds DEF NoButton, NothingLate
  <2>4. CASE ButtonRaises
    <3>1. deed = "press"
      BY <2>4 DEF ButtonRaises, Doing
    <3>2. CASE cached
      BY <1>t, <1>1, <2>4, <3>1, <3>2, StepRaisesEnds DEF ButtonRaises
    <3>3. CASE ~cached
      BY <1>t, <1>1, <2>4, <3>1, <3>3
         DEF ButtonRaises, Ends, attemptVars, TalkTyped, Positions
    <3> QED  BY <3>2, <3>3
  <2>5. CASE ClickSettles
    BY <1>t, <1>1, <2>5, StepDoneEnds DEF ClickSettles
  <2>6. CASE DoubtSettles
    BY <1>t, <1>1, <2>6, StepDoneEnds, StepFailsEnds DEF DoubtSettles
  <2>7. CASE ThinkFails
    BY <1>t, <1>1, <2>7, StepFailsEnds, StepRaisesEnds DEF ThinkFails, QuestionRaises
  <2>8. CASE CancelTalk
    <3>1. CASE clicked > 0
      BY <1>t, <1>1, <2>8, <3>1, StepFailsEnds DEF CancelTalk
    <3>2. CASE ~(clicked > 0)
      BY <1>t, <1>1, <2>8, <3>2 DEF CancelTalk, Ends, TalkTyped, Positions
    <3> QED  BY <3>1, <3>2
  <2> QED  BY <2>1, <2>2, <2>3, <2>4, <2>5, <2>6, <2>7, <2>8
<1> QED  BY <1>1, <1>2, <1>3, <1>4, EndKeeps

LEMMA SendingKeeps == ASSUME TalkInv, BeginSend \/ FindButton PROVE TalkInv'
<1>t. TalkTyped /\ Chats /\ Positions
  BY DEF TalkInv
<1>1. CASE BeginSend
  <2>1. /\ deed = "step" /\ deed' = "send" /\ TakesShot /\ Script[index] = "send"
        /\ UNCHANGED <<chatVars, attemptVars, target, cached, lastSeen, clicked, cancelled>>
    BY <1>1 DEF BeginSend, Doing
  <2>2. Kinds'
    BY <2>1 DEF Kinds, attemptVars
  <2> QED  BY <1>t, <2>1, <2>2, ShotKeeps DEF TalkTyped
<1>2. CASE FindButton
  <2>1. /\ deed = "step" /\ deed' = "press" /\ TakesShot
        /\ UNCHANGED <<chatVars, attemptVars, lastSeen, clicked, cancelled>>
    BY <1>2 DEF FindButton, Doing
  <2>2. PICK i \in Ids, c \in BOOLEAN :
          /\ (IF c THEN cache[i] ELSE ShotOf(TRUE)[i]).says = "prompt"
          /\ target' = i /\ cached' = c
    BY <1>2 DEF FindButton
  <2>3. c => i \in DOMAIN chat
    BY <1>t, <2>2 DEF Chats, Absent
  <2>4. Kinds'
    BY <2>1, <2>2, <2>3 DEF Kinds, chatVars
  <2>5. target' \in 0..ChatLength + 1
    BY <2>2, ScriptType DEF Ids
  <2> QED  BY <1>t, <2>1, <2>2, <2>4, <2>5, ShotKeeps DEF TalkTyped
<1> QED  BY <1>1, <1>2

\* The operation of a text or a button.
LEMMA OperatedKeeps ==
  ASSUME TalkInv, SendText \/ ButtonClicked \/ ButtonRefused PROVE TalkInv'
<1>t. TalkTyped /\ Positions /\ Kinds
  BY DEF TalkInv
<1>1. CASE ButtonClicked /\ ~HasNext
  <2>1. /\ Talking /\ deed = "press" /\ StepDone(FALSE) /\ MarkHandled
        /\ UNCHANGED <<chat, heard, cancelled>>
    BY <1>1 DEF ButtonClicked, Doing
  <2>2. Ends
    BY <1>t, <2>1, StepDoneEnds
  <2> QED  BY <1>t, <2>1, <2>2, EndKeeps DEF Kinds, TalkTyped
<1>2. CASE SendText \/ ButtonRefused \/ (ButtonClicked /\ HasNext)
  <2>1. /\ UNCHANGED <<chatVars, before, blind, changed, attemptVars, cancelled,
                       target, cached, lastSeen, clicked>>
        /\ replies' = {}
        /\ \/ deed = "send" /\ deed' = "sent" /\ Script[index] = "send"
           \/ deed = "press" /\ deed' \in {"after", "doubt"} /\ Script[index] = "click"
    BY <1>2 DEF SendText, ButtonRefused, ButtonClicked, Doing, chatVars
  <2>2. Kinds' /\ Compares
    BY <1>t, <2>1 DEF Kinds, Compares, attemptVars, chatVars
  <2>3. /\ target' \in 0..ChatLength + 1 /\ cached' \in BOOLEAN
        /\ lastSeen' \in BotMessages \cup {Handled} /\ clicked' \in 0..Buttons - 1
    BY <1>t, <2>1 DEF TalkTyped
  <2>4. deed' \in Deeds \ {"begin", "over"} /\ deed \notin {"begin", "over"}
    BY <2>1 DEF Deeds
  <2> QED  BY <2>1, <2>2, <2>3, <2>4, DeedKeeps
<1> QED  BY <1>1, <1>2

\* The newest message of the cache, of which there is one in a set that is not empty.
LEMMA NewestType ==
  ASSUME TalkTyped PROVE NewestHeard \in BotMessages \cup {Handled}
<1> DEFINE in == {i \in Ids : cache[i] # Absent}
<1>1. CASE in = {}
  BY <1>1 DEF NewestHeard
<1>2. CASE in # {}
  <2> DEFINE R == {ss \in Nat \X Nat : ss[1] < ss[2]}
             S == {ChatLength - i : i \in in}
  <2>1. in \subseteq Ids /\ S # {} /\ S \subseteq Nat
    BY <1>2, ScriptType DEF Ids
  <2>2. IsWellFoundedOn(R, Nat)
    BY NatLessThanWellFounded DEF OpToRel
  <2>3. \A n, m \in Nat : n < m => <<n, m>> \in R
    OBVIOUS
  <2> HIDE DEF R
  <2>4. PICK x \in S : \A y \in S : ~(<<y, x>> \in R)
    BY <2>1, <2>2, WFMin
  <2>5. PICK i \in in : x = ChatLength - i
    OBVIOUS
  <2>6. \A j \in in : j <= i
    <3> SUFFICES ASSUME NEW j \in in PROVE j <= i
      OBVIOUS
    <3>1. ~(ChatLength - j < ChatLength - i)
      BY <2>1, <2>3, <2>4, <2>5
    <3> QED  BY <2>1, <3>1, ScriptType DEF Ids
  <2> DEFINE latest == CHOOSE k \in in : \A j \in in : j <= k
  <2>7. latest \in in
    BY <2>6
  <2>8. NewestHeard = cache[latest]
    BY <1>2 DEF NewestHeard
  <2> QED  BY <2>7, <2>8 DEF TalkTyped
<1> QED  BY <1>1, <1>2

LEMMA SolvingKeeps ==
  ASSUME TalkInv, \/ TakeQuestion \/ NoQuestion \/ WaitEnds \/ TakeLate \/ Answers
  PROVE  TalkInv'
<1>t. TalkTyped /\ Chats /\ Kinds
  BY DEF TalkInv
<1>1. /\ UNCHANGED <<chatVars, before, blind, changed, attemptVars, cancelled, clicked, replies>>
  BY DEF TakeQuestion, NoQuestion, WaitEnds, TakeLate, Answers, OnlyStep, SameShot, shotVars
<1>2. /\ deed \in {"step", "late", "think", "pause"}
      /\ deed' \in {"step", "late", "think", "press"} /\ Script[index] = "solve"
      /\ deed' = "press" => deed \in {"think", "pause"} /\ UNCHANGED <<target, cached>>
  BY <1>t DEF TakeQuestion, NoQuestion, WaitEnds, TakeLate, Answers, Doing, Kinds
<1>3. lastSeen' \in BotMessages \cup {Handled} /\ cached' \in BOOLEAN
  BY <1>t, NewestType DEF TakeQuestion, NoQuestion, WaitEnds, TakeLate, Answers, TalkTyped
<1>4. target' \in 0..ChatLength + 1
  BY <1>t, ChatDomain, ScriptType
     DEF TakeQuestion, NoQuestion, WaitEnds, TakeLate, Answers, TalkTyped, Ids
<1>5. deed' = "think" /\ cached' => target' \in DOMAIN chat
  <2>1. \A i \in Ids \ DOMAIN chat : cache[i].says = "absent" /\ cache[i].rev = 0
    BY <1>t DEF Chats, Absent
  <2>2. CASE TakeQuestion
    <3>1. PICK i \in Ids : target' = i /\ (cache[i].says = "prompt" \/ cache[i].rev = 1)
      BY <2>2 DEF TakeQuestion
    <3> QED  BY <2>1, <3>1
  <2>3. CASE NoQuestion
    BY <1>2, <2>3 DEF NoQuestion, Doing
  <2>4. CASE WaitEnds
    BY <2>4 DEF WaitEnds
  <2>5. CASE TakeLate
    BY <2>5 DEF TakeLate
  <2>6. CASE Answers
    BY <2>6 DEF Answers
  <2> QED  BY <2>2, <2>3, <2>4, <2>5, <2>6
<1>6. Kinds'
  BY <1>t, <1>1, <1>2, <1>5 DEF Kinds, chatVars, attemptVars
<1>7. ~Compares'
  BY <1>1, <1>2 DEF Compares, attemptVars
<1> QED  BY <1>t, <1>1, <1>2, <1>3, <1>4, <1>6, <1>7, DeedKeeps DEF Deeds, TalkTyped

LEMMA AnsweringKeeps ==
  ASSUME TalkInv, AnswerClicked \/ AnswerRefused PROVE TalkInv'
<1>t. TalkTyped /\ Positions /\ Kinds
  BY DEF TalkInv
<1>1. /\ Talking /\ deed = "press" /\ Script[index] = "solve"
      /\ UNCHANGED <<chat, heard, cancelled>>
  BY DEF AnswerClicked, AnswerRefused, Doing, chatVars
<1>2. CASE Ends /\ (cache' = cache \/ MarkHandled)
  BY <1>t, <1>1, <1>2, EndKeeps DEF Kinds, TalkTyped
<1>3. CASE /\ UNCHANGED <<chatVars, before, blind, changed, replies, attemptVars, target,
                          cached, lastSeen>>
           /\ deed' \in {"pause", "step", "late"} /\ clicked' \in 0..Buttons - 1
  <2>1. Kinds' /\ ~Compares'
    BY <1>t, <1>1, <1>3 DEF Kinds, Compares, chatVars, attemptVars
  <2> QED  BY <1>t, <1>1, <1>3, <2>1, DeedKeeps DEF Deeds, TalkTyped
<1>4. CASE AnswerClicked
  <2>1. CASE clicked + 1 < Buttons
    <3>1. clicked' \in 0..Buttons - 1 /\ deed' = "pause"
      BY <1>t, <1>4, <2>1, ScriptType DEF AnswerClicked, TalkTyped
    <3> QED  BY <1>1, <1>3, <1>4, <2>1, <3>1 DEF AnswerClicked, chatVars, shotVars
  <2>2. CASE ~(clicked + 1 < Buttons)
    <3>1. StepDone(FALSE) /\ MarkHandled
      BY <1>4, <2>2 DEF AnswerClicked
    <3>2. Ends
      BY <1>t, <1>1, <3>1, StepDoneEnds
    <3> QED  BY <1>2, <3>1, <3>2
  <2> QED  BY <2>1, <2>2
<1>5. CASE AnswerRefused
  <2>0. cache' = cache
    BY <1>5 DEF AnswerRefused, chatVars
  <2>1. CASE StepFails \/ QuestionRaises
    <3>1. Ends
      BY <1>t, <1>1, <2>1, StepFailsEnds, StepRaisesEnds DEF QuestionRaises
    <3> QED  BY <1>2, <2>0, <3>1
  <2>2. CASE clicked = 0 /\ deed' = (IF cached THEN "step" ELSE "late")
             /\ UNCHANGED <<attemptVars, target, cached, lastSeen>> /\ SameShot
    <3>1. deed' \in {"step", "late"} /\ clicked' \in 0..Buttons - 1
      BY <1>t, <2>2 DEF SameShot, TalkTyped
    <3> QED  BY <1>1, <1>3, <1>5, <2>2, <3>1 DEF AnswerRefused, SameShot, shotVars
  <2> QED  BY <1>5, <2>1, <2>2 DEF AnswerRefused
<1> QED  BY <1>4, <1>5

-----------------------------------------------------------------------------
LEMMA TalkInitInv == TalkInit => TalkInv
<1> SUFFICES ASSUME TalkInit PROVE TalkInv
  OBVIOUS
<1>1. chat \in Seq(BotMessages) /\ Len(chat) \in 0..1
  <2>1. CASE chat = <<>>
    BY <2>1
  <2>2. CASE chat \in {<<[says |-> s, rev |-> 0]>> : s \in {"prompt", "success"}}
    <3>1. PICK s \in {"prompt", "success"} : chat = <<[says |-> s, rev |-> 0]>>
      BY <2>2
    <3>2. PICK m \in BotMessages : chat = <<m>>
      BY <3>1 DEF BotMessages
    <3> QED  BY <3>2
  <2> QED  BY <2>1, <2>2 DEF TalkInit
<1>2. /\ cache = [i \in Ids |-> Absent] /\ before = [i \in Ids |-> Absent]
      /\ heard = [i \in Ids |-> IF i \in DOMAIN chat THEN 1 ELSE 0]
      /\ blind = FALSE /\ changed = {} /\ replies = {}
      /\ attempt = 1 /\ index = 1 /\ done = 0 /\ tries = 1 /\ outcome = "none"
      /\ deed = "begin" /\ target = 0 /\ cached = FALSE /\ lastSeen = Handled /\ clicked = 0
      /\ cancelled = FALSE
  BY DEF TalkInit
<1>3. TalkTyped
  <2>0. ChatLength \in Nat \ {0}
    BY ScriptType
  <2>1. chat \in Seq(BotMessages) /\ Len(chat) <= ChatLength
    BY <1>1, <2>0
  <2>2. heard \in [Ids -> 0..2]
    BY <1>2
  <2>3. /\ cache \in [Ids -> BotMessages \cup {Absent, Handled}]
        /\ before \in [Ids -> BotMessages \cup {Absent}]
    BY <1>2
  <2>4. attempt \in 1..FlowAttempts /\ index \in DOMAIN Script /\ done \in 0..Len(Script)
    BY <1>2, ScriptType
  <2>5. target \in 0..ChatLength + 1 /\ clicked \in 0..Buttons - 1 /\ tries \in 1..2
    BY <1>2, ScriptType
  <2> QED  BY <1>2, <2>1, <2>2, <2>3, <2>4, <2>5 DEF TalkTyped, Deeds
<1>4. Chats
  BY <1>2, <1>3, ChatDomain DEF Chats, Absent
<1>5. Shots /\ Kinds /\ Positions
  BY <1>2, ScriptType DEF Shots, Kinds, Positions, Compares
<1> QED  BY <1>3, <1>4, <1>5 DEF TalkInv

LEMMA TalkStep == ASSUME TalkInv, [TalkNext]_talkVars PROVE TalkInv'
<1>1. CASE UNCHANGED talkVars
  <2>1. UNCHANGED <<chat, heard, cache, before, blind, changed, replies, attempt, index, done,
                    tries, outcome, deed, target, cached, lastSeen, clicked, cancelled>>
    BY <1>1 DEF talkVars, chatVars, attemptVars, stepVars, shotVars
  <2> QED  BY <2>1 DEF TalkInv, TalkTyped, Chats, Shots, Kinds, Positions, Compares
<1>2. CASE TalkNext
  BY <1>2, BotSaysKeeps, BotChangesKeeps, HearKeeps, BeginAttemptKeeps, EndingKeeps,
     SendingKeeps, OperatedKeeps, SolvingKeeps, AnsweringKeeps DEF TalkNext
<1> QED  BY <1>1, <1>2

LEMMA TalkInvShows == TalkInv => TalkTypeOK /\ ConversationIsSafe
<1> SUFFICES ASSUME TalkInv PROVE TalkTypeOK /\ ConversationIsSafe
  OBVIOUS
<1>t. TalkTyped /\ Chats /\ Shots /\ Positions /\ Kinds
  BY DEF TalkInv
<1>1. TalkTypeOK
  <2>1. chat \in UNION {[1..n -> BotMessages] : n \in 0..ChatLength}
    <3>1. chat \in [1..Len(chat) -> BotMessages] /\ Len(chat) \in 0..ChatLength
      BY <1>t, ChatDomain, ScriptType DEF TalkTyped
    <3> QED  BY <3>1
  <2> QED  BY <1>t, <2>1 DEF TalkTypeOK, TalkTyped, Deeds
<1>2. SuccessIsNew
  <2> SUFFICES ASSUME Settling, ~blind, NEW i \in Ids, NEW scan \in BOOLEAN,
                      Tells(i, "success", TRUE, scan)
               PROVE  i \in changed /\ chat[i].says = "success"
    BY DEF SuccessIsNew
  <2>1. Compares
    BY DEF Settling, Compares
  <2>2. ShotOf(TRUE)[i] \in BotMessages \ {before[i]}
    BY DEF Tells
  <2>3. i \in DOMAIN chat
    BY <1>t, <2>2 DEF Chats, ShotOf, Absent, BotMessages
  <2>4. chat[i] # before[i]
    BY <2>2, <2>3 DEF ShotOf
  <2>5. i \in changed
    BY <1>t, <2>1, <2>3, <2>4 DEF Shots
  <2>6. chat[i].says = "success"
    BY <1>t, <2>3 DEF Tells, Chats
  <2> QED  BY <2>5, <2>6
<1>3. RepliesSeen
  BY <1>t DEF RepliesSeen, Shots, TalkTyped
<1>4. DoneIsNotRepeated
  BY <1>t DEF DoneIsNotRepeated, Positions
<1> QED  BY <1>1, <1>2, <1>3, <1>4 DEF ConversationIsSafe

\* Messages, snapshots and positions of a conversation have their types, for any
\* script, any retries and any number of messages.
THEOREM TalkCorrect == TalkSpec => []TalkTypeOK
BY TalkInitInv, TalkStep, TalkInvShows, PTL DEF TalkSpec

\* However late the handler hears of a message, a success that settles a text or a
\* button was written after its snapshot, no answer that came at once is missed, and
\* without a backoff a new attempt repeats no step that was done (wait_for,
\* _maybe_stop_after_send, _run_classic_chat).
THEOREM ConversationsAreSafe == TalkSpec => []ConversationIsSafe
BY TalkInitInv, TalkStep, TalkInvShows, PTL DEF TalkSpec

-----------------------------------------------------------------------------
(***************************************************************************)
(* The live log of a run                                                   *)
(*                                                                         *)
(* The queue of the reader and what it was sent are sequences: a bounded   *)
(* queue keeps the latest entries, and a batch is sent without its         *)
(* duplicates, of which the k-th is found by counting.                     *)
(***************************************************************************)
\* A set of indices has a least one.
LEMMA LeastIndex ==
  ASSUME NEW I \in SUBSET Nat, I # {}
  PROVE  \E i \in I : \A j \in I : i <= j
<1> DEFINE R == OpToRel(<, Nat)
<1> HIDE DEF R
<1>1. IsWellFoundedOn(R, Nat)
  BY NatLessThanWellFounded DEF R
<1>2. PICK i \in I : \A j \in I : <<j, i>> \notin R
  BY <1>1, WFMin
<1>3. \A j \in I : ~(j < i)
  BY <1>2 DEF R, OpToRel
<1> QED  BY <1>3

Excess(s) == IF Len(s) <= QueueSize THEN 0 ELSE Len(s) - QueueSize

\* What a queue keeps of a sequence are its last entries.
LEMMA LatestIs ==
  ASSUME NEW s \in Seq(Nat)
  PROVE  /\ Latest(s) \in Seq(Nat) /\ Len(Latest(s)) = Len(s) - Excess(s)
         /\ Excess(s) \in Nat /\ Len(s) \in Nat /\ Len(Latest(s)) <= QueueSize
         /\ \A i \in 1 .. Len(s) - Excess(s) : /\ i + Excess(s) \in 1 .. Len(s)
                                               /\ Latest(s)[i] = s[i + Excess(s)]
<1> USE LogAssumption DEF Excess
<1>1. CASE Len(s) <= QueueSize
  BY <1>1 DEF Latest
<1>2. CASE Len(s) > QueueSize
  <2>1. Latest(s) = SubSeq(s, Len(s) - QueueSize + 1, Len(s))
    BY <1>2 DEF Latest
  <2>2. /\ Latest(s) \in Seq(Nat) /\ Len(Latest(s)) = QueueSize
        /\ \A i \in 1 .. QueueSize : Latest(s)[i] = s[Len(s) - QueueSize + 1 + i - 1]
    BY <1>2, <2>1
  <2>3. \A i \in 1 .. QueueSize : Len(s) - QueueSize + 1 + i - 1 = i + (Len(s) - QueueSize)
    OBVIOUS
  <2> QED  BY <1>2, <2>2, <2>3
<1> QED  BY <1>1, <1>2

LEMMA DeliveredIs ==
  ASSUME NEW q \in Seq(Nat), Len(q) <= QueueSize, NEW e \in Nat
  PROVE  LET d == IF Len(q) = QueueSize THEN 1 ELSE 0
         IN /\ Delivered(q, e) \in Seq(Nat) /\ Len(Delivered(q, e)) = (Len(q) + 1) - d
            /\ Len(Delivered(q, e)) <= QueueSize /\ Len(q) \in Nat
            /\ Delivered(q, e)[(Len(q) + 1) - d] = e
            /\ \A i \in 1 .. Len(q) - d : /\ i + d \in 1 .. Len(q)
                                          /\ Delivered(q, e)[i] = q[i + d]
<1> USE LogAssumption
<1> DEFINE a == Append(q, e)
<1>1. /\ a \in Seq(Nat) /\ Len(a) = Len(q) + 1 /\ a[Len(q) + 1] = e /\ Len(q) \in Nat
      /\ \A i \in 1 .. Len(q) : a[i] = q[i]
  OBVIOUS
<1> HIDE DEF a
<1>2. Delivered(q, e) = Latest(a)
  BY DEF Delivered, a
<1>3. /\ Latest(a) \in Seq(Nat) /\ Len(Latest(a)) = Len(a) - Excess(a) /\ Len(Latest(a)) <= QueueSize
      /\ \A i \in 1 .. Len(a) - Excess(a) : /\ i + Excess(a) \in 1 .. Len(a)
                                            /\ Latest(a)[i] = a[i + Excess(a)]
  BY <1>1, LatestIs
<1>4. CASE Len(q) = QueueSize
  <2>1. Excess(a) = 1
    BY <1>1, <1>4 DEF Excess
  <2> QED  BY <1>1, <1>2, <1>3, <1>4, <2>1
<1>5. CASE Len(q) # QueueSize
  <2>1. Excess(a) = 0
    BY <1>1, <1>5 DEF Excess
  <2> QED  BY <1>1, <1>2, <1>3, <1>5, <2>1
<1> QED  BY <1>4, <1>5

LEMMA RankIsOnto ==
  ASSUME NEW n \in Nat, NEW F \in SUBSET (1 .. n)
  PROVE  /\ Cardinality(F) \in Nat
         /\ \A i \in F : Cardinality(F \cap 1 .. i) \in 1 .. Cardinality(F)
         /\ \A k \in 1 .. Cardinality(F) : \E i \in F : Cardinality(F \cap 1 .. i) = k
         /\ \A i, j \in F : Cardinality(F \cap 1 .. i) = Cardinality(F \cap 1 .. j) => i = j
<1>1. IsFiniteSet(F) /\ Cardinality(F) \in Nat
  <2>1. IsFiniteSet(1 .. n)
    BY FS_Interval
  <2> QED  BY <2>1, FS_Subset, FS_CardinalityType
<1> DEFINE r == [i \in F |-> Cardinality(F \cap 1 .. i)]
<1>2. ASSUME NEW i \in F PROVE r[i] \in 1 .. Cardinality(F)
  <2>1. IsFiniteSet(F \cap 1 .. i) /\ Cardinality(F \cap 1 .. i) <= Cardinality(F)
    BY <1>1, FS_Subset
  <2>2. Cardinality(F \cap 1 .. i) \in Nat /\ Cardinality(F \cap 1 .. i) # 0
    <3>1. i \in F \cap 1 .. i
      OBVIOUS
    <3> QED  BY <2>1, <3>1, FS_CardinalityType, FS_EmptySet
  <2> QED  BY <1>1, <2>1, <2>2
<1>3. ASSUME NEW i \in F, NEW j \in F, i < j PROVE r[i] # r[j]
  <2>1. IsFiniteSet(F \cap 1 .. j) /\ (F \cap 1 .. i) \in SUBSET (F \cap 1 .. j)
    BY <1>1, <1>3, FS_Subset
  <2>2. j \in F \cap 1 .. j /\ j \notin F \cap 1 .. i
    BY <1>3
  <2> QED  BY <2>1, <2>2, FS_Subset
<1>4. \A i, j \in F : r[i] = r[j] => i = j
  <2> SUFFICES ASSUME NEW i \in F, NEW j \in F, i # j PROVE r[i] # r[j]
    OBVIOUS
  <2>1. i < j \/ j < i
    OBVIOUS
  <2> QED  BY <1>3, <2>1
<1>5. r \in Injection(F, 1 .. Cardinality(F))
  BY <1>2, <1>4 DEF Injection, IsInjective
<1>6. IsFiniteSet(1 .. Cardinality(F)) /\ Cardinality(1 .. Cardinality(F)) = Cardinality(F)
  BY <1>1, FS_Interval
<1>7. r \in Surjection(F, 1 .. Cardinality(F))
  BY <1>5, <1>6, FS_Injection
<1>8. \A k \in 1 .. Cardinality(F) : \E i \in F : r[i] = k
  BY <1>7 DEF Surjection
<1> QED  BY <1>1, <1>2, <1>4, <1>8

LEMMA Concat ==
  ASSUME NEW s \in Seq(Nat), NEW t \in Seq(Nat)
  PROVE  /\ s \o t \in Seq(Nat) /\ Len(s) \in Nat /\ Len(t) \in Nat
         /\ Len(s \o t) = Len(s) + Len(t)
         /\ DOMAIN s = 1 .. Len(s) /\ DOMAIN t = 1 .. Len(t)
         /\ DOMAIN (s \o t) = 1 .. Len(s) + Len(t)
         /\ \A i \in 1 .. Len(s) : (s \o t)[i] = s[i]
         /\ \A i \in 1 .. Len(t) : (s \o t)[i + Len(s)] = t[i]
OBVIOUS

LEMMA ConcatSet ==
  ASSUME NEW s \in Seq(Nat), NEW t \in Seq(Nat)
  PROVE  ToSet(s \o t) = ToSet(s) \cup ToSet(t)
<1> DEFINE u == s \o t
<1>0. /\ u \in Seq(Nat) /\ Len(s) \in Nat /\ Len(t) \in Nat /\ DOMAIN u = 1 .. Len(s) + Len(t)
      /\ DOMAIN s = 1 .. Len(s) /\ DOMAIN t = 1 .. Len(t)
      /\ \A i \in 1 .. Len(s) : u[i] = s[i]
      /\ \A i \in 1 .. Len(t) : u[i + Len(s)] = t[i]
  BY Concat
<1> HIDE DEF u
<1>1. ASSUME NEW e \in ToSet(s) \cup ToSet(t) PROVE e \in ToSet(u)
  <2>1. CASE e \in ToSet(s)
    <3>1. PICK i \in 1 .. Len(s) : s[i] = e
      BY <1>0, <2>1 DEF ToSet
    <3>2. i \in DOMAIN u /\ u[i] = e
      BY <1>0, <3>1
    <3> QED  BY <3>2 DEF ToSet
  <2>2. CASE e \in ToSet(t)
    <3>1. PICK i \in 1 .. Len(t) : t[i] = e
      BY <1>0, <2>2 DEF ToSet
    <3>2. i + Len(s) \in DOMAIN u /\ u[i + Len(s)] = e
      BY <1>0, <3>1
    <3> QED  BY <3>2 DEF ToSet
  <2> QED  BY <1>1, <2>1, <2>2
<1>2. ASSUME NEW e \in ToSet(u) PROVE e \in ToSet(s) \cup ToSet(t)
  <2>1. PICK i \in 1 .. Len(s) + Len(t) : u[i] = e
    BY <1>0, <1>2 DEF ToSet
  <2>2. CASE i <= Len(s)
    <3>1. i \in DOMAIN s /\ s[i] = e
      BY <1>0, <2>1, <2>2
    <3> QED  BY <3>1 DEF ToSet
  <2>3. CASE i > Len(s)
    <3>1. i - Len(s) \in 1 .. Len(t) /\ (i - Len(s)) + Len(s) = i
      BY <1>0, <2>3
    <3>2. t[i - Len(s)] = e
      BY <1>0, <2>1, <3>1
    <3> QED  BY <1>0, <3>1, <3>2 DEF ToSet
  <2> QED  BY <1>0, <2>2, <2>3
<1>3. ToSet(u) = ToSet(s) \cup ToSet(t)
  BY <1>1, <1>2
<1> QED  BY <1>3 DEF u

LEMMA ConcatInjective ==
  ASSUME NEW s \in Seq(Nat), NEW t \in Seq(Nat), IsInjective(s), IsInjective(t),
         ToSet(s) \cap ToSet(t) = {}
  PROVE  IsInjective(s \o t)
<1> DEFINE u == s \o t
<1>0. /\ u \in Seq(Nat) /\ Len(s) \in Nat /\ Len(t) \in Nat /\ DOMAIN u = 1 .. Len(s) + Len(t)
      /\ DOMAIN s = 1 .. Len(s) /\ DOMAIN t = 1 .. Len(t)
      /\ \A i \in 1 .. Len(s) : u[i] = s[i]
      /\ \A i \in 1 .. Len(t) : u[i + Len(s)] = t[i]
  BY Concat
<1> HIDE DEF u
<1>1. \A i \in 1 .. Len(s), j \in 1 .. Len(t) : s[i] # t[j]
  BY <1>0 DEF ToSet
<1>2. ASSUME NEW i \in DOMAIN u, NEW j \in DOMAIN u, u[i] = u[j], i < j PROVE FALSE
  <2>1. CASE j <= Len(s)
    <3>1. i \in DOMAIN s /\ j \in DOMAIN s /\ s[i] = s[j] /\ i # j
      BY <1>0, <1>2, <2>1
    <3> QED  BY <3>1 DEF IsInjective
  <2>2. CASE j > Len(s)
    <3>1. j - Len(s) \in 1 .. Len(t) /\ (j - Len(s)) + Len(s) = j
      BY <1>0, <2>2
    <3>2. u[j] = t[j - Len(s)]
      BY <1>0, <3>1
    <3>3. CASE i <= Len(s)
      BY <1>0, <1>1, <1>2, <3>1, <3>2, <3>3
    <3>4. CASE i > Len(s)
      <4>1. i - Len(s) \in 1 .. Len(t) /\ (i - Len(s)) + Len(s) = i
        BY <1>0, <3>4
      <4>2. u[i] = t[i - Len(s)]
        BY <1>0, <4>1
      <4>3. i - Len(s) = j - Len(s)
        BY <1>0, <1>2, <3>1, <3>2, <4>1, <4>2 DEF IsInjective
      <4> QED  BY <1>0, <1>2, <4>3
    <3> QED  BY <1>0, <3>3, <3>4
  <2> QED  BY <1>0, <2>1, <2>2
<1>3. \A i, j \in DOMAIN u : i < j \/ j < i \/ i = j
  BY <1>0
<1>4. IsInjective(u)
  BY <1>2, <1>3 DEF IsInjective
<1> QED  BY <1>4 DEF u

LEMMA Prefix ==
  ASSUME NEW q \in Seq(Nat), NEW n \in Nat, n <= Len(q)
  PROVE  /\ SubSeq(q, 1, n) \in Seq(Nat) /\ Len(SubSeq(q, 1, n)) = n
         /\ \A i \in 1 .. n : SubSeq(q, 1, n)[i] = q[i]
         /\ ToSet(SubSeq(q, 1, n)) = {q[i] : i \in 1 .. n}
<1>1. SubSeq(q, 1, n) \in Seq(Nat) /\ Len(SubSeq(q, 1, n)) = n
      /\ DOMAIN SubSeq(q, 1, n) = 1 .. n
      /\ \A i \in 1 .. n : SubSeq(q, 1, n)[i] = q[i]
  OBVIOUS
<1> QED  BY <1>1 DEF ToSet

\* A reader is sent the events it has not had, each once.
LEMMA ForwardedIs ==
  ASSUME NEW s \in Seq(Nat), NEW events \in Seq(Nat)
  PROVE  /\ Forwarded(s, events) \in Seq(Nat)
         /\ ToSet(Forwarded(s, events)) = ToSet(s) \cup ToSet(events)
         /\ IsInjective(s) => IsInjective(Forwarded(s, events))
<1> DEFINE F == Unsent(s, events)
           Pick(k) == CHOOSE i \in F : Cardinality(F \cap 1 .. i) = k
           t == [k \in 1 .. Cardinality(F) |-> events[Pick(k)]]
<1>1. F \in SUBSET (1 .. Len(events)) /\ Len(events) \in Nat /\ Len(s) \in Nat
  BY DEF Unsent
<1>2. \A i \in 1 .. Len(events) : i \in F <=>
        (events[i] \notin ToSet(s) /\ \A j \in 1 .. i - 1 : events[j] # events[i])
  <2> SUFFICES ASSUME NEW i \in 1 .. Len(events)
               PROVE  i \in F <=> (/\ events[i] \notin ToSet(s)
                                   /\ \A j \in 1 .. i - 1 : events[j] # events[i])
    OBVIOUS
  <2>1. PICK n \in Nat : n = i - 1 /\ n <= Len(events)
    BY <1>1
  <2> DEFINE b == SubSeq(events, 1, n)
  <2>2. i \in F <=> events[i] \notin ToSet(s \o b)
    BY <2>1 DEF Unsent, IsDuplicate
  <2>3. b \in Seq(Nat) /\ ToSet(b) = {events[j] : j \in 1 .. n}
    BY <2>1, Prefix
  <2> HIDE DEF b
  <2>4. ToSet(s \o b) = ToSet(s) \cup ToSet(b)
    BY <2>3, ConcatSet
  <2> QED  BY <2>1, <2>2, <2>3, <2>4
<1>3. Cardinality(F) \in Nat
  BY <1>1, RankIsOnto
<1>4. \A k \in 1 .. Cardinality(F) : Pick(k) \in F /\ Cardinality(F \cap 1 .. Pick(k)) = k
  BY <1>1, RankIsOnto
<1>5. \A i \in F : /\ Cardinality(F \cap 1 .. i) \in 1 .. Cardinality(F)
                   /\ Pick(Cardinality(F \cap 1 .. i)) = i
  <2> SUFFICES ASSUME NEW i \in F
               PROVE  /\ Cardinality(F \cap 1 .. i) \in 1 .. Cardinality(F)
                      /\ Pick(Cardinality(F \cap 1 .. i)) = i
    OBVIOUS
  <2>1. Cardinality(F \cap 1 .. i) \in 1 .. Cardinality(F)
    BY <1>1, RankIsOnto
  <2>2. Pick(Cardinality(F \cap 1 .. i)) \in F
        /\ Cardinality(F \cap 1 .. Pick(Cardinality(F \cap 1 .. i))) = Cardinality(F \cap 1 .. i)
    BY <1>4, <2>1
  <2> HIDE DEF Pick
  <2>3. \A j \in F : Cardinality(F \cap 1 .. j) = Cardinality(F \cap 1 .. i) => j = i
    BY <1>1, RankIsOnto
  <2> QED  BY <2>1, <2>2, <2>3
<1>6. Forwarded(s, events) = s \o t
  BY DEF Forwarded
<1> HIDE DEF F, Pick
<1>7. t \in Seq(Nat) /\ Len(t) = Cardinality(F) /\ DOMAIN t = 1 .. Cardinality(F)
  <2>1. \A k \in 1 .. Cardinality(F) : events[Pick(k)] \in Nat
    <3>1. \A i \in 1 .. Len(events) : events[i] \in Nat
      OBVIOUS
    <3> QED  BY <1>1, <1>4, <3>1
  <2>2. \A n \in Nat : \A f \in [1 .. n -> Nat] : f \in Seq(Nat) /\ Len(f) = n
    OBVIOUS
  <2> QED  BY <1>3, <2>1, <2>2
<1>8. ToSet(t) = {events[i] : i \in F}
  <2>1. ASSUME NEW i \in F PROVE \E k \in DOMAIN t : t[k] = events[i]
    BY <1>5, <1>7
  <2>2. \A k \in DOMAIN t : \E i \in F : t[k] = events[i]
    BY <1>4, <1>7
  <2> QED  BY <2>1, <2>2 DEF ToSet
<1> HIDE DEF t
<1>9. ToSet(s \o t) = ToSet(s) \cup ToSet(t)
  BY <1>7, ConcatSet
<1>10. ToSet(events) \subseteq ToSet(s) \cup ToSet(t)
  <2> SUFFICES ASSUME NEW k \in DOMAIN events, events[k] \notin ToSet(s)
               PROVE  events[k] \in ToSet(t)
    BY DEF ToSet
  <2> DEFINE I == {i \in 1 .. Len(events) : events[i] = events[k]}
  <2>1. PICK i \in I : \A j \in I : i <= j
    <3>1. k \in I /\ I \in SUBSET Nat
      OBVIOUS
    <3> QED  BY <3>1, LeastIndex
  <2>2. i \in 1 .. Len(events) /\ events[i] = events[k]
    BY <2>1
  <2>4. \A j \in 1 .. i - 1 : events[j] # events[i]
    BY <1>1, <2>1, <2>2
  <2>3. i \in F
    BY <1>2, <2>2, <2>4
  <2> QED  BY <1>8, <2>2, <2>3
<1>11. ToSet(t) \subseteq ToSet(events)
  <2>1. DOMAIN events = 1 .. Len(events)
    OBVIOUS
  <2> QED  BY <1>1, <1>8, <2>1 DEF ToSet
<1>12. ASSUME IsInjective(s) PROVE IsInjective(s \o t)
  <2>1. IsInjective(t)
    <3> SUFFICES ASSUME NEW k \in DOMAIN t, NEW l \in DOMAIN t, t[k] = t[l] PROVE k = l
      BY DEF IsInjective
    <3>1. /\ Pick(k) \in F /\ Pick(l) \in F /\ events[Pick(k)] = events[Pick(l)]
          /\ Cardinality(F \cap 1 .. Pick(k)) = k /\ Cardinality(F \cap 1 .. Pick(l)) = l
      BY <1>4, <1>7 DEF t
    <3>2. Pick(k) = Pick(l)
      <4>1. Pick(k) \in 1 .. Len(events) /\ Pick(l) \in 1 .. Len(events)
        BY <1>1, <3>1
      <4>2. ~(Pick(k) < Pick(l)) /\ ~(Pick(l) < Pick(k))
        BY <1>2, <3>1, <4>1
      <4> QED  BY <4>1, <4>2
    <3> QED  BY <3>1, <3>2
  <2>2. ToSet(s) \cap ToSet(t) = {}
    BY <1>1, <1>2, <1>8
  <2> QED  BY <1>7, <1>12, <2>1, <2>2, ConcatInjective
<1> QED  BY <1>6, <1>7, <1>9, <1>10, <1>11, <1>12

-----------------------------------------------------------------------------
\* Types, with what the thread has under way.
LogEvents == Seq([to : Nat, event : Nat])
LogTypes ==
  /\ published \in Nat /\ published <= LogLines /\ doneAt \in Nat /\ doneAt <= published
  /\ foreign \subseteq 1 .. published /\ evicted \subseteq 1 .. published
  /\ posting \in LogEvents /\ posted \in LogEvents /\ Len(posting) + Len(posted) <= 1
  /\ \A i \in DOMAIN posting : posting[i].event \in foreign
  /\ \A i \in DOMAIN posted : posted[i].event \in foreign
  /\ socket \in {"connecting", "replaying", "top", "changing", "waiting", "sending", "closed"}
  /\ known \in BOOLEAN /\ queueId \in 0 .. 2 /\ overflowed \in Nat
  /\ queue \in Seq(Nat) /\ Len(queue) <= QueueSize
  /\ \A i \in DOMAIN queue : queue[i] \in 1 .. published
  /\ shown \in Seq(Nat) /\ \A i \in DOMAIN shown : shown[i] \in 1 .. published

\* Where the reader is, and what it has there.
LogTurns ==
  /\ socket \in {"connecting", "changing", "replaying"} => queue = <<>>
  /\ socket = "connecting" => shown = <<>>
  /\ (queueId = 0) <=> (socket = "connecting")
  /\ socket = "changing" => known /\ queueId = 1
  /\ ~known => queueId <= 1
  /\ (~known /\ socket = "replaying") => published = 0
  /\ (~known /\ socket = "waiting") => shown = <<>>
  /\ socket = "closed" => doneAt > 0

\* "done" is the last event of the run, and the reader that was sent it is closed.
LogEnds ==
  /\ doneAt \notin foreign
  /\ doneAt > 0 => \A e \in 1 .. published : e > doneAt => e \in foreign
  /\ socket # "closed" => \A i \in DOMAIN shown : shown[i] # doneAt
  /\ IsInjective(shown)

\* The events of the run come in their order; before the change of streams no event of
\* the thread is ahead of its time.
LogOrder ==
  /\ \A i, j \in DOMAIN queue : (i < j /\ queue[i] \notin foreign /\ queue[j] \notin foreign)
                                  => queue[i] < queue[j]
  /\ (~known /\ socket = "waiting") =>
       \A i, j \in DOMAIN queue : (i < j /\ queue[j] \notin foreign) => queue[i] < queue[j]
  /\ (~known /\ socket \in {"top", "sending"}) =>
       \A i \in DOMAIN queue, j \in DOMAIN shown : queue[i] \notin foreign => shown[j] < queue[i]

\* Each event of the run was shown, is in the queue or was counted.
Told == (1 .. published) \ (foreign \cup evicted)
Lost == Told \ (ToSet(shown) \cup ToSet(queue))
Skipped == {e \in Told : e <= LastSent} \ ToSet(shown)
LogCount ==
  /\ socket \in {"top", "waiting", "sending"} => Cardinality(Lost) <= overflowed
  /\ (socket \in {"changing", "replaying"} /\ known) => Cardinality(Skipped) <= overflowed
  /\ NoLineMissed

LogInv == LogTypes /\ LogTurns /\ LogEnds /\ LogOrder /\ LogCount

LEMMA LogInvInit == LogInit => LogInv
<1> SUFFICES ASSUME LogInit PROVE LogInv
  OBVIOUS
<1>1. /\ published = 0 /\ doneAt = 0 /\ foreign = {} /\ posting = <<>> /\ posted = <<>>
      /\ socket = "connecting" /\ known \in BOOLEAN /\ queueId = 0 /\ queue = <<>>
      /\ overflowed = 0 /\ evicted = {} /\ shown = <<>> /\ DOMAIN queue = {} /\ DOMAIN shown = {}
      /\ DOMAIN posting = {} /\ Len(queue) = 0 /\ Len(posting) = 0
  BY DEF LogInit
<1>2. LogTypes
  BY <1>1, LogAssumption DEF LogTypes, LogEvents
<1>3. LogTurns
  BY <1>1 DEF LogTurns
<1>4. LogEnds
  BY <1>1 DEF LogEnds, IsInjective
<1>5. LogOrder
  BY <1>1 DEF LogOrder
<1>6. LogCount
  BY <1>1 DEF LogCount, NoLineMissed
<1> QED  BY <1>2, <1>3, <1>4, <1>5, <1>6 DEF LogInv

\* What was sent last is the greatest of what was sent.
LEMMA LastIsGreatest ==
  ASSUME LogTypes
  PROVE  /\ LastSent \in 0 .. published /\ \A i \in DOMAIN shown : shown[i] <= LastSent
         /\ LastSent = 0 \/ \E i \in DOMAIN shown : shown[i] = LastSent
         /\ shown = <<>> => LastSent = 0
<1> DEFINE T == ToSet(shown) \cup {0}
           Up == {n \in Nat : \A t \in T : t <= n}
<1>1. \A t \in T : t \in 0 .. published
  BY DEF LogTypes, ToSet
<1>2. PICK n \in Up : \A m \in Up : n <= m
  <2>1. published \in Up
    BY <1>1 DEF LogTypes
  <2> QED  BY <2>1, LeastIndex
<1>3. n \in T
  <2>1. CASE n = 0
    BY <2>1
  <2>2. CASE n # 0 /\ n \notin T
    <3>1. n - 1 \in Nat /\ \A t \in T : t <= n - 1
      BY <1>1, <1>2, <2>2 DEF LogTypes
    <3>2. n - 1 \in Up
      BY <3>1
    <3> QED  BY <1>2, <3>2
  <2> QED  BY <2>1, <2>2
<1>4. LastSent \in T /\ \A t \in T : LastSent >= t
  <2>1. \E x \in T : \A y \in T : x >= y
    BY <1>1, <1>2, <1>3
  <2>2. LastSent = CHOOSE x \in T : \A y \in T : x >= y
    BY DEF LastSent, Max
  <2> HIDE DEF T
  <2> QED  BY <2>1, <2>2
<1>5. shown = <<>> => T = {0}
  BY DEF ToSet
<1> QED  BY <1>1, <1>4, <1>5 DEF ToSet

\* A count of fewer events is no greater.
LEMMA FewerLost ==
  ASSUME LogTypes, NEW S, NEW T \in SUBSET (1 .. published), S \subseteq T
  PROVE  /\ IsFiniteSet(S) /\ Cardinality(S) \in Nat /\ Cardinality(T) \in Nat
         /\ IsFiniteSet(T) /\ Cardinality(S) <= Cardinality(T)
<1>1. IsFiniteSet(1 .. published)
  BY FS_Interval DEF LogTypes
<1>2. IsFiniteSet(T)
  BY <1>1, FS_Subset
<1> QED  BY <1>2, FS_Subset, FS_CardinalityType

LEMMA LostTypes ==
  ASSUME LogTypes
  PROVE  Lost \in SUBSET (1 .. published) /\ Skipped \in SUBSET (1 .. published)
BY DEF Lost, Skipped, Told

\* What a delivery does with the queue of the reader: d entries make room.
LEMMA DeliverQueue ==
  ASSUME LogTypes, NEW id, NEW e \in Nat, DeliverTo(id, e), id = queueId, queueId # 0
  PROVE  \E d \in {0, 1} :
           /\ queue' \in Seq(Nat) /\ Len(queue') <= QueueSize
           /\ overflowed' = overflowed + d
           /\ \A i \in DOMAIN queue' : \/ i = Len(queue') /\ queue'[i] = e
                                       \/ /\ i < Len(queue') /\ i + d \in DOMAIN queue
                                          /\ queue'[i] = queue[i + d]
           /\ \A i \in DOMAIN queue : i <= d \/ (i - d \in DOMAIN queue' /\ queue'[i - d] = queue[i])
           /\ e \in ToSet(queue') /\ (d = 1 => queue # <<>>)
<1>0. queue \in Seq(Nat) /\ Len(queue) <= QueueSize
  BY DEF LogTypes
<1>1. queue' = Delivered(queue, e)
      /\ overflowed' = overflowed + IF Len(queue) = QueueSize THEN 1 ELSE 0
  BY DEF DeliverTo
<1>2. PICK d \in {0, 1} : d = IF Len(queue) = QueueSize THEN 1 ELSE 0
  OBVIOUS
<1>3. /\ queue' \in Seq(Nat) /\ Len(queue') = (Len(queue) + 1) - d
      /\ Len(queue') <= QueueSize /\ Len(queue) \in Nat
      /\ queue'[(Len(queue) + 1) - d] = e
      /\ \A i \in 1 .. (Len(queue) - d) : i + d \in 1 .. Len(queue) /\ queue'[i] = queue[i + d]
  BY <1>0, <1>1, <1>2, DeliveredIs
<1>4. /\ DOMAIN queue \subseteq Nat /\ DOMAIN queue = 1 .. Len(queue) /\ DOMAIN queue' = 1 .. ((Len(queue) + 1) - d)
  BY <1>0, <1>3
<1>5. \A i \in DOMAIN queue' : \/ i = Len(queue') /\ queue'[i] = e
                               \/ /\ i < Len(queue') /\ i + d \in DOMAIN queue
                                  /\ queue'[i] = queue[i + d]
  <2> SUFFICES ASSUME NEW i \in DOMAIN queue', i # Len(queue')
               PROVE  /\ i < Len(queue') /\ i + d \in DOMAIN queue
                      /\ queue'[i] = queue[i + d]
    BY <1>3
  <2>1. i \in 1 .. (Len(queue) - d)
    BY <1>2, <1>3, <1>4
  <2> QED  BY <1>2, <1>3, <1>4, <2>1
<1>6. ASSUME NEW i \in DOMAIN queue, ~(i <= d)
      PROVE  i - d \in DOMAIN queue' /\ queue'[i - d] = queue[i]
  <2>1. i - d \in 1 .. (Len(queue) - d) /\ (i - d) + d = i
    BY <1>2, <1>3, <1>4, <1>6
  <2> QED  BY <1>2, <1>3, <1>4, <2>1
<1>7. e \in ToSet(queue')
  <2>1. (Len(queue) + 1) - d >= 1
    BY <1>2, <1>3, LogAssumption
  <2>2. (Len(queue) + 1) - d \in DOMAIN queue'
    BY <1>3, <1>4, <2>1
  <2> QED  BY <1>3, <2>2 DEF ToSet
<1>8. d = 1 => queue # <<>>
  BY <1>0, <1>2, LogAssumption
<1> QED  BY <1>1, <1>2, <1>3, <1>5, <1>6, <1>7, <1>8

\* A delivery of the newest event, or of one of the thread.
LEMMA DeliveryKeeps ==
  ASSUME LogInv, NEW id, NEW e \in 1 .. published', DeliverTo(id, e),
         published \in Nat, published' \in Nat, published <= published',
         UNCHANGED <<foreign, readerVars>>, e \in foreign \/ e > published,
         Told' \subseteq Told \cup {e}, Told' # Told => id = queueId,
         socket \notin {"replaying", "top", "changing"}
  PROVE  /\ queue' \in Seq(Nat) /\ Len(queue') <= QueueSize /\ overflowed' \in Nat
         /\ \A i \in DOMAIN queue' : queue'[i] \in 1 .. published'
         /\ overflowed <= overflowed' /\ (socket = "connecting" => queue' = queue)
         /\ LogOrder'
         /\ socket \in {"top", "waiting", "sending"} => Cardinality(Lost') <= overflowed'
<1> USE DEF LogInv
<1>0. UNCHANGED <<socket, known, queueId, evicted, shown>> /\ LogTypes /\ e \in Nat
      /\ (queueId = 0 <=> socket = "connecting")
  BY DEF readerVars, LogTurns
<1>1. CASE id # queueId \/ queueId = 0
  <2>1. UNCHANGED <<queue, overflowed>>
    BY <1>1 DEF DeliverTo
  <2>2. LogOrder'
    BY <1>0, <2>1 DEF LogOrder
  <2>3. socket \in {"top", "waiting", "sending"} => Cardinality(Lost') <= overflowed'
    <3> SUFFICES ASSUME socket \in {"waiting", "sending"} PROVE Cardinality(Lost') <= overflowed'
      OBVIOUS
    <3>1. Told' = Told
      BY <1>0, <1>1
    <3>2. Lost' = Lost
      BY <1>0, <2>1, <3>1 DEF Lost
    <3> QED  BY <2>1, <3>2 DEF LogCount
  <2> QED  BY <2>1, <2>2, <2>3 DEF LogTypes
<1>2. CASE id = queueId /\ queueId # 0
  <2>1. PICK d \in {0, 1} :
           /\ queue' \in Seq(Nat) /\ Len(queue') <= QueueSize
           /\ overflowed' = overflowed + d
           /\ \A i \in DOMAIN queue' : \/ i = Len(queue') /\ queue'[i] = e
                                       \/ /\ i < Len(queue') /\ i + d \in DOMAIN queue
                                          /\ queue'[i] = queue[i + d]
           /\ \A i \in DOMAIN queue : i <= d \/ (i - d \in DOMAIN queue' /\ queue'[i - d] = queue[i])
           /\ e \in ToSet(queue') /\ (d = 1 => queue # <<>>)
    BY <1>0, <1>2, DeliverQueue
  <2>2. DOMAIN queue \subseteq Nat /\ DOMAIN queue' \subseteq Nat
        /\ \A i \in DOMAIN queue' : i <= Len(queue')
    BY <1>0, <2>1 DEF LogTypes
  <2>3. \A i \in DOMAIN queue' : queue'[i] \in 1 .. published'
    <3>1. \A i \in DOMAIN queue : queue[i] \in 1 .. published'
      BY <1>0 DEF LogTypes
    <3> QED  BY <2>1, <3>1
  <2>4. overflowed' \in Nat /\ overflowed <= overflowed'
    BY <1>0, <2>1 DEF LogTypes
  <2>5. LogOrder'
    <3>1. ASSUME NEW i \in DOMAIN queue', NEW j \in DOMAIN queue', i < j,
                 queue'[i] \notin foreign, queue'[j] \notin foreign
          PROVE  queue'[i] < queue'[j]
      <4>1. i < Len(queue') /\ i + d \in DOMAIN queue /\ queue'[i] = queue[i + d]
        BY <2>1, <2>2, <3>1
      <4>2. CASE queue'[j] = e
        BY <1>0, <3>1, <4>1, <4>2 DEF LogTypes
      <4>3. CASE queue'[j] # e
        <5>1. j + d \in DOMAIN queue /\ queue'[j] = queue[j + d] /\ i + d < j + d
          BY <2>1, <2>2, <3>1, <4>3
        <5> QED  BY <3>1, <4>1, <5>1 DEF LogOrder
      <4> QED  BY <4>2, <4>3
    <3>2. ASSUME ~known, socket = "waiting", NEW i \in DOMAIN queue', NEW j \in DOMAIN queue',
                 i < j, queue'[j] \notin foreign
          PROVE  queue'[i] < queue'[j]
      <4>1. i < Len(queue') /\ i + d \in DOMAIN queue /\ queue'[i] = queue[i + d]
        BY <2>1, <2>2, <3>2
      <4>2. CASE queue'[j] = e
        BY <1>0, <3>2, <4>1, <4>2 DEF LogTypes
      <4>3. CASE queue'[j] # e
        <5>1. j + d \in DOMAIN queue /\ queue'[j] = queue[j + d] /\ i + d < j + d
          BY <2>1, <2>2, <3>2, <4>3
        <5> QED  BY <3>2, <4>1, <5>1 DEF LogOrder
      <4> QED  BY <4>2, <4>3
    <3>3. ASSUME ~known, socket \in {"top", "sending"}, NEW i \in DOMAIN queue',
                 NEW j \in DOMAIN shown, queue'[i] \notin foreign
          PROVE  shown[j] < queue'[i]
      <4>1. CASE queue'[i] = e
        BY <1>0, <3>3, <4>1 DEF LogTypes
      <4>2. CASE queue'[i] # e
        <5>1. i + d \in DOMAIN queue /\ queue'[i] = queue[i + d]
          BY <2>1, <4>2
        <5> QED  BY <3>3, <5>1 DEF LogOrder
      <4> QED  BY <4>1, <4>2
    <3> QED  BY <1>0, <3>1, <3>2, <3>3 DEF LogOrder
  <2>6. socket \in {"top", "waiting", "sending"} => Cardinality(Lost') <= overflowed'
    <3> SUFFICES ASSUME socket \in {"waiting", "sending"} PROVE Cardinality(Lost') <= overflowed'
      OBVIOUS
    <3>1. Cardinality(Lost) <= overflowed /\ IsFiniteSet(Lost) /\ Cardinality(Lost) \in Nat
      <4>1. Cardinality(Lost) <= overflowed
        BY DEF LogCount
      <4> QED  BY <4>1, <1>0, LostTypes, FewerLost
    <3>2. \A i \in DOMAIN queue : i > d => queue[i] \in ToSet(queue')
      BY <2>1, <2>2 DEF ToSet
    <3>3. Lost' \subseteq Lost \cup {queue[i] : i \in {k \in DOMAIN queue : k <= d}}
      <4>1. Told' \ {e} \subseteq Told
        OBVIOUS
      <4>2. \A i \in DOMAIN queue : i <= d \/ i > d
        BY <2>2
      <4>3. ToSet(queue) \subseteq ToSet(queue') \cup {queue[i] : i \in {k \in DOMAIN queue : k <= d}}
        BY <3>2, <4>2 DEF ToSet
      <4> QED  BY <1>0, <2>1, <4>1, <4>3 DEF Lost
    <3>4. CASE d = 0
      <4>1. Lost' \subseteq Lost
        BY <2>2, <3>3, <3>4, <1>0 DEF LogTypes
      <4>2. Cardinality(Lost') <= Cardinality(Lost) /\ Cardinality(Lost') \in Nat
        BY <1>0, <4>1, LostTypes, FewerLost
      <4> QED  BY <1>0, <2>1, <3>1, <3>4, <4>2 DEF LogTypes
    <3>5. CASE d = 1
      <4>1. Lost' \subseteq Lost \cup {queue[1]}
        BY <2>2, <3>3, <3>5, <1>0 DEF LogTypes
      <4>2. IsFiniteSet(Lost \cup {queue[1]})
            /\ Cardinality(Lost \cup {queue[1]}) <= Cardinality(Lost) + 1
            /\ Cardinality(Lost \cup {queue[1]}) \in Nat
        BY <3>1, FS_AddElement, FS_CardinalityType
      <4>3. Cardinality(Lost') <= Cardinality(Lost \cup {queue[1]}) /\ Cardinality(Lost') \in Nat
        BY <4>1, <4>2, FS_Subset, FS_CardinalityType
      <4> QED  BY <1>0, <2>1, <3>1, <3>5, <4>2, <4>3 DEF LogTypes
    <3> QED  BY <3>4, <3>5
  <2> QED  BY <1>0, <1>2, <2>1, <2>3, <2>4, <2>5, <2>6
<1> QED  BY <1>1, <1>2

LEMMA PublishKeeps ==
  ASSUME LogInv, NEW ends \in BOOLEAN, PublishLine(ends) PROVE LogInv'
<1>1. /\ doneAt = 0 /\ published < LogLines /\ socket \notin {"replaying", "top", "changing"}
      /\ published' = published + 1 /\ (doneAt' = 0 \/ doneAt' = published + 1)
      /\ DeliverTo(queueId, published + 1)
      /\ UNCHANGED <<foreign, posting, posted>> /\ UNCHANGED readerVars
      /\ UNCHANGED <<socket, known, queueId, evicted, shown>>
  BY DEF PublishLine, readerVars
<1>2. LogTypes /\ LogTurns /\ LogEnds /\ LogOrder /\ LogCount
  BY DEF LogInv
<1>3. published \in Nat /\ published' \in Nat /\ published <= published'
      /\ published' <= LogLines
  BY <1>1, <1>2, LogAssumption DEF LogTypes
<1>4. PICK e \in 1 .. published' : e = published + 1
  BY <1>1, <1>3
<1>5. PICK id : id = queueId
  OBVIOUS
<1>6. Told' \subseteq Told \cup {e} /\ e > published /\ DeliverTo(id, e)
  BY <1>1, <1>3, <1>4, <1>5 DEF Told
<1>7. /\ queue' \in Seq(Nat) /\ Len(queue') <= QueueSize /\ overflowed' \in Nat
      /\ \A i \in DOMAIN queue' : queue'[i] \in 1 .. published'
      /\ overflowed <= overflowed' /\ (socket = "connecting" => queue' = queue)
      /\ LogOrder'
      /\ socket \in {"top", "waiting", "sending"} => Cardinality(Lost') <= overflowed'
  BY <1>1, <1>3, <1>5, <1>6, DeliveryKeeps
<1>8. LogTypes'
  <2>1. foreign' \subseteq 1 .. published' /\ \A i \in DOMAIN shown : shown[i] \in 1 .. published'
    BY <1>1, <1>2, <1>3 DEF LogTypes
  <2>2. doneAt' \in Nat /\ doneAt' <= published'
    BY <1>1, <1>3
  <2> QED  BY <1>1, <1>2, <1>3, <1>7, <2>1, <2>2 DEF LogTypes
<1>9. socket # "closed"
  BY <1>1, <1>2 DEF LogTurns
<1>10. LogTurns'
  BY <1>1, <1>2, <1>7, <1>9 DEF LogTurns
<1>11. LogEnds'
  BY <1>1, <1>2, <1>3 DEF LogEnds, LogTypes
<1>12. LogCount'
  BY <1>1, <1>7, <1>9 DEF LogCount, NoLineMissed
<1> QED  BY <1>7, <1>8, <1>10, <1>11, <1>12 DEF LogInv

LEMMA PostedKeeps ==
  ASSUME LogInv, DeliverPosted PROVE LogInv'
<1>1. /\ posted # <<>> /\ posted' = Tail(posted) /\ socket \notin {"replaying", "top", "changing"}
      /\ DeliverTo(Head(posted).to, Head(posted).event)
      /\ UNCHANGED <<published, doneAt, foreign, posting>> /\ UNCHANGED readerVars
      /\ UNCHANGED <<socket, known, queueId, evicted, shown>>
  BY DEF DeliverPosted, readerVars, runVars
<1>2. LogTypes /\ LogTurns /\ LogEnds /\ LogOrder /\ LogCount
  BY DEF LogInv
<1>3. /\ posted' \in LogEvents /\ Len(posted') <= Len(posted) /\ Len(posted') \in Nat
      /\ \A i \in DOMAIN posted' : i + 1 \in DOMAIN posted /\ posted'[i] = posted[i + 1]
      /\ 1 \in DOMAIN posted /\ Head(posted) = posted[1] /\ Len(posted) \in Nat
  BY <1>1, <1>2 DEF LogTypes, LogEvents
<1>4. PICK id, e : id = Head(posted).to /\ e = Head(posted).event
  OBVIOUS
<1>5. e \in foreign /\ e \in 1 .. published' /\ published \in Nat
  BY <1>1, <1>2, <1>3, <1>4 DEF LogTypes
<1>6. Told' = Told /\ DeliverTo(id, e)
  BY <1>1, <1>4 DEF Told
<1>7. /\ queue' \in Seq(Nat) /\ Len(queue') <= QueueSize /\ overflowed' \in Nat
      /\ \A i \in DOMAIN queue' : queue'[i] \in 1 .. published'
      /\ overflowed <= overflowed' /\ (socket = "connecting" => queue' = queue)
      /\ LogOrder'
      /\ socket \in {"top", "waiting", "sending"} => Cardinality(Lost') <= overflowed'
  BY <1>1, <1>5, <1>6, DeliveryKeeps
<1>8. LogTypes'
  <2>1. Len(posting') + Len(posted') <= 1
    BY <1>1, <1>2, <1>3 DEF LogTypes, LogEvents
  <2> QED  BY <1>1, <1>2, <1>3, <1>7, <2>1 DEF LogTypes
<1>9. LogTurns'
  BY <1>1, <1>2, <1>7 DEF LogTurns
<1>10. LogEnds'
  BY <1>1, <1>2 DEF LogEnds
<1>11. NoLineMissed'
  <2> SUFFICES ASSUME socket = "closed"
               PROVE  Cardinality((1 .. (doneAt - 1)) \ (ToSet(shown) \cup foreign \cup evicted)) <= overflowed'
    BY <1>1 DEF NoLineMissed
  <2>1. Cardinality((1 .. (doneAt - 1)) \ (ToSet(shown) \cup foreign \cup evicted)) <= overflowed
    BY <1>2 DEF LogCount, NoLineMissed
  <2>2. Cardinality((1 .. (doneAt - 1)) \ (ToSet(shown) \cup foreign \cup evicted)) \in Nat
    <3>1. (1 .. (doneAt - 1)) \ (ToSet(shown) \cup foreign \cup evicted) \in SUBSET (1 .. published)
      BY <1>2 DEF LogTypes
    <3> QED  BY <1>2, <3>1, FewerLost
  <2> QED  BY <1>2, <1>7, <2>1, <2>2 DEF LogTypes
<1>12. LogCount'
  BY <1>1, <1>7, <1>11 DEF LogCount
<1> QED  BY <1>7, <1>8, <1>9, <1>10, <1>12 DEF LogInv

LEMMA StoreKeeps ==
  ASSUME LogInv, Store PROVE LogInv'
<1>1. /\ published \in 1 .. (LogLines - 1) /\ foreign = {}
      /\ published' = published + 1 /\ foreign' = {published + 1}
      /\ posting' = IF queueId = 0 THEN <<>> ELSE <<[to |-> queueId, event |-> published + 1]>>
      /\ UNCHANGED <<doneAt, posted, queue, overflowed, socket, known, queueId, evicted, shown>>
  BY DEF Store, readerVars
<1>2. LogTypes /\ LogTurns /\ LogEnds /\ LogOrder /\ LogCount
  BY DEF LogInv
<1>3. published \in Nat /\ published' \in Nat /\ published' <= LogLines /\ doneAt \in Nat
      /\ doneAt <= published
  BY <1>1, <1>2, LogAssumption DEF LogTypes
<1>4. DOMAIN posted = {} /\ Len(posted) = 0
  <2>1. DOMAIN posted = {}
    BY <1>1, <1>2 DEF LogTypes
  <2> QED  BY <1>2, <2>1 DEF LogTypes, LogEvents
<1>5. posting' \in LogEvents /\ Len(posting') <= 1 /\ Len(posting') \in Nat
      /\ \A i \in DOMAIN posting' : posting'[i].event \in foreign'
  <2>1. CASE queueId = 0
    BY <1>1, <2>1 DEF LogEvents
  <2>2. CASE queueId # 0
    <3>1. PICK x : x = [to |-> queueId, event |-> published + 1]
      OBVIOUS
    <3>2. queueId \in Nat /\ published + 1 \in Nat
      BY <1>2, <1>3 DEF LogTypes
    <3>3. x \in [to : Nat, event : Nat] /\ x.event = published + 1
      BY <3>1, <3>2
    <3>4. posting' = <<x>>
      BY <1>1, <2>2, <3>1
    <3>5. <<x>> \in Seq([to : Nat, event : Nat]) /\ Len(<<x>>) = 1 /\ DOMAIN <<x>> = {1}
          /\ <<x>>[1] = x
      BY <3>3
    <3>6. posting' \in Seq([to : Nat, event : Nat]) /\ Len(posting') = 1
          /\ DOMAIN posting' = {1} /\ posting'[1] = x
      BY <3>4, <3>5
    <3>7. x.event \in foreign'
      BY <1>1, <3>3
    <3> QED  BY <3>6, <3>7 DEF LogEvents
  <2> QED  BY <2>1, <2>2
<1>6. LogTypes'
  <2>1. /\ \A i \in DOMAIN queue : queue[i] \in 1 .. published'
        /\ \A i \in DOMAIN shown : shown[i] \in 1 .. published'
        /\ foreign' \subseteq 1 .. published' /\ doneAt <= published'
    BY <1>1, <1>2, <1>3 DEF LogTypes
  <2> QED  BY <1>1, <1>2, <1>3, <1>4, <1>5, <2>1 DEF LogTypes
<1>7. LogTurns'
  BY <1>1, <1>2, <1>3 DEF LogTurns
<1>8. LogEnds'
  BY <1>1, <1>2, <1>3 DEF LogEnds
<1>9. LogOrder'
  BY <1>1, <1>2 DEF LogOrder
<1>10. Told' = Told
  BY <1>1, <1>3 DEF Told
<1>11. Lost' = Lost /\ Skipped' = Skipped
  <2>1. LastSent' = LastSent
    BY <1>1 DEF LastSent
  <2> QED  BY <1>1, <1>10, <2>1 DEF Lost, Skipped
<1>12. NoLineMissed'
  <2>1. ((1 .. (doneAt - 1)) \ (ToSet(shown) \cup foreign \cup evicted))
          = ((1 .. (doneAt - 1)) \ (ToSet(shown) \cup foreign' \cup evicted))
    BY <1>1, <1>3
  <2> QED  BY <1>1, <1>2, <2>1 DEF LogCount, NoLineMissed
<1>13. LogCount'
  BY <1>1, <1>2, <1>11, <1>12 DEF LogCount
<1> QED  BY <1>6, <1>7, <1>8, <1>9, <1>13 DEF LogInv

LEMMA PostKeeps ==
  ASSUME LogInv, PostLine PROVE LogInv'
<1>1. /\ posting' = <<>> /\ posted' = posted \o posting
      /\ UNCHANGED <<published, doneAt, foreign, queue, overflowed, socket, known, queueId, evicted, shown>>
  BY DEF PostLine, readerVars
<1>2. LogTypes /\ LogTurns /\ LogEnds /\ LogOrder /\ LogCount
  BY DEF LogInv
<1>3. /\ posted' \in LogEvents /\ Len(posted') = Len(posted) + Len(posting)
      /\ Len(posted) \in Nat /\ Len(posting) \in Nat /\ DOMAIN posted' = 1 .. Len(posted')
      /\ \A i \in 1 .. Len(posted') : posted'[i] = IF i <= Len(posted) THEN posted[i]
                                                   ELSE posting[i - Len(posted)]
      /\ DOMAIN posted = 1 .. Len(posted) /\ DOMAIN posting = 1 .. Len(posting)
  BY <1>1, <1>2 DEF LogTypes, LogEvents
<1>4. \A i \in DOMAIN posted' : posted'[i].event \in foreign
  <2> SUFFICES ASSUME NEW i \in DOMAIN posted' PROVE posted'[i].event \in foreign
    OBVIOUS
  <2>1. CASE i <= Len(posted)
    BY <1>2, <1>3, <2>1 DEF LogTypes
  <2>2. CASE i > Len(posted)
    <3>1. i - Len(posted) \in DOMAIN posting /\ posted'[i] = posting[i - Len(posted)]
      BY <1>3, <2>2
    <3> QED  BY <1>2, <3>1 DEF LogTypes
  <2> QED  BY <1>3, <2>1, <2>2
<1>5. LogTypes'
  <2>1. posting' \in LogEvents /\ Len(posting') = 0 /\ DOMAIN posting' = {}
    BY <1>1 DEF LogEvents
  <2> QED  BY <1>1, <1>2, <1>3, <1>4, <2>1 DEF LogTypes
<1>6. LogTurns' /\ LogEnds' /\ LogOrder'
  BY <1>1, <1>2 DEF LogTurns, LogEnds, LogOrder
<1>7. LogCount'
  BY <1>1, <1>2 DEF LogCount, NoLineMissed, Lost, Skipped, Told, LastSent
<1> QED  BY <1>5, <1>6, <1>7 DEF LogInv

LEMMA ListenKeeps ==
  ASSUME LogInv, Listen PROVE LogInv'
<1>1. /\ socket \in {"connecting", "changing"} /\ socket' = "replaying"
      /\ known' = (known \/ published > 0) /\ queueId' = queueId + 1 /\ queue' = <<>>
      /\ UNCHANGED <<published, doneAt, foreign, posting, posted, overflowed, evicted, shown>>
  BY DEF Listen, runVars
<1>2. LogTypes /\ LogTurns /\ LogEnds /\ LogOrder /\ LogCount
  BY DEF LogInv
<1>3. queue' \in Seq(Nat) /\ Len(queue') = 0 /\ DOMAIN queue' = {} /\ QueueSize >= 0
  BY <1>1, LogAssumption
<1>4. queueId \in {0, 1} /\ (socket = "connecting" => queueId = 0)
      /\ (socket = "changing" => known)
  BY <1>1, <1>2 DEF LogTurns
<1>5. LogTypes'
  BY <1>1, <1>2, <1>3, <1>4 DEF LogTypes
<1>6. LogTurns'
  <2>1. queueId' # 0
    BY <1>1, <1>4
  <2>2. ASSUME ~known' PROVE published' = 0 /\ queueId' <= 1
    <3>1. ~known /\ published = 0
      <4>1. ~(known \/ published > 0)
        BY <1>1, <2>2, Zenon
      <4>2. published \in Nat
        BY <1>2 DEF LogTypes
      <4> QED  BY <4>1, <4>2
    <3>2. queueId = 0
      BY <1>1, <1>4, <3>1
    <3> QED  BY <1>1, <3>1, <3>2
  <2> QED  BY <1>1, <2>1, <2>2 DEF LogTurns
<1>7. LogEnds' /\ LogOrder'
  BY <1>1, <1>2, <1>3 DEF LogEnds, LogOrder
<1>8. Cardinality(Skipped') <= overflowed'
  <2>1. LastSent' = LastSent /\ Skipped' = Skipped
    BY <1>1 DEF LastSent, Skipped, Told
  <2>2. CASE socket = "changing"
    BY <1>1, <1>2, <1>4, <2>1, <2>2 DEF LogCount
  <2>3. CASE socket = "connecting"
    <3>1. LastSent = 0
      BY <1>2, <2>3, LastIsGreatest DEF LogTurns
    <3>2. Skipped = {}
      BY <1>2, <3>1 DEF Skipped, Told, LogTypes
    <3> QED  BY <1>1, <1>2, <2>1, <3>2, FS_EmptySet DEF LogTypes
  <2> QED  BY <1>1, <2>2, <2>3
<1>9. LogCount'
  BY <1>1, <1>8 DEF LogCount, NoLineMissed
<1> QED  BY <1>5, <1>6, <1>7, <1>9 DEF LogInv

LEMMA ChangeKeeps ==
  ASSUME LogInv, ChangeStream PROVE LogInv'
<1>1. /\ socket = "top" /\ ~known /\ socket' = "changing" /\ known' = TRUE
      /\ queueId' = queueId /\ queue' = <<>>
      /\ UNCHANGED <<published, doneAt, foreign, posting, posted, overflowed, evicted, shown>>
  BY DEF ChangeStream, runVars
<1>2. LogTypes /\ LogTurns /\ LogEnds /\ LogOrder /\ LogCount
  BY DEF LogInv
<1>3. queue' \in Seq(Nat) /\ Len(queue') = 0 /\ DOMAIN queue' = {} /\ QueueSize >= 0
  BY <1>1, LogAssumption
<1>4. queueId = 1
  BY <1>1, <1>2 DEF LogTurns, LogTypes
<1>5. LogTypes'
  BY <1>1, <1>2, <1>3, <1>4 DEF LogTypes
<1>6. LogTurns'
  BY <1>1, <1>2, <1>4 DEF LogTurns
<1>7. LogEnds' /\ LogOrder'
  BY <1>1, <1>2, <1>3 DEF LogEnds, LogOrder
<1>8. Cardinality(Skipped') <= overflowed'
  <2>1. LastSent' = LastSent /\ Skipped' = Skipped
    BY <1>1 DEF LastSent, Skipped, Told
  <2>2. Skipped \subseteq Lost
    <3> SUFFICES ASSUME NEW i \in DOMAIN queue, queue[i] \notin foreign, queue[i] <= LastSent
                 PROVE  FALSE
      BY DEF Skipped, Lost, Told, ToSet
    <3>1. \A j \in DOMAIN shown : shown[j] < queue[i]
      BY <1>1, <1>2 DEF LogOrder
    <3>2. queue[i] \in Nat /\ queue[i] >= 1
      BY <1>2 DEF LogTypes
    <3>3. LastSent \in Nat /\ (LastSent = 0 \/ \E j \in DOMAIN shown : shown[j] = LastSent)
      BY <1>2, LastIsGreatest
    <3> QED  BY <3>1, <3>2, <3>3
  <2>3. Cardinality(Skipped) <= Cardinality(Lost) /\ Cardinality(Skipped) \in Nat
        /\ Cardinality(Lost) \in Nat
    BY <1>2, <2>2, LostTypes, FewerLost
  <2>4. Cardinality(Lost) <= overflowed
    BY <1>1, <1>2 DEF LogCount
  <2> QED  BY <1>1, <1>2, <2>1, <2>3, <2>4 DEF LogTypes
<1>9. LogCount'
  BY <1>1, <1>8 DEF LogCount, NoLineMissed
<1> QED  BY <1>5, <1>6, <1>7, <1>9 DEF LogInv

\* The reader goes on, and neither its queue nor what it has sent changes.
LEMMA MovesKeep ==
  ASSUME LogInv, Wait \/ SendEnds \/ EndsIdle PROVE LogInv'
<1>1. UNCHANGED <<published, doneAt, foreign, posting, posted, known, queueId, queue,
                  overflowed, evicted, shown>>
  BY DEF Wait, SendEnds, EndsIdle, runVars
<1>2. LogTypes /\ LogTurns /\ LogEnds /\ LogOrder /\ LogCount
  BY DEF LogInv
<1>3. Lost' = Lost
  BY <1>1 DEF Lost, Told
<1>4. LogTypes'
  BY <1>1, <1>2 DEF LogTypes, Wait, SendEnds, EndsIdle
<1>5. CASE Wait
  <2>1. socket = "top" /\ (known \/ published = 0) /\ socket' = "waiting"
    BY <1>5 DEF Wait
  <2>2. ~known => DOMAIN queue = {} /\ DOMAIN shown = {} /\ shown = <<>>
    BY <1>2, <2>1 DEF LogTypes
  <2>3. LogTurns' /\ LogEnds'
    BY <1>1, <1>2, <2>1, <2>2 DEF LogTurns, LogEnds
  <2>4. LogOrder'
    BY <1>1, <1>2, <2>1, <2>2 DEF LogOrder
  <2>5. LogCount'
    BY <1>1, <1>2, <1>3, <2>1 DEF LogCount, NoLineMissed
  <2> QED  BY <1>4, <2>3, <2>4, <2>5 DEF LogInv
<1>6. CASE SendEnds
  <2>1. socket = "sending" /\ socket' = "top"
    BY <1>6 DEF SendEnds
  <2>2. LogTurns' /\ LogEnds' /\ LogOrder'
    BY <1>1, <1>2, <2>1 DEF LogTurns, LogEnds, LogOrder
  <2>3. LogCount'
    BY <1>1, <1>2, <1>3, <2>1 DEF LogCount, NoLineMissed
  <2> QED  BY <1>4, <2>2, <2>3 DEF LogInv
<1>7. CASE EndsIdle
  <2>1. socket = "top" /\ socket' = "closed" /\ doneAt > 0 /\ queue = <<>> /\ known
    BY <1>7 DEF EndsIdle
  <2>2. LogTurns' /\ LogEnds' /\ LogOrder'
    BY <1>1, <1>2, <2>1 DEF LogTurns, LogEnds, LogOrder
  <2>3. Cardinality((1 .. (doneAt - 1)) \ (ToSet(shown) \cup foreign \cup evicted)) <= overflowed
    <3>1. ToSet(queue) = {}
      BY <2>1 DEF ToSet
    <3>2. (1 .. (doneAt - 1)) \ (ToSet(shown) \cup foreign \cup evicted) \subseteq Lost
      BY <1>2, <3>1 DEF Lost, Told, LogTypes
    <3>3. Cardinality((1 .. (doneAt - 1)) \ (ToSet(shown) \cup foreign \cup evicted)) <= Cardinality(Lost)
          /\ Cardinality((1 .. (doneAt - 1)) \ (ToSet(shown) \cup foreign \cup evicted)) \in Nat
          /\ Cardinality(Lost) \in Nat
      BY <1>2, <3>2, LostTypes, FewerLost
    <3>4. Cardinality(Lost) <= overflowed
      BY <1>2, <2>1 DEF LogCount
    <3> QED  BY <1>2, <3>3, <3>4 DEF LogTypes
  <2>4. LogCount'
    BY <1>1, <2>1, <2>3 DEF LogCount, NoLineMissed
  <2> QED  BY <1>4, <2>2, <2>4 DEF LogInv
<1> QED  BY <1>5, <1>6, <1>7

LEMMA DoneKeeps ==
  ASSUME LogInv, ReadDone PROVE LogInv'
<1>1. /\ socket = "waiting" /\ queue # <<>> /\ Head(queue) = doneAt /\ socket' = "closed"
      /\ queue' = Tail(queue) /\ shown' = Append(shown, doneAt)
      /\ UNCHANGED <<published, doneAt, foreign, posting, posted, known, queueId, overflowed, evicted>>
  BY DEF ReadDone, runVars
<1>2. LogTypes /\ LogTurns /\ LogEnds /\ LogOrder /\ LogCount
  BY DEF LogInv
<1>3. /\ queue' \in Seq(Nat) /\ Len(queue') <= QueueSize /\ 1 \in DOMAIN queue
      /\ \A i \in DOMAIN queue' : i + 1 \in DOMAIN queue /\ queue'[i] = queue[i + 1] /\ i \in Nat
      /\ \A i \in DOMAIN queue : i \in Nat /\ i >= 1 /\ queue[1] = doneAt
  <2>1. queue \in Seq(Nat) /\ Len(queue) <= QueueSize
    BY <1>2 DEF LogTypes
  <2> QED  BY <1>1, <2>1, LogAssumption
<1>4. doneAt \in 1 .. published
  BY <1>2, <1>3 DEF LogTypes
<1>5. /\ shown' \in Seq(Nat) /\ Len(shown) \in Nat /\ DOMAIN shown' = DOMAIN shown \cup {Len(shown) + 1}
      /\ \A i \in DOMAIN shown : shown'[i] = shown[i]
      /\ shown'[Len(shown) + 1] = doneAt /\ Len(shown) + 1 \notin DOMAIN shown
  <2>1. shown \in Seq(Nat) /\ doneAt \in Nat
    BY <1>2 DEF LogTypes
  <2> QED  BY <1>1, <2>1
<1>6. LogTypes'
  <2>1. \A i \in DOMAIN queue' : queue'[i] \in 1 .. published
    BY <1>2, <1>3 DEF LogTypes
  <2>2. \A i \in DOMAIN shown' : shown'[i] \in 1 .. published
    BY <1>2, <1>4, <1>5 DEF LogTypes
  <2> QED  BY <1>1, <1>2, <1>3, <1>5, <2>1, <2>2 DEF LogTypes
<1>7. LogTurns'
  <2>1. doneAt > 0
    BY <1>2, <1>4 DEF LogTypes
  <2>2. queueId # 0
    BY <1>1, <1>2 DEF LogTurns
  <2>3. ~known => queueId <= 1
    BY <1>2 DEF LogTurns
  <2> QED  BY <1>1, <2>1, <2>2, <2>3 DEF LogTurns
<1>8. LogEnds'
  <2>1. IsInjective(shown')
    <3>1. \A i \in DOMAIN shown : shown[i] # doneAt
      BY <1>1, <1>2 DEF LogEnds
    <3>2. \A i, j \in DOMAIN shown : shown[i] = shown[j] => i = j
      BY <1>2 DEF LogEnds, IsInjective
    <3> QED  BY <1>5, <3>1, <3>2 DEF IsInjective
  <2> QED  BY <1>1, <1>2, <2>1 DEF LogEnds
<1>9. LogOrder'
  <2>1. ASSUME NEW i \in DOMAIN queue', NEW j \in DOMAIN queue', i < j,
               queue'[i] \notin foreign, queue'[j] \notin foreign
        PROVE  queue'[i] < queue'[j]
    <3>1. i + 1 \in DOMAIN queue /\ j + 1 \in DOMAIN queue /\ i + 1 < j + 1
          /\ queue'[i] = queue[i + 1] /\ queue'[j] = queue[j + 1]
      BY <1>3, <2>1
    <3> QED  BY <1>2, <2>1, <3>1 DEF LogOrder
  <2> QED  BY <1>1, <2>1 DEF LogOrder
<1>10. Cardinality((1 .. (doneAt - 1)) \ (ToSet(shown') \cup foreign \cup evicted)) <= overflowed
  <2> DEFINE missed == (1 .. (doneAt - 1)) \ (ToSet(shown') \cup foreign \cup evicted)
  <2>1. ToSet(shown) \subseteq ToSet(shown')
    BY <1>5 DEF ToSet
  <2>2. \A e \in missed : e \notin ToSet(queue)
    <3> SUFFICES ASSUME NEW i \in DOMAIN queue, queue[i] \in missed PROVE FALSE
      BY DEF ToSet
    <3>1. queue[i] < doneAt /\ queue[i] \notin foreign
      BY <1>2 DEF LogTypes
    <3>2. doneAt \notin foreign /\ queue[1] = doneAt
      BY <1>2, <1>3 DEF LogEnds
    <3>3. i # 1
      BY <1>2, <3>1, <3>2 DEF LogTypes
    <3>4. 1 < i
      BY <1>3, <3>3
    <3>5. doneAt < queue[i]
      BY <1>2, <1>3, <3>1, <3>2, <3>4 DEF LogOrder
    <3> QED  BY <1>2, <3>1, <3>5 DEF LogTypes
  <2>3. missed \subseteq Lost
    BY <1>2, <2>1, <2>2 DEF Lost, Told, LogTypes
  <2> HIDE DEF missed
  <2>4. Cardinality(missed) <= Cardinality(Lost) /\ Cardinality(missed) \in Nat
        /\ Cardinality(Lost) \in Nat
    BY <1>2, <2>3, LostTypes, FewerLost
  <2>5. Cardinality(Lost) <= overflowed
    BY <1>1, <1>2 DEF LogCount
  <2>6. Cardinality(missed) <= overflowed
    BY <1>2, <2>4, <2>5 DEF LogTypes
  <2> QED  BY <2>6 DEF missed
<1>11. LogCount'
  BY <1>1, <1>10 DEF LogCount, NoLineMissed
<1> QED  BY <1>6, <1>7, <1>8, <1>9, <1>11 DEF LogInv

\* The replay begins after what was sent, or after what the history has lost.
LEMMA BeforeIs ==
  ASSUME LogTypes
  PROVE  Before \in Nat /\ LastSent <= Before /\ Before <= published
<1>1. LastSent \in Nat /\ LastSent <= published /\ published - StreamHistory \in Int
      /\ published - StreamHistory <= published
  BY LastIsGreatest, LogAssumption DEF LogTypes
<1>2. \E x \in {LastSent, published - StreamHistory} :
        \A y \in {LastSent, published - StreamHistory} : x >= y
  BY <1>1
<1>3. Before = CHOOSE x \in {LastSent, published - StreamHistory} :
                 \A y \in {LastSent, published - StreamHistory} : x >= y
  BY DEF Before, Max
<1>4. Before \in {LastSent, published - StreamHistory} /\ Before >= LastSent
  BY <1>2, <1>3
<1> QED  BY <1>1, <1>4

LEMMA ReplayKeeps ==
  ASSUME LogInv, Replay PROVE LogInv'
<1> DEFINE backlog == IF known THEN Replayed ELSE <<>>
<1>1. /\ socket = "replaying" /\ socket' = "top" /\ queue' = Latest(queue \o backlog)
      /\ overflowed' = overflowed + IF Len(queue) + Len(backlog) > QueueSize
                                    THEN (Len(queue) + Len(backlog)) - QueueSize ELSE 0
      /\ evicted' = IF known THEN evicted \cup (LastSent + 1 .. Before) ELSE evicted
      /\ UNCHANGED <<published, doneAt, foreign, posting, posted, known, queueId, shown>>
  BY DEF Replay, runVars
<1>2. LogTypes /\ LogTurns /\ LogEnds /\ LogOrder /\ LogCount
  BY DEF LogInv
<1>3. queue = <<>> /\ (~known => published = 0)
  BY <1>1, <1>2 DEF LogTurns
<1>b. PICK b \in Nat : b = Before /\ LastSent <= b /\ b <= published
  BY <1>2, BeforeIs
<1>c. published \in Nat
  BY <1>2 DEF LogTypes
<1>4. PICK m \in Nat : m = IF known THEN published - b ELSE 0
  <2>1. published - b \in Nat
    BY <1>b, <1>c
  <2> QED  BY <2>1
<1>5. /\ backlog \in Seq(Nat) /\ Len(backlog) = m /\ DOMAIN backlog = 1 .. m
      /\ \A i \in 1 .. m : backlog[i] = b + i
  <2>2. CASE known
    <3>1. backlog = [i \in 1 .. m |-> b + i]
      BY <1>b, <1>4, <2>2 DEF Replayed
    <3> QED  BY <3>1
  <2>3. CASE ~known
    BY <1>4, <2>3
  <2> QED  BY <2>2, <2>3
<1> HIDE DEF backlog
<1>6. queue \o backlog = backlog
  BY <1>3, <1>5
<1>7. PICK d \in Nat : d = Excess(backlog)
  BY <1>5, LatestIs
<1>8. /\ queue' \in Seq(Nat) /\ Len(queue') = m - d /\ Len(queue') <= QueueSize
      /\ DOMAIN queue' = 1 .. (m - d) /\ d <= m /\ overflowed' = overflowed + d
      /\ \A i \in 1 .. (m - d) : queue'[i] = b + (i + d)
  <2>1. /\ queue' \in Seq(Nat) /\ Len(queue') = m - d /\ Len(queue') <= QueueSize
        /\ \A i \in 1 .. (m - d) : i + d \in 1 .. m /\ queue'[i] = backlog[i + d]
    BY <1>1, <1>5, <1>6, <1>7, LatestIs, ZenonT(40)
  <2>2. overflowed' = overflowed + d /\ d <= m
    BY <1>1, <1>3, <1>5, <1>7, LogAssumption DEF Excess
  <2>3. DOMAIN queue' = 1 .. (m - d)
    BY <2>1
  <2> QED  BY <1>5, <2>1, <2>2, <2>3
<1>9. LastSent \in Nat /\ published \in Nat /\ (known => b + m = published)
      /\ (~known => m = 0)
  BY <1>2, <1>b, <1>4, LastIsGreatest DEF LogTypes
<1>10. LogTypes'
  <2>1. \A i \in DOMAIN queue' : queue'[i] \in 1 .. published
    BY <1>8, <1>9
  <2>2. evicted' \subseteq 1 .. published
    BY <1>1, <1>2, <1>b, <1>9 DEF LogTypes
  <2> QED  BY <1>1, <1>2, <1>8, <2>1, <2>2 DEF LogTypes
<1>11. LogTurns'
  BY <1>1, <1>2 DEF LogTurns
<1>12. LogEnds'
  BY <1>1, <1>2 DEF LogEnds
<1>13. LogOrder'
  <2>1. \A i, j \in DOMAIN queue' : i < j => queue'[i] < queue'[j]
    BY <1>8, <1>9
  <2>2. ~known => DOMAIN queue' = {}
    BY <1>8, <1>9
  <2> QED  BY <1>1, <2>1, <2>2 DEF LogOrder
<1>14. Cardinality(Lost') <= overflowed'
  <2>1. CASE ~known
    <3>1. Lost' = {}
      BY <1>1, <1>3, <2>1 DEF Lost, Told
    <3> QED  BY <1>2, <1>8, <3>1, FS_EmptySet DEF LogTypes
  <2>2. CASE known
    <3>1. Cardinality(Skipped) <= overflowed /\ IsFiniteSet(Skipped) /\ Cardinality(Skipped) \in Nat
      <4>1. Cardinality(Skipped) <= overflowed
        BY <1>1, <1>2, <2>2 DEF LogCount
      <4> QED  BY <1>2, <4>1, LostTypes, FewerLost
    <3> DEFINE cut == (b + 1) .. (b + d)
    <3>2. IsFiniteSet(cut) /\ Cardinality(cut) = d
      <4>1. b + 1 \in Int /\ b + d \in Int
        BY <1>9
      <4>2. IsFiniteSet(cut) /\ Cardinality(cut) = IF b + 1 > b + d THEN 0
                                             ELSE ((b + d) - (b + 1)) + 1
        BY <4>1, FS_Interval
      <4> QED  BY <1>9, <4>2
    <3>3. Lost' \subseteq Skipped \cup cut
      <4> SUFFICES ASSUME NEW e \in Lost', e \notin Skipped, e \notin cut PROVE FALSE
        OBVIOUS
      <4>1. e \in Told /\ e \in 1 .. published /\ e \notin ToSet(shown) /\ e \notin ToSet(queue')
            /\ e \notin evicted'
        BY <1>1, <2>2 DEF Lost, Told
      <4>2. e > LastSent
        BY <1>9, <4>1 DEF Skipped
      <4>6. e > b
        BY <1>1, <1>b, <1>9, <2>2, <4>1, <4>2
      <4>3. e > b + d
        BY <1>9, <4>1, <4>6
      <4>4. (e - b) - d \in DOMAIN queue'
        BY <1>8, <1>9, <2>2, <4>1, <4>3
      <4>5. queue'[(e - b) - d] = e
        BY <1>8, <1>9, <4>1, <4>4
      <4> QED  BY <4>1, <4>4, <4>5 DEF ToSet
    <3> HIDE DEF cut
    <3>4. /\ IsFiniteSet(Skipped \cup cut) /\ Cardinality(Skipped \cup cut) \in Nat
          /\ Cardinality(Skipped \cup cut) <= Cardinality(Skipped) + d
      <4>1. IsFiniteSet(Skipped \cup cut)
            /\ Cardinality(Skipped \cup cut)
                 = Cardinality(Skipped) + Cardinality(cut) - Cardinality(Skipped \cap cut)
        BY <3>1, <3>2, FS_Union
      <4>2. Cardinality(Skipped \cap cut) \in Nat
        BY <3>1, FS_Subset, FS_CardinalityType
      <4> QED  BY <3>1, <3>2, <4>1, <4>2, FS_CardinalityType
    <3>5. Cardinality(Lost') <= Cardinality(Skipped \cup cut) /\ Cardinality(Lost') \in Nat
      BY <3>3, <3>4, FS_Subset, FS_CardinalityType
    <3> QED  BY <1>2, <1>8, <3>1, <3>4, <3>5 DEF LogTypes
  <2> QED  BY <2>1, <2>2
<1>15. LogCount'
  BY <1>1, <1>14 DEF LogCount, NoLineMissed
<1> QED  BY <1>10, <1>11, <1>12, <1>13, <1>15 DEF LogInv

\* The n lines before "done" were taken, "done" goes behind what came after it.
TakenLines(n) == SubSeq(queue, 1, n)
LeftLines(n) == SubSeq(queue, n + 2, Len(queue)) \o <<doneAt>>
LEMMA TakenAre ==
  ASSUME LogInv, ReadLines
  PROVE  \E n \in Nat :
           /\ n <= Len(queue)
           /\ \A i \in 1 .. n : queue[i] # doneAt
           /\ shown' = Forwarded(shown, TakenLines(n))
           /\ \/ n = Len(queue) /\ queue' = <<>>
              \/ n < Len(queue) /\ queue[n + 1] = doneAt /\ queue' = LeftLines(n)
<1> DEFINE ends == {i \in DOMAIN queue : queue[i] = doneAt}
<1>1. queue \in Seq(Nat) /\ Len(queue) \in Nat /\ DOMAIN queue = 1 .. Len(queue)
  BY DEF LogInv, LogTypes
<1>2. PICK n : n = IF ends = {} THEN Len(queue) ELSE Min(ends) - 1
  OBVIOUS
<1>3. /\ queue' = IF n = Len(queue) THEN <<>> ELSE LeftLines(n)
      /\ shown' = Forwarded(shown, TakenLines(n))
  BY <1>2 DEF ReadLines, TakenLines, LeftLines
<1>4. CASE ends = {}
  <2>1. n = Len(queue) /\ queue' = <<>>
    BY <1>2, <1>3, <1>4
  <2>2. \A i \in 1 .. n : queue[i] # doneAt
    BY <1>1, <1>4, <2>1
  <2>3. n \in Nat /\ n <= Len(queue)
    BY <1>1, <2>1
  <2> QED  BY <1>3, <2>1, <2>2, <2>3
<1>5. CASE ends # {}
  <2>1. Min(ends) \in ends /\ \A i \in ends : Min(ends) <= i
    <3>1. ends \in SUBSET Nat
      BY <1>1
    <3> HIDE DEF ends
    <3>2. \E i \in ends : \A j \in ends : i <= j
      BY <1>5, <3>1, LeastIndex
    <3> QED  BY <3>2 DEF Min
  <2>2. PICK k : k = Min(ends)
    OBVIOUS
  <2>3. k \in 1 .. Len(queue) /\ queue[k] = doneAt
    BY <1>1, <2>1, <2>2
  <2>4. n = k - 1
    BY <1>2, <1>5, <2>2
  <2>5. n \in Nat /\ n < Len(queue) /\ n + 1 = k
    BY <1>1, <2>3, <2>4
  <2>6. \A i \in 1 .. n : queue[i] # doneAt
    <3> SUFFICES ASSUME NEW i \in 1 .. n, queue[i] = doneAt PROVE FALSE
      OBVIOUS
    <3>1. i \in 1 .. Len(queue)
      BY <1>1, <2>5
    <3>2. i \in ends
      BY <1>1, <3>1
    <3>3. k <= i
      BY <2>1, <2>2, <3>2
    <3> QED  BY <2>5, <3>3
  <2>7. n <= Len(queue) /\ n # Len(queue)
    <3>1. Len(queue) \in Nat
      BY <1>1
    <3> HIDE DEF ends
    <3> QED  BY <2>5, <3>1
  <2>8. queue[n + 1] = doneAt
    <3>1. n + 1 = k /\ queue[k] = doneAt
      BY <2>3, <2>5
    <3> HIDE DEF ends
    <3> QED  BY <3>1
  <2> QED  BY <1>3, <2>5, <2>6, <2>7, <2>8
<1> QED  BY <1>4, <1>5

LEMMA LeftAre ==
  ASSUME queue \in Seq(Nat), doneAt \in Nat, NEW n \in Nat, n < Len(queue)
  PROVE  /\ LeftLines(n) \in Seq(Nat) /\ Len(LeftLines(n)) = Len(queue) - n
         /\ DOMAIN LeftLines(n) = 1 .. (Len(queue) - n)
         /\ LeftLines(n)[Len(queue) - n] = doneAt
         /\ \A i \in 1 .. ((Len(queue) - n) - 1) : LeftLines(n)[i] = queue[(i + n) + 1]
<1> DEFINE t == SubSeq(queue, n + 2, Len(queue))
           o == <<doneAt>>
<1>1. PICK k \in Nat : k + 1 = Len(queue) - n /\ k = (Len(queue) - n) - 1
  <2>1. Len(queue) \in Nat
    OBVIOUS
  <2>2. (Len(queue) - n) - 1 \in Nat /\ ((Len(queue) - n) - 1) + 1 = Len(queue) - n
    BY <2>1
  <2> QED  BY <2>2
<1>2. t \in Seq(Nat) /\ Len(t) = k /\ \A i \in 1 .. k : t[i] = queue[(i + n) + 1]
  <2>1. /\ t \in Seq(Nat) /\ Len(t) = (Len(queue) - n) - 1
        /\ \A i \in 1 .. ((Len(queue) - n) - 1) : t[i] = queue[(i + n) + 1]
    OBVIOUS
  <2> QED  BY <1>1, <2>1
<1>3. o \in Seq(Nat) /\ Len(o) = 1 /\ o[1] = doneAt
  OBVIOUS
<1>4. LeftLines(n) = t \o o
  BY DEF LeftLines
<1> HIDE DEF t, o
<1>5. /\ t \o o \in Seq(Nat) /\ Len(t \o o) = k + 1 /\ DOMAIN (t \o o) = 1 .. (k + 1)
      /\ \A i \in 1 .. k : (t \o o)[i] = t[i]
  <2>1. /\ t \o o \in Seq(Nat) /\ Len(t \o o) = Len(t) + Len(o)
        /\ DOMAIN (t \o o) = 1 .. (Len(t) + Len(o))
        /\ \A i \in 1 .. Len(t) : (t \o o)[i] = t[i]
    BY <1>2, <1>3, Concat
  <2> QED  BY <1>2, <1>3, <2>1
<1>6. (t \o o)[k + 1] = doneAt
  <2>1. 1 \in 1 .. Len(o)
    BY <1>3
  <2>2. (t \o o)[1 + Len(t)] = o[1]
    BY <1>2, <1>3, <2>1, Concat, ZenonT(40)
  <2>3. 1 + Len(t) = k + 1
    BY <1>2
  <2> QED  BY <1>3, <2>2, <2>3
<1> QED  BY <1>1, <1>2, <1>4, <1>5, <1>6, ZenonT(40)

LEMMA LinesKeep ==
  ASSUME LogInv, ReadLines PROVE LogInv'
<1>1. /\ socket = "waiting" /\ queue # <<>> /\ Head(queue) # doneAt
      /\ socket' \in {"top", "sending"}
      /\ UNCHANGED <<published, doneAt, foreign, posting, posted, known, queueId, overflowed, evicted>>
  BY DEF ReadLines, runVars
<1>2. LogTypes /\ LogTurns /\ LogEnds /\ LogOrder /\ LogCount
  BY DEF LogInv
<1>3. /\ queue \in Seq(Nat) /\ Len(queue) \in Nat /\ DOMAIN queue = 1 .. Len(queue)
      /\ Len(queue) <= QueueSize /\ shown \in Seq(Nat) /\ doneAt \in Nat
      /\ \A i \in 1 .. Len(queue) : queue[i] \in 1 .. published
      /\ \A i \in DOMAIN shown : shown[i] \in 1 .. published
  BY <1>2 DEF LogTypes
<1>4. PICK n \in Nat :
           /\ n <= Len(queue)
           /\ \A i \in 1 .. n : queue[i] # doneAt
           /\ shown' = Forwarded(shown, TakenLines(n))
           /\ \/ n = Len(queue) /\ queue' = <<>>
              \/ n < Len(queue) /\ queue[n + 1] = doneAt /\ queue' = LeftLines(n)
  BY TakenAre, SMTT(30)
<1>5. /\ shown' \in Seq(Nat) /\ ToSet(shown') = ToSet(shown) \cup {queue[i] : i \in 1 .. n}
      /\ IsInjective(shown) => IsInjective(shown')
  <2>1. TakenLines(n) \in Seq(Nat) /\ ToSet(TakenLines(n)) = {queue[i] : i \in 1 .. n}
    BY <1>3, <1>4, Prefix DEF TakenLines
  <2> QED  BY <1>3, <1>4, <2>1, ForwardedIs, ZenonT(40)
<1>6. PICK m \in Nat : m = Len(queue) - n
  <2>1. Len(queue) \in Nat /\ n <= Len(queue)
    BY <1>3, <1>4
  <2> QED  BY <2>1, SMTT(30)
\* Each entry of the queue that is left was behind those that were taken.
<1>7. /\ queue' \in Seq(Nat) /\ Len(queue') <= QueueSize /\ DOMAIN queue' = 1 .. m
      /\ \A i \in 1 .. m : \/ i = m /\ queue'[i] = doneAt /\ queue[n + 1] = doneAt
                           \/ i < m /\ queue'[i] = queue[(i + n) + 1]
      /\ m > 0 => queue[n + 1] = doneAt /\ queue'[m] = doneAt
  <2>1. CASE n = Len(queue)
    <3>1. queue' = <<>> /\ m = 0
      BY <1>3, <1>4, <1>6, <2>1
    <3> QED  BY <3>1, LogAssumption
  <2>2. CASE n # Len(queue)
    <3>1. n < Len(queue) /\ queue[n + 1] = doneAt /\ queue' = LeftLines(n)
      BY <1>4, <2>2
    <3>3. /\ queue' \in Seq(Nat) /\ Len(queue') = Len(queue) - n
          /\ DOMAIN queue' = 1 .. (Len(queue) - n) /\ queue'[Len(queue) - n] = doneAt
          /\ \A i \in 1 .. ((Len(queue) - n) - 1) : queue'[i] = queue[(i + n) + 1]
      BY <1>3, <3>1, LeftAre
    <3>4. \A i \in 1 .. m : i = m \/ (i < m /\ i \in 1 .. (m - 1))
      OBVIOUS
    <3>5. m <= QueueSize
      BY <1>3, <1>6, LogAssumption
    <3> QED  BY <1>6, <3>1, <3>3, <3>4, <3>5, SMTT(30)
  <2> QED  BY <2>1, <2>2
<1>8. \A i \in 1 .. m : \E k \in 1 .. Len(queue) : k > n /\ queue'[i] = queue[k]
  <2> SUFFICES ASSUME NEW i \in 1 .. m
               PROVE  \E k \in 1 .. Len(queue) : k > n /\ queue'[i] = queue[k]
    OBVIOUS
  <2>1. n + 1 \in 1 .. Len(queue) /\ n + 1 > n
    BY <1>3, <1>6
  <2>2. CASE i = m
    BY <1>7, <2>1, <2>2
  <2>3. CASE i < m
    <3>1. (i + n) + 1 \in 1 .. Len(queue) /\ (i + n) + 1 > n
      BY <1>3, <1>6, <2>3
    <3>2. i # m
      BY <2>3
    <3>3. queue'[i] = queue[(i + n) + 1]
      BY <1>7, <3>2
    <3> QED  BY <3>1, <3>3
  <2> QED  BY <2>2, <2>3
<1>9. \A j \in DOMAIN shown' : (\E k \in DOMAIN shown : shown'[j] = shown[k])
                               \/ \E k \in 1 .. n : shown'[j] = queue[k]
  <2>1. \A j \in DOMAIN shown' : shown'[j] \in ToSet(shown')
    BY DEF ToSet
  <2> QED  BY <1>5, <2>1 DEF ToSet
<1>10. LogTypes'
  <2>1. \A i \in DOMAIN queue' : queue'[i] \in 1 .. published
    BY <1>3, <1>7, <1>8
  <2>2. \A j \in DOMAIN shown' : shown'[j] \in 1 .. published
    <3>1. \A k \in 1 .. n : queue[k] \in 1 .. published
      <4>1. \A k \in 1 .. n : k \in 1 .. Len(queue)
        <5>1. n <= Len(queue) /\ Len(queue) \in Nat
          BY <1>3, <1>4
        <5> QED  BY <5>1, SMTT(30)
      <4> QED  BY <1>3, <4>1
    <3> QED  BY <1>3, <1>9, <3>1
  <2> QED  BY <1>1, <1>2, <1>5, <1>7, <2>1, <2>2 DEF LogTypes
<1>11. LogTurns'
  BY <1>1, <1>2 DEF LogTurns
<1>12. LogEnds'
  <2>1. \A j \in DOMAIN shown' : shown'[j] # doneAt
    BY <1>1, <1>2, <1>4, <1>9 DEF LogEnds
  <2> QED  BY <1>1, <1>2, <1>5, <2>1 DEF LogEnds
<1>13. LogOrder'
  <2>1. ASSUME NEW i \in 1 .. m, NEW j \in 1 .. m, i < j,
               queue'[i] \notin foreign, queue'[j] \notin foreign
        PROVE  queue'[i] < queue'[j]
    <3>1. /\ i < m /\ queue'[i] = queue[(i + n) + 1] /\ (i + n) + 1 \in 1 .. Len(queue)
          /\ n + 1 \in 1 .. Len(queue) /\ n + 1 < (i + n) + 1
      <4>1. i < m /\ i # m
        BY <2>1
      <4>2. (i + n) + 1 \in 1 .. Len(queue) /\ n + 1 \in 1 .. Len(queue) /\ n + 1 < (i + n) + 1
        <5>1. Len(queue) \in Nat
          BY <1>3
        <5> QED  BY <1>6, <4>1, <5>1
      <4> QED  BY <1>7, <4>1, <4>2
    <3>2. CASE j = m
      <4>1. queue[n + 1] = doneAt /\ doneAt \notin foreign
        BY <1>2, <1>7, <2>1, <3>2 DEF LogEnds
      <4>2. doneAt < queue'[i]
        BY <1>2, <1>3, <2>1, <3>1, <4>1 DEF LogOrder
      <4>3. queue'[i] \in 1 .. published /\ doneAt > 0
        BY <1>3, <3>1, <4>1
      <4> QED  BY <1>2, <2>1, <4>2, <4>3 DEF LogEnds
    <3>3. CASE j # m
      <4>1. /\ queue'[j] = queue[(j + n) + 1] /\ (j + n) + 1 \in 1 .. Len(queue)
            /\ (i + n) + 1 < (j + n) + 1
        <5>1. Len(queue) \in Nat
          BY <1>3
        <5>2. j < m
          BY <3>3
        <5>3. (j + n) + 1 \in 1 .. Len(queue) /\ (i + n) + 1 < (j + n) + 1
          BY <1>6, <2>1, <5>1, <5>2
        <5> QED  BY <1>7, <3>3, <5>3
      <4> QED  BY <1>2, <1>3, <2>1, <3>1, <4>1 DEF LogOrder
    <3> QED  BY <3>2, <3>3
  <2>2. ASSUME ~known, NEW i \in 1 .. m, NEW j \in DOMAIN shown', queue'[i] \notin foreign
        PROVE  shown'[j] < queue'[i]
    <3>1. DOMAIN shown = {}
      BY <1>1, <1>2, <2>2 DEF LogTurns
    <3>2. PICK k \in 1 .. n : shown'[j] = queue[k]
      BY <1>9, <3>1
    <3>3. PICK l \in 1 .. Len(queue) : l > n /\ queue'[i] = queue[l]
      BY <1>8
    <3>4. k \in 1 .. Len(queue) /\ k < l
      <4>1. n <= Len(queue) /\ Len(queue) \in Nat
        BY <1>3, <1>4
      <4> QED  BY <3>3, <4>1, SMTT(30)
    <3> QED  BY <1>1, <1>2, <1>3, <2>2, <3>2, <3>3, <3>4 DEF LogOrder
  <2> QED  BY <1>1, <1>7, <2>1, <2>2 DEF LogOrder
<1>14. Cardinality(Lost') <= overflowed
  <2>1. \A k \in 1 .. Len(queue) : queue[k] \in ToSet(shown') \cup ToSet(queue')
    <3> SUFFICES ASSUME NEW k \in 1 .. Len(queue), k > n PROVE queue[k] \in ToSet(queue')
      <4>1. \A k \in 1 .. Len(queue) : k > n \/ k \in 1 .. n
        BY <1>3
      <4> QED  BY <1>5, <4>1
    <3>1. CASE k = n + 1
      <4>1. m > 0 /\ m \in 1 .. m
        BY <1>3, <1>6, <3>1
      <4>2. queue'[m] = queue[k] /\ m \in DOMAIN queue'
        BY <1>7, <3>1, <4>1
      <4> QED  BY <4>2 DEF ToSet
    <3>2. CASE k # n + 1
      <4>1. (k - n) - 1 \in 1 .. m /\ (k - n) - 1 < m /\ (((k - n) - 1) + n) + 1 = k
        BY <1>3, <1>6, <3>2
      <4>2. queue'[(k - n) - 1] = queue[k] /\ (k - n) - 1 \in DOMAIN queue'
        BY <1>7, <4>1
      <4> QED  BY <4>2 DEF ToSet
    <3> QED  BY <3>1, <3>2
  <2>2. Lost' \subseteq Lost
    <3> SUFFICES ASSUME NEW e \in Lost', e \notin Lost PROVE FALSE
      OBVIOUS
    <3>1. e \in Told /\ e \notin ToSet(shown') /\ e \notin ToSet(queue')
      BY <1>1 DEF Lost, Told
    <3>2. e \in ToSet(queue)
      BY <1>5, <3>1 DEF Lost
    <3>3. PICK k \in 1 .. Len(queue) : queue[k] = e
      BY <1>3, <3>2 DEF ToSet
    <3> QED  BY <2>1, <3>1, <3>3
  <2>3. Cardinality(Lost') <= Cardinality(Lost) /\ Cardinality(Lost') \in Nat
        /\ Cardinality(Lost) \in Nat
    BY <1>2, <2>2, LostTypes, FewerLost
  <2>4. Cardinality(Lost) <= overflowed
    BY <1>1, <1>2 DEF LogCount
  <2> QED  BY <1>2, <2>3, <2>4 DEF LogTypes
<1>15. LogCount'
  BY <1>1, <1>14 DEF LogCount, NoLineMissed
<1> QED  BY <1>10, <1>11, <1>12, <1>13, <1>15 DEF LogInv

LEMMA LogInvStep == LogInv /\ [LogNext]_logVars => LogInv'
<1> SUFFICES ASSUME LogInv, [LogNext]_logVars PROVE LogInv'
  OBVIOUS
<1>1. CASE UNCHANGED logVars
  BY <1>1 DEF logVars, LogInv, LogTypes, LogTurns, LogEnds, LogOrder, LogCount,
              NoLineMissed, Lost, Skipped, Told, LastSent
<1> QED
  BY <1>1, PublishKeeps, StoreKeeps, PostKeeps, PostedKeeps, ListenKeeps, ReplayKeeps,
     ChangeKeeps, MovesKeep, LinesKeep, DoneKeeps DEF LogNext

\* The numbers, the queue and what was shown have their types, for any size of the queue
\* and any number of events.
THEOREM LogTyped == LogSpec => []LogTypeOK
<1>1. ASSUME LogInv PROVE LogTypeOK
  <2>1. LogTypes
    BY <1>1 DEF LogInv
  <2>2. published \in 0 .. LogLines /\ doneAt \in 0 .. published
    BY <2>1, LogAssumption DEF LogTypes
  <2>3. ToSet(queue) \cup ToSet(shown) \subseteq 1 .. published
    BY <2>1 DEF LogTypes, ToSet
  <2> QED  BY <2>1, <2>2, <2>3 DEF LogTypes, LogTypeOK
<1>2. LogInv => LogTypeOK
  BY <1>1
<1> QED  BY <1>2, LogInvInit, LogInvStep, PTL DEF LogSpec

\* No line is sent to a browser twice, and one that "done" has closed was sent all lines
\* of the run but those its full queue has counted and those the bounded history had
\* lost before it subscribed (_is_duplicate_and_track, _deliver_to_queue, subscribe):
\* for any size of the queue and of the history and any number of events.
THEOREM ReadersSeeAll == LogSpec => []ReaderSeesAll
<1>1. LogInv => ReaderSeesAll
  BY DEF LogInv, LogEnds, LogCount, ReaderSeesAll, EachLineOnce
<1> QED  BY <1>1, LogInvInit, LogInvStep, PTL DEF LogSpec
=============================================================================
