--------------------------- MODULE FlowOperation ---------------------------
(***************************************************************************)
(* The external operations of one chat run by PulseFlow: the whole-flow    *)
(* retry of the signer (signer_runner.py), the retry loop of a node in the *)
(* engine (flow_engine.py), the adapter with its single retry              *)
(* (flow_adapter.py) and the operation receipts (operation_receipts.py).   *)
(* Three layers may call a node again; the receipt of a call and the mark  *)
(* on the runner's context are what keeps them from sending twice.         *)
(*                                                                         *)
(* The graph is the chain 1..FlowNodes, with the routing of a failure of   *)
(* the nodes of Fallback to the next node.  What a node asks of Telegram   *)
(* is one request, whose answer may come late or never.                    *)
(***************************************************************************)
EXTENDS Naturals

CONSTANTS FlowNodes,       \* the number of action nodes in the chain
          FlowTries,       \* task_retry_count: whole-flow attempts
          NodeTries,       \* RetryPolicy.max_attempts of a node
          FailureLimit,    \* graph.consecutive_failure_limit
          Fallback,        \* nodes with an on_failure_node_id (the next node)
          Tolerant,        \* nodes with continue_on_error
          MarkedLate,      \* nodes whose operation is marked after its answer
          Nested           \* nodes wrapped in a SubflowNode of their own

ASSUME FlowOperationAssumption ==
    /\ {FlowNodes, FlowTries, NodeTries, FailureLimit} \subseteq Nat \ {0}
    /\ Fallback \cup Tolerant \cup MarkedLate \cup Nested \subseteq 1..FlowNodes

VARIABLES flowTry, flowAt, nodeTry, failures, callStep, receipt, sideEffect,
          savedEffect, retried, unknownReceipt, nonRetryable, business,
          sent, fate, timedOut
flowVars == <<flowTry, flowAt, nodeTry, failures, callStep, receipt, sideEffect,
              savedEffect, retried, unknownReceipt, nonRetryable, business,
              sent, fate, timedOut>>

(* (seeded fault) the receipt left out of the test                          *)
SideEffectByMark == sideEffect

Complete == FlowNodes + 1          \* TERMINAL_COMPLETE_ID
Failed == FlowNodes + 2            \* TERMINAL_FAIL_ID

(***************************************************************************)
(* sent and fate are what Telegram saw: the requests of a node, and        *)
(* whether the last one was answered to the program.                       *)
(***************************************************************************)
FlowInit ==
    /\ flowTry = 1 /\ flowAt = 1 /\ nodeTry = 0 /\ failures = 0
    /\ callStep = "engine" /\ receipt = "none"
    /\ sideEffect = FALSE /\ savedEffect = FALSE /\ retried = FALSE
    /\ unknownReceipt = FALSE /\ nonRetryable = FALSE
    /\ business = "none"
    /\ sent = [n \in 1..FlowNodes |-> 0]
    /\ fate = [n \in 1..FlowNodes |-> "none"]
    /\ timedOut = [n \in 1..FlowNodes |-> FALSE]

InGraph == callStep = "engine" /\ flowAt \in 1..FlowNodes
Attempted == receipt # "not_started"

(***************************************************************************)
(* The engine reads the outcome of a node.  A non-retryable error ends the *)
(* flow at once; the SubflowNode around a nested node only reports FAILED. *)
(***************************************************************************)
EngineTakes(ending) ==
    LET failing == ending \in {"failed", "controlled"}
        stops == ending = "controlled" /\ flowAt \notin Nested
    IN /\ nodeTry' = 0
       /\ failures' = IF failing THEN failures + 1
                      ELSE IF ending = "success" THEN 0 ELSE failures
       /\ nonRetryable' = (nonRetryable \/ stops)
       /\ flowAt' = IF ~failing THEN flowAt + 1
                    ELSE IF \/ stops
                            \/ failures + 1 >= FailureLimit
                            \/ flowAt \notin Fallback
                         THEN Failed ELSE flowAt + 1

(* The node's guard (skip_if, run_if, skip_if_matched) leaves it out. *)
SkipNode ==
    /\ InGraph /\ nodeTry = 0
    /\ EngineTakes("skipped")
    /\ UNCHANGED <<flowTry, callStep, receipt, sideEffect, savedEffect, retried,
                   unknownReceipt, business, sent, fate, timedOut>>

(***************************************************************************)
(* TelegramNodeExecutor.__call__: a new receipt; the mark of the runner's  *)
(* context is saved and cleared for the time of the call.                  *)
(***************************************************************************)
BeginCall ==
    /\ InGraph /\ nodeTry < NodeTries
    /\ nodeTry' = nodeTry + 1
    /\ callStep' = "calling"
    /\ receipt' = "not_started"
    /\ savedEffect' = sideEffect
    /\ sideEffect' = FALSE
    /\ retried' = FALSE
    /\ UNCHANGED <<flowTry, flowAt, failures, unknownReceipt, nonRetryable,
                   business, sent, fate, timedOut>>

(* send_message, send_dice, a plugin's operation: the receipt is marked     *)
(* before the request; a click on a plain button is marked after it.        *)
SendRequest ==
    /\ callStep = "calling"
    /\ callStep' = "requested"
    /\ receipt' = IF flowAt \in MarkedLate THEN receipt ELSE "attempted"
    /\ sent' = [sent EXCEPT ![flowAt] = @ + 1]
    /\ fate' = [fate EXCEPT ![flowAt] = "unknown"]
    /\ UNCHANGED <<flowTry, flowAt, nodeTry, failures, sideEffect, savedEffect,
                   retried, unknownReceipt, nonRetryable, business, timedOut>>

(* Telegram's answer reaches the program: pulseflow_side_effect_started. *)
RequestAnswered ==
    /\ callStep = "requested"
    /\ callStep' = "answered"
    /\ sideEffect' = TRUE
    /\ fate' = [fate EXCEPT ![flowAt] = "known"]
    /\ UNCHANGED <<flowTry, flowAt, nodeTry, failures, receipt, savedEffect,
                   retried, unknownReceipt, nonRetryable, business, sent, timedOut>>

(* The mark after a call: what was there before, and what the call did. *)
MarkAfter == savedEffect \/ sideEffect \/ Attempted

(* The call returns: an attempted operation counts as confirmed. *)
ReturnCall(ending) ==
    /\ callStep' = "engine"
    /\ receipt' = IF receipt = "attempted" THEN "confirmed" ELSE receipt
    /\ EngineTakes(ending)
    /\ UNCHANGED <<flowTry, savedEffect, retried, unknownReceipt, business,
                   sent, fate, timedOut>>

CallSucceeds ==
    /\ callStep \in {"calling", "answered"}
    /\ ReturnCall("success")
    /\ sideEffect' = TRUE

(* runner.wait_for returned False. *)
CallReturnsFalse ==
    /\ callStep \in {"calling", "answered"} /\ ~retried
    /\ ReturnCall(IF flowAt \in Tolerant THEN "skipped" ELSE "failed")
    /\ sideEffect' = MarkAfter

HasSideEffect == sideEffect \/ Attempted

(* A flood wait of a minute at most, or a transient error: called once more. *)
AdapterRetries ==
    /\ callStep \in {"calling", "requested", "answered"}
    /\ ~retried /\ ~HasSideEffect
    /\ retried' = TRUE
    /\ callStep' = "calling"
    /\ UNCHANGED <<flowTry, flowAt, nodeTry, failures, receipt, sideEffect,
                   savedEffect, unknownReceipt, nonRetryable, business, sent,
                   fate, timedOut>>

(* An error of a tolerant node is swallowed by the adapter: SKIPPED. *)
ErrorTolerated ==
    /\ callStep \in {"calling", "requested", "answered"}
    /\ flowAt \in Tolerant
    /\ ReturnCall("skipped")
    /\ sideEffect' = MarkAfter

(***************************************************************************)
(* The error leaves the adapter.  After an attempt it is an                *)
(* UnknownOperationResult, which no layer retries; before one, the engine  *)
(* tries the node again while its policy allows.                           *)
(***************************************************************************)
AfterError == IF HasSideEffect THEN "unknown" ELSE receipt

EngineRetries ==
    /\ nodeTry < NodeTries
    /\ UNCHANGED <<flowAt, nodeTry, failures, nonRetryable>>

ErrorRaised ==
    /\ callStep \in {"calling", "requested", "answered"}
    /\ flowAt \notin Tolerant
    /\ callStep' = "engine"
    /\ receipt' = AfterError
    /\ sideEffect' = MarkAfter
    /\ unknownReceipt' = (unknownReceipt \/ (HasSideEffect /\ flowAt \notin Nested))
    /\ \/ EngineTakes("controlled")   \* non-retryable, a semantic stop included
       \/ ~HasSideEffect /\ EngineRetries
       \/ ~HasSideEffect /\ EngineTakes("failed")   \* retry_on_exceptions, exhausted
    /\ UNCHANGED <<flowTry, savedEffect, retried, business, sent, fate, timedOut>>

(***************************************************************************)
(* asyncio.wait_for of the engine runs out and cancels the call: the       *)
(* adapter keeps the receipt as unknown, and the engine sees a             *)
(* TimeoutError, which it retries as any error; the side-effect attributes *)
(* it looks for on the flow context are set by nothing.                    *)
(***************************************************************************)
AfterCancel == IF HasSideEffect THEN "unknown" ELSE receipt

CallTimesOut ==
    /\ callStep \in {"calling", "requested", "answered"}
    /\ callStep' = "engine"
    /\ receipt' = AfterCancel
    /\ sideEffect' = MarkAfter
    /\ unknownReceipt' = \/ unknownReceipt
                         \/ AfterCancel = "unknown" /\ flowAt \notin Nested
    /\ timedOut' = [timedOut EXCEPT ![flowAt] = TRUE]
    /\ EngineRetries \/ EngineTakes("failed")
    /\ UNCHANGED <<flowTry, savedEffect, retried, business, sent, fate>>

(* matched_terminal with STOP_FLOW: the flow completes before its last node. *)
StopFlow ==
    /\ callStep = "answered"
    /\ callStep' = "engine"
    /\ receipt' = IF receipt = "attempted" THEN "confirmed" ELSE receipt
    /\ sideEffect' = TRUE
    /\ flowAt' = Complete /\ nodeTry' = 0 /\ failures' = 0
    /\ UNCHANGED <<flowTry, savedEffect, retried, unknownReceipt, nonRetryable,
                   business, sent, fate, timedOut>>

(* The end of PulseFlowEngine.run: the business status from the receipts. *)
FlowEnds ==
    /\ callStep = "engine" /\ flowAt \in {Complete, Failed}
    /\ callStep' = "ended"
    /\ business' = IF unknownReceipt THEN "unknown"
                   ELSE IF flowAt = Complete THEN "not_evaluated" ELSE "failed"
    /\ UNCHANGED <<flowTry, flowAt, nodeTry, failures, receipt, sideEffect,
                   savedEffect, retried, unknownReceipt, nonRetryable, sent,
                   fate, timedOut>>

(* _run_pulseflow_chat: the whole flow again, with a new flow context. *)
FlowMayRepeat == ~nonRetryable /\ ~sideEffect

RepeatFlow ==
    /\ callStep = "ended" /\ flowAt = Failed
    /\ flowTry < FlowTries /\ FlowMayRepeat
    /\ flowTry' = flowTry + 1
    /\ flowAt' = 1 /\ nodeTry' = 0 /\ failures' = 0
    /\ callStep' = "engine" /\ receipt' = "none"
    /\ unknownReceipt' = FALSE
    /\ UNCHANGED <<sideEffect, savedEffect, retried, nonRetryable, business,
                   sent, fate, timedOut>>

FlowNext ==
    \/ SkipNode \/ BeginCall \/ SendRequest \/ RequestAnswered
    \/ CallSucceeds \/ CallReturnsFalse \/ AdapterRetries \/ ErrorTolerated
    \/ ErrorRaised \/ CallTimesOut \/ StopFlow \/ FlowEnds \/ RepeatFlow

FlowSpec == FlowInit /\ [][FlowNext]_flowVars

----------------------------------------------------------------------------
(* Tries and failures stay within their limits; a receipt says nothing of a *)
(* request that was not sent, unless the operation is marked late.          *)
FlowTypeOK ==
    /\ flowTry \in 1..FlowTries /\ flowAt \in 1..Failed /\ nodeTry \in 0..NodeTries
    /\ failures \in 0..FlowNodes
    /\ callStep \in {"engine", "calling", "requested", "answered", "ended"}
    /\ receipt \in {"none", "not_started", "attempted", "confirmed", "unknown"}
    /\ {sideEffect, savedEffect, retried, unknownReceipt, nonRetryable} \subseteq BOOLEAN
    /\ sent \in [1..FlowNodes -> Nat]
    /\ \A n \in 1..FlowNodes : fate[n] = "none" <=> sent[n] = 0

(* Whatever fails and whichever layer retries, a request of a node goes to  *)
(* Telegram once (UnknownOperationResult: "automatic replay stopped").      *)
SentOnce == \A n \in 1..FlowNodes : sent[n] <= 1

(* The three retry layers (adapter, engine, whole flow) send an operation   *)
(* again only when the engine's own timeout cancelled the call before, or   *)
(* when the operation is one that is marked after its answer.               *)
ReplayOnlyAfterTimeout ==
    \A n \in 1..FlowNodes : sent[n] > 1 => timedOut[n] \/ n \in MarkedLate

(* A flow that ends with a request whose answer never came says so: its     *)
(* business status is "unknown", unless the node swallows its errors, hides *)
(* its receipts in a subflow, or marks its operation after the answer.      *)
UnknownReported ==
    callStep = "ended" =>
        \A n \in 1..FlowNodes \ (Tolerant \cup Nested \cup MarkedLate) :
            fate[n] = "unknown" => business = "unknown"

(* What an operation may have done is neither repeated nor hidden.          *)
NoSilentReplay == ReplayOnlyAfterTimeout /\ UnknownReported

=============================================================================
