------------------------- MODULE NotificationOutbox -------------------------
(***************************************************************************)
(* The durable receipts of notifications,                                  *)
(* backend/services/notification_outbox.py, as                             *)
(* send_outbox_telegram_message (push_notifications.py) uses them: enqueue,*)
(* claim in a transaction, post to the provider, record the outcome in a   *)
(* second transaction; crashes, cancellations, lost answers, the retention *)
(* horizon, and the operator who reconciles uncertain receipts.            *)
(*                                                                         *)
(* A Call is one execution of send_outbox_telegram_message; calls of the   *)
(* same notice pass the same run, event and channel.                       *)
(***************************************************************************)
EXTENDS Naturals, FiniteSets

CONSTANTS
  Calls,      \* executions of send_outbox_telegram_message
  Notices,    \* primary keys (notification_id, channel)
  NoticeOf,   \* the notice that a call sends
  MaxRecords  \* max_records of the outbox

ASSUME ConstantsAssumption ==
  /\ IsFiniteSet(Notices)
  /\ NoticeOf \in [Calls -> Notices]
  /\ MaxRecords \in Nat \ {0}

VARIABLES
  pc,       \* where each call is
  wire,     \* the HTTP request of each call
  row,      \* the state column of the table; "absent" when there is no row
  aged,     \* updated_at lies before the retention horizon
  accepted  \* messages the provider accepted since the row was inserted
vars == <<pc, wire, row, aged, accepted>>

Rows == {n \in Notices : row[n] # "absent"}

Init ==
  /\ pc = [c \in Calls |-> "new"]
  /\ wire = [c \in Calls |-> "unsent"]
  /\ row = [n \in Notices |-> "absent"]
  /\ aged = [n \in Notices |-> FALSE]
  /\ accepted = [n \in Notices |-> 0]

-----------------------------------------------------------------------------
(* The transactions of a call *)

\* (seeded fault) the DELETE of enqueue_notification without its state filter
ExpiredAny == {n \in Notices : row[n] # "absent" /\ aged[n]}

\* The rows that enqueue_notification deletes before it counts.
Expired == {n \in Notices : row[n] \in {"sent", "failed"} /\ aged[n]}

HasRoom == Cardinality(Rows \ Expired) < MaxRecords

\* enqueue_notification: one transaction.  An existing row is returned as it is;
\* at capacity the exception rolls the deletion back.
Enqueue(c) ==
  LET n == NoticeOf[c]
  IN /\ pc[c] = "new"
     /\ UNCHANGED wire
     /\ \/ /\ row[n] # "absent"
           /\ pc' = [pc EXCEPT ![c] = "enqueued"]
           /\ UNCHANGED <<row, aged, accepted>>
        \/ /\ row[n] = "absent" /\ HasRoom
           /\ pc' = [pc EXCEPT ![c] = "enqueued"]
           /\ row' = [m \in Notices |-> IF m = n THEN "pending"
                                        ELSE IF m \in Expired THEN "absent"
                                        ELSE row[m]]
           /\ aged' = [m \in Notices |-> aged[m] /\ m \notin Expired /\ m # n]
           /\ accepted' = [m \in Notices |-> IF m \in Expired THEN 0
                                             ELSE accepted[m]]
        \/ /\ row[n] = "absent" /\ ~HasRoom
           /\ pc' = [pc EXCEPT ![c] = "done"]
           /\ UNCHANGED <<row, aged, accepted>>

\* (seeded fault) the claim is not written before the provider is invoked
ClaimInMemory(c) ==
  /\ pc[c] = "enqueued" /\ row[NoticeOf[c]] = "pending"
  /\ pc' = [pc EXCEPT ![c] = "sending"]
  /\ UNCHANGED <<wire, row, aged, accepted>>

\* deliver_notification, first transaction: the claim.  Only a pending row is
\* claimed, anything else is returned to the caller.
Claim(c) ==
  LET n == NoticeOf[c]
  IN /\ pc[c] = "enqueued"
     /\ UNCHANGED <<wire, accepted>>
     /\ IF row[n] = "pending"
        THEN /\ row' = [row EXCEPT ![n] = "unknown"]
             /\ aged' = [aged EXCEPT ![n] = FALSE]
             /\ pc' = [pc EXCEPT ![c] = "sending"]
        ELSE /\ pc' = [pc EXCEPT ![c] = "done"]
             /\ UNCHANGED <<row, aged>>

\* What deliver_notification concludes from how sender() ended: a failed
\* connection and a 4xx answer prove that nothing was accepted; read timeouts,
\* protocol errors, 5xx and ok=false prove nothing.
Outcome(w) ==
  CASE w = "accepted" -> {"sent", "unknown"}
    [] w = "posted"   -> {"unknown"}
    [] OTHER          -> {"failed", "unknown"}

\* deliver_notification, second transaction: the UPDATE looks at no state; a row
\* that is gone is not updated.
Record(c) ==
  LET n == NoticeOf[c]
  IN /\ pc[c] = "sending"
     /\ pc' = [pc EXCEPT ![c] = "done"]
     /\ IF row[n] = "absent" THEN UNCHANGED row
        ELSE \E o \in Outcome(wire[c]) : row' = [row EXCEPT ![n] = o]
     /\ aged' = [aged EXCEPT ![n] = FALSE]
     /\ UNCHANGED <<wire, accepted>>

\* A CancelledError during sender(): the claim stays.
Cancel(c) ==
  /\ pc[c] = "sending"
  /\ pc' = [pc EXCEPT ![c] = "done"]
  /\ UNCHANGED <<wire, row, aged, accepted>>

-----------------------------------------------------------------------------
(* The environment: network, provider, time, process, operator *)

\* The connection is established and the request written.
Post(c) ==
  /\ pc[c] = "sending" /\ wire[c] = "unsent"
  /\ wire' = [wire EXCEPT ![c] = "posted"]
  /\ UNCHANGED <<pc, row, aged, accepted>>

\* The provider handles a request, whether or not anybody still waits for it.
Provide(c) ==
  /\ wire[c] = "posted"
  /\ \/ /\ wire' = [wire EXCEPT ![c] = "accepted"]
        /\ accepted' = [accepted EXCEPT ![NoticeOf[c]] = @ + 1]
     \/ /\ wire' = [wire EXCEPT ![c] = "refused"]
        /\ UNCHANGED accepted
  /\ UNCHANGED <<pc, row, aged>>

\* The retention period of a row passes.
Age(n) ==
  /\ row[n] # "absent" /\ ~aged[n]
  /\ aged' = [aged EXCEPT ![n] = TRUE]
  /\ UNCHANGED <<pc, wire, row, accepted>>

\* The process stops; the table and the requests on the wire remain.
Crash ==
  /\ \E c \in Calls : pc[c] \in {"enqueued", "sending"}
  /\ pc' = [c \in Calls |-> IF pc[c] = "new" THEN "new" ELSE "done"]
  /\ UNCHANGED <<wire, row, aged, accepted>>

\* An attempt of n is under way or its request still on the wire.
InFlight(n) ==
  \E c \in Calls : NoticeOf[c] = n /\ (pc[c] = "sending" \/ wire[c] = "posted")

\* reconcile_notification, by an operator who has evidence of the outcome
\* ("explicit operator/provider evidence is required before an uncertain retry"),
\* which exists once no attempt is in flight.
Reconcile(n) ==
  /\ row[n] # "absent" /\ ~InFlight(n)
  /\ \/ /\ accepted[n] = 0 /\ row[n] # "sent"
        /\ row' = [row EXCEPT ![n] = "pending"]
     \/ /\ accepted[n] > 0
        /\ row' = [row EXCEPT ![n] = "sent"]
  /\ aged' = [aged EXCEPT ![n] = FALSE]
  /\ UNCHANGED <<pc, wire, accepted>>

\* Every call is over (not a step of the program).
Over == (\A c \in Calls : pc[c] = "done") /\ UNCHANGED vars

Step(c) == Enqueue(c) \/ Claim(c) \/ Post(c) \/ Provide(c) \/ Record(c) \/ Cancel(c)
Next ==
  \/ \E c \in Calls : Step(c)
  \/ \E n \in Notices : Age(n) \/ Reconcile(n)
  \/ Crash \/ Over

Spec == Init /\ [][Next]_vars

-----------------------------------------------------------------------------
(* Properties *)

\* The state column keeps to the CHECK constraint of the table.
TypeOK ==
  /\ pc \in [Calls -> {"new", "enqueued", "sending", "done"}]
  /\ wire \in [Calls -> {"unsent", "posted", "accepted", "refused"}]
  /\ row \in [Notices -> {"absent", "pending", "sent", "unknown", "failed"}]
  /\ aged \in [Notices -> BOOLEAN]
  /\ accepted \in [Notices -> Nat]

\* Receipts tell the truth: a notice is accepted at most once, a sent receipt
\* was accepted, a pending or failed one was not, whatever crashed, was
\* cancelled or went unanswered before (no automatic duplicate delivery).
ReceiptsTruthful ==
  \A n \in Notices :
    /\ accepted[n] <= 1
    /\ row[n] = "sent" => accepted[n] = 1
    /\ row[n] \in {"absent", "pending", "failed"} => accepted[n] = 0

\* While a request of a notice may still be accepted its row is durably unknown,
\* so that no other call, also after a crash, sends it again; and it is the only
\* one ("durably marked unknown before invoking its provider").
ClaimDurable ==
  /\ \A n \in Notices : InFlight(n) => row[n] = "unknown"
  /\ \A c, d \in Calls :
       /\ NoticeOf[c] = NoticeOf[d]
       /\ pc[c] = "sending" \/ wire[c] = "posted"
       /\ pc[d] = "sending" \/ wire[d] = "posted"
       => c = d

\* The table never exceeds max_records ("capacity exhaustion fails closed").
CapacityKept == Cardinality(Rows) <= MaxRecords

\* All three: at most one delivery of a notice, a row that never lies about it,
\* and a table within its capacity.
DeliveryIsSafe == ReceiptsTruthful /\ ClaimDurable /\ CapacityKept

\* The outbox implements DeliveryLedger: what is pending or unknown is open.
Receipts == [n \in Notices |-> CASE row[n] = "absent" -> "none"
                               [] row[n] \in {"pending", "unknown"} -> "open"
                               [] OTHER -> row[n]]
Ledger == INSTANCE DeliveryLedger WITH receipt <- Receipts
LedgerSpec == Ledger!Spec

=============================================================================
