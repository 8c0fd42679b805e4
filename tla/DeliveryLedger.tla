--------------------------- MODULE DeliveryLedger ---------------------------
(***************************************************************************)
(* What the notification outbox promises: within the deduplication horizon *)
(* the provider accepts a notification at most once, only under an open    *)
(* receipt, a receipt that is settled tells what happened, and only settled*)
(* receipts are forgotten.                                                 *)
(***************************************************************************)
EXTENDS Naturals

CONSTANT Notices

VARIABLES receipt,  \* none, open, sent or failed
          accepted  \* deliveries accepted since the receipt was made
vars == <<receipt, accepted>>

Init ==
  /\ receipt = [n \in Notices |-> "none"]
  /\ accepted = [n \in Notices |-> 0]

\* A new receipt; receipts of the past horizon are forgotten with it.
Open(n) ==
  \E Old \in SUBSET {m \in Notices : receipt[m] \in {"sent", "failed"}} :
    /\ receipt[n] = "none"
    /\ receipt' = [m \in Notices |-> IF m = n THEN "open"
                                     ELSE IF m \in Old THEN "none"
                                     ELSE receipt[m]]
    /\ accepted' = [m \in Notices |-> IF m \in Old THEN 0 ELSE accepted[m]]

Accept(n) ==
  /\ receipt[n] = "open" /\ accepted[n] = 0
  /\ accepted' = [accepted EXCEPT ![n] = 1]
  /\ UNCHANGED receipt

Settle(n) ==
  /\ receipt[n] = "open"
  /\ receipt' = [receipt EXCEPT ![n] = IF accepted[n] = 1 THEN "sent" ELSE "failed"]
  /\ UNCHANGED accepted

\* The operator asks for another attempt of a failed delivery.
Reopen(n) ==
  /\ receipt[n] = "failed"
  /\ receipt' = [receipt EXCEPT ![n] = "open"]
  /\ UNCHANGED accepted

Next == \E n \in Notices : Open(n) \/ Accept(n) \/ Settle(n) \/ Reopen(n)

Spec == Init /\ [][Next]_vars

=============================================================================
