---------------------- MODULE NotificationOutboxProofs ----------------------
(***************************************************************************)
(* Proofs about NotificationOutbox for any calls, notices and capacity.    *)
(***************************************************************************)
EXTENDS NotificationOutbox, FiniteSetTheorems, TLAPS

Flying(c) == pc[c] = "sending" \/ wire[c] = "posted"

\* How the request of a call in flight relates to what the provider accepted: a
\* request that was not accepted is the only hope of its notice, so nothing was
\* accepted before it.
Requests ==
  \A c \in Calls :
    /\ pc[c] \in {"new", "enqueued"} => wire[c] = "unsent"
    /\ Flying(c) /\ wire[c] = "accepted" => accepted[NoticeOf[c]] = 1
    /\ Flying(c) /\ wire[c] # "accepted" => accepted[NoticeOf[c]] = 0

Inv == TypeOK /\ ReceiptsTruthful /\ ClaimDurable /\ Requests

-----------------------------------------------------------------------------
(* The invariant *)

LEMMA InvInit == Init => Inv
BY DEF Init, Inv, TypeOK, ReceiptsTruthful, ClaimDurable, Requests, Flying, InFlight

\* A step that starts no request, accepts nothing and changes at most the
\* receipts of notices with no request in flight.
LEMMA Frame ==
  ASSUME Inv, TypeOK', UNCHANGED wire,
         \A c \in Calls : Flying(c)' => Flying(c),
         \A c \in Calls : pc'[c] \in {"new", "enqueued"} =>
                            pc[c] \in {"new", "enqueued"},
         \A n \in Notices :
           \/ row'[n] = row[n] /\ accepted'[n] = accepted[n]
           \/ /\ ~InFlight(n)
              /\ accepted'[n] <= 1
              /\ row'[n] = "sent" => accepted'[n] = 1
              /\ row'[n] \in {"absent", "pending", "failed"} => accepted'[n] = 0
  PROVE  Inv'
<1>1. \A c \in Calls : NoticeOf[c] \in Notices /\ (Flying(c) => InFlight(NoticeOf[c]))
  BY ConstantsAssumption DEF Flying, InFlight
<1>2. ReceiptsTruthful'
  BY DEF Inv, ReceiptsTruthful
<1>3. \A n \in Notices : InFlight(n)' => InFlight(n) /\ row'[n] = row[n]
  BY DEF InFlight, Flying
<1>4. ClaimDurable'
  BY <1>3 DEF Inv, ClaimDurable, Flying
<1>5. Requests'
  BY <1>1 DEF Inv, Requests
<1> QED  BY <1>2, <1>4, <1>5 DEF Inv

LEMMA InvStep == Inv /\ [Next]_vars => Inv'
<1> SUFFICES ASSUME Inv, [Next]_vars PROVE Inv'
  OBVIOUS
<1>n. \A c \in Calls : NoticeOf[c] \in Notices
  BY ConstantsAssumption
<1>i. \A n \in Notices, c \in Calls : Flying(c) /\ NoticeOf[c] = n => InFlight(n)
  BY DEF InFlight, Flying
<1>t. TypeOK
  BY DEF Inv
<1>1. ASSUME NEW c \in Calls, Enqueue(c) PROVE Inv'
  <2>1. TypeOK'
    <3>1. /\ pc' \in [Calls -> {"new", "enqueued", "sending", "done"}]
          /\ wire' \in [Calls -> {"unsent", "posted", "accepted", "refused"}]
      BY <1>1, <1>t DEF Enqueue, TypeOK
    <3>2. row' \in [Notices -> {"absent", "pending", "sent", "unknown", "failed"}]
      BY <1>1, <1>t DEF Enqueue, TypeOK
    <3>3. aged' \in [Notices -> BOOLEAN]
      BY <1>1, <1>t DEF Enqueue, TypeOK
    <3>4. accepted' \in [Notices -> Nat]
      BY <1>1, <1>t DEF Enqueue, TypeOK
    <3> QED  BY <3>1, <3>2, <3>3, <3>4 DEF TypeOK
  <2>2. \A n \in Expired : ~InFlight(n)
    BY DEF Inv, ClaimDurable, Expired
  <2>3. /\ UNCHANGED wire
        /\ \A d \in Calls : Flying(d)' => Flying(d)
        /\ \A d \in Calls : pc'[d] \in {"new", "enqueued"} => pc[d] \in {"new", "enqueued"}
    BY <1>1, <1>t DEF Enqueue, Flying, TypeOK
  <2>4. ASSUME NEW n \in Notices
        PROVE  \/ row'[n] = row[n] /\ accepted'[n] = accepted[n]
               \/ /\ ~InFlight(n)
                  /\ accepted'[n] <= 1
                  /\ row'[n] = "sent" => accepted'[n] = 1
                  /\ row'[n] \in {"absent", "pending", "failed"} => accepted'[n] = 0
    <3>1. CASE UNCHANGED <<row, accepted>>
      BY <3>1
    <3>2. CASE n \in Expired /\ row'[n] = "absent" /\ accepted'[n] = 0
      BY <2>2, <3>2
    <3>3. CASE row[n] = "absent" /\ row'[n] = "pending" /\ accepted'[n] = accepted[n]
      BY <3>3 DEF Inv, ClaimDurable, ReceiptsTruthful
    <3> QED  BY <1>1, <1>n, <3>1, <3>2, <3>3 DEF Enqueue, Expired
  <2> QED  BY <2>1, <2>3, <2>4, Frame
<1>2. ASSUME NEW c \in Calls, Claim(c) PROVE Inv'
  <2>1. CASE row[NoticeOf[c]] # "pending"
    <3>1. TypeOK'
      BY <1>2, <1>t, <2>1 DEF Claim, TypeOK
    <3>2. /\ UNCHANGED <<wire, row, accepted>>
          /\ \A d \in Calls : Flying(d)' => Flying(d)
          /\ \A d \in Calls : pc'[d] \in {"new", "enqueued"} => pc[d] \in {"new", "enqueued"}
      BY <1>2, <1>t, <2>1 DEF Claim, Flying, TypeOK
    <3> QED  BY <3>1, <3>2, Frame
  <2>2. CASE row[NoticeOf[c]] = "pending"
    <3> DEFINE n == NoticeOf[c]
    <3>1. /\ n \in Notices /\ pc[c] = "enqueued" /\ wire[c] = "unsent"
          /\ ~InFlight(n) /\ accepted[n] = 0
      BY <1>2, <1>n, <2>2 DEF Claim, Inv, Requests, ClaimDurable, ReceiptsTruthful
    <3>2. /\ UNCHANGED <<wire, accepted>>
          /\ pc' = [pc EXCEPT ![c] = "sending"]
          /\ row' = [row EXCEPT ![n] = "unknown"]
          /\ TypeOK'
      BY <1>2, <1>t, <1>n, <2>2 DEF Claim, TypeOK
    <3>3. \A d \in Calls : (Flying(d)' <=> Flying(d) \/ d = c)
                           /\ (d # c => pc'[d] = pc[d])
      BY <1>t, <3>2 DEF Flying, TypeOK
    <3>4. \A d \in Calls : Flying(d) => NoticeOf[d] # n
      BY <1>i, <3>1
    <3>5. Requests'
      BY <3>1, <3>2, <3>3, <1>t DEF Inv, Requests, TypeOK
    <3>6. ClaimDurable'
      <4>1. \A m \in Notices : InFlight(m)' => row'[m] = "unknown"
        BY <1>t, <1>i, <3>2, <3>3 DEF Inv, ClaimDurable, InFlight, Flying, TypeOK
      <4>2. \A d, e \in Calls : NoticeOf[d] = NoticeOf[e] /\ Flying(d)' /\ Flying(e)' => d = e
        BY <3>3, <3>4 DEF Inv, ClaimDurable, Flying
      <4> QED  BY <4>1, <4>2 DEF ClaimDurable, Flying
    <3>7. ReceiptsTruthful'
      BY <1>t, <3>1, <3>2 DEF Inv, ReceiptsTruthful, TypeOK
    <3> QED  BY <3>2, <3>5, <3>6, <3>7 DEF Inv
  <2> QED  BY <2>1, <2>2
<1>3. ASSUME NEW c \in Calls, Post(c) PROVE Inv'
  <2>1. /\ TypeOK' /\ UNCHANGED <<pc, row, accepted>>
        /\ pc[c] = "sending" /\ wire[c] = "unsent" /\ wire'[c] = "posted"
        /\ \A d \in Calls \ {c} : wire'[d] = wire[d]
    BY <1>3, <1>t DEF Post, TypeOK
  <2>2. \A d \in Calls : Flying(d)' <=> Flying(d)
    BY <2>1 DEF Flying
  <2>3. \A n \in Notices : InFlight(n)' <=> InFlight(n)
    BY <2>2 DEF InFlight, Flying
  <2>4. Requests'
    BY <2>1, <2>2 DEF Inv, Requests, Flying
  <2> QED  BY <2>1, <2>2, <2>3, <2>4 DEF Inv, ReceiptsTruthful, ClaimDurable, Flying
<1>4. ASSUME NEW c \in Calls, Provide(c) PROVE Inv'
  <2> DEFINE n == NoticeOf[c]
  <2>1. /\ UNCHANGED <<pc, row>> /\ wire[c] = "posted" /\ wire'[c] # "posted"
        /\ \A d \in Calls \ {c} : wire'[d] = wire[d]
        /\ n \in Notices /\ Flying(c) /\ InFlight(n) /\ row[n] = "unknown"
        /\ accepted[n] = 0
        /\ accepted' = IF wire'[c] = "accepted" THEN [accepted EXCEPT ![n] = 1]
                       ELSE accepted
        /\ TypeOK'
    <3>1. /\ wire[c] = "posted" /\ n \in Notices /\ Flying(c) /\ InFlight(n)
      BY <1>4, <1>n, <1>i DEF Provide, Flying
    <3>2. row[n] = "unknown" /\ accepted[n] = 0
      BY <3>1 DEF Inv, ClaimDurable, Requests
    <3> QED  BY <1>4, <1>t, <3>1, <3>2 DEF Provide, TypeOK
  <2>2. \A d \in Calls : /\ Flying(d)' => Flying(d)
                         /\ Flying(d) /\ d # c => NoticeOf[d] # n
    BY <2>1 DEF Inv, ClaimDurable, Flying
  <2>3. Requests'
    BY <2>1, <2>2, <1>n, <1>t DEF Inv, Requests, TypeOK, Flying
  <2>4. ReceiptsTruthful'
    BY <2>1, <1>t DEF Inv, ReceiptsTruthful, TypeOK
  <2>5. ClaimDurable'
    BY <2>1, <2>2 DEF Inv, ClaimDurable, InFlight, Flying
  <2> QED  BY <2>1, <2>3, <2>4, <2>5 DEF Inv
<1>5. ASSUME NEW c \in Calls, Record(c) PROVE Inv'
  <2> DEFINE n == NoticeOf[c]
  <2>1. /\ n \in Notices /\ Flying(c) /\ row[n] = "unknown" /\ pc[c] = "sending"
    BY <1>5, <1>n, <1>i DEF Record, Flying, Inv, ClaimDurable
  <2>2. PICK o \in Outcome(wire[c]) : row' = [row EXCEPT ![n] = o]
    BY <1>5, <2>1 DEF Record
  <2>3. /\ UNCHANGED <<wire, accepted>> /\ pc' = [pc EXCEPT ![c] = "done"]
        /\ aged' = [aged EXCEPT ![n] = FALSE]
    BY <1>5 DEF Record
  <2>4. /\ o \in {"sent", "unknown", "failed"}
        /\ o = "sent" => wire[c] = "accepted"
        /\ o = "failed" => wire[c] # "accepted"
        /\ wire[c] = "posted" => o = "unknown"
    BY <1>t, <2>2 DEF Outcome, TypeOK
  <2>5. TypeOK'
    BY <1>t, <2>2, <2>3, <2>4 DEF TypeOK
  <2>6. \A d \in Calls : /\ Flying(d)' => Flying(d)
                         /\ Flying(d) /\ d # c => NoticeOf[d] # n
                         /\ Flying(c)' => wire[c] = "posted"
    BY <1>t, <2>1, <2>3 DEF Inv, ClaimDurable, Flying, TypeOK
  <2>7. Requests'
    BY <1>t, <2>3, <2>6 DEF Inv, Requests, TypeOK
  <2>8. ReceiptsTruthful'
    BY <1>t, <2>1, <2>2, <2>3, <2>4 DEF Inv, ReceiptsTruthful, Requests, TypeOK
  <2>9. ClaimDurable'
    <3>1. ASSUME NEW m \in Notices, InFlight(m)' PROVE row'[m] = "unknown"
      <4>1. PICK d \in Calls : NoticeOf[d] = m /\ Flying(d)'
        BY <3>1 DEF InFlight, Flying
      <4>2. Flying(d) /\ row[m] = "unknown"
        BY <1>i, <2>6, <4>1 DEF Inv, ClaimDurable
      <4>3. CASE d = c
        BY <1>t, <2>2, <2>4, <2>6, <4>1, <4>3 DEF TypeOK
      <4>4. CASE d # c
        BY <1>t, <2>2, <2>6, <4>1, <4>2, <4>4 DEF TypeOK
      <4> QED  BY <4>3, <4>4
    <3> QED  BY <2>6, <3>1 DEF Inv, ClaimDurable, Flying
  <2> QED  BY <2>5, <2>7, <2>8, <2>9 DEF Inv
<1>6. ASSUME \/ Crash \/ \E c \in Calls : Cancel(c) PROVE Inv'
  <2>1. TypeOK'
    BY <1>6, <1>t DEF Crash, Cancel, TypeOK
  <2>2. /\ UNCHANGED <<wire, row, accepted>>
        /\ \A d \in Calls : Flying(d)' => Flying(d)
        /\ \A d \in Calls : pc'[d] \in {"new", "enqueued"} => pc[d] \in {"new", "enqueued"}
    BY <1>6, <1>t DEF Crash, Cancel, Flying, TypeOK
  <2> QED  BY <2>1, <2>2, Frame
<1>7. ASSUME NEW n \in Notices, Age(n) \/ Reconcile(n) PROVE Inv'
  <2>1. TypeOK'
    BY <1>7, <1>t DEF Age, Reconcile, TypeOK
  <2>2. UNCHANGED <<wire, pc, accepted>>
    BY <1>7 DEF Age, Reconcile
  <2>3. \A m \in Notices :
           \/ row'[m] = row[m]
           \/ /\ ~InFlight(m)
              /\ row'[m] = "sent" => accepted[m] > 0
              /\ row'[m] = "pending" => accepted[m] = 0
              /\ row'[m] \in {"sent", "pending"}
    BY <1>7, <1>t DEF Age, Reconcile, TypeOK
  <2>4. \A m \in Notices : accepted[m] \in Nat /\ accepted[m] <= 1
    BY <1>t DEF Inv, ReceiptsTruthful, TypeOK
  <2>5. \A d \in Calls : Flying(d)' => Flying(d)
    BY <2>2 DEF Flying
  <2> QED  BY <2>1, <2>2, <2>3, <2>4, <2>5, Frame
<1>8. CASE UNCHANGED vars
  BY <1>8, <1>t, Frame DEF vars, TypeOK, Flying
<1> QED
  BY <1>1, <1>2, <1>3, <1>4, <1>5, <1>6, <1>7, <1>8 DEF Next, Step, Over

\* Every reachable state is well typed.
THEOREM TypeCorrect == Spec => []TypeOK
<1>1. Inv => TypeOK  BY DEF Inv
<1> QED  BY <1>1, InvInit, InvStep, PTL DEF Spec

\* No notice is accepted twice within the horizon, and receipts tell the truth.
THEOREM ReceiptsAreTruthful == Spec => []ReceiptsTruthful
<1>1. Inv => ReceiptsTruthful  BY DEF Inv
<1> QED  BY <1>1, InvInit, InvStep, PTL DEF Spec

\* A request is on the wire only under a durable claim of its own.
THEOREM ClaimsAreDurable == Spec => []ClaimDurable
<1>1. Inv => ClaimDurable  BY DEF Inv
<1> QED  BY <1>1, InvInit, InvStep, PTL DEF Spec

-----------------------------------------------------------------------------
(* Capacity *)

LEMMA CapacityStep == TypeOK /\ CapacityKept /\ [Next]_vars => CapacityKept'
<1> SUFFICES ASSUME TypeOK, CapacityKept, [Next]_vars PROVE CapacityKept'
  OBVIOUS
<1>1. IsFiniteSet(Rows) /\ IsFiniteSet(Rows \ Expired)
  BY ConstantsAssumption, FS_Subset DEF Rows
<1>2. ASSUME Rows' \subseteq Rows PROVE CapacityKept'
  <2>1. IsFiniteSet(Rows') /\ Cardinality(Rows') <= Cardinality(Rows)
    BY <1>1, <1>2, FS_Subset
  <2>2. Cardinality(Rows) \in Nat /\ Cardinality(Rows') \in Nat
    BY <1>1, <2>1, FS_CardinalityType
  <2> QED  BY <2>1, <2>2, ConstantsAssumption DEF CapacityKept
<1>3. ASSUME NEW c \in Calls, Enqueue(c) PROVE CapacityKept'
  <2> DEFINE n == NoticeOf[c]
  <2>1. CASE UNCHANGED row
    BY <2>1, <1>2 DEF Rows
  <2>2. CASE /\ row[n] = "absent" /\ HasRoom
             /\ row' = [m \in Notices |-> IF m = n THEN "pending"
                                          ELSE IF m \in Expired THEN "absent"
                                          ELSE row[m]]
    <3>1. Rows' = (Rows \ Expired) \cup {n} /\ n \notin Rows \ Expired
      BY <2>2, ConstantsAssumption DEF Rows, Expired
    <3>2. Cardinality(Rows') = Cardinality(Rows \ Expired) + 1
      BY <1>1, <3>1, FS_AddElement
    <3>3. Cardinality(Rows \ Expired) \in Nat
      BY <1>1, FS_CardinalityType
    <3> QED  BY <2>2, <3>2, <3>3, ConstantsAssumption DEF HasRoom, CapacityKept
  <2> QED  BY <1>3, <2>1, <2>2 DEF Enqueue
<1>4. ASSUME \/ Crash \/ UNCHANGED vars
             \/ \E c \in Calls : \/ Claim(c) \/ Post(c) \/ Provide(c) \/ Record(c)
                                \/ Cancel(c)
             \/ \E n \in Notices : Age(n) \/ Reconcile(n)
      PROVE  Rows' \subseteq Rows
  BY <1>4, ConstantsAssumption
     DEF Crash, vars, Claim, Post, Provide, Record, Cancel, Age, Reconcile, Rows,
         TypeOK
<1> QED  BY <1>2, <1>3, <1>4 DEF Next, Step, Over

\* The table never exceeds its capacity.
THEOREM CapacityIsKept == Spec => []CapacityKept
<1>1. Init => CapacityKept
  <2>1. ASSUME Init PROVE Rows = {}
    BY <2>1 DEF Init, Rows
  <2> QED  BY <2>1, FS_EmptySet, ConstantsAssumption DEF CapacityKept
<1>2. Inv => TypeOK  BY DEF Inv
<1> QED  BY <1>1, <1>2, InvInit, InvStep, CapacityStep, PTL DEF Spec

\* All three: a delivery is safe, over crashes, cancellations and lost answers,
\* and the rows that remember it stay within the capacity of the table.
THEOREM DeliveriesAreSafe == Spec => []DeliveryIsSafe
<1>1. ReceiptsTruthful /\ ClaimDurable /\ CapacityKept => DeliveryIsSafe
  BY DEF DeliveryIsSafe
<1> QED
  BY <1>1, ReceiptsAreTruthful, ClaimsAreDurable, CapacityIsKept, PTL

-----------------------------------------------------------------------------
(* The outbox implements the ledger *)

LEMMA ReceiptOf ==
  ASSUME TypeOK, NEW n \in Notices
  PROVE  /\ Receipts[n] = "none" <=> row[n] = "absent"
         /\ Receipts[n] = "open" <=> row[n] \in {"pending", "unknown"}
         /\ Receipts[n] = "sent" <=> row[n] = "sent"
         /\ Receipts[n] = "failed" <=> row[n] = "failed"
BY DEF Receipts, TypeOK

\* A step that changes the row of one notice and accepts nothing.
LEMMA RowStep ==
  ASSUME Inv, TypeOK', NEW n \in Notices, UNCHANGED accepted,
         \A m \in Notices \ {n} : row'[m] = row[m],
         \/ row'[n] = row[n]
         \/ /\ row[n] \in {"pending", "unknown"}
            /\ \/ row'[n] \in {"pending", "unknown"}
               \/ row'[n] = "sent" /\ accepted[n] = 1
               \/ row'[n] = "failed" /\ accepted[n] = 0
         \/ row[n] = "failed" /\ row'[n] = "pending"
  PROVE  [Ledger!Next]_(Ledger!vars)
<1> DEFINE R == Receipts
           Q == Receipts'
<1>1. /\ R = [m \in Notices |-> R[m]] /\ Q = [m \in Notices |-> Q[m]]
      /\ \A m \in Notices \ {n} : Q[m] = R[m]
  BY DEF Receipts
<1>2. CASE Q[n] = R[n]
  <2>1. Q = R
    BY <1>1, <1>2
  <2> QED  BY <2>1 DEF Ledger!vars
<1>3. CASE Q[n] # R[n]
  <2>1. Q = [R EXCEPT ![n] = Q[n]]
    BY <1>1
  <2>2. CASE row[n] \in {"pending", "unknown"} /\ row'[n] = "sent" /\ accepted[n] = 1
    <3>1. R[n] = "open" /\ Q[n] = "sent"
      BY <2>2 DEF Inv, Receipts
    <3>2. Ledger!Settle(n)
      BY <2>1, <2>2, <3>1 DEF Ledger!Settle
    <3> QED  BY <3>2 DEF Ledger!Next
  <2>3. CASE row[n] \in {"pending", "unknown"} /\ row'[n] = "failed" /\ accepted[n] = 0
    <3>1. R[n] = "open" /\ Q[n] = "failed"
      BY <2>3 DEF Inv, Receipts
    <3>2. Ledger!Settle(n)
      BY <2>1, <2>3, <3>1 DEF Ledger!Settle
    <3> QED  BY <3>2 DEF Ledger!Next
  <2>4. CASE row[n] = "failed" /\ row'[n] = "pending"
    <3>1. R[n] = "failed" /\ Q[n] = "open"
      BY <2>4 DEF Inv, Receipts
    <3>2. Ledger!Reopen(n)
      BY <2>1, <3>1 DEF Ledger!Reopen
    <3> QED  BY <3>2 DEF Ledger!Next
  <2>5. CASE row[n] \in {"pending", "unknown"} /\ row'[n] \in {"pending", "unknown"}
    BY <1>3, <2>5 DEF Receipts
  <2>6. CASE row'[n] = row[n]
    BY <1>3, <2>6 DEF Receipts
  <2> QED  BY <2>2, <2>3, <2>4, <2>5, <2>6
<1> QED  BY <1>2, <1>3

LEMMA LedgerStep == Inv /\ [Next]_vars => [Ledger!Next]_(Ledger!vars)
<1> SUFFICES ASSUME Inv, [Next]_vars PROVE [Ledger!Next]_(Ledger!vars)
  OBVIOUS
<1>n. \A c \in Calls : NoticeOf[c] \in Notices
  BY ConstantsAssumption
<1>t. TypeOK /\ TypeOK'
  BY InvStep DEF Inv
<1>1. ASSUME UNCHANGED <<row, accepted>> PROVE [Ledger!Next]_(Ledger!vars)
  BY <1>1 DEF Ledger!vars, Receipts
<1>2. ASSUME NEW c \in Calls, Enqueue(c) PROVE [Ledger!Next]_(Ledger!vars)
  <2> DEFINE n == NoticeOf[c]
  <2>1. CASE UNCHANGED <<row, accepted>>
    BY <1>1, <2>1
  <2>2. CASE /\ row[n] = "absent"
             /\ row' = [m \in Notices |-> IF m = n THEN "pending"
                                          ELSE IF m \in Expired THEN "absent"
                                          ELSE row[m]]
             /\ accepted' = [m \in Notices |-> IF m \in Expired THEN 0
                                               ELSE accepted[m]]
    <3>1. Expired \in SUBSET {m \in Notices : Receipts[m] \in {"sent", "failed"}}
      BY <1>t, ReceiptOf DEF Expired
    <3>2. Receipts' = [m \in Notices |-> IF m = n THEN "open"
                                        ELSE IF m \in Expired THEN "none"
                                        ELSE Receipts[m]]
      BY <2>2 DEF Receipts
    <3>3. n \in Notices /\ Receipts[n] = "none"
      BY <1>n, <2>2 DEF Receipts
    <3>4. Ledger!Open(n)
      BY <2>2, <3>1, <3>2, <3>3 DEF Ledger!Open
    <3> QED  BY <3>3, <3>4 DEF Ledger!Next
  <2> QED  BY <1>2, <2>1, <2>2 DEF Enqueue
<1>3. ASSUME NEW c \in Calls, Claim(c) PROVE [Ledger!Next]_(Ledger!vars)
  <2> DEFINE n == NoticeOf[c]
  <2>1. /\ UNCHANGED accepted /\ n \in Notices
        /\ \A m \in Notices \ {n} : row'[m] = row[m]
        /\ row'[n] = row[n] \/ (row[n] = "pending" /\ row'[n] = "unknown")
    BY <1>3, <1>n, <1>t DEF Claim, TypeOK
  <2> QED  BY <1>t, <2>1, RowStep
<1>4. ASSUME NEW c \in Calls, Record(c) PROVE [Ledger!Next]_(Ledger!vars)
  <2> DEFINE n == NoticeOf[c]
  <2>1. /\ n \in Notices /\ Flying(c) /\ row[n] = "unknown" /\ UNCHANGED accepted
    BY <1>4, <1>n DEF Record, Flying, Inv, ClaimDurable, InFlight
  <2>2. PICK o \in Outcome(wire[c]) : row' = [row EXCEPT ![n] = o]
    BY <1>4, <2>1 DEF Record
  <2>3. \/ o = "unknown"
        \/ o = "sent" /\ wire[c] = "accepted"
        \/ o = "failed" /\ wire[c] # "accepted"
    BY <1>t, <2>2 DEF Outcome, TypeOK
  <2>4. \/ o = "unknown"
        \/ o = "sent" /\ accepted[n] = 1
        \/ o = "failed" /\ accepted[n] = 0
    BY <2>1, <2>3 DEF Inv, Requests
  <2>5. row'[n] = o /\ \A m \in Notices \ {n} : row'[m] = row[m]
    BY <1>t, <2>1, <2>2 DEF TypeOK
  <2> QED  BY <1>t, <2>1, <2>4, <2>5, RowStep
<1>5. ASSUME NEW c \in Calls, Provide(c) PROVE [Ledger!Next]_(Ledger!vars)
  <2> DEFINE n == NoticeOf[c]
  <2>1. /\ n \in Notices /\ row[n] = "unknown" /\ accepted[n] = 0 /\ UNCHANGED row
    BY <1>5, <1>n DEF Provide, Flying, Inv, ClaimDurable, InFlight, Requests
  <2>2. UNCHANGED accepted \/ accepted' = [accepted EXCEPT ![n] = 1]
    BY <1>5, <1>t, <2>1 DEF Provide, TypeOK
  <2>3. CASE accepted' = [accepted EXCEPT ![n] = 1]
    <3>1. Receipts[n] = "open" /\ UNCHANGED Receipts
      BY <2>1 DEF Receipts
    <3>2. Ledger!Accept(n)
      BY <2>1, <2>3, <3>1 DEF Ledger!Accept
    <3> QED  BY <2>1, <3>2 DEF Ledger!Next
  <2> QED  BY <1>1, <2>1, <2>2, <2>3
<1>6. ASSUME NEW n \in Notices, Reconcile(n) PROVE [Ledger!Next]_(Ledger!vars)
  <2>1. /\ UNCHANGED accepted /\ row[n] # "absent"
        /\ \A m \in Notices \ {n} : row'[m] = row[m]
        /\ \/ accepted[n] = 0 /\ row[n] # "sent" /\ row'[n] = "pending"
           \/ accepted[n] > 0 /\ row'[n] = "sent"
    BY <1>6, <1>t DEF Reconcile, TypeOK
  <2>2. accepted[n] \in Nat /\ accepted[n] <= 1
        /\ (row[n] \in {"pending", "failed"} => accepted[n] = 0)
        /\ row[n] \in {"absent", "pending", "sent", "unknown", "failed"}
    BY <1>t DEF Inv, ReceiptsTruthful, TypeOK
  <2> QED  BY <1>t, <2>1, <2>2, RowStep
<1>7. ASSUME \/ Crash \/ UNCHANGED vars \/ \E n \in Notices : Age(n)
             \/ \E c \in Calls : Post(c) \/ Cancel(c)
      PROVE  UNCHANGED <<row, accepted>>
  BY <1>7 DEF Crash, vars, Age, Post, Cancel
<1> QED
  BY <1>1, <1>2, <1>3, <1>4, <1>5, <1>6, <1>7 DEF Next, Step, Over

\* The outbox implements the ledger of deliveries.
THEOREM ImplementsLedger == Spec => LedgerSpec
<1>1. Init => Ledger!Init
  BY DEF Init, Ledger!Init, Receipts
<1> QED
  BY <1>1, InvInit, InvStep, LedgerStep, PTL DEF Spec, LedgerSpec, Ledger!Spec

=============================================================================
