----------------------- MODULE SemanticBreakerProofs -----------------------
(***************************************************************************)
(* Proofs about SemanticBreaker for any number of concurrent calls, any    *)
(* threshold and any bound on the generations.                             *)
(***************************************************************************)
EXTENDS SemanticBreaker, TLAPS

Trial(s) == lease[s].held /\ lease[s].probe

\* What makes the properties inductive: a trial call belongs to the present
\* generation of a half-open breaker, and an ordinary call that belongs to the
\* present generation was admitted by a breaker that is still closed.  So no
\* report of an ordinary call reaches a breaker that is not closed.
Inv ==
  /\ BreakerTypeOK
  /\ \A s \in Slots : Trial(s) =>
       /\ lease[s].generation = breaker.generation
       /\ breaker.state = "half_open"
  /\ \A s \in Slots :
       lease[s].held /\ ~lease[s].probe
       /\ lease[s].generation = breaker.generation => breaker.state = "closed"
  /\ ProbeFlagExact
  /\ ClosedBelowThreshold

-----------------------------------------------------------------------------
(* The methods of the breaker *)

\* A report of another generation leaves the breaker as it is.
LEMMA StaleIgnored ==
  ASSUME NEW b, NEW l, l.generation # b.generation
  PROVE  AfterSuccess(b, l) = b /\ AfterFailure(b, l) = b
         /\ AfterRelease(b, l) = b
BY DEF AfterSuccess, AfterFailure, AfterRelease

\* What a trial's report makes of a half-open breaker: the trial is over.
LEMMA TrialReport ==
  ASSUME NEW b \in Breaker, NEW l \in Lease, l.probe,
         l.generation = b.generation, b.state = "half_open"
  PROVE  /\ AfterSuccess(b, l) =
              [b EXCEPT !.state = "closed", !.failures = 0, !.probing = FALSE]
         /\ AfterFailure(b, l) =
              [state |-> "open", generation |-> b.generation + 1,
               failures |-> b.failures + 1, probing |-> FALSE, cooled |-> FALSE]
         /\ AfterRelease(b, l) = [b EXCEPT !.probing = FALSE]
BY DEF AfterSuccess, AfterFailure, AfterRelease, GetState, Counted, Breaker, Lease

\* What an ordinary call's report makes of a closed breaker.
LEMMA CallReport ==
  ASSUME NEW b \in Breaker, NEW l \in Lease, ~l.probe,
         l.generation = b.generation, b.state = "closed", ~b.probing
  PROVE  /\ AfterSuccess(b, l) = [b EXCEPT !.failures = 0, !.probing = FALSE]
         /\ AfterRelease(b, l) = b
         /\ b.failures + 1 < Threshold =>
              AfterFailure(b, l) =
                [state |-> "closed", generation |-> b.generation,
                 failures |-> b.failures + 1, probing |-> FALSE, cooled |-> FALSE]
         /\ b.failures + 1 >= Threshold =>
              AfterFailure(b, l) =
                [state |-> "open", generation |-> b.generation + 1,
                 failures |-> b.failures + 1, probing |-> FALSE, cooled |-> FALSE]
<1>1. AfterSuccess(b, l) = [b EXCEPT !.failures = 0, !.probing = FALSE]
  BY DEF AfterSuccess, GetState
<1>2. AfterRelease(b, l) = b
  BY DEF AfterRelease
<1>3. AfterFailure(b, l) = Counted(b, l, b.failures + 1 >= Threshold)
  BY DEF AfterFailure, GetState
<1>4. /\ b.failures \in Nat /\ b.generation \in Nat /\ Threshold \in Nat
      /\ b = [state |-> b.state, generation |-> b.generation,
              failures |-> b.failures, probing |-> b.probing, cooled |-> b.cooled]
  BY BreakerAssumption DEF Breaker
<1>5. ASSUME b.failures + 1 < Threshold
      PROVE  AfterFailure(b, l) =
                [state |-> "closed", generation |-> b.generation,
                 failures |-> b.failures + 1, probing |-> FALSE, cooled |-> FALSE]
  <2>1. (b.failures + 1 >= Threshold) = FALSE
    BY <1>4, <1>5
  <2>2. (b.probing /\ ~FALSE /\ ~l.probe) = FALSE
    OBVIOUS
  <2>3. AfterFailure(b, l) = Counted(b, l, FALSE)
    BY <1>3, <2>1
  <2> QED  BY <2>2, <2>3 DEF Counted
<1>6. ASSUME b.failures + 1 >= Threshold
      PROVE  AfterFailure(b, l) =
                [state |-> "open", generation |-> b.generation + 1,
                 failures |-> b.failures + 1, probing |-> FALSE, cooled |-> FALSE]
  BY <1>3, <1>6 DEF Counted
<1> QED  BY <1>1, <1>2, <1>5, <1>6

-----------------------------------------------------------------------------
(* The invariant *)

LEMMA InvInit == BreakerInit => Inv
BY BreakerAssumption
   DEF BreakerInit, Inv, BreakerTypeOK, Breaker, Lease, NoLease, Trial, ProbeFlagExact,
       ClosedBelowThreshold

\* A call ends and leaves the breaker as it is, and no trial was under way with
\* it.
LEMMA EndFrame ==
  ASSUME Inv, NEW s \in Slots, End(s), ~Trial(s), UNCHANGED breaker
  PROVE  Inv'
<1>1. lease' = [lease EXCEPT ![s] = NoLease] /\ ~NoLease.held
      /\ NoLease \in Lease /\ NoLease.generation = 0
  BY DEF End, NoLease, Lease
<1>2. BreakerTypeOK'
  BY <1>1 DEF Inv, BreakerTypeOK, Breaker
<1>3. \A t \in Slots : lease'[t].held => t # s /\ lease'[t] = lease[t]
  BY <1>1 DEF Inv, BreakerTypeOK
<1>4. \A t \in Slots : t # s => lease'[t] = lease[t]
  BY <1>1 DEF Inv, BreakerTypeOK
<1>5. ProbeFlagExact'
  BY <1>3, <1>4 DEF Inv, ProbeFlagExact, Trial
<1> QED  BY <1>2, <1>3, <1>5 DEF Inv, Trial, ClosedBelowThreshold

\* The trial ends, and the breaker is no longer probing.
LEMMA TrialEnds ==
  ASSUME Inv, NEW s \in Slots, End(s), Trial(s), breaker' \in Breaker,
         ~breaker'.probing, breaker'.generation >= breaker.generation,
         breaker'.state # "closed" => breaker'.generation > breaker.generation
                                      \/ breaker'.state = "half_open",
         breaker'.state = "closed" => breaker'.failures = 0
  PROVE  Inv'
<1>1. lease' = [lease EXCEPT ![s] = NoLease] /\ ~NoLease.held
      /\ NoLease \in Lease /\ NoLease.generation = 0
  BY DEF End, NoLease, Lease
<1>2. BreakerTypeOK'
  BY <1>1 DEF Inv, BreakerTypeOK, Breaker, Lease
<1>3. \A t \in Slots : lease'[t].held =>
        t # s /\ lease'[t] = lease[t] /\ ~lease[t].probe
        /\ lease[t].generation < breaker.generation
  <2> TAKE t \in Slots
  <2> HAVE lease'[t].held
  <2>1. t # s /\ lease'[t] = lease[t] /\ lease[t].held
    BY <1>1 DEF Inv, BreakerTypeOK
  <2>2. ~lease[t].probe
    BY <2>1 DEF Inv, ProbeFlagExact, Trial
  <2>3. lease[t].generation # breaker.generation
    BY <2>1, <2>2 DEF Inv, Trial
  <2>4. lease[t].generation <= breaker.generation /\ lease[t].generation \in Nat
        /\ breaker.generation \in Nat
    BY DEF Inv, BreakerTypeOK, Lease, Breaker
  <2> QED  BY <2>1, <2>2, <2>3, <2>4
<1>4. ProbeFlagExact'
  BY <1>3 DEF ProbeFlagExact, Breaker
<1>5. ClosedBelowThreshold'
  BY BreakerAssumption DEF ClosedBelowThreshold
<1>6. \A t \in Slots : lease'[t].held => lease'[t].generation < breaker'.generation
  BY <1>3 DEF Inv, BreakerTypeOK, Lease, Breaker
<1> QED  BY <1>2, <1>3, <1>4, <1>5, <1>6 DEF Inv, Trial, BreakerTypeOK, Lease, Breaker

LEMMA AcquireInv ==
  ASSUME Inv, NEW s \in Slots, Acquire(s)
  PROVE  Inv'
<1>1. CASE /\ breaker.state = "closed" /\ UNCHANGED breaker
           /\ lease' = [lease EXCEPT ![s] =
                [held |-> TRUE, generation |-> breaker.generation,
                 probe |-> FALSE]]
  <2>1. BreakerTypeOK'
    BY <1>1 DEF Inv, BreakerTypeOK, Breaker, Lease
  <2>2. \A t \in Slots : /\ t # s => lease'[t] = lease[t]
                         /\ lease'[s].held /\ ~lease'[s].probe
    BY <1>1 DEF Inv, BreakerTypeOK
  <2>3. \A t \in Slots : ~Trial(t) /\ ~Trial(t)'
    BY <1>1, <2>2 DEF Inv, Trial
  <2>4. ProbeFlagExact'
    BY <1>1, <2>3 DEF Inv, ProbeFlagExact, Trial
  <2> QED  BY <1>1, <2>1, <2>3, <2>4 DEF Inv, ClosedBelowThreshold
<1>2. CASE /\ breaker.state # "closed" /\ ~breaker.probing
           /\ breaker' = [breaker EXCEPT !.state = "half_open", !.probing = TRUE]
           /\ lease' = [lease EXCEPT ![s] =
                [held |-> TRUE, generation |-> breaker.generation,
                 probe |-> TRUE]]
  <2>2. /\ breaker' \in Breaker
        /\ breaker'.state = "half_open" /\ breaker'.probing
        /\ breaker'.generation = breaker.generation
    BY <1>2 DEF Inv, BreakerTypeOK, Breaker
  <2>1. BreakerTypeOK'
    BY <1>2, <2>2 DEF Inv, BreakerTypeOK, Breaker, Lease
  <2>3. /\ \A t \in Slots : t # s => lease'[t] = lease[t] /\ ~Trial(t)
        /\ lease'[s].held /\ lease'[s].probe
        /\ lease'[s].generation = breaker.generation
    BY <1>2 DEF Inv, BreakerTypeOK, ProbeFlagExact, Trial
  <2>4. ProbeFlagExact'
    BY <2>2, <2>3 DEF ProbeFlagExact, Trial
  <2> QED  BY <1>2, <2>1, <2>2, <2>3, <2>4 DEF Inv, Trial, ClosedBelowThreshold
<1> QED  BY <1>1, <1>2 DEF Acquire, GetState

\* The three reports of a call keep the invariant.
LEMMA FinishInv ==
  ASSUME Inv, NEW s \in Slots, Finish(s)
  PROVE  Inv'
<1> DEFINE l == lease[s]
<1>t. /\ breaker \in Breaker /\ l \in Lease /\ l.held /\ End(s)
      /\ l.generation \in Nat /\ breaker.generation \in Nat
  BY DEF Finish, Succeed, Fail, Abandon, End, Inv, BreakerTypeOK, Breaker, Lease
<1>1. CASE Trial(s)
  <2>1. l.probe /\ l.generation = breaker.generation /\ breaker.state = "half_open"
    BY <1>1 DEF Inv, Trial
  <2>2. CASE Succeed(s)
    <3>1. /\ breaker' \in Breaker /\ ~breaker'.probing
          /\ breaker'.generation = breaker.generation
          /\ breaker'.state = "closed" /\ breaker'.failures = 0
      <4>1. breaker' = [breaker EXCEPT !.state = "closed", !.failures = 0,
                                    !.probing = FALSE]
        BY <1>t, <2>1, <2>2, TrialReport DEF Succeed
      <4> QED  BY <1>t, <2>1, <4>1 DEF Breaker
    <3> QED  BY <1>1, <1>t, <3>1, TrialEnds
  <2>3. CASE Fail(s)
    <3>1. /\ breaker' \in Breaker /\ ~breaker'.probing
          /\ breaker'.generation = breaker.generation + 1
          /\ breaker'.state = "open"
      <4>1. breaker' = [state |-> "open", generation |-> breaker.generation + 1,
                     failures |-> breaker.failures + 1, probing |-> FALSE,
                     cooled |-> FALSE]
        BY <1>t, <2>1, <2>3, TrialReport DEF Fail
      <4> QED  BY <1>t, <2>1, <4>1 DEF Breaker
    <3> QED  BY <1>1, <1>t, <3>1, TrialEnds
  <2>4. CASE Abandon(s)
    <3>1. /\ breaker' \in Breaker /\ ~breaker'.probing
          /\ breaker'.generation = breaker.generation
          /\ breaker'.state = "half_open"
      <4>1. breaker' = [breaker EXCEPT !.probing = FALSE]
        BY <1>t, <2>1, <2>4, TrialReport DEF Abandon
      <4> QED  BY <1>t, <2>1, <4>1 DEF Breaker
    <3> QED  BY <1>1, <1>t, <3>1, TrialEnds
  <2> QED  BY <2>2, <2>3, <2>4 DEF Finish
<1>2. CASE l.generation # breaker.generation
  <2>1. ~Trial(s)
    BY <1>2 DEF Inv
  <2>2. UNCHANGED breaker
    BY <1>2, StaleIgnored DEF Finish, Succeed, Fail, Abandon
  <2> QED  BY <1>t, <2>1, <2>2, EndFrame
<1>3. CASE ~l.probe /\ l.generation = breaker.generation
  <2>1. /\ breaker.state = "closed" /\ ~breaker.probing
        /\ \A t \in Slots : ~Trial(t)
    BY <1>3, <1>t DEF Inv, ProbeFlagExact, Trial
  <2>2. lease' = [lease EXCEPT ![s] = NoLease] /\ NoLease \in Lease
        /\ ~NoLease.held /\ NoLease.generation = 0
    BY <1>t DEF End, NoLease, Lease
  <2>3. \A t \in Slots : lease'[t].held =>
          lease'[t] = lease[t] /\ lease[t].generation <= breaker.generation
    BY <2>2 DEF Inv, BreakerTypeOK
  <2>4. \A t \in Slots : ~Trial(t)'
    BY <2>1, <2>3 DEF Trial
  <2>5. ASSUME breaker' \in Breaker, ~breaker'.probing,
               \/ /\ breaker'.state = "closed"
                  /\ breaker'.generation = breaker.generation
                  /\ breaker'.failures < Threshold
               \/ /\ breaker'.state = "open"
                  /\ breaker'.generation = breaker.generation + 1
        PROVE  Inv'
    <3>1. BreakerTypeOK'
      BY <1>t, <2>2, <2>5 DEF Inv, BreakerTypeOK, Breaker, Lease
    <3>2. ProbeFlagExact'
      BY <2>4, <2>5 DEF ProbeFlagExact, Trial
    <3>3. \A t \in Slots : lease'[t].held /\ lease'[t].generation = breaker'.generation
            => breaker'.state = "closed"
      BY <1>t, <2>3, <2>5 DEF Inv, BreakerTypeOK, Lease
    <3> QED  BY <2>4, <2>5, <3>1, <3>2, <3>3 DEF Inv, ClosedBelowThreshold
  <2>6. breaker.failures \in Nat /\ Threshold \in Nat \ {0}
    BY <1>t, BreakerAssumption DEF Breaker
  <2>7. CASE Succeed(s)
    <3>1. breaker' = [breaker EXCEPT !.failures = 0, !.probing = FALSE]
      BY <1>t, <1>3, <2>1, <2>7, CallReport DEF Succeed
    <3>2. /\ breaker' \in Breaker /\ ~breaker'.probing
          /\ breaker'.state = "closed" /\ breaker'.failures = 0
          /\ breaker'.generation = breaker.generation
      BY <1>t, <2>1, <3>1 DEF Breaker
    <3> QED  BY <2>5, <2>6, <3>2
  <2>8. CASE Fail(s)
    <3>1. CASE breaker.failures + 1 < Threshold
      <4>1. breaker' =
              [state |-> "closed", generation |-> breaker.generation,
               failures |-> breaker.failures + 1, probing |-> FALSE,
               cooled |-> FALSE]
        BY <1>t, <1>3, <2>1, <2>8, <3>1, CallReport DEF Fail
      <4>2. /\ breaker' \in Breaker /\ ~breaker'.probing
            /\ breaker'.state = "closed"
            /\ breaker'.failures = breaker.failures + 1
            /\ breaker'.generation = breaker.generation
        BY <1>t, <2>6, <4>1 DEF Breaker
      <4> QED  BY <2>5, <2>6, <3>1, <4>2
    <3>2. CASE breaker.failures + 1 >= Threshold
      <4>1. breaker' =
              [state |-> "open", generation |-> breaker.generation + 1,
               failures |-> breaker.failures + 1, probing |-> FALSE,
               cooled |-> FALSE]
        BY <1>t, <1>3, <2>1, <2>8, <3>2, CallReport DEF Fail
      <4>2. /\ breaker' \in Breaker /\ ~breaker'.probing
            /\ breaker'.state = "open"
            /\ breaker'.failures = breaker.failures + 1
            /\ breaker'.generation = breaker.generation + 1
        BY <1>t, <2>6, <4>1 DEF Breaker
      <4> QED  BY <2>5, <2>6, <3>2, <4>2
    <3> QED  BY <2>6, <3>1, <3>2
  <2>9. CASE Abandon(s)
    BY <1>t, <1>3, <2>1, <2>9, CallReport, EndFrame DEF Abandon, Trial
  <2> QED  BY <2>7, <2>8, <2>9 DEF Finish
<1> QED  BY <1>1, <1>2, <1>3, <1>t DEF Trial

LEMMA InvStep == Inv /\ [BreakerNext]_breakerVars => Inv'
<1> SUFFICES ASSUME Inv, [BreakerNext]_breakerVars PROVE Inv'
  OBVIOUS
<1>1. CASE Cool
  BY <1>1 DEF Cool, Inv, BreakerTypeOK, Breaker, Trial, ProbeFlagExact, ClosedBelowThreshold
<1>2. CASE UNCHANGED breakerVars
  BY <1>2 DEF breakerVars, Inv, BreakerTypeOK, Trial, ProbeFlagExact, ClosedBelowThreshold
<1> QED
  BY <1>1, <1>2, AcquireInv, FinishInv DEF BreakerNext, Idle

\* The breaker is well typed and no lease outruns its generation.
THEOREM TypeCorrect == BreakerSpec => []BreakerTypeOK
<1>1. Inv => BreakerTypeOK  BY DEF Inv
<1> QED  BY <1>1, InvInit, InvStep, PTL DEF BreakerSpec

\* One trial at a time, and the probe flag lasts exactly as long as it.
THEOREM ProbeFlagIsExact == BreakerSpec => []ProbeFlagExact
<1>1. Inv => ProbeFlagExact  BY DEF Inv
<1> QED  BY <1>1, InvInit, InvStep, PTL DEF BreakerSpec

\* A breaker with failure_threshold failures in a row is not closed.
THEOREM ClosedIsBelowThreshold == BreakerSpec => []ClosedBelowThreshold
<1>1. Inv => ClosedBelowThreshold  BY DEF Inv
<1> QED  BY <1>1, InvInit, InvStep, PTL DEF BreakerSpec

\* Both of them.
THEOREM BreakerIsSafe == BreakerSpec => []BreakerSafe
<1>1. ProbeFlagExact /\ ClosedBelowThreshold => BreakerSafe  BY DEF BreakerSafe
<1> QED  BY <1>1, ProbeFlagIsExact, ClosedIsBelowThreshold, PTL

-----------------------------------------------------------------------------
(* Steps: generations and the contract *)

\* What any step makes of the breaker.
StepKinds ==
  \/ UNCHANGED <<breaker.state, breaker.probing, breaker.generation>>
  \/ /\ breaker.state \in {"open", "half_open"} /\ breaker.probing = FALSE
     /\ breaker'.state = "half_open" /\ breaker'.probing = TRUE
     /\ breaker'.generation = breaker.generation
  \/ /\ breaker.state = "half_open" /\ breaker.probing = TRUE
     /\ breaker'.state \in {"closed", "open", "half_open"}
     /\ breaker'.probing = FALSE
     /\ breaker'.generation = IF breaker'.state = "open"
                             THEN breaker.generation + 1 ELSE breaker.generation
  \/ /\ breaker.state = "closed" /\ breaker'.state = "open"
     /\ breaker'.probing = breaker.probing
     /\ breaker'.generation = breaker.generation + 1

LEMMA StepKind == Inv /\ [BreakerNext]_breakerVars => StepKinds
<1> SUFFICES ASSUME Inv, [BreakerNext]_breakerVars PROVE StepKinds
  OBVIOUS
<1>t. breaker \in Breaker /\ lease \in [Slots -> Lease]
  BY DEF Inv, BreakerTypeOK
<1>1. CASE Cool
  BY <1>1, <1>t DEF Cool, StepKinds, Breaker
<1>2. CASE UNCHANGED breakerVars
  BY <1>2 DEF breakerVars, StepKinds
<1>3. ASSUME NEW s \in Slots, Acquire(s) PROVE StepKinds
  BY <1>3, <1>t DEF Acquire, GetState, StepKinds, Breaker
<1>4. ASSUME NEW s \in Slots, Finish(s) PROVE StepKinds
  <2> DEFINE l == lease[s]
  <2>t. l \in Lease /\ l.held
    BY <1>4, <1>t DEF Finish, Succeed, Fail, Abandon, End
  <2>1. CASE Trial(s)
    <3>1. /\ l.probe /\ l.generation = breaker.generation
          /\ breaker.state = "half_open" /\ breaker.probing = TRUE
      BY <1>t, <2>1 DEF Inv, Trial, ProbeFlagExact, Breaker
    <3>2. \/ breaker' = [breaker EXCEPT !.state = "closed", !.failures = 0,
                                       !.probing = FALSE]
          \/ breaker' = [state |-> "open", generation |-> breaker.generation + 1,
                         failures |-> breaker.failures + 1, probing |-> FALSE,
                         cooled |-> FALSE]
          \/ breaker' = [breaker EXCEPT !.probing = FALSE]
      BY <1>4, <1>t, <2>t, <3>1, TrialReport DEF Finish, Succeed, Fail, Abandon
    <3>3. /\ breaker'.state \in {"closed", "open", "half_open"}
          /\ breaker'.probing = FALSE
          /\ breaker'.generation = IF breaker'.state = "open"
                                  THEN breaker.generation + 1
                                  ELSE breaker.generation
      <4>1. CASE breaker' = [breaker EXCEPT !.state = "closed", !.failures = 0,
                                            !.probing = FALSE]
        BY <1>t, <4>1 DEF Breaker
      <4>2. CASE breaker' =
                   [state |-> "open", generation |-> breaker.generation + 1,
                    failures |-> breaker.failures + 1, probing |-> FALSE,
                    cooled |-> FALSE]
        BY <4>2
      <4>3. CASE breaker' = [breaker EXCEPT !.probing = FALSE]
        BY <1>t, <3>1, <4>3 DEF Breaker
      <4> QED  BY <3>2, <4>1, <4>2, <4>3
    <3> QED  BY <3>1, <3>3 DEF StepKinds
  <2>2. CASE l.generation # breaker.generation
    BY <1>4, <2>2, StaleIgnored DEF Finish, Succeed, Fail, Abandon, StepKinds
  <2>3. CASE ~l.probe /\ l.generation = breaker.generation
    <3>1. breaker.state = "closed" /\ breaker.probing = FALSE
      BY <1>t, <2>3, <2>t DEF Inv, ProbeFlagExact, Trial, Breaker
    <3>2. \/ breaker' = [breaker EXCEPT !.failures = 0, !.probing = FALSE]
          \/ breaker' = breaker
          \/ breaker' = [state |-> "closed", generation |-> breaker.generation,
                         failures |-> breaker.failures + 1, probing |-> FALSE,
                         cooled |-> FALSE]
          \/ breaker' = [state |-> "open", generation |-> breaker.generation + 1,
                         failures |-> breaker.failures + 1, probing |-> FALSE,
                         cooled |-> FALSE]
      <4>1. \/ breaker.failures + 1 < Threshold
            \/ breaker.failures + 1 >= Threshold
        BY <1>t, BreakerAssumption DEF Breaker
      <4> QED
        BY <1>4, <1>t, <2>t, <2>3, <3>1, <4>1, CallReport
           DEF Finish, Succeed, Fail, Abandon
    <3>3. /\ breaker'.probing = breaker.probing
          /\ \/ /\ breaker'.state = breaker.state
                /\ breaker'.generation = breaker.generation
             \/ /\ breaker'.state = "open"
                /\ breaker'.generation = breaker.generation + 1
      <4>1. CASE breaker' = [breaker EXCEPT !.failures = 0, !.probing = FALSE]
        BY <1>t, <3>1, <4>1 DEF Breaker
      <4>2. CASE breaker' = breaker
        BY <4>2
      <4>3. CASE breaker' =
                   [state |-> "closed", generation |-> breaker.generation,
                    failures |-> breaker.failures + 1, probing |-> FALSE,
                    cooled |-> FALSE]
        BY <3>1, <4>3
      <4>4. CASE breaker' =
                   [state |-> "open", generation |-> breaker.generation + 1,
                    failures |-> breaker.failures + 1, probing |-> FALSE,
                    cooled |-> FALSE]
        BY <3>1, <4>4
      <4> QED  BY <3>2, <4>1, <4>2, <4>3, <4>4
    <3> QED  BY <3>1, <3>3 DEF StepKinds
  <2> QED  BY <2>1, <2>2, <2>3, <2>t DEF Trial
<1> QED  BY <1>1, <1>2, <1>3, <1>4 DEF BreakerNext, Idle

\* Every opening starts a new generation and none returns.
THEOREM GenerationsAreNew == BreakerSpec => GenerationsNew
<1>1. Inv /\ [BreakerNext]_breakerVars =>
        [/\ breaker'.generation >= breaker.generation
         /\ breaker'.state = "open" /\ breaker.state # "open"
              => breaker'.generation > breaker.generation]_breakerVars
  BY StepKind DEF StepKinds, Inv, BreakerTypeOK, Breaker, breakerVars
<1> QED  BY <1>1, InvInit, InvStep, PTL DEF BreakerSpec, GenerationsNew

\* The breaker implements its contract.
THEOREM KeepsContract == BreakerSpec => ContractSpec
<1>1. BreakerInit => Contract!Init
  BY DEF BreakerInit, Contract!Init
<1>2. Inv /\ [BreakerNext]_breakerVars => [Contract!Next]_Contract!vars
  BY StepKind DEF StepKinds, Contract!Next, Contract!Trip, Contract!Try,
     Contract!EndTrial, Contract!vars
<1> QED
  BY <1>1, <1>2, InvInit, InvStep, PTL DEF BreakerSpec, ContractSpec, Contract!Spec

=============================================================================
