-------------------------- MODULE SemanticBreaker --------------------------
(***************************************************************************)
(* The circuit breaker of the semantic (JEV) service,                      *)
(* tg_signer/semantic/breaker.py, as JevClient.query_choice uses it: every *)
(* call takes a ProbeLease, awaits the provider, and reports success,      *)
(* failure or neither through the lease, exactly once.  The concurrent     *)
(* calls are the places of the semaphore of SemanticService.evaluate.      *)
(* The methods of the breaker do not await, so each is one step.           *)
(***************************************************************************)
EXTENDS Naturals

CONSTANTS
  Slots,         \* places of the semaphore (max_concurrency)
  Threshold,     \* failure_threshold
  MaxGeneration  \* bound: calls are admitted below this generation

ASSUME BreakerAssumption ==
  Threshold \in Nat \ {0} /\ MaxGeneration \in Nat

VARIABLES
  breaker,  \* the fields of the CircuitBreaker
  lease     \* the unfinished ProbeLease of each place
breakerVars == <<breaker, lease>>

\* cooled: recovery_timeout has passed since last_failure_time.
Breaker == [state : {"closed", "open", "half_open"}, generation : Nat,
            failures : Nat, probing : BOOLEAN, cooled : BOOLEAN]
Lease == [held : BOOLEAN, generation : Nat, probe : BOOLEAN]
NoLease == [held |-> FALSE, generation |-> 0, probe |-> FALSE]

BreakerInit ==
  /\ breaker = [state |-> "closed", generation |-> 0, failures |-> 0,
                probing |-> FALSE, cooled |-> FALSE]
  /\ lease = [s \in Slots |-> NoLease]

-----------------------------------------------------------------------------
(* The methods of CircuitBreaker *)

\* get_state: an open breaker counts as half open once it has cooled.
GetState(b) ==
  IF b.state = "open" /\ b.cooled THEN "half_open" ELSE b.state

\* (seeded fault) any late success closes the breaker
AnySuccess(b, l) ==
  IF GetState(b) = "open" THEN b
  ELSE [b EXCEPT !.state = "closed", !.failures = 0, !.probing = FALSE]

\* record_success: only the probe of the current generation closes a half-open
\* breaker; in a closed one it ends the series of failures.
AfterSuccess(b, l) ==
  IF l.generation # b.generation \/ GetState(b) = "open" THEN b
  ELSE IF b.state = "closed" THEN [b EXCEPT !.failures = 0, !.probing = FALSE]
  ELSE IF l.probe
       THEN [b EXCEPT !.state = "closed", !.failures = 0, !.probing = FALSE]
       ELSE [b EXCEPT !.state = "half_open"]

\* A failure of the current generation; it opens the breaker when trips holds.
Counted(b, l, trips) ==
  [state |-> IF trips THEN "open" ELSE b.state,
   generation |-> IF trips THEN b.generation + 1 ELSE b.generation,
   failures |-> b.failures + 1,
   probing |-> b.probing /\ ~trips /\ ~l.probe,
   cooled |-> FALSE]

\* (seeded fault) failures of earlier generations count
AnyFailure(b, l) ==
  Counted(b, l, GetState(b) = "half_open" \/ b.failures + 1 >= Threshold)

\* record_failure
AfterFailure(b, l) ==
  IF l.generation # b.generation THEN b
  ELSE Counted(b, l, GetState(b) = "half_open" \/ b.failures + 1 >= Threshold)

\* (seeded fault) the lease is dropped without being released
NotReleased(b, l) == b

\* release_probe
AfterRelease(b, l) ==
  IF l.generation = b.generation /\ l.probe
  THEN [b EXCEPT !.probing = FALSE] ELSE b

-----------------------------------------------------------------------------
(* Calls *)

\* acquire: a closed breaker admits every call, a half-open one admits a probe.
\* A refused call changes nothing and is escalated to manual review.
Acquire(s) ==
  /\ ~lease[s].held /\ breaker.generation < MaxGeneration
  /\ \/ /\ GetState(breaker) = "closed"
        /\ lease' = [lease EXCEPT ![s] =
             [held |-> TRUE, generation |-> breaker.generation, probe |-> FALSE]]
        /\ UNCHANGED breaker
     \/ /\ GetState(breaker) = "half_open" /\ ~breaker.probing
        /\ lease' = [lease EXCEPT ![s] =
             [held |-> TRUE, generation |-> breaker.generation, probe |-> TRUE]]
        /\ breaker' = [breaker EXCEPT !.state = "half_open", !.probing = TRUE]

\* The end of a call; the lease reports once (ProbeLease.finished).
End(s) == lease[s].held /\ lease' = [lease EXCEPT ![s] = NoLease]

\* The provider chose one of the offered choices.
Succeed(s) == End(s) /\ breaker' = AfterSuccess(breaker, lease[s])

\* Refused credentials, the last retry failed, an unusable answer, an exception.
Fail(s) == End(s) /\ breaker' = AfterFailure(breaker, lease[s])

\* A cache hit, the local deadline or a CancelledError: the finally block
\* releases the lease, nothing is counted.
Abandon(s) == End(s) /\ breaker' = AfterRelease(breaker, lease[s])

\* recovery_timeout passes.
Cool ==
  /\ breaker.state = "open" /\ ~breaker.cooled
  /\ breaker' = [breaker EXCEPT !.cooled = TRUE]
  /\ UNCHANGED lease

\* No call is in flight (not a step of the program).
Idle == (\A s \in Slots : ~lease[s].held) /\ UNCHANGED breakerVars

Finish(s) == Succeed(s) \/ Fail(s) \/ Abandon(s)
BreakerNext == Cool \/ Idle \/ \E s \in Slots : Acquire(s) \/ Finish(s)

BreakerSpec == BreakerInit /\ [][BreakerNext]_breakerVars

\* asyncio.wait_for bounds every call by the total budget, and the finally
\* block always finishes the lease.
BreakerFairness == \A s \in Slots : WF_breakerVars(Finish(s))
BreakerFairSpec == BreakerSpec /\ BreakerFairness

-----------------------------------------------------------------------------
(* Properties *)

\* The breaker's fields and the leases keep to their types; no lease is of a
\* generation that the breaker has not reached, so a generation never returns
\* to make an old answer count again.
BreakerTypeOK ==
  /\ breaker \in Breaker /\ lease \in [Slots -> Lease]
  /\ \A s \in Slots : lease[s].generation <= breaker.generation

\* One trial call at a time (CircuitBreaker: half_open admits exactly one), and
\* _probe_in_flight is set exactly while it lasts: a breaker is never stuck half
\* open behind a probe that is gone, whatever late answers arrive meanwhile.
ProbeFlagExact ==
  /\ \A s, t \in Slots :
       lease[s].held /\ lease[s].probe /\ lease[t].held /\ lease[t].probe => s = t
  /\ breaker.probing <=> \E s \in Slots : lease[s].held /\ lease[s].probe

\* A closed breaker has seen fewer than failure_threshold failures in a row, so
\* it cannot go on admitting calls to a provider that fails.
ClosedBelowThreshold ==
  breaker.state = "closed" => breaker.failures < Threshold

\* Both: the breaker lets through neither two trials nor calls to a provider that
\* has failed Threshold times, and never gets stuck half open.
BreakerSafe == ProbeFlagExact /\ ClosedBelowThreshold

\* Every opening starts a new generation and none returns: an answer to a call
\* admitted before an opening never counts again (record_success and
\* record_failure: reports of earlier generations are dropped).
GenerationsNew ==
  [][/\ breaker'.generation >= breaker.generation
     /\ breaker'.state = "open" /\ breaker.state # "open"
          => breaker'.generation > breaker.generation]_breakerVars

\* The breaker keeps BreakerContract: late answers of earlier generations
\* neither close it nor start a second trial; every trial ends.
Contract == INSTANCE BreakerContract
              WITH mode <- breaker.state, trial <- breaker.probing
ContractSpec == Contract!Spec
ContractFairSpec == Contract!FairSpec

=============================================================================
