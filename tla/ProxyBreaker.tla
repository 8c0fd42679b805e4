---------------------------- MODULE ProxyBreaker ----------------------------
(***************************************************************************)
(* The circuit breaker of one proxy, backend/services/                     *)
(* proxy_circuit_breaker.py, between the calls of probe_proxy_exit         *)
(* (backend/utils/proxy.py) in several processes: the state file they      *)
(* share, the copy of it each process keeps, the probe lease of the half-  *)
(* open state, late results, and a file that cannot be read or written.    *)
(***************************************************************************)
EXTENDS Naturals

CONSTANTS
  Probes,     \* calls of probe_proxy_exit that find nothing in its cache
  Processes,  \* processes that share the working directory
  ProcessOf   \* the process of a call

ASSUME ProxyAssumption == ProcessOf \in [Probes -> Processes]

VARIABLES
  shared,    \* the entry of the proxy in the state file; at: the trip of its tripped_at
  recalled,  \* what each process remembers of it: _states, _fail_counts, _tripped_at
  lease,     \* calls that hold the lease file lock
  stage,     \* where each call is
  trips,     \* how often the breaker has tripped
  cooled,    \* trips whose cooldown has passed
  tripped,   \* the breaker has tripped and nothing succeeded since
  aware,     \* processes that have recorded or read the last trip since they started
  entryLost  \* the last trip was torn out of the file, or overwritten unread
proxyVars == <<shared, recalled, lease, stage, trips, cooled, tripped, aware, entryLost>>

\* A file that is missing, torn or holds no entry of this proxy: all read as {}.
NoEntry == [state |-> "none", count |-> 0, at |-> 0]
Healthy == [state |-> "healthy", count |-> 0, at |-> 0]
Degraded == [state |-> "degraded", count |-> 2, at |-> 0]
HalfOpen(e) == [e EXCEPT !.state = "half-open"]

\* The file may be there from an earlier run.
ProxyInit ==
  /\ shared \in {NoEntry, Degraded}
  /\ recalled = [p \in Processes |-> Healthy]
  /\ lease = {}
  /\ stage = [c \in Probes |-> "new"]
  /\ trips = 0 /\ cooled = 0 /\ tripped = FALSE
  /\ aware = {} /\ entryLost = FALSE

MoveTo(c, s) == stage' = [stage EXCEPT ![c] = s]
Remember(c, e) == recalled' = [recalled EXCEPT ![ProcessOf[c]] = e]

\* No call of the process is between its read of the file and its write: the event
\* loop runs them without an await.
LoopFree(c) ==
  \A d \in Probes : ProcessOf[d] = ProcessOf[c] => stage[d] \notin {"reopen", "repoll"}

\* The lock of the file is not had in two seconds, or the file cannot be written, and a
\* write that fails half way leaves it torn.
WriteFails ==
  /\ shared' \in {shared, NoEntry}
  /\ entryLost' = (entryLost \/ shared' # shared)

-----------------------------------------------------------------------------
(* record_failure and record_success: one read-modify-write under the file lock *)

\* (seeded fault) a breaker that trips again keeps the time of its first trip
AfterFailureKeepsTime(e) ==
  LET n == e.count + 1
  IN [state |-> IF n >= 3 THEN "tripped" ELSE IF n = 2 THEN "degraded" ELSE "healthy",
      count |-> n, at |-> IF n = 3 THEN trips + 1 ELSE e.at]

AfterFailure(e) ==
  LET n == e.count + 1
  IN [state |-> IF n >= 3 THEN "tripped" ELSE IF n = 2 THEN "degraded" ELSE "healthy",
      count |-> n, at |-> IF n >= 3 THEN trips + 1 ELSE e.at]

\* An entry that cannot be read is counted from nothing; a failure that cannot be
\* written is not counted.
RecordFailure(c) ==
  \/ \E e \in {AfterFailure(shared), AfterFailure(NoEntry)} :
       /\ shared' = e /\ Remember(c, e)
       /\ IF e.state = "tripped"
          THEN /\ trips' = trips + 1 /\ tripped' = TRUE
               /\ aware' = {ProcessOf[c]} /\ entryLost' = FALSE
          ELSE /\ entryLost' = (entryLost \/ e # AfterFailure(shared))
               /\ UNCHANGED <<trips, tripped, aware>>
  \/ WriteFails /\ UNCHANGED <<recalled, trips, tripped, aware>>

\* A success that cannot be written leaves the state the process remembers.
RecordSuccess(c) ==
  /\ \/ shared' = Healthy /\ Remember(c, Healthy)
     \/ /\ shared' \in {shared, NoEntry}
        /\ Remember(c, [recalled[ProcessOf[c]] EXCEPT !.count = 0, !.at = 0])
  /\ tripped' = FALSE /\ entryLost' = FALSE
  /\ UNCHANGED <<trips, aware>>

-----------------------------------------------------------------------------
(* is_available *)

\* get_state takes the entry e from the file, or from the memory of the process when
\* the file cannot be read.
Looks(c, e) ==
  \/ shared # NoEntry /\ e = shared /\ aware' = aware \cup {ProcessOf[c]}
  \/ e = recalled[ProcessOf[c]] /\ aware' = aware

CooledDown(e) == e.state = "tripped" /\ e.at <= cooled
CoolsDown(e) == e.state = "tripped" /\ e.at > cooled

\* In the half-open state the call that gets the lease probes, others poll.
TryLease(c) ==
  IF lease = {} THEN lease' = {c} /\ MoveTo(c, "probing")
  ELSE lease' = lease /\ MoveTo(c, "polling")

\* A breaker whose cooldown is over is reopened, by a second access to the file.
Ask(c) ==
  /\ stage[c] = "new" /\ LoopFree(c)
  /\ \E e \in {shared, recalled[ProcessOf[c]]} :
       /\ Looks(c, e)
       /\ \/ e.state \in {"healthy", "degraded"} /\ MoveTo(c, "through")
             /\ Remember(c, e) /\ UNCHANGED lease
          \/ CoolsDown(e) /\ MoveTo(c, "done") /\ Remember(c, e) /\ UNCHANGED lease
          \/ CooledDown(e) /\ MoveTo(c, "reopen") /\ Remember(c, HalfOpen(e)) /\ UNCHANGED lease
          \/ e.state = "half-open" /\ TryLease(c) /\ Remember(c, e)
  /\ UNCHANGED <<shared, trips, cooled, tripped, entryLost>>

\* _update_shared_state writes what the process remembers, whatever the file holds now.
Reopen(c) ==
  /\ stage[c] \in {"reopen", "repoll"}
  /\ \/ /\ shared' = recalled[ProcessOf[c]]
        /\ entryLost' = (entryLost \/ shared' # HalfOpen(shared))
     \/ WriteFails
  /\ IF stage[c] = "reopen" THEN TryLease(c)
     ELSE MoveTo(c, "polling") /\ UNCHANGED lease
  /\ UNCHANGED <<recalled, trips, cooled, tripped, aware>>

\* The probe through the proxy; its result is recorded and the lease released.
ProbeEnds(c) ==
  /\ stage[c] = "probing" /\ LoopFree(c)
  /\ lease' = lease \ {c}
  /\ \/ RecordSuccess(c) /\ MoveTo(c, "through")
     \/ RecordFailure(c) /\ MoveTo(c, "done")
  /\ UNCHANGED cooled

\* A call without the lease looks at the state again until it is not half open.
Poll(c) ==
  /\ stage[c] = "polling" /\ LoopFree(c)
  /\ \E e \in {shared, recalled[ProcessOf[c]]} :
       /\ Looks(c, e)
       /\ \/ e.state \in {"healthy", "degraded"} /\ MoveTo(c, "through") /\ Remember(c, e)
          \/ CoolsDown(e) /\ MoveTo(c, "done") /\ Remember(c, e)
          \/ CooledDown(e) /\ MoveTo(c, "repoll") /\ Remember(c, HalfOpen(e))
          \/ e.state = "half-open" /\ Remember(c, e) /\ UNCHANGED stage
  /\ UNCHANGED <<shared, lease, trips, cooled, tripped, entryLost>>

-----------------------------------------------------------------------------
(* The call that was let through, the end of a call, time, and processes *)

\* probe_proxy_exit compares the exit address and records the result.
ExitKnown(c) ==
  /\ stage[c] = "through" /\ LoopFree(c)
  /\ RecordSuccess(c) \/ RecordFailure(c)
  /\ MoveTo(c, "done")
  /\ UNCHANGED <<lease, cooled>>

\* A call is cancelled, or has polled forty times: nothing is recorded.
GivesUp(c) ==
  /\ stage[c] \in {"probing", "polling", "through"}
  /\ lease' = lease \ {c} /\ MoveTo(c, "done")
  /\ UNCHANGED <<shared, recalled, trips, cooled, tripped, aware, entryLost>>

CooldownPasses ==
  /\ cooled < trips /\ cooled' = cooled + 1
  /\ UNCHANGED <<shared, recalled, lease, stage, trips, tripped, aware, entryLost>>

\* An update of another proxy's entry that cannot read the file writes it anew.
Rebuilt ==
  /\ shared # NoEntry /\ shared' = NoEntry /\ entryLost' = TRUE
  /\ UNCHANGED <<recalled, lease, stage, trips, cooled, tripped, aware>>

\* Stages of a call that writes the file next.
Writers == {"reopen", "repoll", "probing", "through"}

\* A process stops and may start again with nothing in its memory; the operating system
\* releases its file locks, and a file it was about to write may be torn.
ProcessStops(p) ==
  /\ stage' = [c \in Probes |->
       IF ProcessOf[c] = p /\ stage[c] # "new" THEN "done" ELSE stage[c]]
  /\ lease' = {c \in lease : ProcessOf[c] # p}
  /\ recalled' = [recalled EXCEPT ![p] = Healthy]
  /\ aware' = aware \ {p}
  /\ \/ UNCHANGED <<shared, entryLost>>
     \/ /\ \E c \in Probes : ProcessOf[c] = p /\ stage[c] \in Writers
        /\ shared' = NoEntry /\ entryLost' = TRUE
  /\ UNCHANGED <<trips, cooled, tripped>>

ProxyNext ==
  \/ \E c \in Probes :
       Ask(c) \/ Reopen(c) \/ ProbeEnds(c) \/ Poll(c) \/ ExitKnown(c) \/ GivesUp(c)
  \/ CooldownPasses \/ Rebuilt
  \/ \E p \in Processes : ProcessStops(p)

ProxySpec == ProxyInit /\ [][ProxyNext]_proxyVars

-----------------------------------------------------------------------------
(* Properties *)

\* One call at most holds the lease, and it is the one that probes; the entry of
\* the file is healthy, degraded or tripped as its count says.
ProxyTypeOK ==
  /\ shared.count \in Nat /\ shared.at \in 0 .. trips /\ cooled \in 0 .. trips
  /\ shared.state \in {"none", "healthy", "degraded", "tripped", "half-open"}
  /\ shared.state = "degraded" <=> shared.count = 2
  /\ lease = {c \in Probes : stage[c] = "probing"}
  /\ \A c, d \in lease : c = d

\* Fail closed: a process that has read or recorded the last trip since it started lets
\* no call through before something succeeds, and begins no probe before a full
\* cooldown, also when it can no longer read the file, results come late or another
\* process reopens the breaker. Only a trip torn out of the file, or overwritten unread,
\* by a write that fails, a stop or another update, may be forgotten.
FailsClosed ==
  [][\A c \in Probes : tripped' /\ ~entryLost' /\ ProcessOf[c] \in aware' =>
       /\ stage'[c] = "through" => stage[c] = "through"
       /\ stage'[c] = "probing" => stage[c] = "probing" \/ cooled = trips]_proxyVars
=============================================================================
