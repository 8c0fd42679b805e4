--------------------------- MODULE ClientRegistry ---------------------------
(***************************************************************************)
(* The shared Telegram client of one account (tg_signer/core/client.py): a *)
(* cached instance, a count of its users and a lock that serialises its    *)
(* start and its stop.  Sign runs, the keyword monitor and the routes take *)
(* the client from the cache first and enter it later; close_client_by_name*)
(* closes it under all of them.                                            *)
(***************************************************************************)
EXTENDS Integers, FiniteSets

CONSTANTS
  ClientUsers,  \* coroutines that use the client, again and again
  MaxClients,   \* bound: instances ever made
  MaxCloses     \* bound: calls of close_client_by_name


Clients == 1 .. MaxClients
NoClient == 0
LockIds == 1 .. MaxCloses + 1  \* every close by name makes way for a new lock
NoUser == "nobody"
Closer == "closer"

ASSUME ClientAssumption ==
  /\ MaxClients \in Nat /\ MaxCloses \in Nat
  /\ IsFiniteSet(ClientUsers) /\ NoUser \notin ClientUsers /\ Closer \notin ClientUsers

VARIABLES
  instance,   \* _CLIENT_INSTANCES[key]
  refs,       \* _CLIENT_REFS[key]
  connected,  \* the clients with a connection
  made,       \* instances made so far
  lockId,     \* the lock in _CLIENT_ASYNC_LOCKS
  heldBy,     \* who holds each lock
  use,        \* where each user is, with its client and the lock it asked for
  closing,    \* close_client_by_name
  closes
clientVars == <<instance, refs, connected, made, lockId, heldBy, use, closing, closes>>

ClientInit ==
  /\ instance = NoClient /\ refs = 0 /\ connected = {} /\ made = 0
  /\ lockId = 1 /\ heldBy = [k \in LockIds |-> NoUser]
  /\ use = [u \in ClientUsers |-> [at |-> "away", client |-> NoClient, lock |-> 1]]
  /\ closing = [at |-> "no", lock |-> 1, client |-> NoClient] /\ closes = 0

Goes(u, where) == use' = [use EXCEPT ![u].at = where]
Unlock(k) == heldBy' = [heldBy EXCEPT ![k] = NoUser]

-----------------------------------------------------------------------------
(* get_client *)

\* The cached instance, or a new one: also when an unused one has other
\* parameters than this caller asks for.
GetClient(u) ==
  /\ use[u].at = "away"
  /\ \/ /\ instance # NoClient
        /\ use' = [use EXCEPT ![u] = [@ EXCEPT !.at = "got", !.client = instance]]
        /\ UNCHANGED <<instance, made>>
     \/ /\ instance = NoClient \/ (refs <= 0 /\ instance \notin connected)
        /\ made < MaxClients
        /\ made' = made + 1 /\ instance' = made + 1
        /\ use' = [use EXCEPT ![u] = [@ EXCEPT !.at = "got", !.client = made + 1]]
  /\ UNCHANGED <<refs, connected, lockId, heldBy, closing, closes>>

-----------------------------------------------------------------------------
(* __aenter__ *)

Enter(u) ==
  /\ use[u].at = "got"
  /\ use' = [use EXCEPT ![u] = [@ EXCEPT !.at = "entering", !.lock = lockId]]
  /\ UNCHANGED <<instance, refs, connected, made, lockId, heldBy, closing, closes>>

\* Only the first user connects; the others go on at once.
EnterLocked(u) ==
  /\ use[u].at = "entering" /\ heldBy[use[u].lock] = NoUser
  /\ refs' = refs + 1
  /\ IF refs = 0
     THEN Goes(u, "connecting") /\ heldBy' = [heldBy EXCEPT ![use[u].lock] = u]
     ELSE Goes(u, "using") /\ UNCHANGED heldBy
  /\ UNCHANGED <<instance, connected, made, lockId, closing, closes>>

Connects(u) ==
  /\ use[u].at = "connecting" /\ Goes(u, "using")
  /\ connected' = connected \cup {use[u].client}
  /\ Unlock(use[u].lock)
  /\ UNCHANGED <<instance, refs, made, lockId, closing, closes>>

\* (seeded fault) the count is not kept from falling below zero
BelowZero(n) == n - 1

\* What is left of the count after a user: it never stays below zero.
OneLess(n) == IF n <= 1 THEN 0 ELSE n - 1

\* The retries are exhausted, the session is invalid, or the user is cancelled.
ConnectFails(u) ==
  /\ use[u].at = "connecting" /\ Goes(u, "away")
  /\ refs' = OneLess(refs)
  /\ instance' = IF refs <= 1 THEN NoClient ELSE instance
  /\ connected' = IF refs <= 1 THEN connected \ {use[u].client} ELSE connected
  /\ Unlock(use[u].lock)
  /\ UNCHANGED <<made, lockId, closing, closes>>

-----------------------------------------------------------------------------
(* __aexit__ *)

Exit(u) ==
  /\ use[u].at = "using"
  /\ use' = [use EXCEPT ![u] = [@ EXCEPT !.at = "leaving", !.lock = lockId]]
  /\ UNCHANGED <<instance, refs, connected, made, lockId, heldBy, closing, closes>>

\* (seeded fault) the last user forgets the client before it has stopped it
ForgetFirst(u) ==
  /\ use[u].at = "leaving" /\ heldBy[use[u].lock] = NoUser
  /\ refs' = OneLess(refs)
  /\ Goes(u, IF refs <= 1 THEN "stopping" ELSE "away") /\ UNCHANGED heldBy
  /\ UNCHANGED <<instance, connected, made, lockId, closing, closes>>

\* The last user stops the client and holds the lock meanwhile.
ExitLocked(u) ==
  /\ use[u].at = "leaving" /\ heldBy[use[u].lock] = NoUser
  /\ refs' = OneLess(refs)
  /\ IF refs <= 1
     THEN Goes(u, "stopping") /\ heldBy' = [heldBy EXCEPT ![use[u].lock] = u]
     ELSE Goes(u, "away") /\ UNCHANGED heldBy
  /\ UNCHANGED <<instance, connected, made, lockId, closing, closes>>

Stopped(u) ==
  /\ use[u].at = "stopping" /\ Goes(u, "away")
  /\ connected' = connected \ {use[u].client}
  /\ instance' = NoClient /\ refs' = 0
  /\ Unlock(use[u].lock)
  /\ UNCHANGED <<made, lockId, closing, closes>>

-----------------------------------------------------------------------------
(* close_client_by_name *)

CloseByName ==
  /\ closing.at = "no" /\ closes < MaxCloses
  /\ closing' = [at |-> "locking", lock |-> lockId, client |-> NoClient]
  /\ closes' = closes + 1
  /\ UNCHANGED <<instance, refs, connected, made, lockId, heldBy, use>>

\* The lock was taken, or not within five seconds: the count is reset and the
\* client stopped all the same.
CloseLocked ==
  /\ closing.at = "locking"
  /\ \/ /\ heldBy[closing.lock] = NoUser
        /\ heldBy' = [heldBy EXCEPT ![closing.lock] = Closer]
     \/ heldBy[closing.lock] # NoUser /\ UNCHANGED heldBy
  /\ refs' = 0
  /\ closing' = [closing EXCEPT !.at = "stopping", !.client = instance]
  /\ UNCHANGED <<instance, connected, made, lockId, use, closes>>

\* invalidate_cached_client: the instance, the count and the lock are dropped.
CloseDone ==
  /\ closing.at = "stopping"
  /\ closing' = [closing EXCEPT !.at = "no"]
  /\ connected' = connected \ {closing.client}
  /\ instance' = NoClient /\ refs' = 0
  /\ lockId' = lockId + 1
  /\ heldBy' = [k \in LockIds |-> IF heldBy[k] = Closer THEN NoUser ELSE heldBy[k]]
  /\ UNCHANGED <<made, use, closes>>

ClientStep(u) ==
  \/ GetClient(u) \/ Enter(u) \/ EnterLocked(u) \/ Connects(u) \/ ConnectFails(u)
  \/ Exit(u) \/ ExitLocked(u) \/ Stopped(u)

ClientNext ==
  \/ \E u \in ClientUsers : ClientStep(u)
  \/ CloseByName \/ CloseLocked \/ CloseDone

ClientSpec == ClientInit /\ [][ClientNext]_clientVars

-----------------------------------------------------------------------------
(* Properties *)

At(phases) == {u \in ClientUsers : use[u].at \in phases}

\* The count never falls below zero, also behind a close that reset it; a lock
\* has one holder, and nobody asks for one that was never made.
ClientTypeOK ==
  /\ instance \in 0 .. made /\ made <= MaxClients /\ refs \in Nat
  /\ connected \subseteq 0 .. made /\ lockId \in LockIds
  /\ heldBy \in [LockIds -> ClientUsers \cup {NoUser, Closer}]
  /\ \A u \in ClientUsers : use[u].client \in 0 .. made /\ use[u].lock \in 1 .. lockId
  /\ closing.lock \in 1 .. lockId

\* Until the client is closed by name, it is started and stopped by one coroutine
\* at a time, so that nothing connects while a stop() is still going on (the
\* comment on the lock that __aexit__ keeps).
TransitionsExclusive == closes = 0 => Cardinality(At({"connecting", "stopping"})) <= 1

\* Until then the count is exact, whoever fails to connect or is cancelled: a
\* sign run that ends can trust get_client_refcount before it stops a client.
RefsCountUsers ==
  closes = 0 => refs = Cardinality(At({"connecting", "using", "leaving"}))

\* What the lock and the count promise, as one invariant.
SharedSafely == TransitionsExclusive /\ RefsCountUsers

\* Who is inside the context manager has a connected client ("multiple coroutines
\* in the same process can safely share one Client").
UserIsConnected == closes = 0 => \A u \in At({"using"}) : use[u].client \in connected

=============================================================================
