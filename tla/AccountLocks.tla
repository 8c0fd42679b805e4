---------------------------- MODULE AccountLocks ----------------------------
(***************************************************************************)
(* The lock objects of the accounts and the two tables that find them      *)
(* (backend/utils/account_locks.py and SignTaskService._account_locks).    *)
(* Both tables refer weakly to a lock: it lives as long as somebody has it *)
(* or waits for it.  Sign runs look in the table of their service first,   *)
(* everybody else in the registry.  An account that is renamed takes its   *)
(* entry of the first table along, and leaves that of the second behind.   *)
(***************************************************************************)
EXTENDS Naturals, FiniteSets

CONSTANTS
  LockNames,    \* account names, as numbers: their order is the order of the names
  LockObjects,  \* locks that may live at the same time
  SignRuns,     \* sign runs
  Refreshes,    \* refreshes of the chats of an account
  LockUsers,    \* everybody else who asks the registry: checks, imports, deletes
  AccountMoves  \* renames and deletes of accounts

Lockers == SignRuns \cup Refreshes \cup LockUsers
LockParties == Lockers \cup AccountMoves

\* Nobody has more than one lock in hand, a change two.
ASSUME LocksAssumption ==
  /\ LockNames \subseteq Nat /\ IsFiniteSet(LockObjects)
  /\ IsFiniteSet(LockParties)
  /\ Cardinality(LockObjects) > 2 * Cardinality(LockParties)
  /\ SignRuns \cap (Refreshes \cup LockUsers) = {} /\ Lockers \cap AccountMoves = {}

VARIABLES
  lockRegistry, \* _ACCOUNT_LOCKS: account -> lock
  table,      \* SignTaskService._account_locks: account -> lock
  phaseOf,    \* how far each party has come
  claims,     \* the accounts a party has a lock of: account -> lock
  inside,     \* the locks that are held, and by whom: <<party, lock>>
  move,       \* the change that is applied: its old and its new name
  existing,   \* the accounts there are
  carried     \* locks whose entry a rename has taken to another account
locksVars == <<lockRegistry, table, phaseOf, claims, inside, move, existing, carried>>

NoClaim == [n \in {} |-> n]
LocksInit ==
  /\ lockRegistry = NoClaim /\ table = NoClaim
  /\ phaseOf = [p \in LockParties |-> "idle"]
  /\ claims = [p \in LockParties |-> NoClaim]
  /\ inside = {} /\ move = [p \in AccountMoves |-> <<0, 0>>]
  /\ existing \in SUBSET LockNames /\ carried = {}

-----------------------------------------------------------------------------
(* The tables *)

LocksOf(f) == {f[n] : n \in DOMAIN f}
Referenced(c) == UNION {LocksOf(c[p]) : p \in LockParties}
With(f, n, l) == [m \in DOMAIN f \cup {n} |-> IF m = n THEN l ELSE f[m]]
Dropping(f, n) == [m \in DOMAIN f \ {n} |-> f[m]]

\* What a weak table still has when these claims are left.
Remembers(f, c) == [n \in {m \in DOMAIN f : f[m] \in Referenced(c)} |-> f[n]]

\* (seeded fault) a lock that is waited for is not found
GetLockHeld(n) ==
  IF n \in DOMAIN lockRegistry /\ \E p \in LockParties : <<p, lockRegistry[n]>> \in inside
  THEN lockRegistry[n] ELSE CHOOSE l \in LockObjects : l \notin Referenced(claims)

\* get_account_lock: the lock of the registry, or a new one
GetLock(n) == IF n \in DOMAIN lockRegistry THEN lockRegistry[n]
              ELSE CHOOSE l \in LockObjects : l \notin Referenced(claims)

\* A sign run prefers the table of its service.
RunLock(n) == IF n \in DOMAIN table THEN table[n] ELSE GetLock(n)

Waits(p, n, l) ==
  /\ phaseOf[p] = "idle" /\ phaseOf' = [phaseOf EXCEPT ![p] = "waiting"]
  /\ claims' = [claims EXCEPT ![p] = With(NoClaim, n, l)]
  /\ UNCHANGED <<inside, move, existing, carried>>

RunComes(r, n) ==
  /\ n \in existing /\ Waits(r, n, RunLock(n))
  /\ table' = With(table, n, RunLock(n))
  /\ lockRegistry' = IF n \in DOMAIN table THEN lockRegistry ELSE With(lockRegistry, n, GetLock(n))

\* refresh_account_chats leaves the lock it uses in the table of the service.
RefreshComes(p, n) ==
  /\ n \in existing /\ Waits(p, n, GetLock(n))
  /\ lockRegistry' = With(lockRegistry, n, GetLock(n)) /\ table' = With(table, n, GetLock(n))

\* An import or a login asks for the lock of an account there is not yet.
UserComes(p, n) ==
  /\ Waits(p, n, GetLock(n))
  /\ lockRegistry' = With(lockRegistry, n, GetLock(n)) /\ UNCHANGED table

-----------------------------------------------------------------------------
(* Waiting, working and leaving *)

Unheld(l) == \A p \in LockParties : <<p, l>> \notin inside

Acquires(p) ==
  /\ phaseOf[p] = "waiting" /\ \A l \in LocksOf(claims[p]) : Unheld(l)
  /\ inside' = inside \cup {<<p, l>> : l \in LocksOf(claims[p])}
  /\ phaseOf' = [phaseOf EXCEPT ![p] = "holding"]
  /\ UNCHANGED <<lockRegistry, table, claims, move, existing, carried>>

\* p lets go of its locks, opens those it holds, and the tables forget what
\* nobody has any more.
Lets(p, t) ==
  /\ phaseOf' = [phaseOf EXCEPT ![p] = "idle"]
  /\ claims' = [claims EXCEPT ![p] = NoClaim]
  /\ inside' = {h \in inside : h[1] # p}
  /\ lockRegistry' = Remembers(lockRegistry, claims') /\ table' = Remembers(t, claims')
  /\ carried' = carried \cap Referenced(claims')

\* At the end of its work, after a timeout of the lock, or cancelled.
LetsGo(p) ==
  /\ phaseOf[p] \in {"waiting", "holding"} /\ Lets(p, table)
  /\ UNCHANGED <<move, existing>>

\* An import or a login has made the account.
Creates(p, n) ==
  /\ phaseOf[p] = "holding" /\ n \in DOMAIN claims[p] /\ Lets(p, table)
  /\ existing' = existing \cup {n} /\ UNCHANGED move

\* _assert_idle: no sign run of the account is on its way.
IdleAccount(n) == \A r \in SignRuns : n \notin DOMAIN claims[r]

\* delete_account: the route of the accounts pops the entry of the table
\* afterwards, a refresh that met an invalid session does not.
DeletesAccount(p, n) ==
  /\ phaseOf[p] = "holding" /\ n \in DOMAIN claims[p] /\ IdleAccount(n)
  /\ \E t \in {table, Dropping(table, n)} : Lets(p, t)
  /\ existing' = existing \ {n} /\ UNCHANGED move

-----------------------------------------------------------------------------
(* apply_account_change_plan *)

Smaller(c) == IF move[c][1] <= move[c][2] THEN move[c][1] ELSE move[c][2]
Larger(c) == IF move[c][1] <= move[c][2] THEN move[c][2] ELSE move[c][1]

\* One change at a time (_change_lock); the new name of a delete is the old one.
MoveComes(c, old, new) ==
  /\ \A d \in AccountMoves : phaseOf[d] = "idle"
  /\ old \in existing /\ (new = old \/ new \notin existing)
  /\ move' = [move EXCEPT ![c] = <<old, new>>]
  /\ phaseOf' = [phaseOf EXCEPT ![c] = "starting"]
  /\ UNCHANGED <<lockRegistry, table, claims, inside, existing, carried>>

\* acquire_multi_account_locks looks a lock up when it is its turn.
Asks(c, n, s) ==
  /\ lockRegistry' = With(lockRegistry, n, GetLock(n))
  /\ claims' = [claims EXCEPT ![c] = With(claims[c], n, GetLock(n))]
  /\ phaseOf' = [phaseOf EXCEPT ![c] = s]
  /\ UNCHANGED <<table, move, existing, carried>>

AsksFirst(c) ==
  phaseOf[c] = "starting" /\ Asks(c, Smaller(c), "first") /\ UNCHANGED inside

GetsFirst(c) ==
  LET l == claims[c][Smaller(c)] IN
  /\ phaseOf[c] = "first" /\ Unheld(l) /\ inside' = inside \cup {<<c, l>>}
  /\ Asks(c, Larger(c), "second")

GetsSecond(c) ==
  LET l == claims[c][Larger(c)] IN
  /\ phaseOf[c] = "second" /\ (Smaller(c) = Larger(c) \/ Unheld(l))
  /\ inside' = inside \cup {<<c, l>>} /\ phaseOf' = [phaseOf EXCEPT ![c] = "locked"]
  /\ UNCHANGED <<lockRegistry, table, claims, move, existing, carried>>

\* A timeout of a lock, a stale plan, a run on its way; an error rolls back.
MoveAborts(c) ==
  /\ phaseOf[c] \in {"first", "second", "locked", "moving"} /\ Lets(c, table)
  /\ existing' = IF phaseOf[c] = "moving"
                 THEN (existing \ {move[c][2]}) \cup {move[c][1]} ELSE existing
  /\ UNCHANGED move

\* The files are moved, then the jobs and the listeners are awaited.
MovesFiles(c) ==
  /\ phaseOf[c] = "locked" /\ IdleAccount(move[c][1])
  /\ existing' = IF move[c][1] = move[c][2] THEN existing \ {move[c][1]}
                 ELSE (existing \ {move[c][1]}) \cup {move[c][2]}
  /\ phaseOf' = [phaseOf EXCEPT ![c] = "moving"]
  /\ UNCHANGED <<lockRegistry, table, claims, inside, move, carried>>

\* The entry of the old name goes to the new one (_account_locks).
Renamed(c) ==
  LET old == move[c][1]  new == move[c][2] IN
  IF old \notin DOMAIN table THEN table
  ELSE IF old = new THEN Dropping(table, old)
  ELSE With(Dropping(table, old), new, table[old])

MoveEnds(c) ==
  LET old == move[c][1]  new == move[c][2] IN
  /\ phaseOf[c] = "moving"
  /\ phaseOf' = [phaseOf EXCEPT ![c] = "idle"]
  /\ claims' = [claims EXCEPT ![c] = NoClaim]
  /\ inside' = {h \in inside : h[1] # c}
  /\ lockRegistry' = Remembers(lockRegistry, claims') /\ table' = Remembers(Renamed(c), claims')
  /\ carried' = Referenced(claims') \cap
       (carried \cup IF old # new /\ old \in DOMAIN table THEN {table[old]} ELSE {})
  /\ UNCHANGED <<move, existing>>

LocksNext ==
  \/ \E n \in LockNames :
       \/ \E r \in SignRuns : RunComes(r, n)
       \/ \E p \in Refreshes : RefreshComes(p, n)
       \/ \E p \in LockUsers : UserComes(p, n) \/ Creates(p, n) \/ DeletesAccount(p, n)
  \/ \E p \in Lockers : Acquires(p) \/ LetsGo(p)
  \/ \E c \in AccountMoves :
       \/ \E old, new \in LockNames : MoveComes(c, old, new)
       \/ AsksFirst(c) \/ GetsFirst(c) \/ GetsSecond(c)
       \/ MovesFiles(c) \/ MoveEnds(c) \/ MoveAborts(c)

LocksSpec == LocksInit /\ [][LocksNext]_locksVars

-----------------------------------------------------------------------------
(* Properties *)

\* What is held is claimed, and the tables know only what is claimed.
LocksTypeOK ==
  /\ \A n \in DOMAIN lockRegistry : n \in LockNames /\ lockRegistry[n] \in Referenced(claims)
  /\ \A n \in DOMAIN table : n \in LockNames /\ table[n] \in Referenced(claims)
  /\ \A h \in inside : h[1] \in LockParties /\ h[2] \in LocksOf(claims[h[1]])
  /\ existing \subseteq LockNames /\ carried \subseteq Referenced(claims)

\* p works on account n: it holds the lock it has looked up for it.
WorksOn(p, n) == n \in DOMAIN claims[p] /\ <<p, claims[p][n]>> \in inside

\* Two work on one account at the same time only when one is a sign run with the
\* lock of another account, which a rename has left in the table of the service.
ApartUnlessCarried ==
  \A n \in LockNames : \A p, q \in LockParties :
    p # q /\ WorksOn(p, n) /\ WorksOn(q, n) =>
      \E r \in {p, q} \cap SignRuns : claims[r][n] \in carried

\* (does not hold) The registry promises one lock, and one at a time, for the name of
\* an account.
OneAtATime ==
  \A n \in LockNames : \A p, q \in LockParties :
    WorksOn(p, n) /\ WorksOn(q, n) => p = q
=============================================================================
