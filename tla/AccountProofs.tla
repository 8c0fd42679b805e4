------------------------ MODULE AccountProofs ------------------------
(***************************************************************************)
(* Who holds an account, for any number of accounts, runs, logins and changes *)
(* of a name: the locks of the registry, and the lock of a login.          *)
(***************************************************************************)
EXTENDS AccountLocks, LoginSession, FiniteSetTheorems, TLAPS

-----------------------------------------------------------------------------
(***************************************************************************)
(* The registry of locks                                                   *)
(*                                                                         *)
(* Who asks the registry is alone on an account, and so is a sign run      *)
(* unless a rename has brought its lock from another account.              *)
(***************************************************************************)

\* Every party has its claims and its phase.
Shaped ==
  /\ claims = [p \in LockParties |-> claims[p]]
  /\ phaseOf = [p \in LockParties |-> phaseOf[p]]

\* A registry has the lock l for account n.
Has(reg, n, l) == n \in DOMAIN reg /\ reg[n] = l

\* A sign run may have a carried lock, everybody else has the lock of the registry;
\* the table of the service has nothing else either.
Claimed ==
  \A p \in LockParties : \A n \in DOMAIN claims[p] :
    Has(lockRegistry, n, claims[p][n]) \/ (p \in SignRuns /\ claims[p][n] \in carried)
Tabled == \A n \in DOMAIN table : Has(lockRegistry, n, table[n]) \/ table[n] \in carried

\* A lock has one holder.
OneHolder ==
  \A p, q \in LockParties : \A l : <<p, l>> \in inside /\ <<q, l>> \in inside => p = q

\* A change that waits for its second lock has the first one.
HasFirst ==
  \A c \in AccountMoves : phaseOf[c] \in {"first", "second"} =>
    /\ Smaller(c) \in DOMAIN claims[c]
    /\ phaseOf[c] = "second" => <<c, claims[c][Smaller(c)]>> \in inside

LocksInv == Shaped /\ Claimed /\ Tabled /\ OneHolder /\ HasFirst

-----------------------------------------------------------------------------
(* The registry *)

\* A lookup leaves what the registry knows, and it knows the result.
LEMMA RegistryGrows ==
  ASSUME NEW n, lockRegistry' = With(lockRegistry, n, GetLock(n))
  PROVE  /\ \A m, l : Has(lockRegistry, m, l) => Has(lockRegistry', m, l)
         /\ Has(lockRegistry', n, GetLock(n))
  BY DEF Has, With, GetLock

\* What somebody still claims is not forgotten.
LEMMA RegistryKeeps ==
  ASSUME lockRegistry' = Remembers(lockRegistry, claims')
  PROVE  \A n : \A l \in Referenced(claims') : Has(lockRegistry, n, l) => Has(lockRegistry', n, l)
  BY DEF Has, Remembers

LEMMA ClaimsAreReferenced ==
  ASSUME NEW p \in LockParties, NEW n \in DOMAIN claims'[p]
  PROVE  claims'[p][n] \in Referenced(claims')
<1>1. claims'[p][n] \in LocksOf(claims'[p])  BY DEF LocksOf
<1> QED  BY <1>1 DEF Referenced

\* p asks for the lock l of account n, and claims it beside what it claims already.
LEMMA AskStep ==
  ASSUME Shaped, Claimed, UNCHANGED carried,
         NEW p \in LockParties, NEW n, NEW l, NEW f,
         claims' = [claims EXCEPT ![p] = With(f, n, l)],
         f = NoClaim \/ f = claims[p],
         \A m, k : Has(lockRegistry, m, k) => Has(lockRegistry', m, k),
         Has(lockRegistry', n, l) \/ (p \in SignRuns /\ l \in carried)
  PROVE  Claimed'
<1> SUFFICES ASSUME NEW q \in LockParties, NEW m \in DOMAIN claims'[q]
    PROVE Has(lockRegistry', m, claims'[q][m]) \/ (q \in SignRuns /\ claims'[q][m] \in carried')
  BY DEF Claimed
<1>1. CASE q # p
  <2>1. claims'[q] = claims[q]  BY <1>1 DEF Shaped
  <2> QED  BY <2>1 DEF Claimed
<1>2. CASE q = p
  <2>1. claims'[q] = With(f, n, l)  BY <1>2 DEF Shaped
  <2>2. CASE m = n  BY <2>1, <2>2, <1>2 DEF With
  <2>3. CASE m # n
    <3>1. m \in DOMAIN f /\ claims'[q][m] = f[m]  BY <2>1, <2>3 DEF With
    <3>2. f = claims[p]  BY <3>1 DEF NoClaim
    <3> QED  BY <3>1, <3>2, <1>2 DEF Claimed
  <2> QED  BY <2>2, <2>3
<1> QED  BY <1>1, <1>2

\* A lookup of the table by its name for which the entry is the lock l.
LEMMA TableStep ==
  ASSUME Tabled, UNCHANGED carried, NEW n, NEW l,
         table' = With(table, n, l) \/ table' = table,
         \A m, k : Has(lockRegistry, m, k) => Has(lockRegistry', m, k),
         Has(lockRegistry', n, l) \/ l \in carried
  PROVE  Tabled'
<1> SUFFICES ASSUME NEW m \in DOMAIN table'
    PROVE Has(lockRegistry', m, table'[m]) \/ table'[m] \in carried'
  BY DEF Tabled
<1>1. CASE table' = table  BY <1>1 DEF Tabled
<1>2. CASE table' = With(table, n, l) /\ m = n  BY <1>2 DEF With
<1>3. CASE table' = With(table, n, l) /\ m # n
  <2>1. m \in DOMAIN table /\ table'[m] = table[m]  BY <1>3 DEF With
  <2> QED  BY <2>1 DEF Tabled
<1> QED  BY <1>1, <1>2, <1>3

\* A party comes: nobody holds more, and it is not a change that waits.
LEMMA WaitsStep ==
  ASSUME LocksInv, NEW p \in Lockers, NEW n, NEW l, Waits(p, n, l)
  PROVE  Shaped' /\ OneHolder' /\ HasFirst'
<1>1. Shaped'  BY DEF LocksInv, Shaped, Waits, LockParties
<1>2. OneHolder'  BY DEF LocksInv, OneHolder, Waits
<1>3. ASSUME NEW c \in AccountMoves
      PROVE  c # p /\ claims'[c] = claims[c] /\ phaseOf'[c] = phaseOf[c]
  BY LocksAssumption DEF LocksInv, Shaped, Waits, LockParties
<1>4. HasFirst'
  <2> SUFFICES ASSUME NEW c \in AccountMoves, phaseOf'[c] \in {"first", "second"}
      PROVE /\ Smaller(c)' \in DOMAIN claims'[c]
            /\ phaseOf'[c] = "second" => <<c, claims'[c][Smaller(c)']>> \in inside'
    BY DEF HasFirst
  <2>1. Smaller(c)' = Smaller(c) /\ inside' = inside  BY DEF Waits, Smaller
  <2> QED  BY <2>1, <1>3 DEF LocksInv, HasFirst
<1> QED  BY <1>1, <1>2, <1>4

LEMMA RunComesStep ==
  ASSUME LocksInv, NEW r \in SignRuns, NEW n, RunComes(r, n) PROVE LocksInv'
<1> DEFINE l == RunLock(n)
<1>1. Waits(r, n, l) /\ table' = With(table, n, l) /\ r \in Lockers
  BY DEF RunComes, Lockers
<1>2. Shaped' /\ OneHolder' /\ HasFirst'  BY <1>1, WaitsStep
<1>3. /\ \A m, k : Has(lockRegistry, m, k) => Has(lockRegistry', m, k)
      /\ Has(lockRegistry', n, l) \/ l \in carried
  <2>1. CASE n \in DOMAIN table
    <3>1. lockRegistry' = lockRegistry /\ l = table[n]  BY <2>1 DEF RunComes, RunLock
    <3> QED  BY <3>1, <2>1 DEF LocksInv, Tabled, Has
  <2>2. CASE n \notin DOMAIN table
    <3>1. lockRegistry' = With(lockRegistry, n, GetLock(n)) /\ l = GetLock(n)
      BY <2>2 DEF RunComes, RunLock
    <3> QED  BY <3>1, RegistryGrows
  <2> QED  BY <2>1, <2>2
<1>4. claims' = [claims EXCEPT ![r] = With(NoClaim, n, l)] /\ UNCHANGED carried
  BY <1>1 DEF Waits
<1> HIDE DEF l
<1>5. r \in LockParties  BY DEF LockParties, Lockers
<1>6. Claimed'  BY <1>3, <1>4, <1>5, AskStep DEF LocksInv
<1>7. Tabled'  BY <1>1, <1>3, <1>4, TableStep DEF LocksInv
<1> QED  BY <1>2, <1>6, <1>7 DEF LocksInv

\* A refresh or another user asks the registry.
LEMMA UserStep ==
  ASSUME LocksInv, NEW p \in Lockers, NEW n, Waits(p, n, GetLock(n)),
         lockRegistry' = With(lockRegistry, n, GetLock(n)),
         table' = With(table, n, GetLock(n)) \/ table' = table
  PROVE  LocksInv'
<1>1. Shaped' /\ OneHolder' /\ HasFirst'  BY WaitsStep
<1>2. (\A m, k : Has(lockRegistry, m, k) => Has(lockRegistry', m, k)) /\ Has(lockRegistry', n, GetLock(n))
  BY RegistryGrows
<1> DEFINE l == GetLock(n)
<1>3. claims' = [claims EXCEPT ![p] = With(NoClaim, n, l)] /\ UNCHANGED carried
  BY DEF Waits
<1>4. p \in LockParties  BY DEF LockParties
<1>5. (table' = With(table, n, l) \/ table' = table) /\ Has(lockRegistry', n, l)  BY <1>2
<1> HIDE DEF l
<1>6. Claimed'  BY <1>2, <1>3, <1>4, <1>5, AskStep DEF LocksInv
<1>7. Tabled'  BY <1>2, <1>3, <1>5, TableStep DEF LocksInv
<1> QED  BY <1>1, <1>6, <1>7 DEF LocksInv

-----------------------------------------------------------------------------
(* Holding and letting go *)

LEMMA AcquiresStep ==
  ASSUME LocksInv, NEW p \in Lockers, Acquires(p) PROVE LocksInv'
<1>1. Shaped' /\ Claimed' /\ Tabled'
  BY DEF LocksInv, Shaped, Claimed, Tabled, Acquires
<1>2. OneHolder'
  <2> SUFFICES ASSUME NEW q \in LockParties, NEW o \in LockParties, NEW l,
                      <<q, l>> \in inside', <<o, l>> \in inside'
      PROVE q = o
    BY DEF OneHolder
  <2>1. \A x \in LockParties : <<x, l>> \in inside' =>
          <<x, l>> \in inside \/ (x = p /\ l \in LocksOf(claims[p]))
    BY DEF Acquires
  <2>2. l \in LocksOf(claims[p]) => \A x \in LockParties : <<x, l>> \notin inside
    BY DEF Acquires, Unheld
  <2> QED  BY <2>1, <2>2 DEF LocksInv, OneHolder
<1>3. HasFirst'
  <2> SUFFICES ASSUME NEW c \in AccountMoves, phaseOf'[c] \in {"first", "second"}
      PROVE /\ Smaller(c)' \in DOMAIN claims'[c]
            /\ phaseOf'[c] = "second" => <<c, claims'[c][Smaller(c)']>> \in inside'
    BY DEF HasFirst
  <2>1. Smaller(c)' = Smaller(c) /\ claims' = claims /\ inside \subseteq inside'
    BY DEF Acquires, Smaller
  <2>2. c # p /\ phaseOf'[c] = phaseOf[c]
    BY LocksAssumption DEF LocksInv, Shaped, Acquires, LockParties
  <2> QED  BY <2>1, <2>2 DEF LocksInv, HasFirst
<1> QED  BY <1>1, <1>2, <1>3 DEF LocksInv

\* p lets go: its claims end, and the tables forget what nobody claims any more.
LEMMA LetsGoStep ==
  ASSUME LocksInv, NEW p \in LockParties, UNCHANGED move,
         phaseOf' = [phaseOf EXCEPT ![p] = "idle"],
         claims' = [claims EXCEPT ![p] = NoClaim],
         inside' = {h \in inside : h[1] # p},
         lockRegistry' = Remembers(lockRegistry, claims'),
         \A n \in DOMAIN table' :
           /\ table'[n] \in Referenced(claims')
           /\ Has(lockRegistry, n, table'[n]) \/ table'[n] \in carried',
         carried \cap Referenced(claims') \subseteq carried'
  PROVE  LocksInv'
<1>1. Shaped'  BY DEF LocksInv, Shaped
<1>2. Claimed'
  <2> SUFFICES ASSUME NEW q \in LockParties, NEW n \in DOMAIN claims'[q]
      PROVE Has(lockRegistry', n, claims'[q][n]) \/ (q \in SignRuns /\ claims'[q][n] \in carried')
    BY DEF Claimed
  <2>1. claims'[q] = IF q = p THEN NoClaim ELSE claims[q]  BY DEF LocksInv, Shaped
  <2>2. q # p /\ claims'[q] = claims[q]  BY <2>1 DEF NoClaim
  <2>3. claims'[q][n] \in Referenced(claims')  BY ClaimsAreReferenced
  <2>4. Has(lockRegistry, n, claims[q][n]) \/ (q \in SignRuns /\ claims[q][n] \in carried)
    BY <2>2 DEF LocksInv, Claimed
  <2> QED  BY <2>2, <2>3, <2>4, RegistryKeeps
<1>3. Tabled'
  <2> SUFFICES ASSUME NEW n \in DOMAIN table'
      PROVE Has(lockRegistry', n, table'[n]) \/ table'[n] \in carried'
    BY DEF Tabled
  <2> QED  BY RegistryKeeps
<1>4. OneHolder'  BY DEF LocksInv, OneHolder
<1>5. HasFirst'
  <2> SUFFICES ASSUME NEW c \in AccountMoves, phaseOf'[c] \in {"first", "second"}
      PROVE /\ Smaller(c)' \in DOMAIN claims'[c]
            /\ phaseOf'[c] = "second" => <<c, claims'[c][Smaller(c)']>> \in inside'
    BY DEF HasFirst
  <2>1. c # p /\ phaseOf'[c] = phaseOf[c] /\ claims'[c] = claims[c]
    BY DEF LocksInv, Shaped, LockParties
  <2>2. Smaller(c)' = Smaller(c)  BY DEF Smaller
  <2>3. /\ Smaller(c) \in DOMAIN claims[c]
        /\ phaseOf[c] = "second" => <<c, claims[c][Smaller(c)]>> \in inside
    BY <2>1 DEF LocksInv, HasFirst
  <2>4. <<c, claims[c][Smaller(c)]>>[1] = c  OBVIOUS
  <2> QED  BY <2>1, <2>2, <2>3, <2>4
<1> QED  BY <1>1, <1>2, <1>3, <1>4, <1>5 DEF LocksInv

\* Lets of the specification, with the whole table or without one entry of it.
LEMMA LetsStep ==
  ASSUME LocksInv, NEW p \in LockParties, NEW t, Lets(p, t), UNCHANGED move,
         \A n \in DOMAIN t : n \in DOMAIN table /\ t[n] = table[n]
  PROVE  LocksInv'
<1>1. ASSUME NEW n \in DOMAIN table'
      PROVE  /\ table'[n] \in Referenced(claims')
             /\ Has(lockRegistry, n, table'[n]) \/ table'[n] \in carried'
  <2>1. /\ n \in DOMAIN t /\ table'[n] = t[n] /\ t[n] \in Referenced(claims')
    BY DEF Lets, Remembers
  <2>2. Has(lockRegistry, n, table[n]) \/ table[n] \in carried
    BY <2>1 DEF LocksInv, Tabled
  <2> QED  BY <2>1, <2>2 DEF Lets
<1>2. carried \cap Referenced(claims') \subseteq carried'  BY DEF Lets
<1> QED  BY <1>1, <1>2, LetsGoStep DEF Lets

-----------------------------------------------------------------------------
(* Changes of accounts *)

LEMMA AsksStep ==
  ASSUME LocksInv, NEW c \in AccountMoves, NEW n, NEW s, Asks(c, n, s)
  PROVE  /\ Shaped' /\ Claimed' /\ Tabled'
         /\ \A d \in AccountMoves : Smaller(d)' = Smaller(d)
         /\ \A d \in AccountMoves \ {c} :
              claims'[d] = claims[d] /\ phaseOf'[d] = phaseOf[d]
         /\ claims'[c] = With(claims[c], n, GetLock(n)) /\ phaseOf'[c] = s
<1>1. Shaped'  BY DEF LocksInv, Shaped, Asks
<1>2. lockRegistry' = With(lockRegistry, n, GetLock(n)) /\ UNCHANGED <<table, carried>>
  BY DEF Asks
<1>3. /\ \A m, k : Has(lockRegistry, m, k) => Has(lockRegistry', m, k)
      /\ Has(lockRegistry', n, GetLock(n))
  BY <1>2, RegistryGrows
<1> DEFINE l == GetLock(n)
<1> DEFINE f == claims[c]
<1>4. claims' = [claims EXCEPT ![c] = With(f, n, l)]  BY DEF Asks
<1>5. Has(lockRegistry', n, l)  BY <1>3
<1>6. f = claims[c]  OBVIOUS
<1>7. c \in LockParties  BY DEF LockParties
<1>8. Tabled'  BY <1>2, <1>3 DEF LocksInv, Tabled
<1>9. \A d \in AccountMoves : Smaller(d)' = Smaller(d)  BY DEF Asks, Smaller
<1>10. /\ \A d \in AccountMoves \ {c} : claims'[d] = claims[d] /\ phaseOf'[d] = phaseOf[d]
       /\ claims'[c] = With(claims[c], n, GetLock(n)) /\ phaseOf'[c] = s
  BY DEF LocksInv, Shaped, Asks, LockParties
<1> HIDE DEF l, f
<1>11. Claimed'  BY <1>2, <1>3, <1>4, <1>5, <1>6, <1>7, AskStep DEF LocksInv
<1> QED  BY <1>1, <1>8, <1>9, <1>10, <1>11

LEMMA GetsFirstStep ==
  ASSUME LocksInv, NEW c \in AccountMoves, GetsFirst(c) PROVE LocksInv'
<1> DEFINE n == Larger(c)
<1> DEFINE m == Smaller(c)
<1> DEFINE l == claims[c][m]
<1>1. Asks(c, n, "second") /\ Unheld(l) /\ inside' = inside \cup {<<c, l>>}
  BY DEF GetsFirst
<1>2. /\ Shaped' /\ Claimed' /\ Tabled'
      /\ \A d \in AccountMoves : Smaller(d)' = Smaller(d)
      /\ \A d \in AccountMoves \ {c} : claims'[d] = claims[d] /\ phaseOf'[d] = phaseOf[d]
      /\ claims'[c] = With(claims[c], n, GetLock(n)) /\ phaseOf'[c] = "second"
  BY <1>1, AsksStep
<1>3. OneHolder'  BY <1>1 DEF LocksInv, OneHolder, Unheld
<1>4. HasFirst'
  <2> SUFFICES ASSUME NEW d \in AccountMoves, phaseOf'[d] \in {"first", "second"}
      PROVE /\ Smaller(d)' \in DOMAIN claims'[d]
            /\ phaseOf'[d] = "second" => <<d, claims'[d][Smaller(d)']>> \in inside'
    BY DEF HasFirst
  <2>1. CASE d # c  BY <1>1, <1>2, <2>1 DEF LocksInv, HasFirst
  <2>2. CASE d = c
    <3>1. m \in DOMAIN claims[c]  BY DEF GetsFirst, LocksInv, HasFirst
    <3>2. c \in LockParties /\ c \notin SignRuns
      BY LocksAssumption DEF LockParties, Lockers
    <3>3. Has(lockRegistry, m, l)  BY <3>1, <3>2 DEF LocksInv, Claimed
    <3>4. claims'[c][m] = l /\ m \in DOMAIN claims'[c]
      <4>1. m = n => GetLock(n) = l  BY <3>3 DEF Has, GetLock
      <4> HIDE DEF l, m, n
      <4>2. DOMAIN claims'[c] = DOMAIN claims[c] \cup {n}  BY <1>2 DEF With
      <4>3. m # n => claims'[c][m] = l  BY <1>2, <3>1 DEF With, l
      <4>4. m = n => claims'[c][m] = GetLock(n)  BY <1>2 DEF With
      <4> QED  BY <3>1, <4>1, <4>2, <4>3, <4>4
    <3>5. Smaller(d)' = m  BY <1>2, <2>2
    <3> QED  BY <1>1, <2>2, <3>4, <3>5
  <2> QED  BY <2>1, <2>2
<1> QED  BY <1>2, <1>3, <1>4 DEF LocksInv

LEMMA AsksFirstStep ==
  ASSUME LocksInv, NEW c \in AccountMoves, AsksFirst(c) PROVE LocksInv'
<1> DEFINE m == Smaller(c)
<1>1. Asks(c, m, "first") /\ inside' = inside  BY DEF AsksFirst
<1>2. /\ Shaped' /\ Claimed' /\ Tabled'
      /\ \A d \in AccountMoves : Smaller(d)' = Smaller(d)
      /\ \A d \in AccountMoves \ {c} : claims'[d] = claims[d] /\ phaseOf'[d] = phaseOf[d]
      /\ claims'[c] = With(claims[c], m, GetLock(m)) /\ phaseOf'[c] = "first"
  BY <1>1, AsksStep
<1>3. OneHolder'  BY <1>1 DEF LocksInv, OneHolder
<1>4. HasFirst'
  <2> SUFFICES ASSUME NEW d \in AccountMoves, phaseOf'[d] \in {"first", "second"}
      PROVE /\ Smaller(d)' \in DOMAIN claims'[d]
            /\ phaseOf'[d] = "second" => <<d, claims'[d][Smaller(d)']>> \in inside'
    BY DEF HasFirst
  <2>1. CASE d # c  BY <1>1, <1>2, <2>1 DEF LocksInv, HasFirst
  <2>2. CASE d = c  BY <1>2, <2>2 DEF With
  <2> QED  BY <2>1, <2>2
<1> QED  BY <1>2, <1>3, <1>4 DEF LocksInv

LEMMA GetsSecondStep ==
  ASSUME LocksInv, NEW c \in AccountMoves, GetsSecond(c) PROVE LocksInv'
<1> DEFINE l == claims[c][Larger(c)]
<1>1. /\ phaseOf[c] = "second" /\ (Smaller(c) = Larger(c) \/ Unheld(l))
      /\ inside' = inside \cup {<<c, l>>}
      /\ UNCHANGED <<lockRegistry, table, claims, move, carried>>
      /\ phaseOf' = [phaseOf EXCEPT ![c] = "locked"]
  BY DEF GetsSecond
<1>2. Shaped' /\ Claimed' /\ Tabled'
  BY <1>1 DEF LocksInv, Shaped, Claimed, Tabled
<1>3. OneHolder'
  <2>1. CASE Unheld(l)  BY <1>1, <2>1 DEF LocksInv, OneHolder, Unheld
  <2>2. CASE Smaller(c) = Larger(c)
    <3>1. <<c, l>> \in inside  BY <1>1, <2>2 DEF LocksInv, HasFirst
    <3>2. inside' = inside  BY <1>1, <3>1
    <3> QED  BY <3>2 DEF LocksInv, OneHolder
  <2> QED  BY <1>1, <2>1, <2>2
<1>4. HasFirst'
  <2>1. \A d \in AccountMoves : phaseOf'[d] \in {"first", "second"} => phaseOf'[d] = phaseOf[d]
    BY <1>1 DEF LocksInv, Shaped, LockParties
  <2>2. \A d \in AccountMoves : Smaller(d)' = Smaller(d)  BY <1>1 DEF Smaller
  <2> QED  BY <1>1, <2>1, <2>2 DEF LocksInv, HasFirst
<1> QED  BY <1>2, <1>3, <1>4 DEF LocksInv

LEMMA MoveComesStep ==
  ASSUME LocksInv, NEW c \in AccountMoves, NEW old, NEW new, MoveComes(c, old, new)
  PROVE  LocksInv'
<1>1. Shaped' /\ Claimed' /\ Tabled' /\ OneHolder'
  BY DEF LocksInv, Shaped, Claimed, Tabled, OneHolder, MoveComes
<1>2. \A d \in AccountMoves : phaseOf'[d] \in {"idle", "starting"}
  BY DEF LocksInv, Shaped, MoveComes, LockParties
<1> QED  BY <1>1, <1>2 DEF LocksInv, HasFirst

LEMMA MovesFilesStep ==
  ASSUME LocksInv, NEW c \in AccountMoves, MovesFiles(c) PROVE LocksInv'
<1>1. Shaped' /\ Claimed' /\ Tabled' /\ OneHolder'
  BY DEF LocksInv, Shaped, Claimed, Tabled, OneHolder, MovesFiles
<1>2. \A d \in AccountMoves : phaseOf'[d] \in {"first", "second"} => phaseOf'[d] = phaseOf[d]
  BY DEF LocksInv, Shaped, MovesFiles, LockParties
<1>3. \A d \in AccountMoves : Smaller(d)' = Smaller(d)  BY DEF Smaller, MovesFiles
<1>4. claims' = claims /\ inside' = inside  BY DEF MovesFiles
<1> QED  BY <1>1, <1>2, <1>3, <1>4 DEF LocksInv, HasFirst

\* The table takes the lock of the old name to the new one: it is carried from now on.
LEMMA MoveEndsStep ==
  ASSUME LocksInv, NEW c \in AccountMoves, MoveEnds(c) PROVE LocksInv'
<1> DEFINE old == move[c][1]
<1> DEFINE new == move[c][2]
<1>1. ASSUME NEW n \in DOMAIN table'
      PROVE  /\ table'[n] \in Referenced(claims')
             /\ Has(lockRegistry, n, table'[n]) \/ table'[n] \in carried'
  <2>1. n \in DOMAIN Renamed(c) /\ table'[n] = Renamed(c)[n] /\ table'[n] \in Referenced(claims')
    BY DEF MoveEnds, Remembers
  <2>2. CASE n \in DOMAIN table /\ Renamed(c)[n] = table[n]
    <3>1. Has(lockRegistry, n, table[n]) \/ table[n] \in carried
      BY <2>2 DEF LocksInv, Tabled
    <3> QED  BY <2>1, <2>2, <3>1 DEF MoveEnds
  <2>3. CASE ~(n \in DOMAIN table /\ Renamed(c)[n] = table[n])
    <3>1. old # new /\ old \in DOMAIN table /\ Renamed(c)[n] = table[old]
      BY <2>1, <2>3 DEF Renamed, With, Dropping
    <3> QED  BY <2>1, <3>1 DEF MoveEnds
  <2> QED  BY <2>2, <2>3
<1>2. carried \cap Referenced(claims') \subseteq carried'  BY DEF MoveEnds
<1>3. c \in LockParties  BY DEF LockParties
<1> QED  BY <1>1, <1>2, <1>3, LetsGoStep DEF MoveEnds

-----------------------------------------------------------------------------
(* The invariant, and what it means *)

LEMMA LocksInitially == LocksInit => LocksInv
<1> SUFFICES ASSUME LocksInit PROVE LocksInv  OBVIOUS
<1>1. Shaped  BY DEF LocksInit, Shaped
<1>2. \A p \in LockParties : DOMAIN claims[p] = {} /\ phaseOf[p] = "idle"
  BY DEF LocksInit, NoClaim
<1>3. Claimed  BY <1>2 DEF Claimed
<1>4. Tabled  BY DEF LocksInit, NoClaim, Tabled
<1>5. OneHolder  BY DEF LocksInit, OneHolder
<1>6. HasFirst  BY <1>2 DEF HasFirst, LockParties
<1> QED  BY <1>1, <1>3, <1>4, <1>5, <1>6 DEF LocksInv

LEMMA LocksStep == LocksInv /\ [LocksNext]_locksVars => LocksInv'
<1> SUFFICES ASSUME LocksInv, [LocksNext]_locksVars PROVE LocksInv'  OBVIOUS
<1>1. ASSUME NEW n \in LockNames, NEW r \in SignRuns, RunComes(r, n) PROVE LocksInv'
  BY <1>1, RunComesStep
<1>2. ASSUME NEW n \in LockNames, NEW p \in Refreshes, RefreshComes(p, n) PROVE LocksInv'
  <2>1. p \in Lockers  BY DEF Lockers
  <2> QED  BY <1>2, <2>1, UserStep DEF RefreshComes
<1>3. ASSUME NEW n \in LockNames, NEW p \in LockUsers, UserComes(p, n) PROVE LocksInv'
  <2>1. p \in Lockers  BY DEF Lockers
  <2> QED  BY <1>3, <2>1, UserStep DEF UserComes
<1>4. ASSUME NEW n \in LockNames, NEW p \in LockUsers, Creates(p, n) PROVE LocksInv'
  <2>1. p \in LockParties  BY DEF Lockers, LockParties
  <2> QED  BY <1>4, <2>1, LetsStep DEF Creates
<1>5. ASSUME NEW n \in LockNames, NEW p \in LockUsers, DeletesAccount(p, n) PROVE LocksInv'
  <2>1. p \in LockParties  BY DEF Lockers, LockParties
  <2>2. PICK t \in {table, Dropping(table, n)} : Lets(p, t)  BY <1>5 DEF DeletesAccount
  <2>3. \A m \in DOMAIN t : m \in DOMAIN table /\ t[m] = table[m]  BY DEF Dropping
  <2> QED  BY <1>5, <2>1, <2>2, <2>3, LetsStep DEF DeletesAccount
<1>6. ASSUME NEW p \in Lockers, Acquires(p) PROVE LocksInv'
  BY <1>6, AcquiresStep
<1>7. ASSUME NEW p \in Lockers, LetsGo(p) PROVE LocksInv'
  <2>1. p \in LockParties  BY DEF LockParties
  <2> QED  BY <1>7, <2>1, LetsStep DEF LetsGo
<1>8. ASSUME NEW c \in AccountMoves, NEW old \in LockNames, NEW new \in LockNames,
             MoveComes(c, old, new) PROVE LocksInv'
  BY <1>8, MoveComesStep
<1>9. ASSUME NEW c \in AccountMoves,
             AsksFirst(c) \/ GetsFirst(c) \/ GetsSecond(c) \/ MovesFiles(c) \/ MoveEnds(c)
      PROVE LocksInv'
  BY <1>9, AsksFirstStep, GetsFirstStep, GetsSecondStep, MovesFilesStep, MoveEndsStep
<1>10. ASSUME NEW c \in AccountMoves, MoveAborts(c) PROVE LocksInv'
  <2>1. c \in LockParties  BY DEF LockParties
  <2> QED  BY <1>10, <2>1, LetsStep DEF MoveAborts
<1>11. CASE UNCHANGED locksVars
  BY <1>11 DEF locksVars, LocksInv, Shaped, Claimed, Tabled, OneHolder, HasFirst, Smaller
<1> QED
  BY <1>1, <1>2, <1>3, <1>4, <1>5, <1>6, <1>7, <1>8, <1>9, <1>10, <1>11 DEF LocksNext

LEMMA ClaimedApart == LocksInv => ApartUnlessCarried
<1> SUFFICES ASSUME LocksInv, NEW n \in LockNames, NEW p \in LockParties, NEW q \in LockParties,
                    p # q, WorksOn(p, n), WorksOn(q, n)
    PROVE \E r \in {p, q} \cap SignRuns : claims[r][n] \in carried
  BY DEF ApartUnlessCarried
<1>1. ~(Has(lockRegistry, n, claims[p][n]) /\ Has(lockRegistry, n, claims[q][n]))
  BY DEF Has, WorksOn, LocksInv, OneHolder
<1> QED  BY <1>1 DEF WorksOn, LocksInv, Claimed

\* Whatever the numbers of accounts, runs, refreshes, users and changes: two work on
\* one account at a time only if one is a sign run whose lock a rename has carried
\* over from another account.
THEOREM LocksApart == LocksSpec => []ApartUnlessCarried
<1>1. LocksSpec => []LocksInv  BY LocksInitially, LocksStep, PTL DEF LocksSpec
<1> QED  BY <1>1, ClaimedApart, PTL

-----------------------------------------------------------------------------
(* Names and references *)

\* Whoever is idle or has asked for no lock yet claims nothing, and a change has two
\* accounts.
Named ==
  /\ \A p \in LockParties : DOMAIN claims[p] \subseteq LockNames
  /\ \A p \in LockParties : phaseOf[p] \in {"idle", "starting"} => DOMAIN claims[p] = {}
  /\ \A c \in AccountMoves : phaseOf[c] # "idle" => move[c] \in LockNames \X LockNames
  /\ \A c \in AccountMoves : phaseOf[c] = "second" => Larger(c) \in DOMAIN claims[c]
  /\ move = [c \in AccountMoves |-> move[c]]
NamedInv == LocksInv /\ Named /\ LocksTypeOK

\* p claims the lock l of n beside what it claims, and the tables that change have l for n.
LEMMA AskNamed ==
  ASSUME NamedInv, NEW p \in LockParties, NEW n \in LockNames, NEW l, NEW f,
         claims' = [claims EXCEPT ![p] = With(f, n, l)],
         \/ f = NoClaim /\ phaseOf[p] \in {"idle", "starting"}
         \/ f = claims[p] /\ (n \in DOMAIN f => f[n] = l),
         lockRegistry' = With(lockRegistry, n, l) \/ lockRegistry' = lockRegistry
           \/ \E k : lockRegistry' = With(lockRegistry, n, k) /\ k = l,
         table' = With(table, n, l) \/ table' = table,
         UNCHANGED <<existing, carried>>,
         \A h \in inside' : h \in inside \/ (h[1] \in LockParties /\ h[2] \in LocksOf(claims[h[1]]))
  PROVE  /\ LocksTypeOK'
         /\ \A q \in LockParties : DOMAIN claims'[q] \subseteq LockNames
<1> USE DEF NamedInv
<1>1. /\ claims'[p] = With(f, n, l)
      /\ \A q \in LockParties \ {p} : claims'[q] = claims[q]
  BY DEF LocksInv, Shaped
<1>2. DOMAIN With(f, n, l) = DOMAIN f \cup {n} /\ With(f, n, l)[n] = l
  BY DEF With
<1>3. /\ DOMAIN claims[p] \subseteq DOMAIN f
      /\ DOMAIN f \subseteq LockNames
      /\ \A m \in DOMAIN claims[p] : f[m] = claims[p][m] /\ With(f, n, l)[m] = claims[p][m]
  BY DEF Named, NoClaim, With
<1>4. \A q \in LockParties : LocksOf(claims[q]) \subseteq LocksOf(claims'[q])
  <2>1. LocksOf(claims[p]) \subseteq LocksOf(With(f, n, l))
    BY <1>2, <1>3 DEF LocksOf
  <2> QED  BY <1>1, <2>1
<1>5. Referenced(claims) \subseteq Referenced(claims') /\ l \in Referenced(claims')
  <2>1. l \in LocksOf(claims'[p])
    BY <1>1, <1>2 DEF LocksOf
  <2> QED  BY <1>4, <2>1 DEF Referenced
<1>6. \A q \in LockParties : DOMAIN claims'[q] \subseteq LockNames
  BY <1>1, <1>2, <1>3 DEF Named
<1>7. \A m \in DOMAIN lockRegistry' :
        m \in LockNames /\ lockRegistry'[m] \in Referenced(claims')
  BY <1>5 DEF LocksTypeOK, With
<1>8. \A m \in DOMAIN table' : m \in LockNames /\ table'[m] \in Referenced(claims')
  BY <1>5 DEF LocksTypeOK, With
<1>9. \A h \in inside' : h[1] \in LockParties /\ h[2] \in LocksOf(claims'[h[1]])
  BY <1>4 DEF LocksTypeOK
<1> QED  BY <1>5, <1>6, <1>7, <1>8, <1>9 DEF LocksTypeOK

\* p claims nothing any more, and the tables forget.
LEMMA LetsNamed ==
  ASSUME NamedInv, NEW p \in LockParties, NEW t, UNCHANGED move,
         phaseOf' = [phaseOf EXCEPT ![p] = "idle"],
         claims' = [claims EXCEPT ![p] = NoClaim],
         inside' = {h \in inside : h[1] # p},
         lockRegistry' = Remembers(lockRegistry, claims'), table' = Remembers(t, claims'),
         DOMAIN t \subseteq LockNames, carried' \subseteq Referenced(claims'),
         existing' \subseteq LockNames
  PROVE  Named' /\ LocksTypeOK'
<1> USE DEF NamedInv
<1>1. /\ claims'[p] = NoClaim /\ phaseOf'[p] = "idle"
      /\ \A q \in LockParties \ {p} : claims'[q] = claims[q] /\ phaseOf'[q] = phaseOf[q]
  BY DEF LocksInv, Shaped
<1>2. DOMAIN NoClaim = {}
  BY DEF NoClaim
<1>3. Named'
  <2>1. \A c \in AccountMoves : c \in LockParties
    BY DEF LockParties
  <2>2. /\ \A q \in LockParties : DOMAIN claims'[q] \subseteq LockNames
        /\ \A q \in LockParties : phaseOf'[q] \in {"idle", "starting"} => DOMAIN claims'[q] = {}
    BY <1>1, <1>2 DEF Named
  <2>3. \A c \in AccountMoves : phaseOf'[c] # "idle" => move'[c] \in LockNames \X LockNames
    BY <1>1, <2>1 DEF Named
  <2>4. \A c \in AccountMoves : phaseOf'[c] = "second" => Larger(c)' \in DOMAIN claims'[c]
    BY <1>1, <2>1 DEF Named, Larger
  <2> QED  BY <2>2, <2>3, <2>4 DEF Named
<1>4. \A h \in inside' : h[1] \in LockParties /\ h[2] \in LocksOf(claims'[h[1]])
  BY <1>1 DEF LocksTypeOK
<1>5. /\ \A n \in DOMAIN lockRegistry' :
           n \in LockNames /\ lockRegistry'[n] \in Referenced(claims')
      /\ \A n \in DOMAIN table' : n \in LockNames /\ table'[n] \in Referenced(claims')
  BY DEF Remembers, LocksTypeOK
<1> QED  BY <1>3, <1>4, <1>5 DEF LocksTypeOK

\* A party that comes.
LEMMA WaitsNamed ==
  ASSUME NamedInv, NEW p \in Lockers, NEW n \in LockNames, NEW l, Waits(p, n, l),
         lockRegistry' = With(lockRegistry, n, l) \/ lockRegistry' = lockRegistry,
         table' = With(table, n, l) \/ table' = table
  PROVE  Named' /\ LocksTypeOK'
<1> USE DEF NamedInv
<1>1. p \in LockParties /\ p \notin AccountMoves
  BY LocksAssumption DEF LockParties
<1>2. /\ phaseOf[p] = "idle" /\ phaseOf' = [phaseOf EXCEPT ![p] = "waiting"]
      /\ claims' = [claims EXCEPT ![p] = With(NoClaim, n, l)]
      /\ UNCHANGED <<inside, move, existing, carried>>
  BY DEF Waits
<1>3. LocksTypeOK' /\ \A q \in LockParties : DOMAIN claims'[q] \subseteq LockNames
  <2>1. PICK f : f = NoClaim
    OBVIOUS
  <2>2. /\ claims' = [claims EXCEPT ![p] = With(f, n, l)]
        /\ f = NoClaim /\ phaseOf[p] \in {"idle", "starting"}
    BY <1>2, <2>1
  <2>3. \A h \in inside' : h \in inside
    BY <1>2
  <2>4. UNCHANGED <<existing, carried>>
    BY <1>2
  <2> QED  BY <1>1, <2>2, <2>3, <2>4, AskNamed
<1>4. \A q \in LockParties \ {p} : claims'[q] = claims[q] /\ phaseOf'[q] = phaseOf[q]
  BY <1>2 DEF LocksInv, Shaped
<1>5. phaseOf'[p] = "waiting"
  BY <1>1, <1>2 DEF LocksInv, Shaped
<1>6. \A q \in LockParties : phaseOf'[q] \in {"idle", "starting"} => DOMAIN claims'[q] = {}
  BY <1>4, <1>5 DEF Named
<1>7. \A c \in AccountMoves : c \in LockParties \ {p}
  BY <1>1 DEF LockParties
<1>8. \A c \in AccountMoves : phaseOf'[c] # "idle" => move'[c] \in LockNames \X LockNames
  BY <1>2, <1>4, <1>7 DEF Named
<1>9. \A c \in AccountMoves : phaseOf'[c] = "second" => Larger(c)' \in DOMAIN claims'[c]
  BY <1>2, <1>4, <1>7 DEF Named, Larger
<1> QED  BY <1>2, <1>3, <1>6, <1>8, <1>9 DEF Named

LEMMA RunComesNamed ==
  ASSUME NamedInv, NEW r \in SignRuns, NEW n \in LockNames, RunComes(r, n)
  PROVE  Named' /\ LocksTypeOK'
<1> DEFINE l == RunLock(n)
<1>1. Waits(r, n, l) /\ table' = With(table, n, l) /\ r \in Lockers
  BY DEF RunComes, Lockers
<1>2. lockRegistry' = lockRegistry \/ lockRegistry' = With(lockRegistry, n, l)
  BY DEF RunComes, RunLock
<1> HIDE DEF l
<1> QED  BY <1>1, <1>2, WaitsNamed

\* A change looks a lock up: of an account it has one of already, it finds that one.
LEMMA AsksNamed ==
  ASSUME NamedInv, NEW c \in AccountMoves, NEW n \in LockNames, NEW s, Asks(c, n, s),
         s \notin {"idle", "starting"}, s = "second" => n = Larger(c), phaseOf[c] # "idle",
         \A h \in inside' : h \in inside \/ (h[1] \in LockParties /\ h[2] \in LocksOf(claims[h[1]]))
  PROVE  Named' /\ LocksTypeOK'
<1> USE DEF NamedInv
<1> DEFINE l == GetLock(n)
<1> DEFINE f == claims[c]
<1>1. c \in LockParties /\ c \notin SignRuns
  BY LocksAssumption DEF LockParties, Lockers
<1>2. n \in DOMAIN f => f[n] = l
  BY <1>1 DEF LocksInv, Claimed, Has, GetLock
<1>3. /\ claims' = [claims EXCEPT ![c] = With(f, n, l)]
      /\ lockRegistry' = With(lockRegistry, n, l)
      /\ UNCHANGED <<table, move, existing, carried>>
      /\ phaseOf' = [phaseOf EXCEPT ![c] = s]
  BY DEF Asks
<1>4. f = claims[c]
  OBVIOUS
<1> HIDE DEF l, f
<1>5. LocksTypeOK' /\ \A q \in LockParties : DOMAIN claims'[q] \subseteq LockNames
  BY <1>1, <1>2, <1>3, <1>4, AskNamed
<1>6. \A q \in LockParties \ {c} : claims'[q] = claims[q] /\ phaseOf'[q] = phaseOf[q]
  BY <1>3 DEF LocksInv, Shaped
<1>7. phaseOf'[c] = s
  BY <1>1, <1>3 DEF LocksInv, Shaped
<1>8. \A q \in LockParties : phaseOf'[q] \in {"idle", "starting"} => DOMAIN claims'[q] = {}
  BY <1>6, <1>7 DEF Named
<1>9. \A d \in AccountMoves : d \in LockParties
  BY DEF LockParties
<1>10. \A d \in AccountMoves : phaseOf'[d] # "idle" => move'[d] \in LockNames \X LockNames
  BY <1>3, <1>6, <1>9 DEF Named
<1>11. s = "second" => Larger(c) \in DOMAIN claims'[c]
  <2>1. claims'[c] = With(f, n, l)
    BY <1>1, <1>3 DEF LocksInv, Shaped
  <2> QED  BY <2>1 DEF With
<1>12. \A d \in AccountMoves : phaseOf'[d] = "second" => Larger(d)' \in DOMAIN claims'[d]
  BY <1>3, <1>6, <1>7, <1>9, <1>11 DEF Named, Larger
<1> QED  BY <1>3, <1>5, <1>8, <1>10, <1>12 DEF Named

LEMMA NamesOfChange ==
  ASSUME Named, NEW c \in AccountMoves, phaseOf[c] # "idle"
  PROVE  /\ Smaller(c) \in LockNames /\ Larger(c) \in LockNames
         /\ move[c][1] \in LockNames /\ move[c][2] \in LockNames
<1>1. move[c][1] \in LockNames /\ move[c][2] \in LockNames
  BY DEF Named
<1> QED  BY <1>1 DEF Smaller, Larger

\* What a change waits for is one of the locks it claims.
LEMMA WaitedIsClaimed ==
  ASSUME NamedInv, NEW c \in AccountMoves, NEW n \in DOMAIN claims[c]
  PROVE  c \in LockParties /\ claims[c][n] \in LocksOf(claims[c])
BY DEF LockParties, LocksOf

\* The step of a change that asks for no lock and lets none go.
LEMMA OnwardNamed ==
  ASSUME NamedInv, NEW c \in AccountMoves, NEW s, s \notin {"idle", "starting", "second"},
         phaseOf[c] # "idle",
         phaseOf' = [phaseOf EXCEPT ![c] = s],
         UNCHANGED <<lockRegistry, table, claims, move, carried>>,
         existing' \subseteq LockNames,
         \A h \in inside' : h \in inside \/ (h[1] \in LockParties /\ h[2] \in LocksOf(claims[h[1]]))
  PROVE  Named' /\ LocksTypeOK'
<1> USE DEF NamedInv
<1>1. \A q \in LockParties : phaseOf'[q] \in {phaseOf[q], s}
  BY DEF LocksInv, Shaped
<1>2. \A d \in AccountMoves : d \in LockParties /\ (phaseOf'[d] # "idle" => phaseOf[d] # "idle")
  BY DEF LocksInv, Shaped, LockParties
<1>3. Named'
  <2>1. \A q \in LockParties : phaseOf'[q] \in {"idle", "starting"} => DOMAIN claims'[q] = {}
    BY <1>1 DEF Named
  <2>2. \A d \in AccountMoves : phaseOf'[d] # "idle" => move'[d] \in LockNames \X LockNames
    BY <1>2 DEF Named
  <2>3. \A d \in AccountMoves : phaseOf'[d] = "second" => Larger(d)' \in DOMAIN claims'[d]
    BY <1>1, <1>2 DEF Named, Larger
  <2> QED  BY <2>1, <2>2, <2>3 DEF Named
<1> QED  BY <1>3 DEF LocksTypeOK

LEMMA ChangeNamed ==
  ASSUME NamedInv, NEW c \in AccountMoves,
         AsksFirst(c) \/ GetsFirst(c) \/ GetsSecond(c) \/ MovesFiles(c)
  PROVE  Named' /\ LocksTypeOK'
<1> USE DEF NamedInv
<1>1. CASE AsksFirst(c)
  <2>1. Asks(c, Smaller(c), "first") /\ phaseOf[c] = "starting" /\ inside' = inside
    BY <1>1 DEF AsksFirst
  <2>2. Smaller(c) \in LockNames
    BY <2>1, NamesOfChange
  <2> QED  BY <2>1, <2>2, AsksNamed
<1>2. CASE GetsFirst(c)
  <2> DEFINE l == claims[c][Smaller(c)]
  <2>1. Asks(c, Larger(c), "second") /\ phaseOf[c] = "first" /\ inside' = inside \cup {<<c, l>>}
    BY <1>2 DEF GetsFirst
  <2>2. Larger(c) \in LockNames
    BY <2>1, NamesOfChange
  <2>3. c \in LockParties /\ l \in LocksOf(claims[c])
    BY <2>1, WaitedIsClaimed DEF LocksInv, HasFirst
  <2> HIDE DEF l
  <2>4. <<c, l>>[1] = c /\ <<c, l>>[2] = l
    OBVIOUS
  <2>5. \A h \in inside' : h \in inside \/ (h[1] \in LockParties /\ h[2] \in LocksOf(claims[h[1]]))
    BY <2>1, <2>3, <2>4
  <2> QED  BY <2>1, <2>2, <2>5, AsksNamed
<1>3. CASE GetsSecond(c)
  <2> DEFINE l == claims[c][Larger(c)]
  <2>1. /\ phaseOf[c] = "second" /\ inside' = inside \cup {<<c, l>>}
        /\ phaseOf' = [phaseOf EXCEPT ![c] = "locked"]
        /\ UNCHANGED <<lockRegistry, table, claims, move, existing, carried>>
    BY <1>3 DEF GetsSecond
  <2>2. c \in LockParties /\ l \in LocksOf(claims[c])
    BY <2>1, WaitedIsClaimed DEF Named
  <2> HIDE DEF l
  <2>3. <<c, l>>[1] = c /\ <<c, l>>[2] = l
    OBVIOUS
  <2>4. \A h \in inside' : h \in inside \/ (h[1] \in LockParties /\ h[2] \in LocksOf(claims[h[1]]))
    BY <2>1, <2>2, <2>3
  <2>5. existing' \subseteq LockNames
    BY <2>1 DEF LocksTypeOK
  <2> QED  BY <2>1, <2>4, <2>5, OnwardNamed
<1>4. CASE MovesFiles(c)
  <2>1. /\ phaseOf[c] = "locked" /\ phaseOf' = [phaseOf EXCEPT ![c] = "moving"]
        /\ UNCHANGED <<lockRegistry, table, claims, inside, move, carried>>
    BY <1>4 DEF MovesFiles
  <2>2. existing' \subseteq LockNames
    BY <1>4, <2>1, NamesOfChange DEF MovesFiles, LocksTypeOK
  <2> QED  BY <2>1, <2>2, OnwardNamed
<1> QED  BY <1>1, <1>2, <1>3, <1>4

LEMMA MoveEndsNamed ==
  ASSUME NamedInv, NEW c \in AccountMoves, MoveEnds(c)
  PROVE  Named' /\ LocksTypeOK'
<1> USE DEF NamedInv
<1>1. move[c][1] \in LockNames /\ move[c][2] \in LockNames /\ c \in LockParties
  BY NamesOfChange DEF MoveEnds, LockParties
<1>2. DOMAIN Renamed(c) \subseteq LockNames
  BY <1>1 DEF Renamed, With, Dropping, LocksTypeOK
<1>3. existing' \subseteq LockNames /\ carried' \subseteq Referenced(claims')
  BY DEF MoveEnds, LocksTypeOK
<1>4. PICK t : t = Renamed(c)
  OBVIOUS
<1> QED  BY <1>1, <1>2, <1>3, <1>4, LetsNamed DEF MoveEnds

LEMMA NamedStep == NamedInv /\ [LocksNext]_locksVars => Named' /\ LocksTypeOK'
<1> SUFFICES ASSUME NamedInv, [LocksNext]_locksVars PROVE Named' /\ LocksTypeOK'
  OBVIOUS
<1> USE DEF NamedInv
<1>1. ASSUME NEW n \in LockNames, NEW r \in SignRuns, RunComes(r, n)
      PROVE  Named' /\ LocksTypeOK'
  BY <1>1, RunComesNamed
<1>2. ASSUME NEW n \in LockNames, NEW p \in Lockers, RefreshComes(p, n) \/ UserComes(p, n)
      PROVE  Named' /\ LocksTypeOK'
  <2>1. PICK l : l = GetLock(n)
    OBVIOUS
  <2> QED  BY <1>2, <2>1, WaitsNamed DEF RefreshComes, UserComes
<1>3. ASSUME NEW p \in LockParties, NEW t, Lets(p, t), DOMAIN t \subseteq DOMAIN table,
             existing' \subseteq LockNames, UNCHANGED move
      PROVE  Named' /\ LocksTypeOK'
  <2>1. DOMAIN t \subseteq LockNames
    BY <1>3 DEF LocksTypeOK
  <2>2. carried' \subseteq Referenced(claims')
    BY <1>3 DEF Lets
  <2> QED  BY <1>3, <2>1, <2>2, LetsNamed DEF Lets
<1>4. \A p : p \in Refreshes \cup LockUsers => p \in Lockers
  BY DEF Lockers
<1>5. \A p : p \in Lockers \cup AccountMoves => p \in LockParties
  BY DEF LockParties
<1>6. existing \subseteq LockNames
  BY DEF LocksTypeOK
<1>7. ASSUME NEW n \in LockNames, NEW p \in LockUsers, Creates(p, n)
      PROVE  Named' /\ LocksTypeOK'
  BY <1>3, <1>4, <1>5, <1>6, <1>7 DEF Creates
<1>8. ASSUME NEW n \in LockNames, NEW p \in LockUsers, DeletesAccount(p, n)
      PROVE  Named' /\ LocksTypeOK'
  <2>1. PICK t \in {table, Dropping(table, n)} : Lets(p, t)
    BY <1>8 DEF DeletesAccount
  <2>2. DOMAIN t \subseteq DOMAIN table
    BY DEF Dropping
  <2>3. existing' \subseteq LockNames /\ UNCHANGED move
    BY <1>6, <1>8 DEF DeletesAccount
  <2> QED  BY <1>3, <1>4, <1>5, <2>1, <2>2, <2>3
<1>9. ASSUME NEW p \in Lockers, LetsGo(p) PROVE Named' /\ LocksTypeOK'
  BY <1>3, <1>5, <1>6, <1>9 DEF LetsGo
<1>10. ASSUME NEW c \in AccountMoves, MoveAborts(c) PROVE Named' /\ LocksTypeOK'
  <2>1. existing' \subseteq LockNames
    BY <1>6, <1>10, NamesOfChange DEF MoveAborts
  <2> QED  BY <1>3, <1>5, <1>10, <2>1 DEF MoveAborts
<1>11. ASSUME NEW p \in Lockers, Acquires(p) PROVE Named' /\ LocksTypeOK'
  <2>1. p \in LockParties \ AccountMoves
    BY LocksAssumption DEF LockParties
  <2>2. /\ \A q \in LockParties : phaseOf'[q] \in {phaseOf[q], "holding"}
        /\ \A d \in AccountMoves : phaseOf'[d] = phaseOf[d]
    BY <1>11, <2>1 DEF Acquires, LocksInv, Shaped, LockParties
  <2>3. Named'
    BY <1>11, <2>2 DEF Acquires, Named, Larger
  <2>4. \A h \in inside' : h[1] \in LockParties /\ h[2] \in LocksOf(claims[h[1]])
    <3> SUFFICES ASSUME NEW h \in inside'
                 PROVE  h[1] \in LockParties /\ h[2] \in LocksOf(claims[h[1]])
      OBVIOUS
    <3>1. CASE h \in inside
      BY <3>1 DEF LocksTypeOK
    <3>2. ASSUME NEW l \in LocksOf(claims[p]), h = <<p, l>>
          PROVE  h[1] \in LockParties /\ h[2] \in LocksOf(claims[h[1]])
      BY <2>1, <3>2
    <3> QED  BY <1>11, <3>1, <3>2 DEF Acquires
  <2> QED  BY <1>11, <2>3, <2>4 DEF Acquires, LocksTypeOK
<1>12. ASSUME NEW c \in AccountMoves, NEW old \in LockNames, NEW new \in LockNames,
              MoveComes(c, old, new)
       PROVE  Named' /\ LocksTypeOK'
  <2>1. /\ phaseOf[c] = "idle" /\ c \in LockParties
        /\ phaseOf' = [phaseOf EXCEPT ![c] = "starting"]
        /\ move' = [move EXCEPT ![c] = <<old, new>>]
        /\ UNCHANGED <<lockRegistry, table, claims, inside, existing, carried>>
    BY <1>12 DEF MoveComes, LockParties
  <2>2. /\ move'[c] = <<old, new>> /\ phaseOf'[c] = "starting"
        /\ \A d \in AccountMoves \ {c} : move'[d] = move[d] /\ phaseOf'[d] = phaseOf[d]
        /\ \A q \in LockParties \ {c} : phaseOf'[q] = phaseOf[q]
        /\ move' = [d \in AccountMoves |-> move'[d]]
    BY <2>1 DEF LocksInv, Shaped, Named, LockParties
  <2>3. \A q \in LockParties : phaseOf'[q] \in {"idle", "starting"} => DOMAIN claims'[q] = {}
    BY <2>1, <2>2 DEF Named
  <2>4. \A d \in AccountMoves : phaseOf'[d] # "idle" => move'[d] \in LockNames \X LockNames
    BY <2>2 DEF Named
  <2>5. \A d \in AccountMoves : phaseOf'[d] = "second" => Larger(d)' \in DOMAIN claims'[d]
    BY <2>1, <2>2 DEF Named, Larger
  <2>6. Named'
    BY <2>1, <2>2, <2>3, <2>4, <2>5 DEF Named
  <2> QED  BY <2>1, <2>6 DEF LocksTypeOK
<1>13. ASSUME NEW c \in AccountMoves,
              AsksFirst(c) \/ GetsFirst(c) \/ GetsSecond(c) \/ MovesFiles(c)
       PROVE  Named' /\ LocksTypeOK'
  BY <1>13, ChangeNamed
<1>14. ASSUME NEW c \in AccountMoves, MoveEnds(c) PROVE Named' /\ LocksTypeOK'
  BY <1>14, MoveEndsNamed
<1>15. CASE UNCHANGED locksVars
  BY <1>15 DEF locksVars, Named, Larger, LocksTypeOK
<1> QED
  BY <1>1, <1>2, <1>4, <1>7, <1>8, <1>9, <1>10, <1>11, <1>12, <1>13, <1>14, <1>15
     DEF LocksNext

\* What is held is claimed by its holder, and both tables know only locks that somebody
\* claims, for any accounts, runs, refreshes, users and changes.
THEOREM LocksTyped == LocksSpec => []LocksTypeOK
<1>1. LocksInit => Named /\ LocksTypeOK
  <2> SUFFICES ASSUME LocksInit PROVE Named /\ LocksTypeOK
    OBVIOUS
  <2>1. \A p \in LockParties : DOMAIN claims[p] = {} /\ phaseOf[p] = "idle"
    BY DEF LocksInit, NoClaim
  <2>2. \A c \in AccountMoves : phaseOf[c] = "idle"
    BY <2>1 DEF LockParties
  <2>3. DOMAIN lockRegistry = {} /\ DOMAIN table = {}
    BY DEF LocksInit, NoClaim
  <2> QED  BY <2>1, <2>2, <2>3 DEF LocksInit, Named, LocksTypeOK
<1>2. NamedInv /\ [LocksNext]_locksVars => NamedInv'
  BY NamedStep, LocksStep DEF NamedInv
<1>3. LocksInit => NamedInv
  BY <1>1, LocksInitially DEF NamedInv
<1>4. NamedInv => LocksTypeOK
  BY DEF NamedInv
<1> QED  BY <1>2, <1>3, <1>4, PTL DEF LocksSpec

-----------------------------------------------------------------------------
(***************************************************************************)
(* The lock of a login                                                     *)
(***************************************************************************)

LEMMA LoginConstants ==
  /\ PhoneLogins \cap QrLogins = {} /\ Logins \cap LoginRuns = {} /\ NoLogin \notin Flows
  /\ AccountOf \in [Flows -> LoginAccounts]
  /\ Logins = PhoneLogins \cup QrLogins /\ Flows = Logins \cup LoginRuns
  BY LoginAssumption DEF NoLogin, Flows, Logins

LoginTypes ==
  /\ holder \in [LoginAccounts -> Flows \cup {NoLogin}] /\ LoginTypeOK

LEMMA LoginTypesInit == LoginInit => LoginTypes
<1> SUFFICES ASSUME LoginInit PROVE LoginTypes
  OBVIOUS
<1> QED  BY LoginConstants DEF LoginInit, LoginTypes, LoginTypeOK, Free

\* A flow takes or opens the lock of its own account.
LEMMA LockTypes ==
  ASSUME LoginTypes, NEW x \in Flows, NEW y \in {x, NoLogin},
         holder' = holder \/ holder' = [holder EXCEPT ![AccountOf[x]] = y]
  PROVE  /\ holder' \in [LoginAccounts -> Flows \cup {NoLogin}]
         /\ \A a \in LoginAccounts :
              Free(a)' \/ (holder'[a] \in Flows /\ AccountOf[holder'[a]] = a)
<1>1. AccountOf[x] \in LoginAccounts
  BY LoginConstants
<1>2. CASE holder' = holder
  BY <1>2 DEF LoginTypes, LoginTypeOK, Free
<1>3. CASE holder' = [holder EXCEPT ![AccountOf[x]] = y]
  BY <1>1, <1>3 DEF LoginTypes, LoginTypeOK, Free
<1> QED  BY <1>2, <1>3

LEMMA ReleaseTypes ==
  ASSUME LoginTypes, NEW x \in Flows, Release(x) \/ ForceRelease(x) \/ Take(x)
  PROVE  /\ holder' \in [LoginAccounts -> Flows \cup {NoLogin}]
         /\ \A a \in LoginAccounts :
              Free(a)' \/ (holder'[a] \in Flows /\ AccountOf[holder'[a]] = a)
         /\ owned' \subseteq Flows /\ robbed' \subseteq owned'
<1>1. owned' \subseteq Flows /\ robbed' \subseteq owned'
  BY DEF Release, ForceRelease, Take, Owner, LoginTypes, LoginTypeOK
<1>2. PICK y \in {x, NoLogin} :
        holder' = holder \/ holder' = [holder EXCEPT ![AccountOf[x]] = y]
  BY DEF Release, ForceRelease, Take, Opens
<1> QED  BY <1>1, <1>2, LockTypes

\* What is known of a scan, and what its watcher does not know.
LEMMA ScanTypes ==
  ASSUME LoginTypes, NEW l \in QrLogins, NEW q \in {"waiting", "scanned", "asking", "password"}
  PROVE  /\ [qr EXCEPT ![l] = q] \in [QrLogins -> {"waiting", "scanned", "asking", "password"}]
         /\ Extended(l) \/ NewEnd(l) => moved' \subseteq QrLogins
         /\ Answered(l, q) =>
              /\ qr' \in [QrLogins -> {"waiting", "scanned", "asking", "password"}]
              /\ moved' \subseteq QrLogins
<1>1. [qr EXCEPT ![l] = q] \in [QrLogins -> {"waiting", "scanned", "asking", "password"}]
  BY DEF LoginTypes, LoginTypeOK
<1>2. [qr EXCEPT ![l] = "password"] \in [QrLogins -> {"waiting", "scanned", "asking", "password"}]
  BY DEF LoginTypes, LoginTypeOK
<1>3. Extended(l) \/ NewEnd(l) => moved' \subseteq QrLogins
  BY DEF Extended, NewEnd, LoginTypes, LoginTypeOK
<1> QED  BY <1>1, <1>2, <1>3 DEF Answered

LEMMA ResidualLogins ==
  ASSUME LoginTypes, NEW l \in Logins
  PROVE  Residual(l) \subseteq stored /\ Residual(l) \subseteq Logins
         /\ {AccountOf[k] : k \in Residual(l)} \subseteq LoginAccounts
<1>1. Residual(l) \subseteq stored /\ stored \subseteq Logins
  BY DEF Residual, LoginTypes, LoginTypeOK
<1> QED  BY <1>1, LoginConstants

LEMMA LoginTypesStep == LoginTypes /\ [LoginNext]_loginVars => LoginTypes'
<1> SUFFICES ASSUME LoginTypes, [LoginNext]_loginVars PROVE LoginTypes'
  OBVIOUS
<1> USE DEF LoginTypes, accountLock, scans
<1>0. CASE UNCHANGED loginVars
  BY <1>0 DEF loginVars, LoginTypeOK, Free
<1>1. ASSUME NEW l \in Logins, LoginStep(l) PROVE LoginTypes'
  <2>0. l \in Flows /\ stored \subseteq Logins
    BY LoginConstants DEF LoginTypeOK
  <2>1. CASE Begin(l)
    <3>1. todo' \in [Logins -> SUBSET Logins]
      BY <2>0, <2>1 DEF Begin, LoginTypeOK
    <3> QED  BY <2>1, <3>1 DEF Begin, LoginTypeOK, Free
  <2>2. CASE Closed(l)
    BY <2>0, <2>2, ReleaseTypes DEF Closed, LoginTypeOK
  <2>3. CASE Swept(l)
    <3>1. keys' \in [Logins -> SUBSET LoginAccounts]
      BY <2>3, ResidualLogins DEF Swept, LoginTypeOK
    <3>2. ASSUME NEW k \in Residual(l), TakeOver(l, k, Residual(l) \ {k}) PROVE LoginTypes'
      <4>1. k \in Flows
        BY ResidualLogins, LoginConstants
      <4>2. /\ todo' \in [Logins -> SUBSET Logins]
            /\ start' = [start EXCEPT ![l] = "taking"] /\ ForceRelease(k)
        BY <3>2, ResidualLogins DEF TakeOver, LoginTypeOK
      <4> QED  BY <2>3, <3>1, <4>1, <4>2, ReleaseTypes DEF Swept, LoginTypeOK
    <3>3. CASE /\ todo' = [todo EXCEPT ![l] = Residual(l)]
               /\ start' = [start EXCEPT ![l] = IF l \in QrLogins THEN "cleaning" ELSE "taking"]
               /\ UNCHANGED accountLock
      BY <2>3, <3>1, <3>3, ResidualLogins DEF Swept, LoginTypeOK, Free
    <3> QED  BY <2>3, <3>2, <3>3 DEF Swept
  <2>4. CASE TakenOver(l) \/ Cleaned(l)
    BY <2>4 DEF TakenOver, Cleaned, LoginTypeOK, Free
  <2>5. CASE StartAcquires(l)
    BY <2>0, <2>5, ReleaseTypes DEF StartAcquires, LoginTypeOK
  <2>6. CASE StartTimesOut(l) \/ Sent(l) \/ SendFails(l)
    BY <2>6 DEF StartTimesOut, Sent, SendFails, LoginTypeOK, Free
  <2>7. CASE StartGivesUp(l)
    BY <2>0, <2>7, ReleaseTypes DEF StartGivesUp, LoginTypeOK
  <2>8. CASE Verify(l)
    <3>0. moved' \subseteq QrLogins
      BY <2>8, ScanTypes DEF Verify, LoginTypeOK
    <3>1. CASE Take(l) /\ verify' = [verify EXCEPT ![l] = "working"]
      BY <2>0, <2>8, <3>0, <3>1, ReleaseTypes DEF Verify, LoginTypeOK
    <3>2. CASE UNCHANGED accountLock /\ \E v \in {"working", "relock", "take"} :
                 verify' = [verify EXCEPT ![l] = v]
      BY <2>8, <3>0, <3>2 DEF Verify, LoginTypeOK, Free
    <3> QED  BY <2>8, <3>1, <3>2 DEF Verify, HandOn
  <2>9. CASE VerifyAcquires(l)
    <3>1. /\ holder' = [holder EXCEPT ![AccountOf[l]] = l]
          /\ owned' \subseteq Flows /\ robbed' \subseteq owned'
      BY <2>0, <2>9 DEF VerifyAcquires, LoginTypeOK
    <3> QED  BY <2>0, <2>9, <3>1, LockTypes DEF VerifyAcquires, LoginTypeOK
  <2>10. CASE VerifyWaits(l)
    <3>1. /\ qr' \in [QrLogins -> {"waiting", "scanned", "asking", "password"}]
          /\ moved' \subseteq QrLogins
      <4>1. CASE l \in QrLogins
        <5>1. qr[l] \in {"waiting", "scanned", "asking", "password"}
          BY <4>1 DEF LoginTypeOK
        <5> QED  BY <2>10, <4>1, <5>1, ScanTypes DEF VerifyWaits
      <4> QED  BY <2>10, <4>1 DEF VerifyWaits, LoginTypeOK
    <3> QED  BY <2>10, <3>1 DEF VerifyWaits, LoginTypeOK, Free
  <2>11. CASE Discard(l)
    BY <2>0, <2>11, ReleaseTypes DEF Discard, LoginTypeOK
  <2>12. CASE PasswordEnds(l) \/ PollEnds(l) \/ ExpireQr(l) \/ PhoneVerified(l)
    BY <2>12 DEF PasswordEnds, PollEnds, ExpireQr, PhoneVerified, CleanupQr, LoginTypeOK, Free
  <2>13. ASSUME NEW k \in Logins, PopOther(l, k) PROVE LoginTypes'
    BY <2>13 DEF PopOther, LoginTypeOK, Free
  <2>14. ASSUME NEW k \in Logins, TakeNext(l, k) PROVE LoginTypes'
    <3>1. /\ todo' \in [Logins -> SUBSET Logins] /\ k \in Flows
          /\ start' = [start EXCEPT ![l] = "taking"] /\ ForceRelease(k)
      BY <2>14, LoginConstants DEF TakeNext, TakeOver, LoginTypeOK
    <3> QED  BY <2>14, <3>1, ReleaseTypes DEF TakeNext, LoginTypeOK
  <2>15. CASE Scan(l) \/ Poll(l) \/ PollReturns(l)
    <3>1. l \in QrLogins /\ qr[l] \in {"waiting", "scanned", "asking", "password"}
      BY <2>15 DEF Scan, Poll, PollReturns, LoginTypeOK
    <3>2. /\ qr' \in [QrLogins -> {"waiting", "scanned", "asking", "password"}]
          /\ moved' \subseteq QrLogins
      <4>1. CASE Scan(l)
        BY <3>1, <4>1, ScanTypes DEF Scan
      <4>2. CASE Poll(l)
        BY <3>1, <4>2, ScanTypes DEF Poll
      <4>3. CASE PollReturns(l)
        BY <3>1, <4>3, ScanTypes DEF PollReturns
      <4> QED  BY <2>15, <4>1, <4>2, <4>3
    <3> QED  BY <2>15, <3>2 DEF Scan, Poll, PollReturns, LoginTypeOK, Free
  <2> QED
    BY <1>1, <2>1, <2>2, <2>3, <2>4, <2>5, <2>6, <2>7, <2>8, <2>9, <2>10, <2>11, <2>12,
       <2>13, <2>14, <2>15 DEF LoginStep
<1>2. ASSUME NEW u \in LoginRuns, RunArrives(u) \/ RunAcquires(u) \/ RunEnds(u)
      PROVE  LoginTypes'
  <2>0. u \in Flows
    BY LoginConstants
  <2>1. CASE RunArrives(u)
    BY <2>1 DEF RunArrives, LoginTypeOK, Free
  <2>2. CASE RunAcquires(u)
    BY <2>0, <2>2, ReleaseTypes DEF RunAcquires, LoginTypeOK
  <2>3. CASE RunEnds(u)
    BY <2>0, <2>3, ReleaseTypes DEF RunEnds, LoginTypeOK
  <2> QED  BY <1>2, <2>1, <2>2, <2>3
<1>3. ASSUME NEW a \in LoginAccounts, Forgotten(a) PROVE LoginTypes'
  BY <1>3, LoginConstants DEF Forgotten, LoginTypeOK, Free
<1> QED  BY <1>0, <1>1, <1>2, <1>3 DEF LoginNext

\* The lock of an account is held by one of its own flows, however the requests of its
\* logins, the clean-ups and the sign runs interleave: for any logins, runs and accounts.
THEOREM LoginTyped == LoginSpec => []LoginTypeOK
<1>1. LoginTypes => LoginTypeOK
  BY DEF LoginTypes
<1> QED  BY <1>1, LoginTypesInit, LoginTypesStep, PTL DEF LoginSpec

-----------------------------------------------------------------------------
\* The login may still release its lease.
Live(l) ==
  l \in stored \/ start[l] \in {"sending", "failing"} \/ verify[l] # "idle" \/ closer[l] # NoLogin

\* Who starts a login has no session, and so nobody takes one over from it; a session
\* that is being closed is not stored.
Stages ==
  /\ \A l \in Logins : start[l] # "done" =>
       l \notin stored /\ verify[l] = "idle" /\ closer[l] = NoLogin
  /\ \A l, k \in Logins : start[l] # "done" => l \notin todo[k]

\* A lease that says "owned", may still be released and was not robbed has the lock; a
\* flow at work has such a lease.
Owns ==
  /\ \A l \in (owned \cap Logins) \ robbed : Live(l) => holder[AccountOf[l]] = l
  /\ \A u \in (owned \cap LoginRuns) \ robbed : holder[AccountOf[u]] = u
  /\ \A u \in LoginRuns : signing[u] = "working" <=> u \in owned
  /\ \A l \in Logins : start[l] \in {"sending", "failing"} => l \in owned

LoginInv == LoginTypes /\ Stages /\ Owns

LEMMA LoginInvInit == LoginInit => LoginInv
<1> SUFFICES ASSUME LoginInit PROVE LoginInv
  OBVIOUS
<1>1. LoginTypes
  BY LoginTypesInit
<1>2. Stages
  BY DEF LoginInit, Stages
<1>3. Owns
  BY DEF LoginInit, Owns
<1> QED  BY <1>1, <1>2, <1>3 DEF LoginInv

\* No other live lease of the account is owned, but those that were robbed, while one has
\* the lock or it is free.
LEMMA OthersDead ==
  ASSUME LoginInv, NEW x \in Flows, Free(AccountOf[x]) \/ holder[AccountOf[x]] = x
  PROVE  /\ \A l \in (owned \cap Logins) \ robbed :
              l # x /\ Live(l) => AccountOf[l] # AccountOf[x]
         /\ \A u \in (owned \cap LoginRuns) \ robbed : u # x => AccountOf[u] # AccountOf[x]
  BY LoginConstants DEF LoginInv, Owns, Free

\* Who has the lock that is opened by force, or by a robbed lease, is robbed.
LEMMA OpenedOwns ==
  ASSUME LoginInv, NEW x \in Flows, owned' = owned \ {x},
         holder' = holder \/ holder' = [holder EXCEPT ![AccountOf[x]] = NoLogin],
         robbed' = (robbed \ {x}) \cup Owner(x)
  PROVE  /\ \A l \in (owned' \cap Logins) \ robbed' : Live(l) => holder'[AccountOf[l]] = l
         /\ \A u \in (owned' \cap LoginRuns) \ robbed' : holder'[AccountOf[u]] = u
<1>1. \A a \in LoginAccounts : a # AccountOf[x] => holder'[a] = holder[a]
  BY DEF LoginInv, LoginTypes
<1>2. ASSUME NEW f \in owned' \ robbed', holder[AccountOf[f]] = f
      PROVE  holder'[AccountOf[f]] = f
  <2>1. f \in owned /\ f # x /\ f \notin Owner(x) /\ f \in Flows /\ AccountOf[f] \in LoginAccounts
    BY <1>2, LoginConstants DEF LoginInv, LoginTypes, LoginTypeOK
  <2>2. AccountOf[f] # AccountOf[x]
    BY <1>2, <2>1 DEF Owner
  <2> QED  BY <1>1, <1>2, <2>1, <2>2
<1>3. owned' \ robbed' \subseteq owned \ robbed
  OBVIOUS
<1> QED  BY <1>2, <1>3 DEF LoginInv, Owns

\* A release opens the lock of the lease that is released, and no other: unless that was
\* robbed.
LEMMA ReleaseOwns ==
  ASSUME LoginInv, NEW x \in Flows, Release(x), x \in Logins => Live(x)
  PROVE  /\ owned' = owned \ {x}
         /\ \A l \in (owned' \cap Logins) \ robbed' : Live(l) => holder'[AccountOf[l]] = l
         /\ \A u \in (owned' \cap LoginRuns) \ robbed' : holder'[AccountOf[u]] = u
<1>1. owned' = owned \ {x}
  BY DEF Release
<1>2. CASE x \notin owned
  <2>1. holder' = holder /\ robbed' = robbed
    BY <1>2 DEF Release, Opens, LoginInv, LoginTypes, LoginTypeOK
  <2> QED  BY <1>1, <2>1 DEF LoginInv, Owns
<1>3. CASE x \in owned /\ x \notin robbed
  <2>1. holder' = [holder EXCEPT ![AccountOf[x]] = NoLogin] /\ robbed' = robbed
    BY <1>3 DEF Release, Opens
  <2>2. holder[AccountOf[x]] = x
    BY <1>3, LoginConstants DEF LoginInv, Owns
  <2>3. \A a \in LoginAccounts : a # AccountOf[x] => holder'[a] = holder[a]
    BY <2>1 DEF LoginInv, LoginTypes
  <2> QED  BY <1>1, <2>1, <2>2, <2>3, OthersDead, LoginConstants DEF LoginInv, Owns
<1>4. CASE x \in robbed
  <2>1. /\ holder' = holder \/ holder' = [holder EXCEPT ![AccountOf[x]] = NoLogin]
        /\ robbed' = (robbed \ {x}) \cup Owner(x)
    BY <1>4 DEF Release, Opens
  <2> QED  BY <1>1, <2>1, OpenedOwns
<1> QED  BY <1>2, <1>3, <1>4

\* A flow that takes a free lock takes it from no live lease.
LEMMA TakeOwns ==
  ASSUME LoginInv, NEW x \in Flows, Free(AccountOf[x]),
         holder' = [holder EXCEPT ![AccountOf[x]] = x],
         owned' = owned \cup {x} \/ owned' = owned, robbed' = robbed \ {x}
  PROVE  /\ holder'[AccountOf[x]] = x
         /\ \A l \in (owned' \cap Logins) \ robbed' :
              Live(l) \/ l = x => holder'[AccountOf[l]] = l
         /\ \A u \in (owned' \cap LoginRuns) \ robbed' : holder'[AccountOf[u]] = u
<1>1. AccountOf[x] \in LoginAccounts
  BY LoginConstants
<1>2. /\ holder'[AccountOf[x]] = x
      /\ \A a \in LoginAccounts : a # AccountOf[x] => holder'[a] = holder[a]
  BY <1>1 DEF LoginInv, LoginTypes
<1> QED  BY <1>1, <1>2, OthersDead, LoginConstants DEF LoginInv, Owns

-----------------------------------------------------------------------------
(* A start *)

\* A step that takes, opens and stores nothing, and does not start to send.
LEMMA QuietStep ==
  ASSUME LoginInv, UNCHANGED accountLock, UNCHANGED signing,
         stored' \subseteq stored,
         \A l \in Logins : verify'[l] # "idle" => verify[l] # "idle" \/ l \in stored,
         \A l \in Logins : closer'[l] # NoLogin => closer[l] # NoLogin \/ l \in stored,
         \A l \in Logins : start'[l] = start[l] \/ start[l] # "done",
         \A l \in Logins : start'[l] \in {"sending", "failing"} => start[l] \in {"sending", "failing"},
         \A l \in Logins : todo'[l] \subseteq todo[l] \cup stored
  PROVE  Stages' /\ Owns'
<1>1. \A l \in Logins : Live(l)' => Live(l)
  BY DEF Live
<1>2. \A l \in Logins : start'[l] # "done" => start[l] # "done"
  OBVIOUS
<1>3. Stages'
  BY <1>2 DEF LoginInv, Stages
<1>4. Owns'
  BY <1>1 DEF accountLock, LoginInv, Owns
<1> QED  BY <1>3, <1>4

\* A step that releases or robs a login, and goes on with no start that has a lock.
LEMMA OpeningStep ==
  ASSUME LoginInv, NEW x \in Flows, owned' = owned \ {x}, UNCHANGED signing,
         x \in Logins, start'[x] \notin {"sending", "failing"},
         \A l \in (owned' \cap Logins) \ robbed' : Live(l) => holder'[AccountOf[l]] = l,
         \A u \in (owned' \cap LoginRuns) \ robbed' : holder'[AccountOf[u]] = u,
         stored' \subseteq stored,
         \A l \in Logins : verify'[l] # "idle" => verify[l] # "idle",
         \A l \in Logins : closer'[l] # NoLogin => closer[l] # NoLogin,
         \A l \in Logins : start'[l] = start[l] \/ start[l] # "done",
         \A l \in Logins : start'[l] \in {"sending", "failing"} => start[l] \in {"sending", "failing"},
         \A l \in Logins : todo'[l] \subseteq todo[l] \cup stored
  PROVE  Stages' /\ Owns'
<1>1. \A l \in Logins : Live(l)' => Live(l)
  BY DEF Live
<1>2. \A l \in Logins : start'[l] # "done" => start[l] # "done"
  OBVIOUS
<1>3. Stages'
  BY <1>2 DEF LoginInv, Stages
<1>4. x \notin LoginRuns
  BY LoginConstants
<1>5. Owns'
  BY <1>1, <1>4 DEF LoginInv, Owns
<1> QED  BY <1>3, <1>5

\* A start takes over a session that it has found, or opens the lock of another flow.
LEMMA TakeOverStep ==
  ASSUME LoginInv, NEW l \in Logins, NEW k \in Logins, NEW rest, TakeOver(l, k, rest),
         start[l] \in {"sweeping", "taking"}, start[k] = "done",
         rest \subseteq todo[l] \cup stored,
         UNCHANGED <<stored, closer, verify, signing>>
  PROVE  Stages' /\ Owns'
<1>1. /\ owned' = owned \ {k} /\ holder' = [holder EXCEPT ![AccountOf[k]] = NoLogin]
      /\ robbed' = (robbed \ {k}) \cup Owner(k) /\ k \in Flows
  BY LoginConstants DEF TakeOver, ForceRelease
<1>2. /\ start'[l] = "taking" /\ \A j \in Logins : j # l => start'[j] = start[j]
      /\ todo'[l] = rest /\ \A j \in Logins : j # l => todo'[j] = todo[j]
  BY DEF TakeOver, LoginInv, LoginTypes, LoginTypeOK
<1>3. k # l /\ start'[k] = "done"
  BY <1>2
<1>4. /\ \A j \in (owned' \cap Logins) \ robbed' : Live(j) => holder'[AccountOf[j]] = j
      /\ \A u \in (owned' \cap LoginRuns) \ robbed' : holder'[AccountOf[u]] = u
  BY <1>1, OpenedOwns
<1> QED  BY <1>1, <1>2, <1>3, <1>4, OpeningStep

LEMMA SweptStep ==
  ASSUME LoginInv, NEW l \in Logins, Swept(l) PROVE Stages' /\ Owns'
<1>1. start[l] = "sweeping" /\ UNCHANGED <<stored, closer, verify, signing>>
  BY DEF Swept
<1>2. Residual(l) \subseteq stored /\ Residual(l) \subseteq Logins
  BY ResidualLogins DEF LoginInv
<1>3. CASE /\ todo' = [todo EXCEPT ![l] = Residual(l)]
           /\ start' = [start EXCEPT ![l] = IF l \in QrLogins THEN "cleaning" ELSE "taking"]
           /\ UNCHANGED accountLock
  <2>1. /\ start'[l] \in {"cleaning", "taking"} /\ todo'[l] = Residual(l)
        /\ \A j \in Logins : j # l => start'[j] = start[j] /\ todo'[j] = todo[j]
    BY <1>3 DEF LoginInv, LoginTypes, LoginTypeOK
  <2> QED  BY <1>1, <1>2, <1>3, <2>1, QuietStep
<1>4. ASSUME NEW k \in Residual(l), TakeOver(l, k, Residual(l) \ {k}) PROVE Stages' /\ Owns'
  <2>1. k \in Logins /\ start[k] = "done" /\ Residual(l) \ {k} \subseteq todo[l] \cup stored
    BY <1>2 DEF LoginInv, Stages
  <2> QED  BY <1>1, <1>4, <2>1, TakeOverStep
<1> QED  BY <1>3, <1>4 DEF Swept

LEMMA TakeNextStep ==
  ASSUME LoginInv, NEW l \in Logins, NEW k \in Logins, TakeNext(l, k) PROVE Stages' /\ Owns'
<1>1. /\ start[l] = "taking" /\ TakeOver(l, k, todo[l] \ {k})
      /\ UNCHANGED <<stored, closer, verify, signing>>
  BY DEF TakeNext
<1>2. start[k] = "done" /\ todo[l] \ {k} \subseteq todo[l] \cup stored
  BY DEF TakeNext, LoginInv, Stages
<1> QED  BY <1>1, <1>2, TakeOverStep

\* The steps of a start that neither take nor open a lock.
LEMMA GoesOn ==
  ASSUME LoginInv, NEW l \in Logins,
         \/ Begin(l) \/ TakenOver(l) \/ Cleaned(l) \/ StartTimesOut(l) \/ SendFails(l)
         \/ \E k \in Logins : PopOther(l, k)
  PROVE  Stages' /\ Owns'
<1>1. /\ UNCHANGED accountLock /\ UNCHANGED <<verify, signing>> /\ stored' \subseteq stored
  BY DEF Begin, TakenOver, Cleaned, StartTimesOut, SendFails, PopOther
<1>2. \A k \in Logins : closer'[k] # NoLogin => closer[k] # NoLogin \/ k \in stored
  BY DEF Begin, TakenOver, Cleaned, StartTimesOut, SendFails, PopOther, LoginInv, LoginTypes,
         LoginTypeOK
<1>3. /\ \A k \in Logins : start'[k] = start[k] \/ start[k] # "done"
      /\ \A k \in Logins : start'[k] \in {"sending", "failing"} =>
                             start[k] \in {"sending", "failing"}
  BY DEF Begin, TakenOver, Cleaned, StartTimesOut, SendFails, PopOther, LoginInv, LoginTypes,
         LoginTypeOK
<1>4. \A k \in Logins : todo'[k] \subseteq todo[k] \cup stored
  BY DEF Begin, TakenOver, Cleaned, StartTimesOut, SendFails, PopOther, LoginInv, LoginTypes,
         LoginTypeOK
<1> QED  BY <1>1, <1>2, <1>3, <1>4, QuietStep

LEMMA StartAcquiresStep ==
  ASSUME LoginInv, NEW l \in Logins, StartAcquires(l) PROVE Stages' /\ Owns'
<1>1. /\ start[l] = "waiting" /\ Free(AccountOf[l]) /\ Take(l) /\ l \in Flows
      /\ start' = [start EXCEPT ![l] = "sending"] /\ l \notin LoginRuns
      /\ UNCHANGED <<stored, todo, closer, verify, signing>>
  BY LoginConstants DEF StartAcquires
<1>2. start'[l] = "sending" /\ \A k \in Logins : k # l => start'[k] = start[k]
  BY <1>1 DEF LoginInv, LoginTypes, LoginTypeOK
<1>3. Stages'
  BY <1>1, <1>2 DEF LoginInv, Stages
<1>4. \A k \in Logins : Live(k)' => Live(k) \/ k = l
  BY <1>1, <1>2 DEF Live
<1>5. /\ owned' = owned \cup {l}
      /\ \A k \in (owned' \cap Logins) \ robbed' :
           Live(k) \/ k = l => holder'[AccountOf[k]] = k
      /\ \A u \in (owned' \cap LoginRuns) \ robbed' : holder'[AccountOf[u]] = u
  BY <1>1, TakeOwns DEF Take
<1>6. Owns'
  BY <1>1, <1>2, <1>4, <1>5 DEF LoginInv, Owns
<1> QED  BY <1>3, <1>6

LEMMA SentStep == ASSUME LoginInv, NEW l \in Logins, Sent(l) PROVE Stages' /\ Owns'
<1>1. /\ start[l] = "sending" /\ l \notin stored /\ verify[l] = "idle" /\ closer[l] = NoLogin
      /\ UNCHANGED accountLock /\ UNCHANGED <<todo, closer, verify, signing>>
      /\ stored' \subseteq stored \cup {l} /\ start' = [start EXCEPT ![l] = "done"]
  BY DEF Sent, LoginInv, Stages
<1>2. start'[l] = "done" /\ \A k \in Logins : k # l => start'[k] = start[k]
  BY <1>1 DEF LoginInv, LoginTypes, LoginTypeOK
<1>3. Stages'
  BY <1>1, <1>2 DEF LoginInv, Stages
<1>4. \A k \in Logins : Live(k)' => Live(k)
  BY <1>1, <1>2 DEF Live
<1>5. Owns'
  BY <1>1, <1>2, <1>4 DEF accountLock, LoginInv, Owns
<1> QED  BY <1>3, <1>5

\* A step that gives back what a login owns: a start that has failed, a session that was
\* stopped, a phone login that is over.
LEMMA GivesBack ==
  ASSUME LoginInv, NEW l \in Logins, StartGivesUp(l) \/ Closed(l) \/ Discard(l)
  PROVE  Stages' /\ Owns'
<1>1. /\ Release(l) /\ Live(l) /\ l \in Flows /\ UNCHANGED <<todo, signing>>
      /\ stored' \subseteq stored
  BY LoginConstants DEF StartGivesUp, Closed, Discard, Live
<1>2. /\ \A k \in Logins : verify'[k] # "idle" => verify[k] # "idle"
      /\ \A k \in Logins : closer'[k] # NoLogin => closer[k] # NoLogin
  BY DEF StartGivesUp, Closed, Discard, LoginInv, LoginTypes, LoginTypeOK
<1>3. /\ start'[l] \notin {"sending", "failing"}
      /\ \A k \in Logins : start'[k] = start[k] \/ (start[k] # "done" /\ start'[k] = "done")
  <2>1. CASE StartGivesUp(l)
    BY <2>1 DEF StartGivesUp, LoginInv, LoginTypes, LoginTypeOK
  <2>2. CASE Closed(l) \/ Discard(l)
    <3>1. start[l] = "done" /\ start' = start
      BY <2>2 DEF Closed, Discard, LoginInv, Stages
    <3> QED  BY <3>1
  <2> QED  BY <2>1, <2>2
<1>4. /\ owned' = owned \ {l}
      /\ \A k \in (owned' \cap Logins) \ robbed' : Live(k) => holder'[AccountOf[k]] = k
      /\ \A u \in (owned' \cap LoginRuns) \ robbed' : holder'[AccountOf[u]] = u
  BY <1>1, ReleaseOwns
<1> QED  BY <1>1, <1>2, <1>3, <1>4, OpeningStep

-----------------------------------------------------------------------------
(* A login that goes on *)

LEMMA VerifyStep ==
  ASSUME LoginInv, NEW l \in Logins, Verify(l) \/ VerifyAcquires(l) PROVE Stages' /\ Owns'
<1>1. UNCHANGED <<stored, start, todo, closer, signing>> /\ l \in Flows /\ l \notin LoginRuns
  BY LoginConstants DEF Verify, VerifyAcquires
<1>2. start[l] = "done" /\ Live(l)
  BY DEF Verify, VerifyAcquires, LoginInv, Stages, Live
<1>3. PICK v \in {"working", "relock", "take"} : verify' = [verify EXCEPT ![l] = v]
  BY DEF Verify, HandOn, VerifyAcquires
<1>4. verify'[l] = v /\ \A k \in Logins : k # l => verify'[k] = verify[k]
  BY <1>3 DEF LoginInv, LoginTypes, LoginTypeOK
<1>5. Stages'
  BY <1>1, <1>2, <1>4 DEF LoginInv, Stages
<1>6. \A k \in Logins : Live(k)' => Live(k)
  BY <1>1, <1>2, <1>4 DEF Live
<1>7. CASE UNCHANGED accountLock
  <2>1. Owns'
    BY <1>1, <1>6, <1>7 DEF accountLock, LoginInv, Owns
  <2> QED  BY <1>5, <2>1
<1>8. CASE /\ Free(AccountOf[l]) /\ holder' = [holder EXCEPT ![AccountOf[l]] = l]
           /\ owned' = owned \cup {l} \/ owned' = owned
           /\ robbed' = robbed \ {l}
  <2>1. /\ \A k \in (owned' \cap Logins) \ robbed' : Live(k) => holder'[AccountOf[k]] = k
        /\ \A u \in (owned' \cap LoginRuns) \ robbed' : holder'[AccountOf[u]] = u
    BY <1>1, <1>8, TakeOwns
  <2>2. Owns'
    BY <1>1, <1>6, <1>8, <2>1 DEF LoginInv, Owns
  <2> QED  BY <1>5, <2>2
<1>9. CASE VerifyAcquires(l)
  BY <1>8, <1>9 DEF VerifyAcquires
<1>10. CASE Verify(l)
  BY <1>7, <1>8, <1>10 DEF Verify, HandOn, Take
<1> QED  BY <1>9, <1>10

LEMMA RequestSteps ==
  ASSUME LoginInv, NEW l \in Logins,
         \/ VerifyWaits(l) \/ PhoneVerified(l) \/ PasswordEnds(l)
         \/ Scan(l) \/ Poll(l) \/ PollReturns(l) \/ PollEnds(l) \/ ExpireQr(l)
  PROVE  Stages' /\ Owns'
<1>1. UNCHANGED accountLock /\ UNCHANGED <<start, todo, signing>> /\ stored' \subseteq stored
  BY DEF VerifyWaits, PhoneVerified, PasswordEnds, Scan, Poll, PollReturns, PollEnds, ExpireQr,
         CleanupQr
<1>2. \A k \in Logins : verify'[k] # "idle" => verify[k] # "idle"
  BY DEF VerifyWaits, PhoneVerified, PasswordEnds, Scan, Poll, PollReturns, PollEnds, ExpireQr,
         LoginInv, LoginTypes, LoginTypeOK
<1>3. \A k \in Logins : closer'[k] # NoLogin => closer[k] # NoLogin \/ k \in stored
  BY DEF VerifyWaits, PhoneVerified, PasswordEnds, Scan, Poll, PollReturns, PollEnds, ExpireQr,
         CleanupQr, LoginInv, LoginTypes, LoginTypeOK
<1> QED  BY <1>1, <1>2, <1>3, QuietStep

-----------------------------------------------------------------------------
(* Runs, and the table of locks *)

LEMMA RunSteps ==
  ASSUME LoginInv, NEW u \in LoginRuns, RunArrives(u) \/ RunAcquires(u) \/ RunEnds(u)
  PROVE  Stages' /\ Owns'
<1>1. UNCHANGED <<stored, start, todo, closer, verify>> /\ u \in Flows /\ u \notin Logins
  BY LoginConstants DEF RunArrives, RunAcquires, RunEnds
<1>2. Stages' /\ \A k \in Logins : Live(k)' = Live(k)
  BY <1>1 DEF LoginInv, Stages, Live
<1>3. \A v \in LoginRuns : v # u => signing'[v] = signing[v]
  BY DEF RunArrives, RunAcquires, RunEnds, LoginInv, LoginTypes, LoginTypeOK
<1>4. CASE RunArrives(u)
  <2>1. signing'[u] = "waiting" /\ signing[u] = "idle" /\ UNCHANGED <<holder, owned, robbed>>
    BY <1>4 DEF RunArrives, accountLock, LoginInv, LoginTypes, LoginTypeOK
  <2> QED  BY <1>1, <1>2, <1>3, <2>1 DEF LoginInv, Owns
<1>5. CASE RunAcquires(u)
  <2>1. signing'[u] = "working" /\ Free(AccountOf[u]) /\ Take(u)
    BY <1>5 DEF RunAcquires, LoginInv, LoginTypes, LoginTypeOK
  <2>2. /\ owned' = owned \cup {u}
        /\ \A l \in (owned' \cap Logins) \ robbed' : Live(l) => holder'[AccountOf[l]] = l
        /\ \A v \in (owned' \cap LoginRuns) \ robbed' : holder'[AccountOf[v]] = v
    BY <1>1, <2>1, TakeOwns DEF Take
  <2> QED  BY <1>1, <1>2, <1>3, <2>1, <2>2 DEF LoginInv, Owns
<1>6. CASE RunEnds(u)
  <2>1. signing'[u] = "idle" /\ Release(u)
    BY <1>6 DEF RunEnds, LoginInv, LoginTypes, LoginTypeOK
  <2>2. /\ owned' = owned \ {u}
        /\ \A l \in (owned' \cap Logins) \ robbed' : Live(l) => holder'[AccountOf[l]] = l
        /\ \A v \in (owned' \cap LoginRuns) \ robbed' : holder'[AccountOf[v]] = v
    BY <1>1, <2>1, ReleaseOwns
  <2> QED  BY <1>1, <1>2, <1>3, <2>1, <2>2 DEF LoginInv, Owns
<1> QED  BY <1>4, <1>5, <1>6

\* A lock that is forgotten belongs to nobody who may still release it.
LEMMA ForgottenStep ==
  ASSUME LoginInv, NEW a \in LoginAccounts, Forgotten(a) PROVE Stages' /\ Owns'
<1>1. /\ UNCHANGED <<owned, robbed, stored, start, todo, closer, verify, signing>>
      /\ \A b \in LoginAccounts : b # a => holder'[b] = holder[b]
  BY DEF Forgotten, LoginInv, LoginTypes
<1>2. Stages' /\ \A k \in Logins : Live(k)' = Live(k)
  BY <1>1 DEF LoginInv, Stages, Live
<1>3. \A k \in Logins : AccountOf[k] = a => ~Live(k)
  BY DEF Forgotten, Live, Starting
<1>4. \A u \in owned \cap LoginRuns : AccountOf[u] # a
  BY DEF Forgotten, LoginInv, Owns
<1>5. Owns'
  BY <1>1, <1>2, <1>3, <1>4, LoginConstants DEF LoginInv, Owns
<1> QED  BY <1>2, <1>5

LEMMA LoginInvStep == LoginInv /\ [LoginNext]_loginVars => LoginInv'
<1> SUFFICES ASSUME LoginInv, [LoginNext]_loginVars PROVE LoginInv'
  OBVIOUS
<1>1. LoginTypes'
  BY LoginTypesStep DEF LoginInv
<1>2. CASE UNCHANGED loginVars
  <2>1. Stages' /\ Owns'
    BY <1>2 DEF loginVars, accountLock, LoginInv, Stages, Owns, Live
  <2> QED  BY <1>1, <2>1 DEF LoginInv
<1>3. ASSUME NEW l \in Logins, LoginStep(l) PROVE Stages' /\ Owns'
  BY <1>3, GoesOn, SweptStep, TakeNextStep, StartAcquiresStep, SentStep, GivesBack, VerifyStep,
     RequestSteps DEF LoginStep
<1> QED  BY <1>1, <1>2, <1>3, RunSteps, ForgottenStep DEF LoginNext, LoginInv

\* A sign run at work, and a start that talks to Telegram, have the lock of their
\* account whatever other logins release, expire or clean up meanwhile, and however
\* many starts overlap: only a takeover, or the lease of a flow that one has robbed,
\* takes it away. For any logins, runs, accounts and account names.
THEOREM LockIsKept == LoginSpec => []LockKept
<1>1. ASSUME LoginInv PROVE LockKept
  BY <1>1, LoginConstants DEF LoginInv, Owns, Live, LockKept
<1>2. LoginInv => LockKept
  BY <1>1
<1> QED  BY <1>2, LoginInvInit, LoginInvStep, PTL DEF LoginSpec

=============================================================================
