-------------------------- MODULE AccountExecution --------------------------
(***************************************************************************)
(* What the run manager promises about the accounts: whatever is started,  *)
(* rejected, cancelled or drained, an account executes one run at a time,  *)
(* a run is executed at most once, and an execution ends.                  *)
(***************************************************************************)
CONSTANTS Accounts, Runs, Nobody

VARIABLES owner, \* the run that each account executes
          ran    \* the runs whose execution has begun
vars == <<owner, ran>>

Init == owner = [a \in Accounts |-> Nobody] /\ ran = {}

Begin(a, r) ==
  /\ owner[a] = Nobody /\ r \notin ran
  /\ owner' = [owner EXCEPT ![a] = r]
  /\ ran' = ran \cup {r}

End(a) ==
  /\ owner[a] # Nobody
  /\ owner' = [owner EXCEPT ![a] = Nobody]
  /\ UNCHANGED ran

Next == \E a \in Accounts : End(a) \/ \E r \in Runs : Begin(a, r)

Spec == Init /\ [][Next]_vars
FairSpec == Spec /\ \A a \in Accounts : WF_vars(End(a))

=============================================================================
