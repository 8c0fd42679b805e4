---------------------------- MODULE MCSignTaskRun ----------------------------
(* Instances of SignTaskRun for TLC: two tasks of one account compete for its  *)
(* lock; two manual runs and a scheduled one compete for a task.              *)
EXTENDS SignTaskRun, TLC

CONSTANTS acc1, t1, t2, h1, h2, d1

MCAccountOf == t1 :> acc1 @@ t2 :> acc1
MCAccountOfOne == t1 :> acc1

\* Manual runs are interchangeable, and so are the two tasks of the account.
Symmetry == Permutations({h1, h2}) \cup Permutations({t1, t2})

=============================================================================
