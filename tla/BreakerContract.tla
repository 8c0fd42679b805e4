-------------------------- MODULE BreakerContract --------------------------
(***************************************************************************)
(* What the circuit breaker of the semantic service promises its callers:  *)
(* once it has opened, it closes again only through a trial call that      *)
(* succeeds, there is one trial call at a time, and every trial ends.      *)
(***************************************************************************)
VARIABLES mode,  \* closed, open or half_open
          trial  \* a trial call is under way
vars == <<mode, trial>>

Init == mode = "closed" /\ trial = FALSE

Trip == mode = "closed" /\ mode' = "open" /\ UNCHANGED trial

Try ==
  /\ mode \in {"open", "half_open"} /\ ~trial
  /\ mode' = "half_open" /\ trial' = TRUE

\* The trial succeeds, fails, or is given up without a verdict.
EndTrial ==
  /\ mode = "half_open" /\ trial
  /\ trial' = FALSE
  /\ mode' \in {"closed", "open", "half_open"}

Next == Trip \/ Try \/ EndTrial

Spec == Init /\ [][Next]_vars
FairSpec == Spec /\ WF_vars(EndTrial)

=============================================================================
