----------------------------- MODULE MCProgress -----------------------------
(***************************************************************************)
(* The components whose callers wait for something that must happen, side  *)
(* by side: they share no state, so a behaviour of this module is one of   *)
(* the component it has chosen, and the others keep their initial states.  *)
(* The logins have two: all of them but one phone login, with the promise  *)
(* that a QR login ends, and all of them but the QR login, where overlap-  *)
(* ping starts take over the sessions of both accounts.                    *)
(***************************************************************************)
EXTENDS KeywordMonitor, SemanticBreaker, LoginSession

CONSTANTS r1, r2, u1,       \* keyword monitor: restarts, a run of the account
          s1, s2, s3        \* semantic breaker: calls
VARIABLE component
allVars == <<component, vars, breakerVars, loginVars>>

MCOld == [c \in Changes |-> 1]
MCNew == [c \in Changes |-> 2]

\* Two phone logins of "a", whose name and "_" also begin the keys of "b"; the others of "b".
MCAccountOf == [f \in Flows |-> IF f \in {"p1", "p2"} THEN "a" ELSE "b"]
MCClashes == {<<"a", "b">>}

Others(c) ==
  /\ component = c /\ UNCHANGED component
  /\ IF c = "monitor" THEN TRUE ELSE UNCHANGED vars
  /\ IF c = "breaker" THEN TRUE ELSE UNCHANGED breakerVars
  /\ IF c \in {"login", "takeovers"} THEN TRUE ELSE UNCHANGED loginVars

ProgressInit ==
  /\ component \in {"monitor", "breaker", "login", "takeovers"}
  /\ Init /\ BreakerInit /\ LoginInit
  /\ component # "monitor" => disk = {}

ProgressNext ==
  \/ Others("monitor") /\ Next
  \/ Others("breaker") /\ BreakerNext
  \/ Others("login") /\ LoginNext /\ \A l \in {"p1", "p2"} : start'[l] = "new"
  \/ Others("takeovers") /\ LoginNext /\ start'["q1"] = "new"

\* The component does not change; <>[] keeps the condition in the form TLC checks fast.
ProgressSpec ==
  /\ ProgressInit /\ [][ProgressNext]_allVars
  /\ <>[](component = "monitor") => MonitorFairness
  /\ <>[](component = "breaker") => BreakerFairness
  /\ <>[](component = "login") => LoginFairness

\* The type invariants of the components.
ProgressTyped == TypeOK /\ BreakerTypeOK /\ LoginTypeOK
=============================================================================
