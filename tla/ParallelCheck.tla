--------------------------- MODULE ParallelCheck ---------------------------
(***************************************************************************)
(* What a caller of RunVerifiers relies on: every verifier looks at the    *)
(* cluster exactly once per call, in any order and each at its own moment; *)
(* the call returns after the last of them, with exactly those that        *)
(* failed.  A caller may call again.                                       *)
(***************************************************************************)
CONSTANTS Verifiers

VARIABLES
  verdict,  \* of each verifier in the current call: "none", "ok", "failed"
  answer    \* <<>> before the call returns, then <<the verifiers that failed>>

checkVars == <<verdict, answer>>

CheckInit ==
  /\ verdict = [v \in Verifiers |-> "none"]
  /\ answer = <<>>

Look(v) ==
  /\ verdict[v] = "none"
  /\ \E ok \in {"ok", "failed"} : verdict' = [verdict EXCEPT ![v] = ok]
  /\ UNCHANGED answer

Answer ==
  /\ answer = <<>>
  /\ \A v \in Verifiers : verdict[v] # "none"
  /\ answer' = <<{v \in Verifiers : verdict[v] = "failed"}>>
  /\ UNCHANGED verdict

CallAgain ==
  /\ answer # <<>>
  /\ verdict' = [v \in Verifiers |-> "none"]
  /\ answer' = <<>>

CheckNext == (\E v \in Verifiers : Look(v)) \/ Answer \/ CallAgain

CheckSpec == CheckInit /\ [][CheckNext]_checkVars

\* An answer comes after every verifier has looked, and names those that failed and no other.
AnswerExact ==
  answer # <<>> =>
    /\ \A v \in Verifiers : verdict[v] # "none"
    /\ answer = <<{v \in Verifiers : verdict[v] = "failed"}>>
=============================================================================
