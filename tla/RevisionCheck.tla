--------------------------- MODULE RevisionCheck ---------------------------
(***************************************************************************)
(* pkg/verifiers/revision.go: two listings of the deployments' revisions,  *)
(* an observation period apart, and the deployments that roll out, go and  *)
(* come while it looks.                                                    *)
(***************************************************************************)
EXTENDS HealthCheck, Integers

CONSTANTS Deployments, MaxRevision  \* bound: revisions of a deployment

ASSUME RevisionAssumption == MaxRevision \in Nat

VARIABLES
  revision,  \* a deployment's revision: Missing, or 0 before the annotation is there
  initial,   \* the first listing
  rolled,    \* history: those whose revision changed since the first listing
  gone       \* history: those that were missing at some time since then

revisionVars == <<revision, initial, rolled, gone>>

Missing == -1
Revisions == Missing .. MaxRevision
Nothing == [d \in Deployments |-> Missing]

RevisionInit == revision = Nothing /\ initial = Nothing /\ rolled = {} /\ gone = {}

\* Nothing listed is nothing to observe.
FirstSnapshot ==
  /\ check = "revisions" /\ at = "first"
  /\ \/ Ends("error") /\ UNCHANGED <<initial, rolled, gone>>
     \/ /\ initial' = revision
        /\ rolled' = {} /\ gone' = {d \in Deployments : revision[d] = Missing}
        /\ IF revision = Nothing THEN Ends("nil") ELSE Goto("observe")
  /\ UNCHANGED revision

Observe ==
  /\ check = "revisions" /\ at = "observe"
  /\ Goto("second") \/ Ends("error")
  /\ UNCHANGED revisionVars

\* Slip: a deployment that the second listing lacks has changed.
ChangedOrGone(d) == initial[d] # Missing /\ initial[d] # revision[d]

Changed(d) == initial[d] # Missing /\ revision[d] # Missing /\ initial[d] # revision[d]

SecondSnapshot ==
  /\ check = "revisions" /\ at = "second"
  /\ Ends("error") \/ Ends(IF \E d \in Deployments : Changed(d) THEN "found" ELSE "nil")
  /\ UNCHANGED revisionVars

RevisionSteps == FirstSnapshot \/ Observe \/ SecondSnapshot

\* A revision only grows while its deployment is there: a rollback is a revision as well.
RollsOut(d) ==
  /\ revision[d] # Missing /\ revision[d] < MaxRevision
  /\ revision' = [revision EXCEPT ![d] = @ + 1]
  /\ rolled' = rolled \cup {d} /\ UNCHANGED gone
Goes(d) == revision' = [revision EXCEPT ![d] = Missing] /\ gone' = gone \cup {d} /\ UNCHANGED rolled
Comes(d) ==
  /\ revision[d] = Missing
  /\ revision' = [revision EXCEPT ![d] = 0]
  /\ UNCHANGED <<rolled, gone>>

RevisionWorld ==
  /\ check = "revisions" /\ Elsewhere
  /\ \E d \in Deployments : RollsOut(d) \/ Goes(d) \/ Comes(d)
  /\ UNCHANGED initial

RevisionTypeOK ==
  /\ revision \in [Deployments -> Revisions] /\ initial \in [Deployments -> Revisions]
  /\ rolled \subseteq Deployments /\ gone \subseteq Deployments
=============================================================================
