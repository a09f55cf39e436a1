--------------------------- MODULE OwnedResource ---------------------------
(***************************************************************************)
(* What the deferred cleanups of the suite promise, for the resource that  *)
(* a spec creates in an account or a cluster it shares with others ("Each  *)
(* test cleans up via DeferCleanup to prevent state leakage"): it stands   *)
(* only while somebody is bound to delete it.  An owner may find it there  *)
(* and be bound as well, and whoever comes first deletes it for all.  The  *)
(* promise ends with a job that is killed and with a call that is lost.    *)
(***************************************************************************)
CONSTANT Owners  \* the executions of the spec

VARIABLES
  standing,  \* it is there, and no deletion of it has been accepted
  bound,     \* the owners that have its deletion ahead of them
  broken     \* an owner was killed, or one of its calls was lost

ownedVars == <<standing, bound, broken>>

OwnedInit == standing = FALSE /\ bound = {} /\ broken = FALSE

\* An owner creates the resource, or finds it, or will try again to create it.
Take(o) ==
  /\ bound' = bound \cup {o}
  /\ standing' \in {standing, TRUE}
  /\ UNCHANGED broken

\* Its cleanup deletes the resource, if another owner's has not done so.
Release(o) ==
  /\ o \in bound
  /\ bound' = bound \ {o}
  /\ standing' = FALSE
  /\ UNCHANGED broken

\* The body of a spec deletes it, or somebody who is no owner.
Vanish ==
  /\ standing' = FALSE
  /\ UNCHANGED <<bound, broken>>

\* A call is lost, with its effect or without, or the owner is killed.
Break(o) ==
  /\ broken' = TRUE
  /\ bound' \in {bound, bound \ {o}}
  /\ standing' \in BOOLEAN

OwnedNext ==
  \/ \E o \in Owners : Take(o) \/ Release(o) \/ Break(o)
  \/ Vanish

OwnedSpec == OwnedInit /\ [][OwnedNext]_ownedVars

\* What stands will be deleted by an owner that is still running, unless one was killed or
\* lost a call.
StandingIsOwned == standing => bound # {} \/ broken
=============================================================================
