-------------------------------- MODULE Ocm --------------------------------
(***************************************************************************)
(* OCM's side of one cluster, as pkg/framework/ocm.go and                  *)
(* pkg/verifiers/cluster.go see it: it is installed, may fail to install,  *)
(* and is uninstalled once a deletion is accepted, whoever asked for it.   *)
(* External: the repository only calls it through the OCM SDK.             *)
(***************************************************************************)
VARIABLES
  cluster,  \* "unborn", "installing", "ready", "error", "uninstalling", "gone"
  nodesUp,  \* its worker nodes are all there and ready
  healthy,  \* history: it was ready and its nodes were up, at once
  trouble   \* history: what else happened to it, see Troubles

ocmVars == <<cluster, nodesUp, healthy, trouble>>

\* The installation failed; nodes were missing when it was ready; somebody other than the
\* spec deleted it.
Troubles == {"error", "nodes", "reaped"}

Standing == cluster \in {"installing", "ready", "error"}

OcmTypeOK ==
  /\ cluster \in {"unborn", "installing", "ready", "error", "uninstalling", "gone"}
  /\ nodesUp \in BOOLEAN
  /\ healthy \in BOOLEAN
  /\ trouble \subseteq Troubles

OcmInit == cluster = "unborn" /\ nodesUp = FALSE /\ healthy = FALSE /\ trouble = {}

(***************************************************************************)
(* The effect of a call that is accepted.                                  *)
(***************************************************************************)
Added ==
  /\ cluster = "unborn"
  /\ cluster' = "installing"
  /\ UNCHANGED <<nodesUp, healthy, trouble>>

Deleted ==
  /\ Standing
  /\ cluster' = "uninstalling"
  /\ UNCHANGED <<nodesUp, healthy, trouble>>

(***************************************************************************)
(* What happens to it meanwhile.  "ready" says nothing of the nodes.       *)
(***************************************************************************)
Becomes(state, up) ==
  /\ cluster' = state
  /\ nodesUp' = up
  /\ healthy' = (healthy \/ (state = "ready" /\ up))

Installs ==
  /\ cluster = "installing"
  /\ \/ Becomes("ready", nodesUp) /\ trouble' = trouble \cup IF nodesUp THEN {} ELSE {"nodes"}
     \/ Becomes("error", nodesUp) /\ trouble' = trouble \cup {"error"}

NodesChange ==
  /\ cluster \in {"installing", "ready"}
  /\ Becomes(cluster, ~nodesUp)
  /\ trouble' = trouble \cup IF cluster = "ready" THEN {"nodes"} ELSE {}

Uninstalled ==
  /\ cluster = "uninstalling"
  /\ Becomes("gone", FALSE)
  /\ UNCHANGED trouble

Reaped ==
  /\ Standing
  /\ Becomes("uninstalling", nodesUp)
  /\ trouble' = trouble \cup {"reaped"}

OcmSteps == Installs \/ NodesChange \/ Uninstalled \/ Reaped
=============================================================================
