--------------------------- MODULE NodeVerifiers ---------------------------
(***************************************************************************)
(* The verifiers of pkg/verifiers/nodes.go, as predicates on what one List *)
(* call shows of the cluster: each node absent, present, or present with a *)
(* Ready=True condition.  Masters and infra nodes do not carry the worker  *)
(* label the count selects.                                                *)
(***************************************************************************)
EXTENDS FiniteSets, Naturals

CONSTANTS
  Nodes,    \* names a node of the cluster can have
  Workers,  \* those labelled node-role.kubernetes.io/worker
  Expected  \* cfg.ComputeNodes

NodeStates == [Nodes -> {"absent", "notReady", "ready"}]

Listed(state) == {n \in Nodes : state[n] # "absent"}

\* No node at all is a failure too.
AllNodesReady(state) ==
  /\ Listed(state) # {}
  /\ \A n \in Listed(state) : state[n] = "ready"

NodeCount(state) == Cardinality(Listed(state) \cap Workers) = Expected

NodePasses(verifier, state) ==
  \/ verifier = "VerifyAllNodesReady" /\ AllNodesReady(state)
  \/ verifier = "VerifyNodeCount" /\ NodeCount(state)
=============================================================================
