-------------------------- MODULE MCRunVerifiers --------------------------
(***************************************************************************)
(* The node verifiers of a cluster with one master and two workers.        *)
(***************************************************************************)
EXTENDS RunVerifiers

CONSTANTS Nodes, Workers, Expected

NV == INSTANCE NodeVerifiers

MCPasses(v, state) == NV!NodePasses(v, state)

\* The master is always there; what changes is its readiness and the workers.
MCClusterStates == {s \in NV!NodeStates : \A n \in Nodes \ Workers : s[n] # "absent"}
=============================================================================
