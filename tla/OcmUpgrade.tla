----------------------------- MODULE OcmUpgrade -----------------------------
(***************************************************************************)
(* OCM's side of an upgrade, as pkg/framework/upgrade.go sees it: an       *)
(* upgrade policy of the cluster or of one node pool is scheduled, runs,   *)
(* and ends, well or not; a version that was reached is kept.  External:   *)
(* the repository only calls it through the OCM SDK.                       *)
(***************************************************************************)
CONSTANT
  Pools  \* node pools of the cluster, when it is HCP

VARIABLES
  topology,  \* "hcp", "classic", "osd-gcp"
  version,   \* of the cluster and of each pool: "old" or "target"
  policy,    \* of each: "none", "scheduled" or "running"
  sound      \* of "state", "nodes" and "operators": ready, all ready, all healthy

ocmVars == <<topology, version, policy, sound>>

Parts == {"cluster"} \cup Pools
Aspects == {"state", "nodes", "operators"}
Topologies == {"hcp", "classic", "osd-gcp"}

OcmTypeOK ==
  /\ topology \in Topologies
  /\ version \in [Parts -> {"old", "target"}]
  /\ policy \in [Parts -> {"none", "scheduled", "running"}]
  /\ sound \in [Aspects -> BOOLEAN]

OcmInit ==
  /\ topology \in Topologies
  /\ version = [p \in Parts |-> "old"]
  /\ policy = [p \in Parts |-> "none"]
  /\ sound = [a \in Aspects |-> TRUE]

\* The node pools that are listed.
Listed == IF topology = "hcp" THEN Pools ELSE {}

\* UpgradePolicies().Add, accepted: a part has one policy at a time.
Scheduled(p) ==
  /\ policy[p] = "none" /\ version[p] = "old"
  /\ policy' = [policy EXCEPT ![p] = "scheduled"]
  /\ UNCHANGED <<topology, version, sound>>

Begins(p) ==
  /\ policy[p] = "scheduled"
  /\ policy' = [policy EXCEPT ![p] = "running"]
  /\ UNCHANGED <<topology, version, sound>>

\* An upgrade that fails or is cancelled leaves the version as it was.
Finishes(p) ==
  /\ policy[p] = "running"
  /\ policy' = [policy EXCEPT ![p] = "none"]
  /\ version' \in {version, [version EXCEPT ![p] = "target"]}
  /\ UNCHANGED <<topology, sound>>

\* Nodes are drained, operators roll, the cluster leaves "ready", and comes back.
Wavers(a) ==
  /\ sound' = [sound EXCEPT ![a] = ~@]
  /\ UNCHANGED <<topology, version, policy>>

OcmSteps ==
  \/ \E p \in Parts : Begins(p) \/ Finishes(p)
  \/ \E a \in Aspects : Wavers(a)
=============================================================================
