-------------------------- MODULE StatusVerifiers --------------------------
(***************************************************************************)
(* The verifiers of pkg/verifiers that read once and judge what they have  *)
(* read: a list of objects, each with a list of what its status says, as   *)
(* pairs of a type and a value.  A condition is such a pair, and so are a  *)
(* phase, the readyToUse of a snapshot, a tag of a volume, and what an     *)
(* entry of the OCM role label is.  Lists come in any order, and nothing   *)
(* keeps a status from saying one type twice.  Of a value it matters       *)
(* whether it is the wanted one: the other of the two stands for all the   *)
(* rest.  Types no verifier looks for are left out.                        *)
(***************************************************************************)
EXTENDS HealthCheck, Integers, Sequences

CONSTANTS
  MaxObjects,  \* bound: objects listed
  MaxSayings   \* bound: pairs in a status

ASSUME StatusAssumption == MaxObjects \in Nat /\ MaxSayings \in Nat

VARIABLES
  kind,   \* which verifier
  objects \* what it has read

statusVars == <<kind, objects>>

\* What a healthy object says; RouteMonitors and machine pools only have to be there.
Wants ==
  [present |-> {},
   hostedCluster |-> {<<"Available", "True">>, <<"Degraded", "False">>},
   nodePools |-> {<<"Ready", "True">>, <<"AllNodesHealthy", "True">>},
   clusterOperators |-> {<<"Available", "True">>, <<"Degraded", "False">>},
   vpcEndpoints |-> {<<"AWSVpcEndpointReady", "True">>, <<"Available", "True">>},
   deployment |-> {<<"Available", "True">>},
   namespaceDeployments |-> {<<"Available", "True">>},
   hubs |-> {<<"phase", "True">>},
   claim |-> {<<"phase", "True">>},
   snapshot |-> {<<"readyToUse", "True">>},
   volumes |-> {<<"owner", "True">>, <<"cluster", "True">>},
   linkedRoles |-> {<<"role", "True">>},
   linkedForAccount |-> {<<"role", "True">>, <<"account", "True">>}]

Kinds == DOMAIN Wants

Single == {"hostedCluster", "deployment", "claim", "snapshot"}  \* one object, by name
AnyWillDo == {"hubs", "linkedRoles", "linkedForAccount"}
\* Map fields and parsed entries say a thing once.
Mapped == {"hubs", "claim", "snapshot", "volumes", "linkedRoles", "linkedForAccount"}

(***************************************************************************)
(* What can be read.  The excluded operators and the deployments scaled to *)
(* nothing are passed over; an object may have no status at all.           *)
(***************************************************************************)
Pairs(k) == {<<w[1], v>> : w \in Wants[k], v \in {"True", "False"}}
Lists(S, n) == UNION {[1 .. m -> S] : m \in 0 .. n}

SaysOnce(said) == \A i, j \in DOMAIN said : said[i][1] = said[j][1] => i = j
Objects(k) ==
  {o \in [skip : BOOLEAN, status : BOOLEAN, said : Lists(Pairs(k), MaxSayings)] :
    /\ o.skip => k \in {"clusterOperators", "namespaceDeployments"}
    /\ ~o.status => o.said = <<>>
    /\ k \in Mapped => SaysOnce(o.said)}
Readings(k) == IF k \in Single THEN Lists(Objects(k), 1) \ {<<>>} ELSE Lists(Objects(k), MaxObjects)

(***************************************************************************)
(* The judgements, an operator for each loop over a status.                *)
(***************************************************************************)
Says(o, type, value) == \E i \in DOMAIN o.said : o.said[i] = <<type, value>>
Mentions(o, type) == \E i \in DOMAIN o.said : o.said[i][1] = type

\* Both conditions are there and every mention of them is right.
verifyConditions(o) ==
  /\ o.status
  /\ Mentions(o, "Available") /\ ~Says(o, "Available", "False")
  /\ Mentions(o, "Degraded") /\ ~Says(o, "Degraded", "True")

\* Ready and AllNodesHealthy; one mention that is right is enough.
NodePoolHealthy(o) == Says(o, "Ready", "True") /\ Says(o, "AllNodesHealthy", "True")

\* Slip: an operator is not degraded until it says so.
DegradedOnlyIfSaid(o) == o.skip \/ (Says(o, "Available", "True") /\ ~Says(o, "Degraded", "True"))

OperatorHealthy(o) == o.skip \/ (Says(o, "Available", "True") /\ Says(o, "Degraded", "False"))

\* Both types count.  The loop ends at the first that is true: a false one before it makes the
\* endpoint unavailable, a false one after it is not looked at.
EndpointAvailable(o) == Len(o.said) > 0 /\ o.said[1][2] = "True"

DeploymentAvailable(o) == Says(o, "Available", "True")

\* Tags are a map; a volume is named for every tag that is missing or different.
TagsPresent(o) == Says(o, "owner", "True") /\ Says(o, "cluster", "True")

\* An entry that is an IAM role, and for one account, of that account.
RoleLinked(o) == Says(o, "role", "True")
AccountLinked(o) == RoleLinked(o) /\ Says(o, "account", "True")

NamespaceDeploymentAvailable(o) == o.skip \/ DeploymentAvailable(o)
HubRunning(o) == Says(o, "phase", "True")
PVCBound(o) == Says(o, "phase", "True")
SnapshotReady(o) == o.status /\ Says(o, "readyToUse", "True")

Healthy(k, o) ==
  CASE k = "present" -> TRUE
    [] k = "hostedCluster" -> verifyConditions(o)
    [] k = "nodePools" -> NodePoolHealthy(o)
    [] k = "clusterOperators" -> OperatorHealthy(o)
    [] k = "vpcEndpoints" -> EndpointAvailable(o)
    [] k = "deployment" -> DeploymentAvailable(o)
    [] k = "namespaceDeployments" -> NamespaceDeploymentAvailable(o)
    [] k = "hubs" -> HubRunning(o)
    [] k = "claim" -> PVCBound(o)
    [] k = "snapshot" -> SnapshotReady(o)
    [] k = "volumes" -> TagsPresent(o)
    [] k = "linkedRoles" -> RoleLinked(o)
    [] k = "linkedForAccount" -> AccountLinked(o)

\* An empty list fails every verifier.
Present(list) == list # <<>>

Judged(k, list) ==
  /\ Present(list)
  /\ IF k \in AnyWillDo THEN \E i \in DOMAIN list : Healthy(k, list[i])
     ELSE \A i \in DOMAIN list : Healthy(k, list[i])

StatusInit == kind = "claim" /\ objects = <<>>

VerifyStatus ==
  /\ check = "status" /\ at = "read"
  /\ \E k \in Kinds :
       /\ kind' = k
       /\ \/ Ends("error") /\ UNCHANGED objects
          \/ /\ objects' \in Readings(k)
             /\ Ends(IF Judged(k, objects') THEN "nil" ELSE "found")

StatusTypeOK == kind \in Kinds /\ (objects = <<>> \/ objects \in Readings(kind))
=============================================================================
