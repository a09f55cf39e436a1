-------------------------- MODULE ClusterLifecycle --------------------------
(***************************************************************************)
(* The full-lifecycle specs of test/e2e/cluster_lifecycle_test.go, HCP and *)
(* Classic, with the OCM calls of pkg/framework/ocm.go they make: create,  *)
(* wait, verify, delete, verify, and the deferred cleanup.  One action per *)
(* call; Ginkgo's suite timeout may interrupt the body, and the job may be *)
(* killed, between any two of them.                                        *)
(***************************************************************************)
EXTENDS Ocm, Naturals

CONSTANT
  MaxPolls  \* WaitForClusterReady: ticks of pollInterval before its timeout

ASSUME LifecycleAssumption == MaxPolls \in Nat \ {0}

VARIABLES
  topology,  \* "hcp" or "classic": the spec that is executed
  pc,        \* its next call, "cleanup" or "over"
  count,     \* ticks of the wait
  deferred,  \* DeferCleanup was called
  verdict,   \* "none", "passed", "failed", "killed"
  lost,      \* history: the calls that failed although OCM would have served them
  late,      \* history: the wait timed out, or the suite did
  refused    \* history: OCM had no version, shard, room or kubeconfig to offer

runVars == <<pc, count, deferred, verdict>>
history == <<lost, late, refused>>
vars == <<ocmVars, topology, runVars, history>>

Calls == {"version", "shard", "create", "defer", "wait", "verifyReady", "credentials",
          "verifyNodes", "delete", "verifyDeleting"}

Init ==
  /\ OcmInit
  /\ topology \in {"hcp", "classic"}
  /\ pc = "version"
  /\ count = 0
  /\ deferred = FALSE
  /\ verdict = "none"
  /\ lost = {} /\ late = FALSE /\ refused = FALSE

(***************************************************************************)
(* Ways to leave a call.                                                   *)
(***************************************************************************)
Goto(next) ==
  /\ pc' = next
  /\ UNCHANGED <<count, deferred, verdict>>

\* Slip: a failed expectation skips the deferred cleanup.
FailWithoutCleanup ==
  /\ pc' = "over"
  /\ verdict' = "failed"
  /\ UNCHANGED <<count, deferred>>

\* Expect(...).To(Succeed()): the cleanups deferred so far run.
Fail ==
  /\ pc' = IF deferred THEN "cleanup" ELSE "over"
  /\ verdict' = "failed"
  /\ UNCHANGED <<count, deferred>>

Answered == UNCHANGED history
Fault == lost' = lost \cup {pc} /\ UNCHANGED <<late, refused>>
Refused == refused' = TRUE /\ UNCHANGED <<lost, late>>

\* A call that reads, and ends the body when it does not show `good`.
Read(call, good, next) ==
  /\ pc = call
  /\ \/ good /\ Goto(next) /\ Answered
     \/ ~good /\ Fail /\ Answered
     \/ Fail /\ Fault
  /\ UNCHANGED <<ocmVars, topology>>

\* A call that asks OCM for what it may not have.
Ask(call, next) ==
  /\ pc = call
  /\ \/ Goto(next) /\ Answered
     \/ Fail /\ Refused
     \/ Fail /\ Fault
  /\ UNCHANGED <<ocmVars, topology>>

(***************************************************************************)
(* CreateRosaHCPCluster, CreateRosaClassicCluster.                         *)
(***************************************************************************)
\* A version is configured, or the latest one is asked for.
ResolveVersion == Ask("version", IF topology = "hcp" THEN "shard" ELSE "create")

\* HCP only: no sector or a shard is configured, or the sector's shards are searched.
ResolveShard == Ask("shard", "create")

\* Without an answer there is no id, and nothing to delete later.
CreateCluster ==
  /\ pc = "create"
  /\ \/ Added /\ Goto("defer") /\ Answered
     \/ UNCHANGED ocmVars /\ Fail /\ Refused
     \/ (Added \/ UNCHANGED ocmVars) /\ Fail /\ Fault
  /\ UNCHANGED topology

DeferCleanup ==
  /\ pc = "defer"
  /\ deferred' = TRUE
  /\ pc' = "wait"
  /\ UNCHANGED <<ocmVars, topology, count, verdict, history>>

(***************************************************************************)
(* WaitForClusterReady.  An error is one more tick, so a cluster that is   *)
(* gone (404) is polled until the timeout.  When the timeout and a tick    *)
(* are both due, select takes either.                                      *)
(***************************************************************************)
\* Slip: the timeout is looked at after the tick it falls on.
TickOnceMore == pc = "wait" /\ count <= MaxPolls

Tick == pc = "wait" /\ count < MaxPolls

WaitMore ==
  /\ count' = count + 1
  /\ UNCHANGED <<pc, deferred, verdict>>

TimesOut ==
  /\ pc = "wait" /\ count > 0
  /\ Fail
  /\ late' = TRUE /\ UNCHANGED <<lost, refused>>

\* Slip: a tick does not count against the timeout.
PollForever ==
  /\ pc = "wait"
  /\ \/ cluster = "ready" /\ Goto("verifyReady") /\ Answered
     \/ cluster # "ready" /\ UNCHANGED <<runVars, history>>
  /\ UNCHANGED <<ocmVars, topology>>

\* Slip: any state but "ready" ends the wait.
ReadyOrFail == Read("wait", cluster = "ready", "verifyReady")

WaitForClusterReady ==
  /\ \/ Tick /\ cluster = "ready" /\ Goto("verifyReady") /\ Answered
     \/ Tick /\ cluster \in {"error", "uninstalling"} /\ Fail /\ Answered
     \/ Tick /\ cluster \in {"installing", "gone"} /\ WaitMore /\ Answered
     \/ Tick /\ WaitMore /\ Fault
     \/ TimesOut
  /\ UNCHANGED <<ocmVars, topology>>

(***************************************************************************)
(* The rest of the body.                                                   *)
(***************************************************************************)
VerifyClusterReady == Read("verifyReady", cluster = "ready", "credentials")

\* The kubeconfig of a cluster may not be there.
GetClusterCredentials == Ask("credentials", "verifyNodes")

\* Slip: VerifyNodeCount is left out, and the nodes that are there are ready.
AnyNodes == Read("verifyNodes", cluster = "ready", "delete")

\* RunVerifiers once, with no Eventually around it: see RunVerifiers.
VerifyNodes == Read("verifyNodes", cluster = "ready" /\ nodesUp, "delete")

\* Deleting what is being deleted may be refused.
DeleteCluster ==
  /\ pc = "delete"
  /\ \/ Deleted /\ Goto("verifyDeleting") /\ Answered
     \/ cluster = "uninstalling" /\ UNCHANGED ocmVars /\ Goto("verifyDeleting") /\ Answered
     \/ ~Standing /\ UNCHANGED ocmVars /\ Fail /\ Answered
     \/ (Deleted \/ UNCHANGED ocmVars) /\ Fail /\ Fault
  /\ UNCHANGED topology

VerifyClusterDeleting == Read("verifyDeleting", cluster = "uninstalling", "cleanup")

(***************************************************************************)
(* The deferred cleanup: one Delete, whose error is a warning.             *)
(***************************************************************************)
Over ==
  /\ pc' = "over"
  /\ verdict' = IF verdict = "none" THEN "passed" ELSE verdict
  /\ UNCHANGED <<count, deferred>>

Cleanup ==
  /\ pc = "cleanup"
  /\ \/ Deleted /\ Over /\ Answered
     \/ ~Standing /\ UNCHANGED ocmVars /\ Over /\ Answered
     \/ (Deleted \/ UNCHANGED ocmVars) /\ Over /\ Fault
  /\ UNCHANGED topology

(***************************************************************************)
(* Ginkgo's suite timeout abandons the body and runs the cleanups; a call  *)
(* with an effect it falls on counts as lost.  Nothing runs after a kill.  *)
(***************************************************************************)
Interrupt ==
  /\ pc \in Calls \ {"create", "defer", "delete"}
  /\ Fail
  /\ late' = TRUE
  /\ UNCHANGED <<ocmVars, topology, lost, refused>>

Kill ==
  /\ pc # "over"
  /\ pc' = "over"
  /\ verdict' = "killed"
  /\ UNCHANGED <<ocmVars, topology, count, deferred, history>>

(***************************************************************************)
(* The specification.                                                      *)
(***************************************************************************)
Step ==
  \/ ResolveVersion \/ ResolveShard \/ CreateCluster \/ DeferCleanup
  \/ WaitForClusterReady \/ VerifyClusterReady \/ GetClusterCredentials \/ VerifyNodes
  \/ DeleteCluster \/ VerifyClusterDeleting \/ Cleanup

Environment == OcmSteps /\ UNCHANGED <<topology, runVars, history>>

Next == Step \/ Interrupt \/ Kill \/ Environment

Spec == Init /\ [][Next]_vars

\* The suite's process runs, and its calls answer or fail; nothing is assumed of OCM.
FairSpec == Spec /\ WF_vars(Step)

(***************************************************************************)
(* Properties.                                                             *)
(***************************************************************************)
\* Every variable has its type; the wait ticks MaxPolls times at most.
TypeOK ==
  /\ OcmTypeOK
  /\ topology \in {"hcp", "classic"}
  /\ pc \in Calls \cup {"cleanup", "over"}
  /\ count \in 0 .. MaxPolls
  /\ deferred \in BOOLEAN
  /\ verdict \in {"none", "passed", "failed", "killed"}
  /\ lost \subseteq Calls \cup {"cleanup"}
  /\ late \in BOOLEAN /\ refused \in BOOLEAN

\* A cluster outlives the spec that created it only if the job was killed, or if one
\* particular call was lost: the creation, whose answer holds the id, or the delete of
\* the cleanup.  A failure anywhere else, at any moment of the cluster's life, does not
\* leave it ("Each test cleans up via DeferCleanup to prevent state leakage", README.md:355).
LeftOnlyByLoss ==
  pc = "over" /\ Standing =>
    verdict = "killed" \/ lost \cap {"create", "cleanup"} # {}

\* "should create, verify, and delete" (cluster_lifecycle_test.go:18, 95): the cluster of
\* a spec that passed was once ready with all its nodes, and does not stand any more,
\* although the errors of the cleanup are dropped and OCM is asked anew at each step.
PassedMeansAllDone == verdict = "passed" => healthy /\ ~Standing

\* A spec whose calls answer, in time, and to whose cluster nothing happens fails only at
\* the last look, when the cluster has been uninstalled before it (VerifyClusterDeleting
\* wants "uninstalling").  So the look at the nodes and the second delete do no harm.
UndisturbedPasses ==
  verdict = "failed" =>
    lost # {} \/ late \/ refused \/ trouble # {} \/ cluster = "gone"

\* The spec ends, even if the cluster is gone while it is waited for.
Ends == <>(pc = "over")
=============================================================================
