----------------------------- MODULE TestSpecs -----------------------------
(***************************************************************************)
(* The data-plane specs of test/e2e (workload_test, networking_test,       *)
(* storage_test, customer_features_test, upgrade_test) and the helpers     *)
(* they deploy with (pkg/framework/workload.go, namespace.go, storage.go). *)
(* The namespace's name is a constant of the spec, so every execution of   *)
(* it, by whatever CI job against the same cluster, works in the same      *)
(* namespace.  Each spec is a script, one instruction per call.            *)
(***************************************************************************)
EXTENDS KubeNamespace, Integers, Sequences

CONSTANTS
  MaxTries,   \* CreateTestNamespace: attempts that fit in its two minutes
  MaxPolls,   \* polls that fit in the timeout of a wait
  MaxFaults   \* bound: calls that fail although the API server would accept them

ASSUME SpecsAssumption ==
  /\ Objects = {"deployment", "service", "claim", "pod", "policy"}
  /\ MaxTries \in Nat \ {0}
  /\ MaxPolls \in Nat \ {0}
  /\ MaxFaults \in Nat

VARIABLES
  spec,      \* the spec that is executed
  state,     \* each run: "idle", "body", "cleanup", "over"
  line,      \* the instruction of its body
  count,     \* attempts or polls of that instruction
  deferred,  \* DeferCleanup was called
  verdict,   \* "none", "passed", "failed", "killed"
  faults,    \* calls that failed for no reason of the cluster's, and were not retried
  retried,   \* those that were
  lost,      \* history: the runs whose creation or deletion of the namespace failed so
  crowded,   \* history: the run met another one, or a namespace that was there before
  late,      \* history: one of its waits timed out
  unlucky    \* history: a pod failed or a deployment lost its availability

runVars == <<state, line, count, deferred, verdict>>
faultVars == <<faults, retried, lost>>
history == <<crowded, late, unlucky>>
vars == <<kubeVars, spec, runVars, faultVars, history>>

(***************************************************************************)
(* The scripts.                                                            *)
(***************************************************************************)
Call(op, object) == [op |-> op, on |-> object]

DeployTestWorkload ==
  <<Call("namespace", None), Call("create", "deployment"), Call("create", "service"),
    Call("await", "deployment"), Call("defer", None)>>

CreateTestNamespace == <<Call("retryNamespace", None), Call("defer", None)>>

WorkloadSpec == DeployTestWorkload \o <<Call("verify", "deployment")>>

\* The pod is read a last time for its logs.
ConnectivitySpec ==
  DeployTestWorkload \o
    <<Call("create", "pod"), Call("await", "pod"), Call("verify", "pod"), Call("verify", "pod")>>

DnsSpec ==
  CreateTestNamespace \o <<Call("create", "pod"), Call("await", "pod"), Call("verify", "pod")>>

CreateTestPVC == Call("create", "claim")
CreateTestPodWithPVC == Call("create", "pod")
StorageSpec ==
  CreateTestNamespace \o <<CreateTestPVC, CreateTestPodWithPVC, Call("eventually", "claim")>>

NetworkPolicySpec == CreateTestNamespace \o <<Call("create", "policy")>>

Script ==
  [workload |-> WorkloadSpec, connectivity |-> ConnectivitySpec, dns |-> DnsSpec,
   storage |-> StorageSpec, netpol |-> NetworkPolicySpec]

Specs == DOMAIN Script
Deploys == spec \in {"workload", "connectivity"}

Init ==
  /\ KubeInit
  /\ spec \in Specs
  /\ state = [r \in Runs |-> "idle"]
  /\ line = [r \in Runs |-> 1]
  /\ count = [r \in Runs |-> 0]
  /\ deferred = [r \in Runs |-> FALSE]
  /\ verdict = [r \in Runs |-> "none"]
  /\ faults = 0 /\ retried = 0 /\ lost = {}
  /\ crowded = [r \in Runs |-> FALSE]
  /\ late = [r \in Runs |-> FALSE]
  /\ unlucky = FALSE

(***************************************************************************)
(* Moves of a run.                                                         *)
(***************************************************************************)
Active(r) == state[r] \in {"body", "cleanup"}
At(r, op) == state[r] = "body" /\ Script[spec][line[r]].op = op
Subject(r) == Script[spec][line[r]].on

Answered == UNCHANGED faultVars
Fault == faults + retried < MaxFaults /\ faults' = faults + 1 /\ UNCHANGED <<retried, lost>>
FaultRetried ==
  faults + retried < MaxFaults /\ retried' = retried + 1 /\ UNCHANGED <<faults, lost>>

\* The call that creates the namespace, or deletes it, fails for good.
NamespaceFault(r) ==
  /\ faults + retried < MaxFaults /\ faults' = faults + 1 /\ UNCHANGED retried
  /\ lost' = lost \cup {r}

\* Slip: the body runs on past its last call.
AdvancePastEnd(r) ==
  /\ line' = [line EXCEPT ![r] = @ + 1]
  /\ state' = [state EXCEPT ![r] = IF line[r] > Len(Script[spec]) THEN "cleanup" ELSE @]
  /\ count' = [count EXCEPT ![r] = 0]
  /\ UNCHANGED <<deferred, verdict>>

Advance(r) ==
  /\ IF line[r] < Len(Script[spec])
       THEN line' = [line EXCEPT ![r] = @ + 1] /\ UNCHANGED state
       ELSE state' = [state EXCEPT ![r] = "cleanup"] /\ UNCHANGED line
  /\ count' = [count EXCEPT ![r] = 0]
  /\ UNCHANGED <<deferred, verdict>>

\* Slip: a failed expectation skips the deferred cleanup.
FailWithoutCleanup(r) ==
  /\ state' = [state EXCEPT ![r] = "over"]
  /\ verdict' = [verdict EXCEPT ![r] = "failed"]
  /\ UNCHANGED <<line, count, deferred>>

\* Expect(err).NotTo(HaveOccurred()): the cleanups deferred so far run.
Fail(r) ==
  /\ state' = [state EXCEPT ![r] = IF deferred[r] THEN "cleanup" ELSE "over"]
  /\ verdict' = [verdict EXCEPT ![r] = "failed"]
  /\ UNCHANGED <<line, count, deferred>>

Again(r) ==
  /\ count' = [count EXCEPT ![r] = @ + 1]
  /\ UNCHANGED <<state, line, deferred, verdict>>

Start(r) ==
  /\ state[r] = "idle"
  /\ state' = [state EXCEPT ![r] = "body"]
  /\ crowded' = [x \in Runs |->
       \/ crowded[x]
       \/ x # r /\ Active(x)
       \/ x = r /\ (phase # "absent" \/ \E y \in Runs : Active(y))]
  /\ UNCHANGED <<kubeVars, spec, line, count, deferred, verdict, faultVars, late, unlucky>>

(***************************************************************************)
(* The calls.                                                              *)
(***************************************************************************)
\* A namespace that exists, even one that is being deleted, is as good as a new one.
NamespaceThere(r) ==
  /\ NamespaceCreated(r) \/ (phase # "absent" /\ UNCHANGED kubeVars)
  /\ Answered

\* An answer lost on the way leaves the call's effect.
NamespaceLost(r) == NamespaceCreated(r) \/ UNCHANGED kubeVars

CreateNamespace(r) ==
  /\ At(r, "namespace")
  /\ \/ NamespaceThere(r) /\ Advance(r)
     \/ NamespaceLost(r) /\ NamespaceFault(r) /\ Fail(r)
  /\ UNCHANGED <<spec, history>>

\* Slip: the retry takes AlreadyExists for an error.
RetryNamespaceStrict(r) ==
  /\ At(r, "retryNamespace")
  /\ \/ NamespaceCreated(r) /\ Answered /\ Advance(r)
     \/ phase # "absent" /\ UNCHANGED kubeVars /\ Answered /\ Fail(r)
     \/ NamespaceLost(r) /\ count[r] < MaxTries - 1 /\ FaultRetried /\ Again(r)
     \/ NamespaceLost(r) /\ NamespaceFault(r) /\ Fail(r)
  /\ UNCHANGED <<spec, history>>

\* A transient error is retried while time is left, any other one is final.
RetryNamespace(r) ==
  /\ At(r, "retryNamespace")
  /\ \/ NamespaceThere(r) /\ Advance(r)
     \/ NamespaceLost(r) /\ count[r] < MaxTries - 1 /\ FaultRetried /\ Again(r)
     \/ NamespaceLost(r) /\ NamespaceFault(r) /\ Fail(r)
  /\ UNCHANGED <<spec, history>>

\* Slip: objects that exist are taken for the run's own, as namespaces are.
AdoptObject(r) ==
  /\ At(r, "create")
  /\ \/ ObjectCreated(Subject(r), r) /\ Answered /\ Advance(r)
     \/ There(Subject(r)) /\ UNCHANGED kubeVars /\ Answered /\ Advance(r)
     \/ phase # "active" /\ UNCHANGED kubeVars /\ Answered /\ Fail(r)
  /\ UNCHANGED <<spec, history>>

CreateObject(r) ==
  /\ At(r, "create")
  /\ \/ ObjectCreated(Subject(r), r) /\ Answered /\ Advance(r)
     \/ ~Creatable(Subject(r)) /\ UNCHANGED kubeVars /\ Answered /\ Fail(r)
     \/ (ObjectCreated(Subject(r), r) \/ UNCHANGED kubeVars) /\ Fault /\ Fail(r)
  /\ UNCHANGED <<spec, history>>

\* What a wait looks for: a pod that has completed, well or not, or a good object.
Completed(o) == status[o] = "good" \/ (o = "pod" /\ status[o] = "bad")

TimesOut(r) ==
  /\ count[r] > 0
  /\ Answered /\ Fail(r)
  /\ late' = [late EXCEPT ![r] = TRUE]
  /\ UNCHANGED <<crowded, unlucky>>

\* Slip: the wait has no timeout.
AwaitForever(r) ==
  /\ At(r, "await")
  /\ IF Completed(Subject(r)) THEN Advance(r) ELSE UNCHANGED runVars
  /\ Answered
  /\ UNCHANGED <<kubeVars, spec, history>>

\* wait.PollUntilContextTimeout: one Get at once, then one per interval; an error ends it.
Await(r) ==
  /\ At(r, "await")
  /\ \/ Completed(Subject(r)) /\ Answered /\ Advance(r) /\ UNCHANGED history
     \/ /\ There(Subject(r)) /\ ~Completed(Subject(r))
        /\ count[r] < MaxPolls
        /\ Answered /\ Again(r) /\ UNCHANGED history
     \/ ~There(Subject(r)) /\ Answered /\ Fail(r) /\ UNCHANGED history
     \/ Fault /\ Fail(r) /\ UNCHANGED history
     \/ TimesOut(r)
  /\ UNCHANGED <<kubeVars, spec>>

\* Eventually(...).Should(Succeed()): an error is one more poll.
Eventually(r) ==
  /\ At(r, "eventually")
  /\ \/ Completed(Subject(r)) /\ Answered /\ Advance(r) /\ UNCHANGED history
     \/ /\ (~Completed(Subject(r)) /\ Answered) \/ FaultRetried
        /\ count[r] < MaxPolls
        /\ Again(r) /\ UNCHANGED history
     \/ TimesOut(r)
  /\ UNCHANGED <<kubeVars, spec>>

\* One Get and an expectation on what it shows.
Verify(r) ==
  /\ At(r, "verify")
  /\ \/ status[Subject(r)] = "good" /\ Answered /\ Advance(r)
     \/ status[Subject(r)] # "good" /\ Answered /\ Fail(r)
     \/ Fault /\ Fail(r)
  /\ UNCHANGED <<kubeVars, spec, history>>

DeferCleanup(r) ==
  /\ At(r, "defer")
  /\ deferred' = [deferred EXCEPT ![r] = TRUE]
  /\ line' = [line EXCEPT ![r] = @ + 1]
  /\ UNCHANGED <<kubeVars, spec, state, count, verdict, faultVars, history>>

(***************************************************************************)
(* The deferred cleanup: one Delete, without the spec's context.  That of  *)
(* CreateTestNamespace reports its error, that of DeployTestWorkload drops *)
(* it.  Deleting a namespace that is being deleted may be refused.         *)
(***************************************************************************)
Over(r, refused) ==
  /\ state' = [state EXCEPT ![r] = "over"]
  /\ verdict' = [verdict EXCEPT ![r] =
       IF refused /\ ~Deploys THEN "failed" ELSE IF @ = "none" THEN "passed" ELSE @]
  /\ UNCHANGED <<line, count, deferred>>

Cleanup(r) ==
  /\ state[r] = "cleanup"
  /\ \/ NamespaceDeleted /\ Answered /\ Over(r, FALSE)
     \/ phase = "absent" /\ UNCHANGED kubeVars /\ Answered /\ Over(r, FALSE)
     \/ phase = "terminating" /\ UNCHANGED kubeVars /\ Answered /\ Over(r, TRUE)
     \/ (NamespaceDeleted \/ UNCHANGED kubeVars) /\ NamespaceFault(r) /\ Over(r, TRUE)
  /\ UNCHANGED <<spec, history>>

\* The job is killed, and its cleanups with it.
Kill(r) ==
  /\ Active(r)
  /\ state' = [state EXCEPT ![r] = "over"]
  /\ verdict' = [verdict EXCEPT ![r] = "killed"]
  /\ UNCHANGED <<kubeVars, spec, line, count, deferred, faultVars, history>>

(***************************************************************************)
(* The specification.                                                      *)
(***************************************************************************)
Run(r) ==
  \/ CreateNamespace(r) \/ RetryNamespace(r) \/ CreateObject(r)
  \/ Await(r) \/ Eventually(r) \/ Verify(r) \/ DeferCleanup(r) \/ Cleanup(r)

Controllers ==
  /\ \/ \E o \in Objects : ContentRemoved(o) /\ UNCHANGED unlucky
     \/ NamespaceGone /\ UNCHANGED unlucky
     \/ \E o \in Objects : Progresses(o) /\ unlucky' = (unlucky \/ status'[o] = "bad")
     \/ \E o \in Objects : Regresses(o) /\ unlucky' = TRUE
  /\ UNCHANGED <<spec, runVars, faultVars, crowded, late>>

Next ==
  \/ \E r \in Runs : Start(r) \/ Run(r) \/ Kill(r)
  \/ Controllers

Spec == Init /\ [][Next]_vars

\* A run that has begun keeps running; nothing is assumed of the cluster.
FairSpec == Spec /\ \A r \in Runs : WF_vars(Run(r))

(***************************************************************************)
(* Properties.                                                             *)
(***************************************************************************)
TypeOK ==
  /\ KubeTypeOK
  /\ spec \in Specs
  /\ state \in [Runs -> {"idle", "body", "cleanup", "over"}]
  /\ line \in [Runs -> 1..Len(Script[spec])]
  /\ count \in [Runs -> Nat]
  /\ deferred \in [Runs -> BOOLEAN]
  /\ verdict \in [Runs -> {"none", "passed", "failed", "killed"}]
  /\ faults \in Nat /\ retried \in Nat /\ lost \subseteq Runs
  /\ crowded \in [Runs -> BOOLEAN]
  /\ late \in [Runs -> BOOLEAN]
  /\ unlucky \in BOOLEAN

\* The deployment of DeployTestWorkload is what keeps two executions apart: from its
\* creation to the end of its cleanup a run has the namespace for itself, so what it
\* waits for, verifies and deletes is its own.
Holds(r) == Active(r) /\ line[r] > 2
DeploymentKeepsApart ==
  Deploys => \A r \in Runs : Holds(r) => phase = "active" /\ maker["deployment"] = r

\* The specs of CreateTestNamespace leave no namespace behind however they end, unless
\* a job is killed or the very call that creates or deletes it fails for good: a retried
\* creation, a failed expectation, the failure of any other call, or another execution in
\* the same namespace does not keep it.
LeavesNothing ==
  /\ ~Deploys /\ lost = {}
  /\ \A r \in Runs : state[r] \in {"idle", "over"} /\ verdict[r] # "killed"
  => phase # "active"

\* A run that has the cluster for itself from a clean start passes, if what it created
\* gets good in time: transient errors of the creation, the ones whose effect was lost
\* with their answer included, and of an Eventually are absorbed ("creates a namespace
\* with retry to handle transient API errors", namespace.go:25).
UndisturbedPasses ==
  \A r \in Runs :
    verdict[r] = "failed" => crowded[r] \/ late[r] \/ unlucky \/ faults > 0

\* Every run ends, whatever it waits for.
Ends == \A r \in Runs : Active(r) ~> state[r] = "over"

\* "Returns a cleanup function that deletes the namespace" (workload.go:18): a run of
\* its specs that is neither killed nor meets a failing call leaves no namespace.
DeployLeavesNothing ==
  /\ Deploys /\ faults = 0
  /\ \A r \in Runs : state[r] \in {"idle", "over"} /\ verdict[r] # "killed"
  => phase # "active"
=============================================================================
