# A verification project for rosa-e2e

`rosa-e2e` is the Ginkgo suite that creates, tests and deletes ROSA clusters: test
specs (`test/e2e`), the framework they call (`pkg/framework`), the verifiers that look
at a cluster (`pkg/verifiers`), the reporting (`pkg/reporting`) and the scripts CI runs
around it (`scripts`). This directory holds TLA+ modules translated from that code, the
TLC configurations that check them on small instances, and proofs checked by TLAPS.

Paths below are relative to the repository.

## 1. Inventory

| Component | State it keeps | Operations | What makes it hard |
|---|---|---|---|
| VPC cleanup (`pkg/framework/vpc_cleanup.go`) | listings of a VPC, errors collected so far | list, detach, wait, delete of ENIs; list, revoke, delete of security groups; list, delete of subnets | listings go stale while others change the VPC; calls whose answer is lost; retries and a deadline; groups that refer to each other |
| Verifier runner (`pkg/verifiers/verifier.go`, `nodes.go`) | error channel, WaitGroup | `RunVerifiers`, called again and again by `Eventually` | one goroutine per verifier, a bounded channel, a cluster that changes between two looks |
| Data-plane specs (`test/e2e/{workload,networking,storage,customer_features,upgrade}_test.go`) and helpers (`workload.go`, `namespace.go`, `storage.go`) | a namespace with a fixed name, its objects; the deferred cleanup | deploy, create namespace with retry, create object, wait, verify, clean up | two CI jobs on one cluster use the same namespace; AlreadyExists counts as success; errors after the first object; killed jobs |
| Cluster lifecycle and upgrade (`ocm.go`, `upgrade.go`, `verifiers/cluster.go`, `cluster_lifecycle_test.go`, `upgrade_test.go`) | the OCM cluster and its state | create, wait ready, verify, delete, upgrade, wait for the version | the answer of a create may be lost; a delete that only warns; one read of a state that lags; a failed upgrade looks like a slow one |
| Test context and configuration (`context.go`, `config.go`, `hcp.go`, `kube.go`, `setup.go`) | clients, the shared configuration | lazy initialisation of clients, credentials from the management cluster | fields written one by one, kept by the specs that follow |
| Provision shard (`ocm.go:344-406`) | `cfg.ProvisionShardID` | find a shard of the sector | the result is written to shared configuration; errors of one query hide behind the next |
| OAuth readiness (`oauth_readiness.go`) | a deadline | wait for the pods, then for the endpoint | two timeouts in a row; pods that were ready are not looked at again |
| RHOBS verifiers (`rhobs.go`) and their specs | a copy of the configuration, answers of earlier queries | fetch the token with retries, query probes and metrics, poll | a diagnosis from an older answer; counts read at different moments; credentials that were replaced |
| Deployment revisions (`revision.go`) | a snapshot | snapshot, observe, compare | what rolls out, goes and comes between two snapshots |
| CloudTrail and IAM (`cloudtrail.go`, `ocm_role.go`) | a page cursor, the denials found | page through events, classify denials | the page limit; known denials among unknown ones |
| Condition verifiers (`hostedcluster.go`, `clusteroperators.go`, `managed_operators.go`, `service_cluster.go`, `hcp_namespace.go`, `management_cluster.go`, `tags.go`, `external_auth.go`, `classic.go`) | none; the external-auth spec a list of issuers to probe | one pass over one listing; the external-auth spec lists twice | empty listings, missing and contradicting conditions, the order of lists |
| Sippy reporting (`reporting/sippy.go`, `sippy_signals.go`) | none | fold spec reports into signals | which outcome wins |
| CI status report (`scripts/ci-status-report.sh`) | one result per polled job | poll jobs in the background, tally, report | a lost answer must not become a green report |
| Provision and deprovision scripts (`scripts/provision-e2e-cluster.sh`, `deprovision-e2e-cluster.sh`) | the env file, what exists in AWS and OCM | create step by step; delete step by step | stopping half way |
| Workflows, job lists, labels | none | declarative | only the auto-merge workflow has an order of steps |

How they interact. A spec builds the context from the configuration, calls the framework
to create or reach a cluster, and hands the cluster to `RunVerifiers`, usually inside a
Gomega `Eventually` that calls it again until it returns nil. `RunVerifiers` calls the
verifiers in parallel; they share nothing but the API server. `CleanupVPCResources` runs
against an AWS account that the cluster's controllers change at the same time. The
data-plane specs talk to the cluster's API server, as do the specs of every other job
that was given the same cluster. The scripts run before and after the suite and learn of
each other only through the env file.

### What makes each component correct

* VPC cleanup: a nil error means that nothing of what stood in the VPC at the call is
  left; a hard error names what is; in a VPC nobody else touches it succeeds; it ends;
  kinds are emptied in order and the default group is left alone.
* Verifier runner: no goroutine blocks, panics or outlives its call; the joined error is
  complete; success means that every verifier passed on a cluster it looked at.
* Data-plane specs: two executions do not delete under each other; no namespace stays
  behind; a spec that is alone and lucky passes; every wait ends.
* Lifecycle and upgrade: a cluster that was created is deleted, except after a kill or the
  loss of one particular call; a pass means what the spec is named for; an upgrade does
  not go on without a spec that waits for it; every wait ends.
* Context, configuration, RHOBS: the credentials in use come from one source as a whole
  and are not replaced once they are complete; a spec does not fail for what an earlier one
  did; a verdict or a diagnosis rests on what there was while the spec asked; every spec ends.
* Single checks: a wait keeps within the time it was given twice over; a nil error of a
  comparison, a paging or a probe says something definite of the world it looked at,
  however that moved between the calls; a judgement does not depend on the order of a list.
* Reporting and scripts: what is reported green was green; what is left is listed.

## 2. Modules

| Module | What it models |
|---|---|
| `Ec2Vpc` | External. EC2 as the cleanup sees it: ENIs, groups, rules, subnets, what EC2 accepts, the other actors of the account, lost answers, the caller's context. |
| `VpcCleanup` | `CleanupVPCResources`: one action per EC2 call or sleep, from the page-by-page listing to the last delete. |
| `CascadeDelete` | Abstract specification of the cleanup: kinds are emptied in order; a kind is left only when what stood there is gone; nothing protected is touched. |
| `RunVerifiers` | `RunVerifiers` (goroutines, channel, WaitGroup, close, drain, join) and the `Eventually` around it. |
| `NodeVerifiers` | `VerifyAllNodesReady` and `VerifyNodeCount` as predicates on one listing. |
| `ParallelCheck` | Abstract specification of `RunVerifiers`: each verifier looks once per call, at its own moment; the answer is the set that failed. |
| `KubeNamespace` | External. The API server: a namespace, its objects, the controllers that make objects ready or remove a namespace's content. |
| `TestSpecs` | The five data-plane specs as scripts of calls, executed by any number of runs against one cluster. |
| `Ocm` | External. OCM's side of one cluster: installation, nodes, uninstallation, somebody else's delete. |
| `ClusterLifecycle` | The two full-lifecycle specs (HCP, Classic): create, wait, verify, delete, verify, deferred cleanup. |
| `OcmUpgrade` | External. OCM's side of an upgrade: policies of the cluster and of its node pools, versions, what wavers meanwhile. |
| `UpgradeSpecs` | The upgrade specs and `Topology()`, in any order or at once, on one cluster of any topology. |
| `OwnedResource` | Abstract specification of the deferred cleanups: what stands in a shared account or cluster has an owner that is bound to delete it, unless one was killed or lost a call. `TestSpecs` and `ClusterLifecycle` implement it. |
| `SuiteConfig` | `config.Load`: environment, YAML file and defaults, told apart by where a value comes from; `HasRHOBSAccess`, the derived metrics URL. |
| `Rhobs` | External. The monitoring backend: probes, `probe_success`, recording rules, series counts. |
| `SuiteSpecs` | One process: `BeforeSuite`, then the RHOBS, cardinality and namespaces specs one after another on one shared configuration; `InitMCClients`, `LoadRHOBSCredentialsFromMC`, the token and every query. |
| `HealthCheck` | What the checks below share: the call that comes next, the verdict. |
| `OAuthReadiness` | `VerifyOAuthServerReadiness`: two waits on a clock. |
| `RevisionCheck` | `VerifyDeploymentRevisionsStable`: two listings and what happens between. |
| `ExternalAuth` | The external-auth spec: configuration, providers, issuers, call by call. |
| `CloudTrail` | `VerifyNoAccessDenied`: pages, the limit, known denials. |
| `StatusVerifiers` | The verifiers that read once and judge a status: conditions, phases, tags, linked roles. |
| `HealthChecks` | The five modules above, one check at a time. |
| `MC*` | Instances for TLC. `ClusterLifecycle` and `UpgradeSpecs` need no module of their own for it. |
| `*_proofs` | Inductive invariants, lemmas, theorems. |

### How state and actions correspond to the code

`VpcCleanup`. `pc` names the call that comes next; `seen`, `attached` and `perms` are the
slices the listings filled (`enis`, their `Attachment`, the `IpPermissions*` of `sgs`);
`todo` is what the current loop has not reached; `count` is the number of polls of
`waitForENIAvailable` or of attempts of `deleteENIWithRetry`; `errs` are the identifiers
the returned error names; `start` is a history variable, the VPC at the call. The order
of a listing is EC2's, so a loop takes the elements in any order, and a page is any part
of what has not been listed. A call is *served*, *refused* (EC2's rules, or a cancelled
context), or a *fault*: an error although EC2 would have accepted it, with or without the
effect. What EC2 accepts is taken from the code's own comments and error handling (an
attached ENI cannot be deleted, a group in use or referred to by another group's rule
cannot, a subnet with an ENI cannot, the default group never).

`RunVerifiers`. `main` is where the calling goroutine is, `proc[v]` where each verifier's
is; `wg`, `errCh`, `closed` are the WaitGroup's counter and the channel; `Capacity` is the
`len(verifiers)` of `make(chan error, ...)`. The loop that spawns is one action per
iteration, so that goroutines run while others are not started yet. `Verify` is one look
at the API server. Errors are told apart by the verifier they come from only. `CallAgain`
and `Settle` are `Eventually`: the timeout allows at most `MaxCalls` polls, or fewer.

`TestSpecs`. A spec is a sequence of calls (`Script`), so the helpers appear in the order
in which the code makes their calls, and `line[r]` is where run `r` is. A failed
expectation ends the body (`Fail`); the cleanup runs if `DeferCleanup` was reached.
`CreateNamespace` is `DeployTestWorkload`'s own Create, `RetryNamespace` the polled one of
`CreateTestNamespace`; both accept AlreadyExists. `Await` is
`wait.PollUntilContextTimeout` (an error ends it), `Eventually` is Gomega's (an error is
one more poll). Of the calls that fail (`faults`, `retried` if the code repeats them), `lost`
remembers the runs whose creation or deletion of the namespace was among those given up.
What happens inside the pods is whether they complete well or not.

`ClusterLifecycle`. `pc` is the call that comes next. A read shows what the code expects or
ends the body (`Read`); a question may find OCM without an answer to give (`Ask`: a
version, a shard, a kubeconfig); any call may be lost, with or without its effect
(`Fault`, `lost`). OCM's states are those the code tells apart: "installing" stands for all
that are neither ready, error nor uninstalling, "gone" for a 404. `Interrupt` is Ginkgo's
suite timeout, which abandons the body and runs the cleanups; the wait itself does not
notice, as it has a context of its own (`context.Background()`, `ocm.go:237`). `trouble`,
`lost`, `late`, `refused` are history variables: the environment writes the first, so that
`UndisturbedPasses` relates what happened outside to the verdict. With `CLUSTER_ID` set the
specs skip themselves; the model is of the other case.

`UpgradeSpecs`. Each spec of `upgrade_test.go` is its own top-level container, which Ginkgo
orders at random and may run in parallel, so the model interleaves them. `Part(s)` is what
a spec upgrades: the cluster, or the node pool in `pool` (`nodePoolID`, `items[0]`). The
wait of the node pool is an `Eventually`, the others `WaitForUpgradeComplete`; both compare
the version, count an error as one more poll and end with their timeout, so they are one
action. `abandoned` names the specs that ended without knowing how their upgrade does.

`SuiteSpecs`. `cfg` is the one configuration of the process, `rhobs` the copy that
`NewRHOBSConfig` takes of it; a value is a number that says where it comes from (`Unset`,
`Loaded` from environment or file, else the version of the ConfigMap), since mixing sources
is what can go wrong with it. `at` is the remote call that comes next, `line` the query of
the body, `attempt` the token requests that failed, `polls` the rounds of the `Eventually`.
`InitMCClients` is the sequence `FindMC`, `Credentials`, `DetectTopology`, `ResolveName`,
`ResolveHCPNamespaces`; its error skips a synthetic spec and fails the others.
`LoadRHOBSCredentialsFromMC` writes all four fields, then finds out whether they are
complete. The gate keeps the configuration it started with. `calm`, `partial`, `sawData`
and `before` are history variables. The cluster of the model is a hosted one that OCM knows;
a token is refused unless all four credentials are the suite's or of the current version.

`HealthChecks`. Each behaviour runs one check. `OAuthReadiness` counts time in units, of
which a call takes up to `MaxCall`; a cancelled context makes every later call fail.
`RevisionCheck` and `ExternalAuth` interleave the check with the controllers and with
whoever edits the providers; an edit leaves a provider the issuer it has, or none.
`CloudTrail`'s token pins the place in the log, so the log stands still. `StatusVerifiers`
has no interleaving: a verifier reads once, and the run is over all readings within the
bounds. An object says a list of pairs of a type and a value; a condition, a phase, a tag
and the parts of a linked role's ARN are such pairs. `Readings` is also the name of the
counts in `Rhobs`; the two modules are never composed.

Definitions marked "Slip" are what a plausible mistake would make of the definition that
follows them; no action uses them. Each property is known to fail when one of them
replaces the definition it stands in front of.

## 3. Runs

| Run | Checks | Shows |
|---|---|---|
| `vpc_cleanup` (`MCVpcCleanup.cfg`) | `TypeOK`, `OkMeansStartGone`, `ErrorNamesWhatIsLeft`, `UndisturbedSucceeds`, `Terminates`, `ImplementsCascade` | One cleanup from every initial VPC of the instance, while others change it and calls fail. |
| `vpc_default_group` (`VpcDefaultGroup.cfg`) | `UndisturbedSucceeds`, violated | The rules of the default group are never revoked, so a group one of them refers to cannot be deleted. |
| `run_verifiers` (`MCRunVerifiers.cfg`) | `TypeOK`, `SendNeverBlocks`, `SucceedMeansEachPassed`, `NoGoroutineLeaks`, `Settles`, `ImplementsParallelCheck` | `Eventually` around the two node verifiers on a cluster that changes. |
| `test_specs` (`MCTestSpecs.cfg`) | `TypeOK`, `DeploymentKeepsApart`, `LeavesNothing`, `UndisturbedPasses`, `Ends` | Two executions of each of the five specs, with failing calls and killed jobs. |
| `deploy_leak` (`DeployLeak.cfg`) | `DeployLeavesNothing`, violated | One execution, every call answering, a deployment that is late: the namespace stays. |
| `cluster_lifecycle` (`ClusterLifecycle.cfg`) | `TypeOK`, `LeftOnlyByLoss`, `PassedMeansAllDone`, `UndisturbedPasses`, `Ends` | Both full-lifecycle specs, with every call lost in turn, interruptions, kills and an OCM that fails or is interfered with. |
| `upgrade_specs` (`UpgradeSpecs.cfg`) | `TypeOK`, `PassedMeansUpgraded`, `EveryUpgradeWatched`, `AllEnd` | Four specs at once on a cluster of each topology, two lost calls. |
| `upgrade_first_pool` (`UpgradeFirstPool.cfg`) | `PoolsUpgraded`, violated | With two node pools the spec passes with one of them at the old version. |
| `upgrade_skipped` (`UpgradeSkipped.cfg`) | `SkippedElsewhere`, violated | One failing lookup makes the Classic spec skip itself on a Classic cluster. |

| `suite_specs` (`MCSuiteSpecs.cfg`) | `TypeOK`, `OneSource`, `MetricsApartOnly`, `UndisturbedPasses`, `DiagnosisGrounded`, `GateSeesGrowth`, `CompleteStays`, `SpecsEnd` | Two specs after each other in a process, each call failing in turn, the ConfigMap written and the backend moving between calls. |
| `health_checks` (`MCHealthChecks.cfg`) | `TypeOK`, `OAuthInTime`, `RevisionSound`, `ProvidersSound`, `DenialsSeen`, `HealthyVerdict` | What the verdict of each single check says of the world it looked at. |
| `cloudtrail_pages` (`CloudTrailPages.cfg`) | `NoDenialInWindow`, violated | A denial on a page past the limit is not reported. |

### Bounds, and why they are enough

* `vpc_cleanup`: two ENIs (one in a custom group, one in the default group), the default
  and two custom groups whose rules form a cycle with an ingress and an egress edge, two
  subnets. Two of a kind give every relation a loop can have between an element it has
  reached and one it has not, and two pages. `MaxOutside = 2` allows another actor to
  undo its own step (detach and attach, create and delete) between two calls;
  `MaxFaults = 2` allows a fault and a fault of the retry; `MaxPolls = MaxTries = 2` gives
  a first, a middle and a last iteration. None of these bounds is in the proofs.
* `run_verifiers`: two verifiers that disagree on the same cluster (one counts, one looks
  at readiness), one master, two workers, two changes so that a second poll can see what
  the first one missed and lose it again.
* `test_specs`: two runs are the smallest number that can disturb each other, and the
  third has been explored once with one fault (4.95 million states) without anything new.
  Two faults and two tries let a creation be lost and its retry be lost too.

* `cluster_lifecycle`: no bound but three ticks of the wait, a first, a middle and a last
  one; any number of calls may be lost, since each is made once.
* `upgrade_specs`: two node pools, so that one is not the spec's; a spec of the cluster, of
  a pool, of another topology and of none (the OSD GCP spec is the Classic one under
  another name); two lost calls, for an Initiate of one spec and a lookup or a poll of
  another; two ticks, since what is counted is only that they end. Upgrades may fail and
  be scheduled again by the spec that comes next.

* `suite_specs`: seven surroundings that load, each unlike the first in one respect, and
  three that do not; two specs, since one must find what the other left in the
  configuration; two versions of the ConfigMap, one of which may lack a key; the code's
  four attempts of the token request; two polls, a repeated one and a last one; counts
  around a threshold of 10 per cent, with an empty result and a baseline of zero.
* `health_checks`: two pods, deployments, providers, objects, so that one may be fine and the
  other not; three revisions, so that one can change twice; a timeout of two units with polls
  of two and one, so that a poll crosses the deadline; two pages of two events and logs of up
  to five, one more than is read; two pairs in a status, enough to contradict oneself.

`CHECK_DEADLOCK FALSE` is set everywhere because these programs end: the call returns,
`Eventually` settles, the runs are over.

### Fairness

Weak fairness is assumed only of what the Go scheduler runs: the goroutine of the cleanup,
each verifier's goroutine and its caller, each run of a spec, the suite's process (in
`SuiteSpecs` of the steps of the spec that runs, not of the start of another one). In each of these every
action ends in the program's own step (a call that answers, a timer that fires), and
client-go and the AWS SDK return from a call with an answer or an error. Nothing is
assumed of EC2, of the controllers, of other actors or of the cluster: an ENI may never
detach, a deployment may never be available. The liveness properties hold all the same,
because the code bounds its waits; each fails when a bound is taken away.

## 4. Findings

* `pkg/framework/vpc_cleanup.go:191`: the default group is left out of the listing, hence
  out of the revoke pass. A rule of the default group that refers to another group keeps
  that group from being deleted, and the cleanup of an undisturbed VPC ends with a hard
  error, against the comment at line 203, "Revoke all rules first to break cross-SG
  reference cycles". The proofs and the passing run are not affected: what an error says
  is right, and `UndisturbedSucceeds` holds when no rule of the default group refers to another one.
* `pkg/framework/workload.go:70,95,113`: `DeployTestWorkload` returns a nil cleanup with
  every error after it created the namespace; its comment (line 18) says it returns a
  function that deletes it. A deployment that is late leaves a namespace, and in it the
  deployment that makes every later execution fail with AlreadyExists.

* `test/e2e/upgrade_test.go:60`: the node pool spec, "should upgrade node pools to target
  version" (line 41), upgrades `items[0]` and waits for it alone. With two pools it passes
  while one has the old version.
* `pkg/framework/context.go:275-281`: `Topology()` drops the error of its lookup and
  returns "", which its comment ('Returns "hcp", "classic", or "osd-gcp"', line 262) does
  not mention. After one failing lookup the Classic upgrade spec skips itself on a Classic
  cluster, and the report shows a skip.

* `pkg/verifiers/cloudtrail.go:41`: five pages of events are read, and a nil error is
  returned if none of them holds a denial. The comment at line 34 promises "an error if any
  are found" within the lookback window. A busy account fills five pages in minutes, so the
  older part of a window of hours is not looked at.

Smaller differences between text and code, without a run of their own:
`context.go:325` "Falls back to environment variables if MC is not accessible": the
variables are looked at first, and an inaccessible management cluster is an error.
`context.go:354` derives the metrics URL "if not explicitly set": one that was derived from
incomplete credentials is kept as well (`MetricsApartOnly` has the exception).
`oauth_readiness.go:28-29` speaks of one timeout; each wait has its own (`OAuthInTime`).
`README.md:355` speaks of isolated tests; the specs share `cfg`.

More facts the models show and no property forbids, since the code does not promise
otherwise: a resource created after its listing survives a nil error of the cleanup; a
namespace still being deleted counts as created, so that an execution which follows
another one closely fails; a cluster whose creation lost its answer runs on with nobody
who knows its id; a cluster that is gone before the last look fails the lifecycle spec; and
the post-upgrade checks can pass before the upgrade. Credentials that were read from the
ConfigMap are never read again, so that a rotation makes every later RHOBS spec of the process
fail; a topology spelt in capitals in the YAML file is no hosted cluster to `InitMCClients`;
a deployment that is deleted and created again between the two listings may change its
revision unseen; a VpcEndpoint with two conditions may pass or not as they are ordered.

## 5. Proofs

TLAPS checks the following for every value of the constants, under the `ASSUME`s of the
modules (types of the constants; `DefaultSg` is a group, an address
range is not; an identifier belongs to one kind; `Verifiers` is finite; `None` is no run; "cluster" is no node pool; a wait has at
least one tick). A theorem about the way to an end that needs more says so itself:
`FiniteVpc` (finitely many ENIs, groups and subnets), `FiniteProviders` (finitely many
external-auth providers) and `PollsTakeTime` (the poll intervals, ten and fifteen seconds
in the code, are not zero).

| Theorem | States |
|---|---|
| `VpcCleanup_proofs!TypeCorrect`, `OkSafe`, `ErrorSafe` | `Spec => []TypeOK`, `[]OkMeansStartGone`, `[]ErrorNamesWhatIsLeft` |
| `VpcCleanup_proofs!UndisturbedCleanupSucceeds` | `[]UndisturbedSucceeds`, if no rule of the default group refers to another group (`DefaultKeepsToItself`) |
| `VpcCleanup_proofs!Implements` | `Spec => ImplementsCascade`: the cleanup refines `CascadeDelete` |
| `RunVerifiers_proofs!TypeCorrect`, `SendSafe`, `NoLeak`, `SucceedSafe` | `[]TypeOK`, `[]SendNeverBlocks`, `[]NoGoroutineLeaks`, `[]SucceedMeansEachPassed` |
| `RunVerifiers_proofs!Implements` | `Spec => ImplementsParallelCheck` |
| `TestSpecs_proofs!TypeCorrect`, `KeepsApart`, `NothingLeft`, `UndisturbedRunsPass` | `[]TypeOK`, `[]DeploymentKeepsApart`, `[]LeavesNothing`, `[]UndisturbedPasses` |
| `ClusterLifecycle_proofs!TypeCorrect`, `LossOnly`, `PassSafe`, `QuietPasses` | `[]TypeOK`, `[]LeftOnlyByLoss`, `[]PassedMeansAllDone`, `[]UndisturbedPasses` |
| `UpgradeSpecs_proofs!TypeCorrect`, `PassSafe`, `WatchSafe` | `[]TypeOK`, `[]PassedMeansUpgraded`, `[]EveryUpgradeWatched` |
| `SuiteSpecs_proofs!TypesHold`, `CredentialsOfOneSource`, `MetricsStayTogether`, `DiagnosisHolds`, `GateHolds`, `UndisturbedSpecsPass` | `[]TypeOK`, `[]OneSource`, `[]MetricsApartOnly`, `[]DiagnosisGrounded`, `[]GateSeesGrowth`, `[]UndisturbedPasses` |
| `SuiteSpecs_proofs!CompleteCredentialsStay` | `Spec => CompleteStays`, an action property |
| `HealthChecks_proofs!TypesHold`, `WaitsEndInTime`, `RevisionCheckSound`, `ProviderCheckSound`, `NoDenialMissed`, `VerdictsAreRight` | `[]TypeOK`, `[]OAuthInTime`, `[]RevisionSound`, `[]ProvidersSound`, `[]DenialsSeen`, `[]HealthyVerdict` |
| `VpcCleanup_proofs!LeftKindsStayGone`, `TouchesOneKind` | What `CascadeDelete` promises, for the code: `[]EarlierGone` (nothing of a kind that was left behind remains or comes back), `[][OneKindAtATime]` |
| `RunVerifiers_proofs!AnswersExactly` | What `ParallelCheck` promises: `[]AnswerExact`, the joined error names exactly the verifiers that failed |
| `RunVerifiers_proofs!NeverStuck` | `[]NobodyHangs`: until there is an outcome, some goroutine or the caller can move |
| `ClusterLifecycle_proofs!OwnsItsCluster`, `StandingClusterIsOwned` | The lifecycle specs refine `OwnedResource`; hence `[]StandingIsOwned` for the cluster |
| `TestSpecs_proofs!RunsOwnTheirNamespace`, `StandingNamespaceIsOwned` | Any number of executions of a spec of `CreateTestNamespace` refine it together; `[]StandingIsOwned` for the namespace |
| `TestSpecs_proofs!TriesEnd` | `[]TriesBounded`: no call is tried or polled more often than its timeout allows |
| `Approaches` in each of the seven modules | A measure that every step of the program strictly lowers and no step of anybody else changes |
| `EndApproaches` in each of the seven modules | If the program keeps stepping, every value of the measure leads to the end or to a lower value |

The argument of each:

* `VpcCleanup`. `OkMeansStartGone` speaks of the last state only; the inductive invariant
  says, at every `pc`, where whatever still stands of the call must be found: in `todo`
  or in hand while a loop runs, in `errs` after a failed delete, nowhere once the stage is
  over (`EniInv`, `SgInv`, `SubnetInv`). `Born` is needed because the other actors act
  between any two steps: they may create, but nothing of the call is unborn, so nothing
  of the call comes back. Each EC2 call is first shown to be a `VpcStep`, which only
  shrinks what is left; each action then moves the rest between `todo`, `cur` and `errs`.
  The refinement needs the same invariant at the three stage ends, where `Advance` of
  `CascadeDelete` demands that nothing of the goal is left. `UndisturbedSucceeds` needs the
  opposite direction, that each call is one EC2 accepts: `Smooth` says that what a loop has
  not reached is still as its listing showed it (`EnisKnown`), and that a rule of a listed
  group is in force exactly as long as it has not been revoked (`Revoking`), so that after
  the revoke pass only the default group has rules. That those refer to no other group is
  the assumption; without it the run `vpc_default_group` shows the cleanup fail.
* `RunVerifiers`. `CountInv` (the counter is the number of goroutines started and not
  finished) with `PhaseInv` gives that all have exited when `Wait` returns; `VerdictInv`
  (channel and drained errors together are exactly the errors sent) gives the free slot:
  a goroutine that has yet to send is not in the channel, so the channel holds fewer than
  `Cardinality(Verifiers)`. The refinement maps `Verify` to a look, `Join` to the answer.
  `NeverStuck` names for each place of the caller who can move, without `ENABLED`: a caller
  that waits in `Wait` has a goroutine that can look, send (the free slot) or finish, or the
  counter is zero.
* `TestSpecs`. `DeploymentKeepsApart` needs to know that a cleanup runs only after line 5
  (`RunInv`), hence only by the run that holds the namespace. `LeavesNothing` needs a
  witness for a namespace that is still active: its founder (`FounderInv`), which is
  active itself or was killed, as long as no creation or deletion was given up. `UndisturbedPasses` rests on `AloneInv`: a run nothing has
  disturbed is the only active one, and its namespace holds exactly what the lines before
  have created, good if they waited for it (`Holding`); `ScriptFits` shows once, for each
  line of each script, that this is what the line needs.
* `ClusterLifecycle`. `PhaseInv` says that the cleanup is deferred exactly from the call
  after the creation on, `StandInv` that there is no cluster before the creation: together
  they leave the creation and the cleanup as the only calls whose loss matters. `SeenInv`
  carries what the body saw (a healthy cluster, an accepted deletion) to the verdict.
  `QuietInv` places the cluster at each call as long as nothing has disturbed the spec.
  All actions that only read or fail are instances of two lemmas, `GotoStep` and `FailStep`.
* `UpgradeSpecs`. `PassedMeansUpgraded` speaks of the end, `VersionInv` of every state from
  the successful poll on; `PolicyInv` (a reached version has no policy) makes the policy
  disappear with the version. `EveryUpgradeWatched` is inductive with `PhaseInv`, which
  says that a spec that has not chosen its pool yet watches nothing, so that the choice
  takes no watcher away.

* `SuiteSpecs`. Only two actions write the configuration (`SharedFrame`), and
  `LoadRHOBSCredentialsFromMC` does so only while it is incomplete, which gives `CompleteStays`
  at once; `MetricsApartOnly` needs `PartialInv`, that the sources of incomplete credentials
  are remembered by the time they are overwritten. `DataInv` ties the answer a diagnosis will
  use to what there was since. `GateInv` says that a count that was read lies between what it
  was when the spec started and what it is now, so that a growth from before cannot shrink.
  `UndisturbedPasses` rests on `CalmInv`: while nothing has gone wrong, what the spec asks
  for is there; `PublishedInv` and `PlaceInv` place the versions and the calls.
* `HealthChecks`. The invariants of the five checks are independent; each says nothing
  while another one runs. `WaitInv` relates the clock to the deadline at each call,
  `ObservedInv` the first listing to the deployments that moved since, `ProbeInv` the issuers
  left to probe to the providers nobody touched, and `TrailInv` the pages read to the
  denials among them. `HealthyVerdict` is proved object by object (`ObjectJudged`, one case
  for each kind of verifier) and then for the list.

Three arguments run through several modules:

* What an abstract specification promises is proved of that specification and carried to the
  code by the refinement. `EarlierGone` and `OneKindAtATime` are inductive in `CascadeDelete`,
  whose `Advance` demands that the kind it leaves is empty; `AnswerExact` in `ParallelCheck`;
  `StandingIsOwned` in `OwnedResource`.
* Ownership. A spec is bound while its `DeferCleanup` is ahead of it; `broken` is mapped to
  what happened outside: a kill, or the loss for good of the very call that creates or deletes
  (`lost`); the refinement shows that the loss of no other call matters. For the namespace
  the hard part is that several runs share it. A run that finds it is bound as well, and a
  cleanup that deletes it for all of them is still a `Release`. The specs that call
  `DeployTestWorkload` are excluded (`~Deploys`), since they do not keep the promise: that
  is the finding of the run `deploy_leak`.
* The way to the end. `Distance` is a number where the code has one bound for everything
  (polls and moves of the lifecycle and upgrade specs; `MaxCalls * (5N + 3)` steps of
  `RunVerifiers` for N verifiers; calls left of a check). `Position` is a tuple of naturals in
  lexicographic order (`Below`) where one step may open a loop whose length nobody knew
  before: a line of a script and the tries left on it, a stage of the cleanup and what the
  listing has shown and the loop has not reached. Every step of the program lowers it, which
  is where a loop that forgets to count, or a retry that starts anew, would show. The steps of the
  others leave it as it is, so that no interleaving keeps a program from its end.
  `EndApproaches` turns this into a leads-to.

All safety and action properties of the passing runs are proved. The liveness properties
`Terminates`, `Settles`, `Ends` (of two modules), `AllEnd` and `SpecsEnd` are model-checked
only. Of what they need, `Approaches` and `EndApproaches` prove the part that is about the
code. What the prover cannot reach is that weak fairness gives the hypothesis of
`EndApproaches` (it needs `ENABLED`) and the induction over the order (its theorem takes an
operator as a parameter). Induction over data is out of reach as well.

## 6. What is not modelled, and why

* The shard search (`ocm.go:344-406`) is one step of `ClusterLifecycle` that finds a shard or
  none; its result, which is written to the shared configuration, would matter to a second
  cluster of another sector, which no spec of a process creates.
* Specs that read the cluster once and judge it are their verifier (`StatusVerifiers`);
  the two contexts of `rhobs_synthetic_monitoring_test.go:93-133` repeat the probe spec for
  one label.
* `sippy.go` and `sippy_signals.go` are one pass over finished reports, with no state and
  nothing beside them; their unit tests reach every branch.
* The shell scripts (`ci-status-report.sh`, `provision-e2e-cluster.sh`,
  `deprovision-e2e-cluster.sh`) run before, beside and after the suite and share no state
  with it but the environment; what they leave after a stop depends on the `rosa` and `aws`
  command lines.
* The AWS and service-cluster clients (`context.go:172-249`) and `kube.go` construct objects
  and keep them; workflows, labels, job lists and build files are declarative.

What would add most next: the upgrade specs on an undisturbed cluster, which pass.
