-------------------------- MODULE TestSpecs_proofs --------------------------
(***************************************************************************)
(* Proofs about TestSpecs for any set of executions, any number of failing *)
(* calls and any length of the retries and waits.                          *)
(***************************************************************************)
EXTENDS TestSpecs, TLAPS

\* The line of a script that defers the cleanup.
DeferLine == IF Deploys THEN 5 ELSE 2

\* A cleanup is deferred once the run is past that line, and runs only then.
RunInv ==
  \A r \in Runs :
    /\ deferred[r] <=> line[r] > DeferLine
    /\ state[r] = "cleanup" => deferred[r]
    /\ state[r] = "idle" => line[r] = 1

ThereInv == \A o \in Objects : maker[o] = None <=> ~There(o)

\* With CreateTestNamespace, a namespace outlives its founder's run only if that run
\* was killed or a creation or deletion of it failed for good.
FounderInv ==
  ~Deploys /\ lost = {} /\ phase = "active" =>
    founder \in Runs /\ (Active(founder) \/ verdict[founder] = "killed")

IInv == TypeOK /\ RunInv /\ ThereInv /\ DeploymentKeepsApart /\ FounderInv

-----------------------------------------------------------------------------
(***************************************************************************)
(* The scripts, line by line.                                              *)
(***************************************************************************)
LEMMA DeployLines ==
  ASSUME NEW s \in {"workload", "connectivity"}
  PROVE  /\ Len(Script[s]) \in Nat /\ Len(Script[s]) >= 6
         /\ \A i \in 1..Len(Script[s]) :
              /\ Script[s][i].op = "namespace" <=> i = 1
              /\ Script[s][i].op = "defer" <=> i = 5
              /\ i = 2 => Script[s][i].op = "create"
              /\ Script[s][i].op = "create" =>
                   /\ Script[s][i].on \in {"deployment", "service", "pod"}
                   /\ Script[s][i].on = "deployment" <=> i = 2
              /\ Script[s][i].op \notin {"retryNamespace", "eventually"}
<1>1. CASE s = "workload"
  <2>1. Script[s] = WorkloadSpec
    BY <1>1 DEF Script
  <2>2. /\ Len(WorkloadSpec) = 6
        /\ WorkloadSpec[1] = Call("namespace", None)
        /\ WorkloadSpec[2] = Call("create", "deployment")
        /\ WorkloadSpec[3] = Call("create", "service")
        /\ WorkloadSpec[4] = Call("await", "deployment")
        /\ WorkloadSpec[5] = Call("defer", None)
        /\ WorkloadSpec[6] = Call("verify", "deployment")
    BY DEF WorkloadSpec, DeployTestWorkload
  <2>3. \A i \in 1..6 : i = 1 \/ i = 2 \/ i = 3 \/ i = 4 \/ i = 5 \/ i = 6
    OBVIOUS
  <2> QED BY <2>1, <2>2, <2>3 DEF Call
<1>2. CASE s = "connectivity"
  <2>1. Script[s] = ConnectivitySpec
    BY <1>2 DEF Script
  <2>2. /\ Len(ConnectivitySpec) = 9
        /\ ConnectivitySpec[1] = Call("namespace", None)
        /\ ConnectivitySpec[2] = Call("create", "deployment")
        /\ ConnectivitySpec[3] = Call("create", "service")
        /\ ConnectivitySpec[4] = Call("await", "deployment")
        /\ ConnectivitySpec[5] = Call("defer", None)
        /\ ConnectivitySpec[6] = Call("create", "pod")
        /\ ConnectivitySpec[7] = Call("await", "pod")
        /\ ConnectivitySpec[8] = Call("verify", "pod")
        /\ ConnectivitySpec[9] = Call("verify", "pod")
    BY DEF ConnectivitySpec, DeployTestWorkload
  <2>3. \A i \in 1..9 : i = 1 \/ i = 2 \/ i = 3 \/ i = 4 \/ i = 5 \/ i = 6 \/ i = 7 \/ i = 8 \/ i = 9
    OBVIOUS
  <2> QED BY <2>1, <2>2, <2>3 DEF Call
<1> QED BY <1>1, <1>2

LEMMA NamespaceLines ==
  ASSUME NEW s \in {"dns", "storage", "netpol"}
  PROVE  /\ Len(Script[s]) \in Nat /\ Len(Script[s]) >= 3
         /\ \A i \in 1..Len(Script[s]) :
              /\ Script[s][i].op = "retryNamespace" <=> i = 1
              /\ Script[s][i].op = "defer" <=> i = 2
              /\ Script[s][i].op # "namespace"
              /\ Script[s][i].op = "create" => Script[s][i].on \in {"claim", "pod", "policy"}
<1>1. CASE s = "dns"
  <2>1. Script[s] = DnsSpec
    BY <1>1 DEF Script
  <2>2. /\ Len(DnsSpec) = 5
        /\ DnsSpec[1] = Call("retryNamespace", None)
        /\ DnsSpec[2] = Call("defer", None)
        /\ DnsSpec[3] = Call("create", "pod")
        /\ DnsSpec[4] = Call("await", "pod")
        /\ DnsSpec[5] = Call("verify", "pod")
    BY DEF DnsSpec, CreateTestNamespace
  <2>3. \A i \in 1..5 : i = 1 \/ i = 2 \/ i = 3 \/ i = 4 \/ i = 5
    OBVIOUS
  <2> QED BY <2>1, <2>2, <2>3 DEF Call
<1>2. CASE s = "storage"
  <2>1. Script[s] = StorageSpec
    BY <1>2 DEF Script
  <2>2. /\ Len(StorageSpec) = 5
        /\ StorageSpec[1] = Call("retryNamespace", None)
        /\ StorageSpec[2] = Call("defer", None)
        /\ StorageSpec[3] = Call("create", "claim")
        /\ StorageSpec[4] = Call("create", "pod")
        /\ StorageSpec[5] = Call("eventually", "claim")
    BY DEF StorageSpec, CreateTestNamespace, CreateTestPVC, CreateTestPodWithPVC
  <2>3. \A i \in 1..5 : i = 1 \/ i = 2 \/ i = 3 \/ i = 4 \/ i = 5
    OBVIOUS
  <2> QED BY <2>1, <2>2, <2>3 DEF Call
<1>3. CASE s = "netpol"
  <2>1. Script[s] = NetworkPolicySpec
    BY <1>3 DEF Script
  <2>2. /\ Len(NetworkPolicySpec) = 3
        /\ NetworkPolicySpec[1] = Call("retryNamespace", None)
        /\ NetworkPolicySpec[2] = Call("defer", None)
        /\ NetworkPolicySpec[3] = Call("create", "policy")
    BY DEF NetworkPolicySpec, CreateTestNamespace
  <2>3. \A i \in 1..3 : i = 1 \/ i = 2 \/ i = 3
    OBVIOUS
  <2> QED BY <2>1, <2>2, <2>3 DEF Call
<1> QED BY <1>1, <1>2, <1>3

LEMMA AllSpecs == Specs = {"workload", "connectivity", "dns", "storage", "netpol"}
BY DEF Specs, Script

\* What the invariants need of both kinds of script.
LEMMA Lines ==
  ASSUME spec \in Specs
  PROVE  /\ Len(Script[spec]) \in Nat /\ DeferLine < Len(Script[spec])
         /\ DeferLine \in Nat /\ DeferLine > 1
         /\ \A i \in 1..Len(Script[spec]) :
              /\ Script[spec][i].op = "defer" <=> i = DeferLine
              /\ Script[spec][i].op \in {"namespace", "retryNamespace"} <=> i = 1
              /\ Script[spec][i].op = "namespace" => Deploys
              /\ Script[spec][i].op = "retryNamespace" => ~Deploys
<1>1. CASE Deploys
  <2>1. spec \in {"workload", "connectivity"} /\ DeferLine = 5
    BY <1>1 DEF Deploys, DeferLine
  <2> QED BY <1>1, <2>1, DeployLines
<1>2. CASE ~Deploys
  <2>1. spec \in {"dns", "storage", "netpol"} /\ DeferLine = 2
    BY <1>2, AllSpecs DEF Deploys, DeferLine
  <2> QED BY <1>2, <2>1, NamespaceLines
<1> QED BY <1>1, <1>2

-----------------------------------------------------------------------------
(***************************************************************************)
(* Moves of one run.                                                       *)
(***************************************************************************)
RunTypeOK ==
  /\ state \in [Runs -> {"idle", "body", "cleanup", "over"}]
  /\ line \in [Runs -> 1..Len(Script[spec])]
  /\ count \in [Runs -> Nat]
  /\ deferred \in [Runs -> BOOLEAN]
  /\ verdict \in [Runs -> {"none", "passed", "failed", "killed"}]

OtherTypeOK ==
  /\ faults \in Nat /\ retried \in Nat /\ lost \subseteq Runs
  /\ crowded \in [Runs -> BOOLEAN]
  /\ late \in [Runs -> BOOLEAN]
  /\ unlucky \in BOOLEAN

\* Run r moves on; it keeps running unless it fails before it deferred its cleanup.
Moved(r) ==
  /\ RunTypeOK' /\ RunInv' /\ UNCHANGED <<spec, deferred>>
  /\ \A x \in Runs \ {r} : UNCHANGED <<state[x], line[x], verdict[x]>>
  /\ line'[r] \in {line[r], line[r] + 1}
  /\ state'[r] \in {"body", "cleanup", "over"}

LEMMA Parts ==
  ASSUME IInv
  PROVE  KubeTypeOK /\ spec \in Specs /\ RunTypeOK /\ OtherTypeOK /\ RunInv
BY DEF IInv, TypeOK, RunTypeOK, OtherTypeOK

LEMMA AdvanceMoves ==
  ASSUME IInv, NEW r \in Runs, state[r] = "body", line[r] # DeferLine, Advance(r), UNCHANGED spec
  PROVE  Moved(r) /\ state'[r] \in {"body", "cleanup"} /\ (state'[r] = "body" => line'[r] = line[r] + 1)
<1>1. /\ Len(Script[spec]) \in Nat /\ DeferLine < Len(Script[spec]) /\ DeferLine \in Nat
      /\ RunTypeOK /\ RunInv /\ UNCHANGED DeferLine
  BY Parts, Lines DEF DeferLine, Deploys
<1>2. /\ count' = [count EXCEPT ![r] = 0]
      /\ UNCHANGED <<deferred, verdict>>
  BY DEF Advance
<1>3. CASE line[r] < Len(Script[spec]) /\ line' = [line EXCEPT ![r] = @ + 1] /\ UNCHANGED state
  <2>1. line[r] + 1 \in 1..Len(Script[spec])
    BY <1>1, <1>3 DEF RunTypeOK
  <2>2. RunTypeOK'
    BY <1>1, <1>2, <1>3, <2>1 DEF RunTypeOK
  <2>3. line'[r] = line[r] + 1 /\ \A x \in Runs \ {r} : line'[x] = line[x]
    BY <1>1, <1>3 DEF RunTypeOK
  <2>4. line[r] + 1 > DeferLine <=> line[r] > DeferLine
    BY <1>1 DEF RunTypeOK
  <2>5. RunInv'
    BY <1>1, <1>2, <1>3, <2>3, <2>4 DEF RunInv
  <2> QED BY <1>2, <1>3, <2>2, <2>3, <2>5 DEF Moved
<1>4. CASE /\ ~(line[r] < Len(Script[spec]))
           /\ state' = [state EXCEPT ![r] = "cleanup"] /\ UNCHANGED line
  <2>1. line[r] > DeferLine
    BY <1>1, <1>4 DEF RunTypeOK
  <2>2. RunTypeOK'
    BY <1>1, <1>2, <1>4 DEF RunTypeOK
  <2>3. RunInv'
    BY <1>1, <1>2, <1>4, <2>1 DEF RunInv, RunTypeOK
  <2> QED BY <1>1, <1>2, <1>4, <2>2, <2>3 DEF Moved, RunTypeOK
<1> QED BY <1>3, <1>4 DEF Advance

LEMMA FailMoves ==
  ASSUME IInv, NEW r \in Runs, state[r] = "body", Fail(r), UNCHANGED spec
  PROVE  /\ Moved(r) /\ UNCHANGED line
         /\ state'[r] = IF line[r] > DeferLine THEN "cleanup" ELSE "over"
<1>1. RunTypeOK /\ RunInv /\ UNCHANGED DeferLine
  BY Parts DEF DeferLine, Deploys
<1>2. /\ state' = [state EXCEPT ![r] = IF deferred[r] THEN "cleanup" ELSE "over"]
      /\ verdict' = [verdict EXCEPT ![r] = "failed"]
      /\ UNCHANGED <<line, count, deferred>>
  BY DEF Fail
<1>3. RunTypeOK'
  BY <1>1, <1>2 DEF RunTypeOK
<1>4. RunInv'
  BY <1>1, <1>2 DEF RunInv, RunTypeOK
<1>5. state'[r] = IF line[r] > DeferLine THEN "cleanup" ELSE "over"
  BY <1>1, <1>2 DEF RunInv, RunTypeOK
<1> QED BY <1>1, <1>2, <1>3, <1>4, <1>5 DEF Moved, RunTypeOK

LEMMA AgainMoves ==
  ASSUME IInv, NEW r \in Runs, state[r] = "body", Again(r), UNCHANGED spec
  PROVE  Moved(r) /\ UNCHANGED line /\ state'[r] = "body"
<1>1. RunTypeOK /\ RunInv /\ UNCHANGED DeferLine
  BY Parts DEF DeferLine, Deploys
<1>2. count' = [count EXCEPT ![r] = @ + 1] /\ UNCHANGED <<state, line, deferred, verdict>>
  BY DEF Again
<1>3. count[r] + 1 \in Nat
  BY <1>1 DEF RunTypeOK
<1>4. RunTypeOK'
  BY <1>1, <1>2, <1>3 DEF RunTypeOK
<1>5. RunInv'
  BY <1>1, <1>2 DEF RunInv
<1> QED BY <1>2, <1>4, <1>5 DEF Moved

\* Faults are counted, histories only ever set.
LEMMA FaultType ==
  ASSUME OtherTypeOK, NEW r \in Runs, Answered \/ Fault \/ FaultRetried \/ NamespaceFault(r)
  PROVE  /\ faults' \in Nat /\ retried' \in Nat /\ lost' \subseteq Runs
         /\ lost' = {} => lost = {} /\ ~NamespaceFault(r)
<1>1. CASE Answered
  BY <1>1 DEF OtherTypeOK, Answered, faultVars, NamespaceFault
<1>2. CASE Fault \/ FaultRetried
  BY <1>2 DEF OtherTypeOK, Fault, FaultRetried, NamespaceFault
<1>3. CASE NamespaceFault(r)
  BY <1>3 DEF OtherTypeOK, NamespaceFault
<1> QED BY <1>1, <1>2, <1>3

-----------------------------------------------------------------------------
(***************************************************************************)
(* One call of a run's body.                                               *)
(***************************************************************************)
\* What a call must see to for the invariant to survive it.
LEMMA CallInv ==
  ASSUME IInv, NEW r \in Runs, state[r] = "body", Moved(r),
         KubeTypeOK', ThereInv', OtherTypeOK', lost' = {} => lost = {},
         Deploys => \A x \in Runs \ {r} :
           Holds(x) => phase' = "active" /\ maker'["deployment"] = maker["deployment"],
         Deploys /\ Holds(r)' => phase' = "active" /\ maker'["deployment"] = r,
         ~Deploys /\ lost' = {} /\ phase' = "active" =>
           \/ founder' = r /\ state'[r] # "over"
           \/ phase = "active" /\ founder' = founder /\ (founder = r => state'[r] # "over")
  PROVE  IInv'
<1>1. TypeOK'
  BY Parts DEF Moved, TypeOK, RunTypeOK, OtherTypeOK
<1>2. \A x \in Runs \ {r} : Holds(x)' <=> Holds(x)
  BY DEF Moved, Holds, Active
<1>3. Deploys' = Deploys
  BY DEF Moved, Deploys
<1>4. DeploymentKeepsApart'
  BY <1>2, <1>3 DEF IInv, DeploymentKeepsApart
<1>5. state'[r] # "over" => Active(r)'
  BY DEF Moved, Active
<1>6. \A x \in Runs \ {r} : (Active(x)' <=> Active(x)) /\ verdict'[x] = verdict[x]
  BY DEF Moved, Active
<1>7. FounderInv'
  BY <1>3, <1>5, <1>6 DEF IInv, FounderInv
<1> QED BY <1>1, <1>4, <1>7 DEF IInv, Moved

LEMMA KubeSame ==
  ASSUME IInv, UNCHANGED kubeVars
  PROVE  KubeTypeOK' /\ ThereInv'
BY Parts DEF IInv, KubeTypeOK, ThereInv, There, kubeVars

\* A call that only reads, past the deferred cleanup or past the deployment.
LEMMA ReadInv ==
  ASSUME IInv, NEW r \in Runs, state[r] = "body", UNCHANGED kubeVars, UNCHANGED spec,
         OtherTypeOK', lost' = {} => lost = {},
         line[r] > 2, line[r] # DeferLine,
         Advance(r) \/ Fail(r) \/ Again(r)
  PROVE  IInv'
<1>1. RunTypeOK /\ DeferLine \in {2, 5} /\ (~Deploys => DeferLine = 2)
  BY Parts DEF DeferLine
<1>2. Moved(r) /\ (state'[r] = "over" => ~(line[r] > DeferLine))
  BY AdvanceMoves, FailMoves, AgainMoves
<1>3. ~Deploys => state'[r] # "over"
  BY <1>1, <1>2 DEF RunTypeOK
<1>4. Deploys => Holds(r)
  BY DEF Holds, Active
<1>5. Deploys => phase = "active" \/ ~Holds(r)
  BY DEF IInv, DeploymentKeepsApart
<1> QED BY <1>2, <1>3, <1>4, KubeSame, CallInv DEF kubeVars, IInv, DeploymentKeepsApart

\* The line of a run is one of its script.
LEMMA AtLine ==
  ASSUME IInv, NEW r \in Runs, NEW op, At(r, op)
  PROVE  /\ state[r] = "body" /\ line[r] \in 1..Len(Script[spec]) /\ line[r] \in Nat
         /\ Script[spec][line[r]].op = op
         /\ DeferLine \in {2, 5} /\ (Deploys => DeferLine = 5) /\ (~Deploys => DeferLine = 2)
         /\ op = "defer" <=> line[r] = DeferLine
         /\ op \in {"namespace", "retryNamespace"} <=> line[r] = 1
<1>1. line[r] \in 1..Len(Script[spec]) /\ Len(Script[spec]) \in Nat
  BY Parts, Lines DEF RunTypeOK
<1> QED BY <1>1, Parts, Lines DEF At, DeferLine

LEMMA WaitInv == ASSUME IInv, NEW r \in Runs, Await(r) \/ Eventually(r) \/ Verify(r) PROVE IInv'
<1>1. \E op \in {"await", "eventually", "verify"} : At(r, op)
  BY DEF Await, Eventually, Verify
<1>2. /\ state[r] = "body" /\ line[r] # DeferLine
      /\ line[r] # 1 /\ line[r] \in Nat \ {0} /\ DeferLine \in {2, 5}
  BY <1>1, AtLine
<1>3. line[r] # 2
  <2>1. CASE ~Deploys
    BY <1>1, <2>1, AtLine
  <2>2. CASE Deploys
    <3>1. spec \in {"workload", "connectivity"}
      BY <2>2 DEF Deploys
    <3>2. line[r] = 2 => Script[spec][line[r]].op = "create"
      BY <1>1, <3>1, DeployLines, AtLine
    <3> QED BY <1>1, <3>2, AtLine
  <2> QED BY <2>1, <2>2
<1>4. /\ UNCHANGED kubeVars /\ UNCHANGED spec
      /\ Advance(r) \/ Fail(r) \/ Again(r)
      /\ Answered \/ Fault \/ FaultRetried
      /\ UNCHANGED <<crowded, unlucky>>
      /\ late' = late \/ late' = [late EXCEPT ![r] = TRUE]
  BY DEF Await, Eventually, Verify, TimesOut, history
<1>5. OtherTypeOK' /\ (lost' = {} => lost = {})
  BY <1>4, Parts, FaultType DEF OtherTypeOK
<1> QED BY <1>2, <1>3, <1>4, <1>5, ReadInv

\* Nobody holds a namespace that does not exist.
LEMMA CreatedType ==
  ASSUME IInv, NEW r \in Runs, NamespaceCreated(r) \/ UNCHANGED kubeVars
  PROVE  /\ KubeTypeOK' /\ ThereInv' /\ maker' = maker
         /\ phase = "active" => phase' = "active" /\ founder' = founder
         /\ phase' = "active" => founder' = r \/ (phase = "active" /\ founder' = founder)
<1>1. CASE NamespaceCreated(r)
  BY <1>1, Parts DEF NamespaceCreated, KubeTypeOK, IInv, ThereInv, There
<1>2. CASE UNCHANGED kubeVars
  BY <1>2, KubeSame DEF kubeVars
<1> QED BY <1>1, <1>2

LEMMA CreateNamespaceInv == ASSUME IInv, NEW r \in Runs, CreateNamespace(r) PROVE IInv'
<1>1. At(r, "namespace") /\ UNCHANGED spec /\ UNCHANGED history
  BY DEF CreateNamespace
<1>2. state[r] = "body" /\ line[r] = 1 /\ line[r] # DeferLine /\ Deploys /\ DeferLine = 5
  BY <1>1, AtLine, Parts, Lines
<1>3. /\ NamespaceCreated(r) \/ UNCHANGED kubeVars
      /\ Answered \/ NamespaceFault(r)
      /\ Advance(r) \/ Fail(r)
  BY DEF CreateNamespace, NamespaceThere, NamespaceLost
<1>4. Moved(r)
  BY <1>1, <1>2, <1>3, AdvanceMoves, FailMoves
<1>5. ~Holds(r)'
  BY <1>2, <1>4 DEF Moved, Holds
<1>6. OtherTypeOK' /\ (lost' = {} => lost = {})
  BY <1>1, <1>3, Parts, FaultType DEF OtherTypeOK, history
<1>7. \A x \in Runs : Holds(x) => phase = "active"
  BY <1>2 DEF IInv, DeploymentKeepsApart
<1> QED BY <1>2, <1>3, <1>4, <1>5, <1>6, <1>7, CreatedType, CallInv

LEMMA RetryNamespaceInv == ASSUME IInv, NEW r \in Runs, RetryNamespace(r) PROVE IInv'
<1>1. At(r, "retryNamespace") /\ UNCHANGED spec /\ UNCHANGED history
  BY DEF RetryNamespace
<1>2. state[r] = "body" /\ line[r] = 1 /\ line[r] # DeferLine /\ ~Deploys
  BY <1>1, AtLine, Parts, Lines
<1>3. NamespaceCreated(r) \/ UNCHANGED kubeVars
  BY DEF RetryNamespace, NamespaceThere, NamespaceLost
<1>4. \/ Answered /\ Advance(r)
      \/ FaultRetried /\ Again(r)
      \/ NamespaceFault(r) /\ Fail(r)
  BY DEF RetryNamespace, NamespaceThere
<1>5. OtherTypeOK' /\ (lost' = {} => lost = {} /\ ~NamespaceFault(r))
  BY <1>1, <1>4, Parts, FaultType DEF OtherTypeOK, history
<1>6. Moved(r) /\ (lost' = {} => state'[r] # "over")
  BY <1>1, <1>2, <1>4, <1>5, AdvanceMoves, FailMoves, AgainMoves
<1> QED BY <1>2, <1>3, <1>5, <1>6, CreatedType, CallInv

\* An object is created by a run whose name is not taken.
LEMMA ObjectType ==
  ASSUME IInv, NEW r \in Runs, NEW o \in Objects, ObjectCreated(o, r) \/ UNCHANGED kubeVars
  PROVE  KubeTypeOK' /\ ThereInv' /\ phase' = phase /\ founder' = founder
<1>1. CASE ObjectCreated(o, r)
  <2>1. /\ maker' = [maker EXCEPT ![o] = r]
        /\ status' = [status EXCEPT ![o] = "pending"]
        /\ UNCHANGED <<phase, founder>>
    BY <1>1 DEF ObjectCreated
  <2>2. r # None
    BY KubeAssumption DEF KubeAssumption
  <2> QED BY <2>1, <2>2, Parts DEF KubeTypeOK, IInv, ThereInv, There
<1>2. CASE UNCHANGED kubeVars
  BY <1>2, KubeSame DEF kubeVars
<1> QED BY <1>1, <1>2

LEMMA CreateObjectInv == ASSUME IInv, NEW r \in Runs, CreateObject(r) PROVE IInv'
<1> DEFINE o == Subject(r)
<1>1. At(r, "create") /\ UNCHANGED spec /\ UNCHANGED history
  BY DEF CreateObject
<1>2. /\ state[r] = "body" /\ line[r] # DeferLine /\ line[r] # 1 /\ line[r] \in Nat \ {0}
      /\ DeferLine \in {2, 5} /\ (~Deploys => line[r] > DeferLine)
  BY <1>1, AtLine
<1>3. /\ ObjectCreated(o, r) \/ UNCHANGED kubeVars
      /\ Answered \/ Fault
      /\ Advance(r) \/ Fail(r)
      /\ Advance(r) => ObjectCreated(o, r) \/ Fail(r)
  BY DEF CreateObject
<1>4. /\ Moved(r)
      /\ Fail(r) => UNCHANGED line /\ (state'[r] = "over" <=> ~(line[r] > DeferLine))
      /\ Advance(r) => state'[r] # "over"
  BY <1>1, <1>2, <1>3, AdvanceMoves, FailMoves
<1>5. OtherTypeOK' /\ (lost' = {} => lost = {})
  BY <1>1, <1>3, Parts, FaultType DEF OtherTypeOK, history
<1>6. CASE ~Deploys
  <2>1. KubeTypeOK' /\ ThereInv' /\ phase' = phase /\ founder' = founder
    <3>1. CASE UNCHANGED kubeVars
      BY <3>1, KubeSame DEF kubeVars
    <3>2. CASE ObjectCreated(o, r)
      <4>1. o \in Objects
        BY <1>1, <1>6, AllSpecs, NamespaceLines, SpecsAssumption, Parts, AtLine DEF Subject, Deploys
      <4> QED BY <3>2, <4>1, ObjectType
    <3> QED BY <1>3, <3>1, <3>2
  <2>2. state'[r] # "over"
    BY <1>2, <1>3, <1>4, <1>6
  <2> QED BY <1>2, <1>4, <1>5, <1>6, <2>1, <2>2, CallInv
<1>7. CASE Deploys
  <2>1. spec \in {"workload", "connectivity"} /\ DeferLine = 5
    BY <1>7 DEF Deploys, DeferLine
  <2>2. o \in {"deployment", "service", "pod"} /\ (o = "deployment" <=> line[r] = 2)
    BY <1>1, <2>1, DeployLines, AtLine DEF Subject
  <2>3. o \in Objects
    BY <2>2, SpecsAssumption
  <2>4. KubeTypeOK' /\ ThereInv' /\ phase' = phase /\ founder' = founder
    BY <1>3, <2>3, ObjectType
  <2>5. ASSUME o = "deployment"
        PROVE  IInv'
    <3>1. CASE ObjectCreated(o, r)
      <4>1. maker["deployment"] = None /\ phase = "active"
        BY <2>5, <3>1, <2>3 DEF IInv, ThereInv, ObjectCreated, Creatable
      <4>2. \A x \in Runs : ~Holds(x)
        BY <1>7, <4>1, KubeAssumption DEF KubeAssumption, IInv, DeploymentKeepsApart
      <4>3. maker'["deployment"] = r
        BY <2>3, <2>5, <3>1, Parts DEF ObjectCreated, KubeTypeOK
      <4> QED BY <1>2, <1>4, <1>5, <1>7, <2>4, <4>1, <4>2, <4>3, CallInv
    <3>2. CASE UNCHANGED kubeVars /\ Fail(r)
      <4>1. ~Holds(r)'
        BY <1>2, <1>4, <2>1, <2>2, <2>5, <3>2 DEF Holds, Active
      <4> QED BY <1>2, <1>4, <1>5, <1>7, <2>4, <3>2, <4>1, CallInv DEF IInv, DeploymentKeepsApart, kubeVars
    <3> QED BY <1>3, <3>1, <3>2
  <2>6. ASSUME o # "deployment"
        PROVE  IInv'
    <3>1. maker'["deployment"] = maker["deployment"]
      <4>1. CASE ObjectCreated(o, r)
        BY <2>3, <2>6, <4>1, SpecsAssumption, Parts DEF ObjectCreated, KubeTypeOK
      <4> QED BY <1>3, <4>1 DEF kubeVars
    <3>2. Holds(r)
      BY <1>2, <2>2, <2>6 DEF Holds, Active
    <3>3. \A x \in Runs : Holds(x) => phase = "active" /\ maker["deployment"] = x
      BY <1>7 DEF IInv, DeploymentKeepsApart
    <3> QED BY <1>2, <1>4, <1>5, <1>7, <2>4, <3>1, <3>2, <3>3, CallInv
  <2> QED BY <2>5, <2>6
<1> QED BY <1>6, <1>7

LEMMA DeferCleanupInv == ASSUME IInv, NEW r \in Runs, DeferCleanup(r) PROVE IInv'
<1>1. /\ state[r] = "body" /\ line[r] = DeferLine /\ line[r] \in Nat
      /\ DeferLine \in {2, 5} /\ (Deploys => line[r] = 5)
  BY AtLine DEF DeferCleanup
<1>2. /\ deferred' = [deferred EXCEPT ![r] = TRUE]
      /\ line' = [line EXCEPT ![r] = @ + 1]
      /\ UNCHANGED <<kubeVars, spec, state, count, verdict, faultVars, history>>
  BY DEF DeferCleanup
<1>3. /\ Len(Script[spec]) \in Nat /\ DeferLine < Len(Script[spec])
      /\ RunTypeOK /\ RunInv /\ DeferLine' = DeferLine /\ Deploys' = Deploys
  BY <1>2, Parts, Lines DEF DeferLine, Deploys
<1>4. line[r] + 1 \in 1..Len(Script[spec]) /\ line[r] + 1 > DeferLine
  BY <1>1, <1>3
<1>5. RunTypeOK'
  BY <1>2, <1>3, <1>4 DEF RunTypeOK
<1>6. TypeOK'
  BY <1>2, <1>5, Parts DEF TypeOK, RunTypeOK, OtherTypeOK, KubeTypeOK, kubeVars, faultVars, history
<1>7. RunInv'
  <2>1. \A x \in Runs \ {r} : line'[x] = line[x] /\ deferred'[x] = deferred[x]
    BY <1>2, <1>3 DEF RunTypeOK
  <2>2. line'[r] > DeferLine /\ deferred'[r] = TRUE
    BY <1>2, <1>3, <1>4 DEF RunTypeOK
  <2> QED BY <1>1, <1>2, <1>3, <2>1, <2>2 DEF RunInv
<1>8. ThereInv'
  BY <1>2, KubeSame
<1>9. \A x \in Runs : Deploys /\ Holds(x)' => Holds(x)
  BY <1>1, <1>2, <1>3 DEF Holds, Active, RunTypeOK
<1>10. DeploymentKeepsApart'
  BY <1>2, <1>3, <1>9 DEF IInv, DeploymentKeepsApart, kubeVars
<1>11. FounderInv'
  BY <1>2, <1>3 DEF IInv, FounderInv, Active, kubeVars, faultVars
<1> QED BY <1>6, <1>7, <1>8, <1>10, <1>11 DEF IInv

-----------------------------------------------------------------------------
(***************************************************************************)
(* The other steps.                                                        *)
(***************************************************************************)
LEMMA StartInv == ASSUME IInv, NEW r \in Runs, Start(r) PROVE IInv'
<1>1. /\ state[r] = "idle" /\ state' = [state EXCEPT ![r] = "body"]
      /\ UNCHANGED <<kubeVars, spec, line, count, deferred, verdict, faultVars, late, unlucky>>
      /\ crowded' \in [Runs -> BOOLEAN]
  BY Parts DEF Start, OtherTypeOK, Active
<1>2. /\ RunTypeOK /\ RunInv /\ DeferLine' = DeferLine /\ Deploys' = Deploys
      /\ \A x \in Runs \ {r} : state'[x] = state[x]
      /\ state'[r] = "body"
  BY <1>1, Parts DEF DeferLine, Deploys, RunTypeOK
<1>3. TypeOK'
  BY <1>1, <1>2, Parts DEF TypeOK, RunTypeOK, OtherTypeOK, KubeTypeOK, kubeVars, faultVars
<1>4. RunInv'
  BY <1>1, <1>2 DEF RunInv
<1>5. ThereInv'
  BY <1>1, KubeSame
<1>6. \A x \in Runs : Holds(x)' => Holds(x)
  BY <1>1, <1>2 DEF Holds, Active, RunInv
<1>7. DeploymentKeepsApart'
  BY <1>1, <1>2, <1>6 DEF IInv, DeploymentKeepsApart, kubeVars
<1>8. \A x \in Runs : Active(x) => Active(x)'
  BY <1>1, <1>2 DEF Active
<1>9. FounderInv'
  BY <1>1, <1>2, <1>8 DEF IInv, FounderInv, kubeVars, faultVars
<1> QED BY <1>3, <1>4, <1>5, <1>7, <1>9 DEF IInv

\* What ends a run: its cleanup, or a kill.
LEMMA OverType ==
  ASSUME IInv, NEW r \in Runs, NEW v \in {"none", "passed", "failed", "killed"},
         state' = [state EXCEPT ![r] = "over"], verdict' = [verdict EXCEPT ![r] = v],
         UNCHANGED <<spec, line, count, deferred>>
  PROVE  /\ RunTypeOK' /\ RunInv' /\ Deploys' = Deploys
         /\ ~Holds(r)' /\ verdict'[r] = v
         /\ \A x \in Runs \ {r} :
              /\ Holds(x)' <=> Holds(x)
              /\ Active(x)' <=> Active(x)
              /\ verdict'[x] = verdict[x]
<1>1. /\ RunTypeOK /\ RunInv /\ DeferLine' = DeferLine
      /\ Deploys' = Deploys
  BY Parts DEF DeferLine, Deploys
<1>2. /\ state'[r] = "over" /\ verdict'[r] = v
      /\ \A x \in Runs \ {r} : state'[x] = state[x] /\ verdict'[x] = verdict[x]
  BY <1>1 DEF RunTypeOK
<1>3. RunTypeOK'
  BY <1>1 DEF RunTypeOK
<1>4. RunInv'
  BY <1>1, <1>2 DEF RunInv
<1> QED BY <1>1, <1>2, <1>3, <1>4 DEF Holds, Active

LEMMA CleanupInv == ASSUME IInv, NEW r \in Runs, Cleanup(r) PROVE IInv'
<1>1. state[r] = "cleanup" /\ UNCHANGED spec /\ UNCHANGED history
  BY DEF Cleanup
<1>2. /\ NamespaceDeleted \/ UNCHANGED kubeVars
      /\ Answered \/ NamespaceFault(r)
      /\ Over(r, FALSE) \/ Over(r, TRUE)
      /\ phase' # "active" \/ NamespaceFault(r)
  BY DEF Cleanup, NamespaceDeleted, kubeVars
<1>3. PICK v \in {"none", "passed", "failed", "killed"} :
        /\ state' = [state EXCEPT ![r] = "over"] /\ verdict' = [verdict EXCEPT ![r] = v]
        /\ UNCHANGED <<line, count, deferred>>
  BY <1>2, Parts DEF Over, RunTypeOK
<1>4. /\ RunTypeOK' /\ RunInv' /\ Deploys' = Deploys /\ ~Holds(r)'
      /\ \A x \in Runs \ {r} : Holds(x)' <=> Holds(x)
  BY <1>1, <1>3, OverType
<1>5. KubeTypeOK' /\ ThereInv' /\ maker' = maker
  <2>1. CASE NamespaceDeleted
    BY <2>1, Parts DEF NamespaceDeleted, KubeTypeOK, IInv, ThereInv, There
  <2> QED BY <1>2, <2>1, KubeSame DEF kubeVars
<1>6. OtherTypeOK' /\ (lost' = {} => lost = {} /\ ~NamespaceFault(r))
  BY <1>1, <1>2, Parts, FaultType DEF OtherTypeOK, history
<1>7. TypeOK'
  BY <1>1, <1>4, <1>5, <1>6, Parts DEF TypeOK, RunTypeOK, OtherTypeOK
<1>8. Deploys => Holds(r)
  <2>1. line[r] > DeferLine /\ line[r] \in Nat
    BY <1>1, Parts, Lines DEF RunInv, RunTypeOK
  <2> QED BY <1>1, <2>1 DEF Holds, Active, DeferLine
<1>9. DeploymentKeepsApart'
  BY <1>4, <1>8 DEF IInv, DeploymentKeepsApart
<1>10. FounderInv'
  BY <1>2, <1>6 DEF FounderInv
<1> QED BY <1>4, <1>5, <1>7, <1>9, <1>10 DEF IInv

LEMMA KillInv == ASSUME IInv, NEW r \in Runs, Kill(r) PROVE IInv'
<1>1. /\ state' = [state EXCEPT ![r] = "over"] /\ verdict' = [verdict EXCEPT ![r] = "killed"]
      /\ UNCHANGED <<kubeVars, spec, line, count, deferred, faultVars, history>>
  BY DEF Kill
<1>2. /\ RunTypeOK' /\ RunInv' /\ Deploys' = Deploys
      /\ ~Holds(r)' /\ verdict'[r] = "killed"
      /\ \A x \in Runs \ {r} :
           /\ Holds(x)' <=> Holds(x)
           /\ Active(x)' <=> Active(x)
           /\ verdict'[x] = verdict[x]
  BY <1>1, OverType
<1>3. KubeTypeOK' /\ ThereInv'
  BY <1>1, KubeSame
<1>4. TypeOK'
  BY <1>1, <1>2, <1>3, Parts DEF TypeOK, RunTypeOK, OtherTypeOK, faultVars, history
<1>5. DeploymentKeepsApart'
  BY <1>1, <1>2 DEF IInv, DeploymentKeepsApart, kubeVars
<1>6. FounderInv'
  BY <1>1, <1>2 DEF IInv, FounderInv, kubeVars, faultVars
<1> QED BY <1>2, <1>3, <1>4, <1>5, <1>6 DEF IInv

\* The controllers take nothing from a namespace that is not being deleted.
LEMMA ControllersInv == ASSUME IInv, Controllers PROVE IInv'
<1>1. UNCHANGED <<spec, runVars, faultVars, crowded, late>>
  BY DEF Controllers
<1>2. /\ KubeTypeOK' /\ ThereInv' /\ unlucky' \in BOOLEAN
      /\ phase = "active" => phase' = "active" /\ maker' = maker
      /\ phase' = "active" => phase = "active" /\ founder' = founder
  <2>1. CASE \E o \in Objects : ContentRemoved(o) /\ UNCHANGED unlucky
    BY <2>1, Parts DEF ContentRemoved, KubeTypeOK, OtherTypeOK, IInv, ThereInv, There
  <2>2. CASE NamespaceGone /\ UNCHANGED unlucky
    BY <2>2, Parts DEF NamespaceGone, KubeTypeOK, OtherTypeOK, IInv, ThereInv, There
  <2>3. CASE \E o \in Objects : Progresses(o) /\ unlucky' = (unlucky \/ status'[o] = "bad")
    <3>1. PICK o \in Objects : Progresses(o) /\ unlucky' = (unlucky \/ status'[o] = "bad")
      BY <2>3
    <3>2. unlucky' \in BOOLEAN
      BY <3>1, Parts DEF OtherTypeOK
    <3>3. /\ status[o] = "pending" /\ UNCHANGED <<phase, founder, maker>>
          /\ \/ status' = [status EXCEPT ![o] = "good"]
             \/ status' = [status EXCEPT ![o] = "bad"]
      BY <3>1 DEF Progresses
    <3> QED BY <3>2, <3>3, Parts DEF KubeTypeOK, IInv, ThereInv, There
  <2>4. CASE \E o \in Objects : Regresses(o) /\ unlucky' = TRUE
    BY <2>4, Parts DEF Regresses, KubeTypeOK, IInv, ThereInv, There
  <2> QED BY <2>1, <2>2, <2>3, <2>4 DEF Controllers
<1>3. TypeOK'
  BY <1>1, <1>2, Parts DEF TypeOK, RunTypeOK, OtherTypeOK, runVars, faultVars
<1>4. RunInv' /\ Deploys' = Deploys /\ \A x \in Runs : Holds(x)' <=> Holds(x)
  BY <1>1, Parts DEF RunInv, DeferLine, Deploys, Holds, Active, runVars
<1>5. DeploymentKeepsApart'
  BY <1>2, <1>4 DEF IInv, DeploymentKeepsApart
<1>6. FounderInv'
  BY <1>1, <1>2, <1>4 DEF IInv, FounderInv, Active, runVars, faultVars
<1> QED BY <1>2, <1>3, <1>4, <1>5, <1>6 DEF IInv

-----------------------------------------------------------------------------
(***************************************************************************)
(* The invariant of the specification and what follows from it.            *)
(***************************************************************************)
LEMMA InitInv == Init => IInv
<1> SUFFICES ASSUME Init PROVE IInv
  OBVIOUS
<1>1. /\ Len(Script[spec]) \in Nat /\ DeferLine < Len(Script[spec])
      /\ DeferLine \in Nat /\ DeferLine > 1
  BY Lines DEF Init
<1>2. 1 \in 1..Len(Script[spec])
  BY <1>1
<1>3. TypeOK
  BY <1>2 DEF Init, KubeInit, TypeOK, KubeTypeOK
<1>4. RunInv
  <2>1. ASSUME NEW r \in Runs
        PROVE  line[r] = 1 /\ state[r] = "idle" /\ deferred[r] = FALSE
    BY DEF Init
  <2>2. ~(1 > DeferLine)
    BY <1>1
  <2> QED BY <2>1, <2>2 DEF RunInv
<1>5. ThereInv
  BY DEF Init, KubeInit, ThereInv, There
<1>6. DeploymentKeepsApart /\ FounderInv
  BY DEF Init, KubeInit, DeploymentKeepsApart, Holds, Active, FounderInv
<1> QED BY <1>3, <1>4, <1>5, <1>6 DEF IInv

LEMMA NextInv == IInv /\ [Next]_vars => IInv'
<1> SUFFICES ASSUME IInv, [Next]_vars PROVE IInv'
  OBVIOUS
<1>1. ASSUME NEW r \in Runs, Start(r) \/ Run(r) \/ Kill(r)
      PROVE  IInv'
  BY <1>1, StartInv, CreateNamespaceInv, RetryNamespaceInv, CreateObjectInv, WaitInv,
     DeferCleanupInv, CleanupInv, KillInv DEF Run
<1>2. CASE UNCHANGED vars
  <2>1. UNCHANGED <<kubeVars, spec, runVars, faultVars, history>>
    BY <1>2 DEF vars
  <2>2. TypeOK' /\ ThereInv'
    BY <2>1, KubeSame DEF IInv, TypeOK, KubeTypeOK, kubeVars, runVars, faultVars, history
  <2>3. RunInv'
    BY <2>1 DEF IInv, RunInv, DeferLine, Deploys, runVars
  <2>4. DeploymentKeepsApart' /\ FounderInv'
    BY <2>1 DEF IInv, DeploymentKeepsApart, FounderInv, Deploys, Holds, Active,
                kubeVars, runVars, faultVars
  <2> QED BY <2>2, <2>3, <2>4 DEF IInv
<1> QED BY <1>1, <1>2, ControllersInv DEF Next

\* IInv is an invariant of the specification.
THEOREM Invariant == Spec => []IInv
BY InitInv, NextInv, PTL DEF Spec

\* Type correctness: the line a run is at is always one of its script.
THEOREM TypeCorrect == Spec => []TypeOK
<1>1. IInv => TypeOK
  BY DEF IInv
<1> QED BY <1>1, Invariant, PTL

\* A run of DeployTestWorkload's specs, from the creation of its deployment to the end
\* of its cleanup, has the namespace for itself, whatever the other runs do.
THEOREM KeepsApart == Spec => []DeploymentKeepsApart
<1>1. IInv => DeploymentKeepsApart
  BY DEF IInv
<1> QED BY <1>1, Invariant, PTL

\* The specs of CreateTestNamespace leave no active namespace once all runs are over,
\* unless one was killed or a call failed for good.
THEOREM NothingLeft == Spec => []LeavesNothing
<1>1. IInv => LeavesNothing
  BY DEF IInv, FounderInv, LeavesNothing, Active
<1> QED BY <1>1, Invariant, PTL

-----------------------------------------------------------------------------
(***************************************************************************)
(* A run that has the cluster for itself.                                  *)
(***************************************************************************)
\* What the calls before line i of the script create, and wait for.
Made(i, o) == \E j \in 1..(i - 1) : Script[spec][j].op = "create" /\ Script[spec][j].on = o
Awaited(i, o) == \E j \in 1..(i - 1) : Script[spec][j].op = "await" /\ Script[spec][j].on = o

Undisturbed(r) == ~crowded[r] /\ ~late[r] /\ ~unlucky /\ faults = 0

\* The namespace of run r holds what r has made, and what r has waited for is good.
Holding(r) ==
  \A o \in Objects :
    (There(o) <=> Made(line[r], o)) /\ (Awaited(line[r], o) => status[o] = "good")

Alone(r) ==
  /\ \A x \in Runs \ {r} : ~Active(x)
  /\ phase # "terminating"
  /\ line[r] > 1 => phase = "active"
  /\ state[r] = "body" => Holding(r)

Fine(r) == verdict[r] # "failed" /\ (Active(r) => Alone(r))

KubeInv ==
  /\ phase = "absent" => \A o \in Objects : ~There(o)
  /\ ~unlucky => \A o \in Objects : status[o] # "bad"

AloneInv == \A r \in Runs : Undisturbed(r) => Fine(r)

\* One line of a script: what it may find there.
LineFits(i) ==
  LET op == Script[spec][i].op  on == Script[spec][i].on IN
  /\ op \in {"namespace", "retryNamespace", "create", "await", "eventually", "verify", "defer"}
  /\ op = "create" => on \in Objects /\ ~Made(i, on)
  /\ op \in {"await", "verify"} => on \in Objects /\ Made(i, on)
  /\ op = "verify" => Awaited(i, on)

LEMMA ScriptFits == ASSUME spec \in Specs, NEW i \in 1..Len(Script[spec]) PROVE LineFits(i)
<1>o. Objects = {"deployment", "service", "claim", "pod", "policy"}
  BY SpecsAssumption
<1>1. CASE spec = "workload"
  <2>1. Script[spec] = WorkloadSpec
    BY <1>1 DEF Script
  <2>2. /\ Len(WorkloadSpec) = 6
        /\ WorkloadSpec[1] = Call("namespace", None)
        /\ WorkloadSpec[2] = Call("create", "deployment")
        /\ WorkloadSpec[3] = Call("create", "service")
        /\ WorkloadSpec[4] = Call("await", "deployment")
        /\ WorkloadSpec[5] = Call("defer", None)
        /\ WorkloadSpec[6] = Call("verify", "deployment")
    BY DEF WorkloadSpec, DeployTestWorkload
  <2>3. i = 1 \/ i = 2 \/ i = 3 \/ i = 4 \/ i = 5 \/ i = 6
    BY <2>1, <2>2
  <2> QED BY <1>o, <2>1, <2>2, <2>3, SMTT(30) DEF Call, LineFits, Made, Awaited
<1>2. CASE spec = "connectivity"
  <2>1. Script[spec] = ConnectivitySpec
    BY <1>2 DEF Script
  <2>2. /\ Len(ConnectivitySpec) = 9
        /\ ConnectivitySpec[1] = Call("namespace", None)
        /\ ConnectivitySpec[2] = Call("create", "deployment")
        /\ ConnectivitySpec[3] = Call("create", "service")
        /\ ConnectivitySpec[4] = Call("await", "deployment")
        /\ ConnectivitySpec[5] = Call("defer", None)
        /\ ConnectivitySpec[6] = Call("create", "pod")
        /\ ConnectivitySpec[7] = Call("await", "pod")
        /\ ConnectivitySpec[8] = Call("verify", "pod")
        /\ ConnectivitySpec[9] = Call("verify", "pod")
    BY DEF ConnectivitySpec, DeployTestWorkload
  <2>3. i = 1 \/ i = 2 \/ i = 3 \/ i = 4 \/ i = 5 \/ i = 6 \/ i = 7 \/ i = 8 \/ i = 9
    BY <2>1, <2>2
  <2> QED BY <1>o, <2>1, <2>2, <2>3, SMTT(30) DEF Call, LineFits, Made, Awaited
<1>3. CASE spec = "dns"
  <2>1. Script[spec] = DnsSpec
    BY <1>3 DEF Script
  <2>2. /\ Len(DnsSpec) = 5
        /\ DnsSpec[1] = Call("retryNamespace", None)
        /\ DnsSpec[2] = Call("defer", None)
        /\ DnsSpec[3] = Call("create", "pod")
        /\ DnsSpec[4] = Call("await", "pod")
        /\ DnsSpec[5] = Call("verify", "pod")
    BY DEF DnsSpec, CreateTestNamespace
  <2>3. i = 1 \/ i = 2 \/ i = 3 \/ i = 4 \/ i = 5
    BY <2>1, <2>2
  <2> QED BY <1>o, <2>1, <2>2, <2>3, SMTT(30) DEF Call, LineFits, Made, Awaited
<1>4. CASE spec = "storage"
  <2>1. Script[spec] = StorageSpec
    BY <1>4 DEF Script
  <2>2. /\ Len(StorageSpec) = 5
        /\ StorageSpec[1] = Call("retryNamespace", None)
        /\ StorageSpec[2] = Call("defer", None)
        /\ StorageSpec[3] = Call("create", "claim")
        /\ StorageSpec[4] = Call("create", "pod")
        /\ StorageSpec[5] = Call("eventually", "claim")
    BY DEF StorageSpec, CreateTestNamespace, CreateTestPVC, CreateTestPodWithPVC
  <2>3. i = 1 \/ i = 2 \/ i = 3 \/ i = 4 \/ i = 5
    BY <2>1, <2>2
  <2> QED BY <1>o, <2>1, <2>2, <2>3, SMTT(30) DEF Call, LineFits, Made, Awaited
<1>5. CASE spec = "netpol"
  <2>1. Script[spec] = NetworkPolicySpec
    BY <1>5 DEF Script
  <2>2. /\ Len(NetworkPolicySpec) = 3
        /\ NetworkPolicySpec[1] = Call("retryNamespace", None)
        /\ NetworkPolicySpec[2] = Call("defer", None)
        /\ NetworkPolicySpec[3] = Call("create", "policy")
    BY DEF NetworkPolicySpec, CreateTestNamespace
  <2>3. i = 1 \/ i = 2 \/ i = 3
    BY <2>1, <2>2
  <2> QED BY <1>o, <2>1, <2>2, <2>3, SMTT(30) DEF Call, LineFits, Made, Awaited
<1> QED BY <1>1, <1>2, <1>3, <1>4, <1>5, AllSpecs

\* One line further, what that line creates or waits for is there as well.
LEMMA OneMore ==
  ASSUME spec \in Specs, NEW i \in 1..Len(Script[spec]), NEW o \in Objects
  PROVE  /\ Made(i + 1, o) <=>
              Made(i, o) \/ (Script[spec][i].op = "create" /\ Script[spec][i].on = o)
         /\ Awaited(i + 1, o) <=>
              Awaited(i, o) \/ (Script[spec][i].op = "await" /\ Script[spec][i].on = o)
<1>1. 1..((i + 1) - 1) = (1..(i - 1)) \cup {i}
  BY Lines
<1> QED BY <1>1 DEF Made, Awaited

LEMMA NothingBefore == ASSUME NEW o \in Objects PROVE ~Made(1, o) /\ ~Awaited(1, o)
BY DEF Made, Awaited

\* Once disturbed, a run stays so.
LEMMA StillUndisturbed ==
  ASSUME IInv, [Next]_vars, NEW r \in Runs, Undisturbed(r)'
  PROVE  Undisturbed(r) /\ UNCHANGED spec
<1>1. OtherTypeOK
  BY Parts
<1>2. UNCHANGED spec
  BY DEF Next, Start, Run, Kill, Controllers, CreateNamespace, RetryNamespace, CreateObject,
         Await, Eventually, Verify, DeferCleanup, Cleanup, vars
<1>3. crowded[r] => crowded'[r]
  BY <1>1 DEF Next, Start, Run, Kill, Controllers, CreateNamespace, RetryNamespace, CreateObject,
         Await, Eventually, Verify, DeferCleanup, Cleanup, TimesOut, vars, history, OtherTypeOK
<1>4. late[r] => late'[r]
  BY <1>1 DEF Next, Start, Run, Kill, Controllers, CreateNamespace, RetryNamespace, CreateObject,
         Await, Eventually, Verify, DeferCleanup, Cleanup, TimesOut, vars, history, OtherTypeOK
<1>5. unlucky => unlucky'
  BY <1>1 DEF Next, Start, Run, Kill, Controllers, CreateNamespace, RetryNamespace, CreateObject,
         Await, Eventually, Verify, DeferCleanup, Cleanup, TimesOut, vars, history, OtherTypeOK
<1>6. faults' = 0 => faults = 0
  <2>1. Answered \/ Fault \/ faults' = faults \/ faults' = faults + 1
    <3>1. CASE \E x \in Runs : CreateNamespace(x) \/ RetryNamespace(x)
      BY <3>1 DEF CreateNamespace, RetryNamespace, NamespaceThere, FaultRetried, NamespaceFault
    <3>2. CASE \E x \in Runs : CreateObject(x) \/ Cleanup(x)
      BY <3>2 DEF CreateObject, Cleanup, NamespaceFault
    <3>3. CASE \E x \in Runs : Await(x) \/ Eventually(x) \/ Verify(x)
      BY <3>3 DEF Await, Eventually, Verify, TimesOut, FaultRetried
    <3>4. CASE \E x \in Runs : Start(x) \/ Kill(x) \/ DeferCleanup(x)
      BY <3>4 DEF Start, Kill, DeferCleanup, faultVars
    <3>5. CASE Controllers \/ UNCHANGED vars
      BY <3>5 DEF Controllers, faultVars, vars
    <3> QED BY <3>1, <3>2, <3>3, <3>4, <3>5 DEF Next, Run
  <2> QED BY <1>1, <2>1 DEF Answered, Fault, faultVars, OtherTypeOK
<1> QED BY <1>2, <1>3, <1>4, <1>5, <1>6 DEF Undisturbed

-----------------------------------------------------------------------------
\* A line of the script in hand.
LEMMA Here ==
  ASSUME IInv, NEW r \in Runs, NEW op, At(r, op)
  PROVE  /\ spec \in Specs /\ state[r] = "body" /\ Active(r)
         /\ line[r] \in 1..Len(Script[spec]) /\ line[r] \in Nat
         /\ Script[spec][line[r]].op = op /\ Script[spec][line[r]].on = Subject(r)
         /\ LineFits(line[r])
         /\ op \in {"namespace", "retryNamespace"} <=> line[r] = 1
BY AtLine, ScriptFits, Parts DEF Subject, Active

\* The next line: the body goes on there, or is over.
LEMMA NextLine ==
  ASSUME IInv, NEW r \in Runs, state[r] = "body", Advance(r)
  PROVE  /\ verdict'[r] = verdict[r]
         /\ state'[r] = "body" => line'[r] = line[r] + 1
         /\ state'[r] # "body" => line'[r] = line[r] /\ line[r] > 1
         /\ \A x \in Runs \ {r} : state'[x] = state[x]
<1>1. RunTypeOK /\ Len(Script[spec]) > 1 /\ Len(Script[spec]) \in Nat
  BY Parts, Lines
<1> QED BY <1>1 DEF Advance, RunTypeOK

\* The others stay out while r moves on.
LEMMA OthersOut ==
  ASSUME NEW r \in Runs, \A x \in Runs \ {r} : ~Active(x) /\ state'[x] = state[x]
  PROVE  \A x \in Runs \ {r} : ~Active(x)'
BY DEF Active

\* A failure of an undisturbed run's call would need a disturbance.
LEMMA NoFault ==
  ASSUME IInv, NEW r \in Runs, Undisturbed(r)'
  PROVE  ~Fault /\ ~NamespaceFault(r)
BY Parts DEF Undisturbed, Fault, NamespaceFault, OtherTypeOK

LEMMA NoTimeOut == ASSUME IInv, NEW r \in Runs, Undisturbed(r)' PROVE ~TimesOut(r)
BY Parts DEF Undisturbed, TimesOut, OtherTypeOK

LEMMA NamespaceFine ==
  ASSUME IInv, KubeInv, NEW r \in Runs, CreateNamespace(r) \/ RetryNamespace(r),
         Undisturbed(r)', Fine(r)
  PROVE  Fine(r)'
<1>1. /\ spec \in Specs /\ state[r] = "body" /\ Active(r) /\ line[r] = 1 /\ UNCHANGED spec
      /\ line[r] \in 1..Len(Script[spec])
      /\ Script[spec][1].op \in {"namespace", "retryNamespace"}
  <2>1. CASE CreateNamespace(r)
    <3>1. At(r, "namespace") /\ UNCHANGED spec
      BY <2>1 DEF CreateNamespace
    <3> QED BY <3>1, Here
  <2>2. CASE RetryNamespace(r)
    <3>1. At(r, "retryNamespace") /\ UNCHANGED spec
      BY <2>2 DEF RetryNamespace
    <3> QED BY <3>1, Here
  <2> QED BY <2>1, <2>2
<1>2. Alone(r) /\ verdict[r] # "failed"
  BY <1>1 DEF Fine
<1>3. \A o \in Objects : ~There(o)
  BY <1>1, <1>2, NothingBefore DEF Alone, Holding
<1>4. /\ \/ NamespaceThere(r) /\ Advance(r)
         \/ NamespaceLost(r) /\ Again(r)
  BY NoFault, Parts DEF CreateNamespace, RetryNamespace, Undisturbed, OtherTypeOK
<1>5. /\ UNCHANGED status /\ phase' # "terminating"
      /\ NamespaceThere(r) => phase' = "active"
  BY <1>2, <1>4, Parts DEF NamespaceThere, NamespaceLost, NamespaceCreated, kubeVars, Alone,
     KubeTypeOK
<1>6. \A o \in Objects : ~There(o)'
  BY <1>3, <1>5 DEF There
<1>7. CASE NamespaceThere(r) /\ Advance(r)
  <2>1. /\ verdict'[r] = verdict[r]
        /\ state'[r] = "body" => line'[r] = 2
        /\ \A x \in Runs \ {r} : state'[x] = state[x]
    BY <1>1, <1>7, NextLine
  <2>2. \A o \in Objects : ~Made(2, o) /\ ~Awaited(2, o)
    <3>1. \A o \in Objects : ~Made(1 + 1, o) /\ ~Awaited(1 + 1, o)
      BY <1>1, OneMore, NothingBefore
    <3> QED BY <3>1
  <2>3. \A o \in Objects : ~Made(2, o)' /\ ~Awaited(2, o)'
    BY <1>1, <2>2 DEF Made, Awaited
  <2>4. state'[r] = "body" => Holding(r)'
    BY <1>6, <2>1, <2>3 DEF Holding
  <2>5. Alone(r)'
    BY <1>2, <1>5, <1>7, <2>1, <2>4, OthersOut DEF Alone
  <2> QED BY <1>2, <2>1, <2>5 DEF Fine
<1>8. CASE NamespaceLost(r) /\ Again(r)
  <2>1. UNCHANGED <<state, line, verdict>>
    BY <1>8 DEF Again
  <2>2. \A o \in Objects : ~Made(1, o)' /\ ~Awaited(1, o)'
    BY DEF Made, Awaited
  <2>3. Holding(r)'
    BY <1>1, <1>6, <2>1, <2>2 DEF Holding
  <2>4. Alone(r)'
    BY <1>1, <1>2, <1>5, <2>1, <2>3, OthersOut DEF Alone
  <2> QED BY <1>2, <2>1, <2>4 DEF Fine
<1> QED BY <1>4, <1>7, <1>8

LEMMA CreateObjectFine ==
  ASSUME IInv, NEW r \in Runs, CreateObject(r), Undisturbed(r)', Fine(r)
  PROVE  Fine(r)'
<1> DEFINE o == Subject(r)
<1>1. /\ spec \in Specs /\ state[r] = "body" /\ Active(r) /\ UNCHANGED spec
      /\ line[r] \in 1..Len(Script[spec]) /\ line[r] \in Nat /\ line[r] > 1
      /\ Script[spec][line[r]].op = "create" /\ Script[spec][line[r]].on = o
      /\ o \in Objects /\ ~Made(line[r], o)
  <2>1. At(r, "create") /\ UNCHANGED spec
    BY DEF CreateObject
  <2> QED BY <2>1, Here DEF LineFits
<1>2. Alone(r) /\ verdict[r] # "failed" /\ Holding(r) /\ phase = "active"
  BY <1>1 DEF Fine, Alone
<1>3. Creatable(o)
  BY <1>1, <1>2 DEF Holding, Creatable
<1>4. ObjectCreated(o, r) /\ Advance(r)
  BY <1>3, NoFault DEF CreateObject
<1>5. /\ status' = [status EXCEPT ![o] = "pending"] /\ phase' = "active"
      /\ status[o] = "none" /\ status \in [Objects -> {"none", "pending", "good", "bad"}]
  BY <1>2, <1>4, Parts DEF ObjectCreated, Creatable, There, KubeTypeOK
<1>6. /\ verdict'[r] = verdict[r]
      /\ state'[r] = "body" => line'[r] = line[r] + 1
      /\ \A x \in Runs \ {r} : state'[x] = state[x]
  BY <1>1, <1>4, NextLine
<1>7. ASSUME NEW q \in Objects
      PROVE  /\ There(q)' <=> Made(line[r] + 1, q)
             /\ Awaited(line[r] + 1, q) => status'[q] = "good"
  <2>1. /\ Made(line[r] + 1, q) <=> Made(line[r], q) \/ q = o
        /\ Awaited(line[r] + 1, q) <=> Awaited(line[r], q)
    BY <1>1, OneMore
  <2>2. /\ There(q) <=> Made(line[r], q)
        /\ Awaited(line[r], q) => status[q] = "good"
    BY <1>2 DEF Holding
  <2>3. CASE q = o
    BY <1>1, <1>5, <2>1, <2>2, <2>3 DEF There
  <2>4. CASE q # o
    BY <1>5, <2>1, <2>2, <2>4 DEF There
  <2> QED BY <2>3, <2>4
<1>8. state'[r] = "body" => Holding(r)'
  BY <1>1, <1>6, <1>7 DEF Holding, Made, Awaited
<1>9. Alone(r)'
  BY <1>2, <1>5, <1>6, <1>8, OthersOut DEF Alone
<1> QED BY <1>2, <1>6, <1>9 DEF Fine

\* A wait or a look of r moves to the next line, with what it looked at good.
LEMMA LookFine ==
  ASSUME IInv, NEW r \in Runs, spec \in Specs, state[r] = "body", UNCHANGED <<kubeVars, spec>>,
         line[r] \in 1..Len(Script[spec]), line[r] > 1, LineFits(line[r]),
         Script[spec][line[r]].op # "create",
         Script[spec][line[r]].op = "await" => status[Script[spec][line[r]].on] = "good",
         Fine(r), Advance(r)
  PROVE  Fine(r)'
<1>1. Alone(r) /\ verdict[r] # "failed" /\ Holding(r) /\ phase = "active"
  BY DEF Fine, Alone, Active
<1>2. /\ verdict'[r] = verdict[r]
      /\ state'[r] = "body" => line'[r] = line[r] + 1
      /\ \A x \in Runs \ {r} : state'[x] = state[x]
  BY NextLine
<1>3. ASSUME NEW q \in Objects
      PROVE  /\ There(q)' <=> Made(line[r] + 1, q)
             /\ Awaited(line[r] + 1, q) => status'[q] = "good"
  BY <1>1, OneMore DEF Holding, There, kubeVars
<1>4. state'[r] = "body" => Holding(r)'
  BY <1>2, <1>3 DEF Holding, Made, Awaited
<1>5. Alone(r)'
  BY <1>1, <1>2, <1>4, OthersOut DEF Alone, kubeVars
<1> QED BY <1>1, <1>2, <1>5 DEF Fine

LEMMA StayFine ==
  ASSUME NEW r \in Runs, UNCHANGED <<kubeVars, spec, state, line, verdict>>, Fine(r)
  PROVE  Fine(r)'
BY DEF Fine, Alone, Active, Holding, There, Made, Awaited, kubeVars

LEMMA WaitFine ==
  ASSUME IInv, KubeInv, NEW r \in Runs, Await(r) \/ Eventually(r) \/ Verify(r),
         Undisturbed(r), Undisturbed(r)', Fine(r)
  PROVE  Fine(r)'
<1>1. PICK op \in {"await", "eventually", "verify"} :
        /\ At(r, op)
        /\ op = "await" => Await(r)
        /\ op = "eventually" => Eventually(r)
        /\ op = "verify" => Verify(r)
  BY DEF Await, Eventually, Verify
<1>2. /\ spec \in Specs /\ state[r] = "body" /\ Active(r) /\ UNCHANGED <<kubeVars, spec>>
      /\ line[r] \in 1..Len(Script[spec]) /\ line[r] > 1 /\ LineFits(line[r])
      /\ Script[spec][line[r]].op = op /\ Script[spec][line[r]].on = Subject(r)
  BY <1>1, Here DEF Await, Eventually, Verify
<1>3. Alone(r) /\ Holding(r)
  BY <1>2 DEF Fine, Alone
<1>4. CASE Again(r)
  BY <1>2, <1>4, StayFine DEF Again
<1>5. CASE op = "await"
  <2>1. There(Subject(r)) /\ Subject(r) \in Objects
    BY <1>2, <1>3, <1>5 DEF LineFits, Holding
  <2>2. Again(r) \/ (Completed(Subject(r)) /\ Advance(r))
    BY <1>1, <1>5, <2>1, NoFault, NoTimeOut DEF Await
  <2>3. Completed(Subject(r)) => status[Subject(r)] = "good"
    BY <2>1 DEF Completed, KubeInv, Undisturbed
  <2> QED BY <1>2, <1>4, <1>5, <2>2, <2>3, LookFine
<1>6. CASE op = "eventually"
  <2>1. Again(r) \/ Advance(r)
    BY <1>1, <1>6, NoTimeOut DEF Eventually
  <2> QED BY <1>2, <1>4, <1>6, <2>1, LookFine
<1>7. CASE op = "verify"
  <2>1. status[Subject(r)] = "good"
    BY <1>2, <1>3, <1>7 DEF LineFits, Holding
  <2>2. Advance(r)
    BY <1>1, <1>7, <2>1, NoFault DEF Verify
  <2> QED BY <1>2, <1>7, <2>2, LookFine
<1> QED BY <1>5, <1>6, <1>7

-----------------------------------------------------------------------------
LEMMA DeferFine ==
  ASSUME IInv, NEW r \in Runs, DeferCleanup(r), Fine(r)
  PROVE  Fine(r)'
<1>1. At(r, "defer") /\ UNCHANGED <<kubeVars, spec, state, verdict>>
  BY DEF DeferCleanup
<1>2. /\ spec \in Specs /\ state[r] = "body" /\ Active(r)
      /\ line[r] \in 1..Len(Script[spec]) /\ line[r] > 1
      /\ Script[spec][line[r]].op = "defer"
  BY <1>1, Here
<1>3. Alone(r) /\ verdict[r] # "failed" /\ Holding(r) /\ phase = "active"
  BY <1>2 DEF Fine, Alone
<1>4. line'[r] = line[r] + 1
  BY Parts DEF DeferCleanup, RunTypeOK
<1>5. ASSUME NEW q \in Objects
      PROVE  /\ There(q)' <=> Made(line[r] + 1, q)
             /\ Awaited(line[r] + 1, q) => status'[q] = "good"
  BY <1>1, <1>2, <1>3, OneMore DEF Holding, There, kubeVars
<1>6. Holding(r)'
  BY <1>1, <1>4, <1>5 DEF Holding, Made, Awaited
<1> QED BY <1>1, <1>3, <1>6 DEF Fine, Alone, Active, kubeVars

\* The cleanup of an undisturbed run finds the namespace active.
LEMMA CleanupFine ==
  ASSUME IInv, NEW r \in Runs, Cleanup(r), Undisturbed(r)', Fine(r)
  PROVE  Fine(r)'
<1>1. state[r] = "cleanup" /\ RunTypeOK
  BY Parts DEF Cleanup
<1>2. verdict[r] # "failed" /\ phase # "terminating"
  BY <1>1 DEF Fine, Alone, Active
<1>3. Over(r, FALSE)
  BY <1>2, NoFault DEF Cleanup
<1>4. state'[r] = "over" /\ verdict'[r] # "failed"
  BY <1>1, <1>2, <1>3 DEF Over, RunTypeOK
<1> QED BY <1>4 DEF Fine, Active

\* A run that starts in a clean cluster is alone.
LEMMA StartFine ==
  ASSUME IInv, KubeInv, NEW r \in Runs, Start(r), Undisturbed(r)', Fine(r)
  PROVE  Fine(r)'
<1>1. /\ state[r] = "idle" /\ state' = [state EXCEPT ![r] = "body"]
      /\ UNCHANGED <<kubeVars, spec, line, verdict>>
  BY DEF Start
<1>2. crowded'[r] = (crowded[r] \/ phase # "absent" \/ \E y \in Runs : Active(y))
  BY DEF Start
<1>3. phase = "absent" /\ \A y \in Runs : ~Active(y)
  BY <1>2 DEF Undisturbed
<1>4. line[r] = 1 /\ RunTypeOK
  BY <1>1, Parts DEF RunInv
<1>5. \A o \in Objects : ~There(o)
  BY <1>3 DEF KubeInv
<1>6. \A o \in Objects : ~Made(1, o)' /\ ~Awaited(1, o)'
  BY DEF Made, Awaited
<1>7. Holding(r)'
  BY <1>1, <1>4, <1>5, <1>6 DEF Holding, There, kubeVars
<1>8. Alone(r)'
  BY <1>1, <1>3, <1>4, <1>7 DEF Alone, Active, RunTypeOK, kubeVars
<1> QED BY <1>1, <1>8 DEF Fine

LEMMA KillFine == ASSUME IInv, NEW r \in Runs, Kill(r) PROVE Fine(r)'
BY Parts DEF Kill, Fine, Active, RunTypeOK

\* While r runs undisturbed no other run moves, and one that starts would disturb it.
LEMMA OtherFine ==
  ASSUME IInv, NEW r \in Runs, NEW x \in Runs \ {r}, Start(x) \/ Run(x) \/ Kill(x),
         Undisturbed(r)', Fine(r)
  PROVE  Fine(r)'
<1>1. RunTypeOK
  BY Parts
<1>2. state'[r] = state[r] /\ verdict'[r] = verdict[r]
  BY <1>1 DEF Start, Run, Kill, CreateNamespace, RetryNamespace, CreateObject, Await, Eventually,
     Verify, DeferCleanup, Cleanup, TimesOut, Advance, Fail, Again, Over, RunTypeOK, runVars
<1>3. ~Active(r)
  <2>1. CASE Start(x)
    <3>1. Active(r) => crowded'[r]
      BY <2>1 DEF Start
    <3> QED BY <3>1 DEF Undisturbed
  <2>2. CASE Run(x) \/ Kill(x)
    <3>1. Active(x)
      BY <2>2 DEF Run, Kill, CreateNamespace, RetryNamespace, CreateObject, Await, Eventually,
         Verify, DeferCleanup, Cleanup, At, Active
    <3> QED BY <3>1 DEF Fine, Alone
  <2> QED BY <2>1, <2>2
<1> QED BY <1>2, <1>3 DEF Fine, Active

\* The controllers change nothing in the namespace of an undisturbed run but for the better.
LEMMA ControllersFine ==
  ASSUME IInv, NEW r \in Runs, Controllers, Undisturbed(r)', Fine(r)
  PROVE  Fine(r)'
<1>1. /\ UNCHANGED <<spec, state, line, verdict>> /\ KubeTypeOK
  BY Parts DEF Controllers, runVars
<1>2. CASE ~Active(r)
  BY <1>1, <1>2 DEF Fine, Active
<1>3. CASE Active(r)
  <2>1. Alone(r)
    BY <1>3 DEF Fine
  <2>2. PICK o \in Objects : Progresses(o) /\ status'[o] # "bad"
    BY <2>1 DEF Controllers, Alone, ContentRemoved, NamespaceGone, Undisturbed
  <2>3. /\ status[o] = "pending" /\ status' = [status EXCEPT ![o] = "good"]
        /\ phase' = phase
    BY <1>1, <2>2 DEF Progresses, KubeTypeOK
  <2>4. \A q \in Objects : (There(q)' <=> There(q)) /\ (status[q] = "good" => status'[q] = "good")
    BY <1>1, <2>3 DEF There, KubeTypeOK
  <2>5. Holding(r) => Holding(r)'
    BY <1>1, <2>4 DEF Holding, Made, Awaited
  <2> QED BY <1>1, <1>3, <2>1, <2>3, <2>5 DEF Fine, Alone, Active
<1> QED BY <1>2, <1>3

-----------------------------------------------------------------------------
LEMMA AloneNext == ASSUME IInv, KubeInv, AloneInv, [Next]_vars PROVE AloneInv'
<1> SUFFICES ASSUME NEW r \in Runs, Undisturbed(r)' PROVE Fine(r)'
  BY DEF AloneInv
<1>1. Undisturbed(r) /\ Fine(r)
  BY StillUndisturbed DEF AloneInv
<1>2. ASSUME NEW x \in Runs, Start(x) \/ Run(x) \/ Kill(x)
      PROVE  Fine(r)'
  <2>1. CASE x = r
    BY <1>1, <1>2, <2>1, StartFine, NamespaceFine, CreateObjectFine, WaitFine, DeferFine,
       CleanupFine, KillFine DEF Run
  <2>2. CASE x # r
    BY <1>1, <1>2, <2>2, OtherFine
  <2> QED BY <2>1, <2>2
<1>3. CASE Controllers
  BY <1>1, <1>3, ControllersFine
<1>4. CASE UNCHANGED vars
  BY <1>1, <1>4, StayFine DEF vars, runVars
<1> QED BY <1>2, <1>3, <1>4 DEF Next

\* What a call of a run does to the cluster.
LEMMA KubeCalls ==
  ASSUME NEW r \in Runs, Start(r) \/ Run(r) \/ Kill(r)
  PROVE  /\ UNCHANGED unlucky
         /\ \/ NamespaceCreated(r) \/ NamespaceDeleted \/ UNCHANGED kubeVars
            \/ \E o : ObjectCreated(o, r)
BY DEF Start, Run, Kill, CreateNamespace, RetryNamespace, NamespaceThere, NamespaceLost,
   CreateObject, Await, Eventually, Verify, DeferCleanup, Cleanup, TimesOut, history

LEMMA KubeNext == ASSUME IInv, KubeInv, [Next]_vars PROVE KubeInv'
<1>1. KubeTypeOK /\ OtherTypeOK
  BY Parts
<1>2. ASSUME NEW r \in Runs, Start(r) \/ Run(r) \/ Kill(r)
      PROVE  KubeInv'
  <2>1. CASE NamespaceCreated(r) \/ NamespaceDeleted \/ UNCHANGED kubeVars
    BY <1>2, <2>1, KubeCalls DEF NamespaceCreated, NamespaceDeleted, KubeInv, There, kubeVars
  <2>2. ASSUME NEW o, ObjectCreated(o, r)
        PROVE  KubeInv'
    BY <1>1, <1>2, <2>2, KubeCalls DEF ObjectCreated, Creatable, KubeInv, There, KubeTypeOK
  <2> QED BY <1>2, <2>1, <2>2, KubeCalls
<1>3. ASSUME NEW o \in Objects, ContentRemoved(o) /\ UNCHANGED unlucky
      PROVE  KubeInv'
  BY <1>1, <1>3 DEF ContentRemoved, KubeInv, There, KubeTypeOK
<1>4. CASE NamespaceGone /\ UNCHANGED unlucky
  BY <1>4 DEF NamespaceGone, KubeInv, There
<1>5. ASSUME NEW o \in Objects, Progresses(o), unlucky' = (unlucky \/ status'[o] = "bad")
      PROVE  KubeInv'
  BY <1>1, <1>5 DEF Progresses, KubeInv, There, KubeTypeOK, OtherTypeOK
<1>6. ASSUME NEW o \in Objects, Regresses(o), unlucky'
      PROVE  KubeInv'
  BY <1>1, <1>6 DEF Regresses, KubeInv, There, KubeTypeOK
<1>7. CASE UNCHANGED vars
  BY <1>7 DEF vars, kubeVars, history, KubeInv, There
<1> QED BY <1>2, <1>3, <1>4, <1>5, <1>6, <1>7 DEF Next, Controllers

\* A run that has the cluster for itself from a clean start never fails, if no pod fails,
\* no deployment loses its availability, no wait times out and no call fails for good,
\* however many creations of the namespace had to be retried, their effect lost or not.
THEOREM UndisturbedRunsPass == Spec => []UndisturbedPasses
<1>1. Init => KubeInv /\ AloneInv
  BY DEF Init, KubeInit, KubeInv, There, AloneInv, Fine, Active
<1>2. IInv /\ KubeInv /\ AloneInv /\ [Next]_vars => KubeInv' /\ AloneInv'
  BY KubeNext, AloneNext
<1>3. Spec => [](KubeInv /\ AloneInv)
  BY <1>1, <1>2, Invariant, PTL DEF Spec
<1>4. IInv /\ AloneInv => UndisturbedPasses
  <2> SUFFICES ASSUME IInv, AloneInv, NEW r \in Runs, verdict[r] = "failed",
                      ~crowded[r], ~late[r], ~unlucky, ~(faults > 0)
               PROVE  FALSE
    BY DEF UndisturbedPasses
  <2>1. faults = 0
    BY Parts DEF OtherTypeOK
  <2> QED BY <2>1 DEF AloneInv, Undisturbed, Fine
<1> QED BY <1>3, <1>4, Invariant, PTL

-----------------------------------------------------------------------------
(***************************************************************************)
(* The way of a run to its end.  Ends itself needs fairness; what it rests *)
(* on is that every move of a run brings it nearer to its end: to a later  *)
(* line of its script, or to the last try that the same line allows.       *)
(***************************************************************************)
\* The tries of one instruction that may follow the first.
Tries(op) ==
  CASE op = "retryNamespace" -> MaxTries - 1
    [] op \in {"await", "eventually"} -> MaxPolls
    [] OTHER -> 0

Op(r) == Script[spec][line[r]].op

\* A creation is tried MaxTries times at most, a wait polls MaxPolls times before its
\* timeout, and every other call is made once.
TriesBounded ==
  \A r \in Runs :
    /\ state[r] = "idle" => count[r] = 0
    /\ state[r] = "body" => count[r] \in 0 .. Tries(Op(r))

\* The lines left, then the tries left of this one.
Stage(r) ==
  CASE state[r] = "idle" -> Len(Script[spec]) + 2
    [] state[r] = "body" -> Len(Script[spec]) + 2 - line[r]
    [] state[r] = "cleanup" -> 1
    [] OTHER -> 0
Left(r) == IF state[r] = "body" THEN Tries(Op(r)) - count[r] ELSE 0
Position(r) == <<Stage(r), Left(r)>>

\* The order of positions.
Below(p, q) == p[1] < q[1] \/ (p[1] = q[1] /\ p[2] < q[2])

Moves(r) == Start(r) \/ Run(r) \/ Kill(r)

LEMMA TriesType == \A op : Tries(op) \in Nat
BY SpecsAssumption DEF Tries

\* The ways a run moves.
Repeats(r) ==
  /\ state[r] = "body" /\ state'[r] = "body" /\ line'[r] = line[r]
  /\ count'[r] = count[r] + 1 /\ count[r] < Tries(Op(r))
Proceeds(r) ==
  /\ state[r] = "body" /\ state'[r] = "body" /\ line'[r] = line[r] + 1 /\ count'[r] = 0
Leaves(r) ==
  \/ state[r] = "body" /\ state'[r] \in {"cleanup", "over"}
  \/ state[r] = "cleanup" /\ state'[r] = "over"
Begins(r) ==
  state[r] = "idle" /\ state'[r] = "body" /\ line'[r] = line[r] /\ count'[r] = count[r]

LEMMA Ways ==
  ASSUME IInv, TriesBounded, NEW r \in Runs, Moves(r)
  PROVE  /\ UNCHANGED spec
         /\ Repeats(r) \/ Proceeds(r) \/ Leaves(r) \/ Begins(r)
         /\ \A x \in Runs \ {r} : UNCHANGED <<state[x], line[x], count[x]>>
<1>1. RunTypeOK /\ spec \in Specs
  BY Parts
<1>2. CASE Start(r)
  BY <1>1, <1>2 DEF Start, RunTypeOK, Begins
<1>3. CASE Kill(r)
  BY <1>1, <1>3 DEF Kill, RunTypeOK, Leaves, Active
<1>4. CASE Cleanup(r)
  BY <1>1, <1>4 DEF Cleanup, Over, RunTypeOK, Leaves
<1>5. CASE DeferCleanup(r)
  <2>1. Op(r) = "defer" /\ state[r] = "body" /\ UNCHANGED <<spec, state, count>>
    BY <1>5 DEF DeferCleanup, At, Op
  <2>2. count[r] = 0
    BY <2>1, <1>1 DEF TriesBounded, Tries, RunTypeOK
  <2>3. line' = [line EXCEPT ![r] = @ + 1]
    BY <1>5 DEF DeferCleanup
  <2> QED BY <1>1, <2>1, <2>2, <2>3 DEF RunTypeOK, Proceeds
<1>6. ASSUME state[r] = "body", Advance(r), UNCHANGED spec
      PROVE  /\ Proceeds(r) \/ Leaves(r)
             /\ \A x \in Runs \ {r} : UNCHANGED <<state[x], line[x], count[x]>>
  BY <1>1, <1>6 DEF Advance, RunTypeOK, Proceeds, Leaves
<1>7. ASSUME state[r] = "body", Fail(r), UNCHANGED spec
      PROVE  /\ Leaves(r)
             /\ \A x \in Runs \ {r} : UNCHANGED <<state[x], line[x], count[x]>>
  BY <1>1, <1>7 DEF Fail, RunTypeOK, Leaves
<1>8. ASSUME state[r] = "body", Again(r), count[r] < Tries(Op(r)), UNCHANGED spec
      PROVE  /\ Repeats(r)
             /\ \A x \in Runs \ {r} : UNCHANGED <<state[x], line[x], count[x]>>
  BY <1>1, <1>8 DEF Again, RunTypeOK, Repeats
<1>9. CASE CreateNamespace(r) \/ CreateObject(r) \/ Verify(r)
  BY <1>6, <1>7, <1>9 DEF CreateNamespace, CreateObject, Verify, At
<1>10. CASE RetryNamespace(r)
  BY <1>6, <1>7, <1>8, <1>10 DEF RetryNamespace, At, Op, Tries
<1>11. CASE Await(r) \/ Eventually(r)
  BY <1>6, <1>7, <1>8, <1>11 DEF Await, Eventually, TimesOut, At, Op, Tries
<1> QED BY <1>2, <1>3, <1>4, <1>5, <1>9, <1>10, <1>11 DEF Moves, Run

\* The controllers and the other runs leave a run where it is.
LEMMA OthersStay ==
  ASSUME IInv, TriesBounded, [Next]_vars, NEW r \in Runs, ~Moves(r)
  PROVE  UNCHANGED <<spec, state[r], line[r], count[r]>>
<1>1. ASSUME NEW x \in Runs, Moves(x)
      PROVE  UNCHANGED <<spec, state[r], line[r], count[r]>>
  BY <1>1, Ways
<1>2. CASE Controllers \/ UNCHANGED vars
  BY <1>2 DEF Controllers, vars, runVars
<1> QED BY <1>1, <1>2 DEF Next, Moves

LEMMA TriesNext ==
  ASSUME IInv, TriesBounded, [Next]_vars
  PROVE  TriesBounded'
<1> SUFFICES ASSUME NEW r \in Runs
             PROVE  /\ state'[r] = "idle" => count'[r] = 0
                    /\ state'[r] = "body" => count'[r] \in 0 .. Tries(Op(r)')
  BY DEF TriesBounded, Tries
<1>1. RunTypeOK
  BY Parts
<1>2. CASE Moves(r)
  <2>1. CASE Repeats(r)
    <3>1. Op(r)' = Op(r)
      BY <1>2, <2>1, Ways DEF Repeats, Op
    <3> QED BY <1>1, <2>1, <3>1, TriesType DEF Repeats, RunTypeOK
  <2>2. CASE Proceeds(r)
    BY <2>2, TriesType DEF Proceeds
  <2>3. CASE Leaves(r)
    BY <2>3 DEF Leaves
  <2>4. CASE Begins(r)
    BY <2>4, TriesType DEF Begins, TriesBounded
  <2> QED BY <1>2, <2>1, <2>2, <2>3, <2>4, Ways
<1>3. CASE ~Moves(r)
  <2>1. UNCHANGED <<spec, state[r], line[r], count[r]>>
    BY <1>3, OthersStay
  <2>2. Op(r)' = Op(r)
    BY <2>1 DEF Op
  <2> QED BY <2>1, <2>2 DEF TriesBounded
<1> QED BY <1>2, <1>3

\* No creation of the namespace is tried more often, and no wait polls more often, than its
\* timeout has time for, and nothing else is called twice.
THEOREM TriesEnd == Spec => []TriesBounded
<1>1. Init => TriesBounded
  BY TriesType DEF Init, TriesBounded
<1>2. IInv /\ TriesBounded /\ [Next]_vars => TriesBounded'
  BY TriesNext
<1> QED BY <1>1, <1>2, Invariant, PTL DEF Spec

LEMMA PositionType ==
  ASSUME IInv, TriesBounded, NEW r \in Runs
  PROVE  Position(r) \in Nat \X Nat
<1>1. /\ Len(Script[spec]) \in Nat /\ line[r] \in 1..Len(Script[spec]) /\ count[r] \in Nat
      /\ state[r] \in {"idle", "body", "cleanup", "over"}
  BY Parts, Lines DEF RunTypeOK
<1>2. Stage(r) \in Nat
  BY <1>1 DEF Stage
<1>3. Left(r) \in Nat
  BY <1>1, TriesType DEF Left, TriesBounded
<1> QED BY <1>2, <1>3 DEF Position

LEMMA MovesApproach ==
  ASSUME IInv, TriesBounded, NEW r \in Runs, Moves(r)
  PROVE  Below(Position(r)', Position(r))
<1>1. /\ Len(Script[spec]) \in Nat /\ line[r] \in 1..Len(Script[spec]) /\ count[r] \in Nat
  BY Parts, Lines DEF RunTypeOK
<1>2. UNCHANGED spec
  BY Ways
<1>3. CASE Repeats(r)
  <2>1. Op(r)' = Op(r) /\ Stage(r)' = Stage(r)
    BY <1>2, <1>3 DEF Repeats, Op, Stage
  <2>2. Left(r)' < Left(r)
    BY <1>1, <1>3, <2>1, TriesType DEF Repeats, Left
  <2> QED BY <2>1, <2>2 DEF Below, Position
<1>4. CASE Proceeds(r) \/ Leaves(r) \/ Begins(r)
  <2>1. Stage(r)' < Stage(r)
    BY <1>1, <1>2, <1>4 DEF Proceeds, Leaves, Begins, Stage
  <2> QED BY <2>1 DEF Below, Position
<1> QED BY <1>3, <1>4, Ways

LEMMA OthersDoNotDelay ==
  ASSUME IInv, TriesBounded, [Next]_vars, NEW r \in Runs, ~Moves(r)
  PROVE  Position(r)' = Position(r)
BY OthersStay DEF Position, Stage, Left, Op

\* No call, no start and no kill leaves a run as far from its end as it was: it comes to a
\* later line of its script, or to a later try of the same line.  The other executions and
\* the controllers, which share its namespace, never send it back.
THEOREM Approaches ==
  ASSUME NEW r \in Runs
  PROVE  Spec => /\ [](Position(r) \in Nat \X Nat)
                 /\ [][IF Moves(r) THEN Below(Position(r)', Position(r))
                                   ELSE Position(r)' = Position(r)]_vars
<1>1. IInv /\ TriesBounded => Position(r) \in Nat \X Nat
  BY PositionType
<1>2. IInv /\ TriesBounded /\ [Next]_vars =>
        [IF Moves(r) THEN Below(Position(r)', Position(r)) ELSE Position(r)' = Position(r)]_vars
  BY MovesApproach, OthersDoNotDelay
<1> QED BY <1>1, <1>2, Invariant, TriesEnd, PTL DEF Spec

Standing(r, p) == Active(r) /\ Position(r) = p
Nearer(r, p) == state[r] = "over" \/ Below(Position(r), p)

\* If a run that has begun keeps taking steps, whatever the other ones do to the namespace
\* in between, then from any position it comes to its end or strictly nearer to it.
THEOREM EndApproaches ==
  ASSUME NEW r \in Runs, NEW p \in Nat \X Nat
  PROVE  Spec /\ [](Active(r) => <><<Run(r)>>_vars) => [](Standing(r, p) => <>Nearer(r, p))
<1>1. IInv /\ TriesBounded /\ Standing(r, p) /\ [Next]_vars => Standing(r, p)' \/ Nearer(r, p)'
  <2> SUFFICES ASSUME IInv, TriesBounded, Standing(r, p), [Next]_vars, ~Moves(r)
               PROVE  Standing(r, p)'
    BY MovesApproach DEF Standing, Nearer
  <2> QED BY OthersStay, OthersDoNotDelay DEF Standing, Active
<1>2. IInv /\ TriesBounded /\ Standing(r, p) /\ Run(r) => Nearer(r, p)'
  BY MovesApproach DEF Moves, Standing, Nearer
<1>3. Standing(r, p) => Active(r)
  BY DEF Standing
<1> QED BY <1>1, <1>2, <1>3, Invariant, TriesEnd, PTL DEF Spec
-----------------------------------------------------------------------------
(***************************************************************************)
(* The specs of CreateTestNamespace implement OwnedResource: each run owns *)
(* the namespace from its first attempt to create it, or from finding it,  *)
(* to the end of its cleanup.                                              *)
(***************************************************************************)
Bound == {r \in Runs : Active(r) /\ (line[r] > 1 \/ count[r] > 0)}
Broken == lost # {} \/ \E r \in Runs : verdict[r] = "killed"

Owned == INSTANCE OwnedResource WITH
  Owners <- Runs, standing <- phase = "active", bound <- Bound, broken <- Broken

ImplementsOwnership == ~Deploys => Owned!OwnedSpec

\* A run that was killed makes no more calls.
KilledOver == \A r \in Runs : verdict[r] = "killed" => state[r] = "over"

OwnInv == IInv /\ TriesBounded /\ KilledOver

\* Only a kill, or the loss of the call that creates or deletes, breaks the promise.
LEMMA BrokenStays ==
  ASSUME KilledOver, NEW r \in Runs, state[r] # "over",
         \A x \in Runs \ {r} : verdict'[x] = verdict[x],
         verdict'[r] # "killed", lost' = lost
  PROVE  Broken' = Broken
BY DEF KilledOver, Broken

\* What becomes of a run, and of its calls.
LEMMA OwnWays ==
  ASSUME OwnInv, NEW r \in Runs, Moves(r)
  PROVE  /\ UNCHANGED spec
         /\ \A x \in Runs \ {r} : UNCHANGED <<state[x], line[x], count[x], verdict[x]>>
         /\ state[r] # "over"
         /\ Start(r) \/ Run(r) => verdict'[r] # "killed"
         /\ Kill(r) => verdict'[r] = "killed" /\ state'[r] = "over"
<1>1. RunTypeOK /\ OtherTypeOK
  BY Parts DEF OwnInv
<1>2. /\ UNCHANGED spec
      /\ \A x \in Runs \ {r} : UNCHANGED <<state[x], line[x], count[x]>>
      /\ Repeats(r) \/ Proceeds(r) \/ Leaves(r) \/ Begins(r)
  BY Ways DEF OwnInv
<1>3. state[r] # "over"
  BY <1>2 DEF Repeats, Proceeds, Leaves, Begins
<1>4. verdict[r] # "killed"
  BY <1>3 DEF OwnInv, KilledOver
<1>5. ASSUME Start(r) \/ Run(r)
      PROVE  \/ UNCHANGED verdict
             \/ verdict' = [verdict EXCEPT ![r] = "failed"]
             \/ \E b \in BOOLEAN : Over(r, b)
  BY <1>5 DEF Run, Start, CreateNamespace, RetryNamespace, CreateObject, Await, Eventually,
         TimesOut, Verify, DeferCleanup, Cleanup, Advance, Fail, Again
<1>6. /\ \A x \in Runs \ {r} : verdict'[x] = verdict[x]
      /\ Start(r) \/ Run(r) => verdict'[r] # "killed"
  <2>1. CASE Start(r) \/ Run(r)
    BY <1>1, <1>4, <1>5, <2>1 DEF RunTypeOK, Over
  <2>2. CASE Kill(r) /\ ~(Start(r) \/ Run(r))
    BY <1>1, <2>2 DEF RunTypeOK, Kill
  <2> QED BY <2>1, <2>2 DEF Moves
<1>7. Kill(r) => verdict'[r] = "killed" /\ state'[r] = "over"
  BY <1>1 DEF Kill, RunTypeOK
<1> QED BY <1>2, <1>3, <1>6, <1>7

LEMMA KilledNext ==
  ASSUME OwnInv, [Next]_vars
  PROVE  KilledOver'
<1>1. ASSUME NEW r \in Runs, Moves(r) PROVE KilledOver'
  BY <1>1, OwnWays DEF OwnInv, KilledOver, Moves
<1>2. CASE Controllers \/ UNCHANGED vars
  BY <1>2 DEF Controllers, vars, runVars, OwnInv, KilledOver
<1> QED BY <1>1, <1>2 DEF Next, Moves

\* A run that proceeds or tries again is bound; one that begins is not yet.
LEMMA BoundMoves ==
  ASSUME OwnInv, NEW r \in Runs, Moves(r)
  PROVE  /\ Repeats(r) \/ Proceeds(r) => Bound' = Bound \cup {r}
         /\ Begins(r) => Bound' = Bound
         /\ state'[r] = "cleanup" /\ r \in Bound => Bound' = Bound
         /\ state'[r] = "over" => Bound' = Bound \ {r}
<1>1. /\ \A x \in Runs : line[x] \in Nat /\ line[x] >= 1 /\ count[x] \in Nat
      /\ RunInv
  <2>1. RunTypeOK /\ Len(Script[spec]) \in Nat /\ RunInv
    BY Parts, Lines DEF OwnInv
  <2> QED BY <2>1 DEF RunTypeOK
<1>2. \A x \in Runs \ {r} : UNCHANGED <<state[x], line[x], count[x]>>
  BY OwnWays
<1>3. \A x \in Runs \ {r} : x \in Bound' <=> x \in Bound
  BY <1>2 DEF Bound, Active
<1>4. ASSUME Repeats(r) \/ Proceeds(r) PROVE r \in Bound'
  BY <1>1, <1>4 DEF Repeats, Proceeds, Bound, Active
<1>5. ASSUME Begins(r) PROVE r \notin Bound' /\ r \notin Bound
  BY <1>1, <1>5 DEF Begins, Bound, Active, RunInv, OwnInv, TriesBounded
<1>6. state'[r] = "over" => r \notin Bound'
  BY DEF Bound, Active
<1>7. ASSUME state'[r] = "cleanup", r \in Bound PROVE r \in Bound'
  <2>1. RunInv' /\ DeferLine' \in Nat /\ DeferLine' >= 2 /\ line'[r] \in Nat
    <3>1. IInv'
      BY NextInv DEF OwnInv, Moves, Next
    <3>2. RunInv' /\ RunTypeOK' /\ Len(Script[spec]') \in Nat
      <4>1. RunInv' /\ RunTypeOK'
        BY <3>1 DEF IInv, TypeOK, RunTypeOK
      <4>2. UNCHANGED spec /\ spec \in Specs
        BY OwnWays, Parts DEF OwnInv
      <4> QED BY <4>1, <4>2, Lines
    <3> QED BY <3>2 DEF RunTypeOK, DeferLine
  <2>2. line'[r] > 1
    BY <1>7, <2>1 DEF RunInv
  <2> QED BY <1>7, <2>2 DEF Bound, Active
<1>8. Bound \subseteq Runs /\ Bound' \subseteq Runs
  BY DEF Bound
<1> QED BY <1>3, <1>4, <1>5, <1>6, <1>7, <1>8

\* What a step of a run does to the promise, by where it leaves the run and the namespace.
LEMMA RunOwned ==
  ASSUME OwnInv, NEW r \in Runs, Start(r) \/ Run(r),
         \/ /\ lost' = lost
            /\ \/ Begins(r) /\ UNCHANGED phase
               \/ Repeats(r) /\ (phase' = phase \/ phase' = "active")
               \/ Proceeds(r) /\ (phase' = phase \/ phase' = "active")
               \/ state'[r] = "cleanup" /\ r \in Bound /\ UNCHANGED phase
               \/ state'[r] = "over" /\ r \in Bound /\ phase' # "active"
         \/ lost' = lost \cup {r} /\ state'[r] = "over"
  PROVE  UNCHANGED Owned!ownedVars \/ Owned!Take(r) \/ Owned!Release(r) \/ Owned!Break(r)
<1>1. /\ Moves(r) /\ state[r] # "over" /\ verdict'[r] # "killed"
      /\ \A x \in Runs \ {r} : verdict'[x] = verdict[x]
  BY OwnWays DEF Moves
<1>2. CASE lost' = lost /\ ~(lost' = lost \cup {r} /\ state'[r] = "over")
  <2>1. Broken' = Broken
    BY <1>1, <1>2, BrokenStays DEF OwnInv
  <2>2. CASE Begins(r) /\ UNCHANGED phase
    BY <1>1, <2>1, <2>2, BoundMoves DEF Owned!ownedVars
  <2>3. CASE (Repeats(r) \/ Proceeds(r)) /\ (phase' = phase \/ phase' = "active")
    BY <1>1, <2>1, <2>3, BoundMoves DEF Owned!Take
  <2>4. CASE state'[r] = "cleanup" /\ r \in Bound /\ UNCHANGED phase
    BY <1>1, <2>1, <2>4, BoundMoves DEF Owned!ownedVars
  <2>5. CASE state'[r] = "over" /\ r \in Bound /\ phase' # "active"
    <3>1. (phase' = "active") = FALSE /\ Bound' = Bound \ {r}
      BY <1>1, <2>5, BoundMoves
    <3> QED BY <2>1, <2>5, <3>1 DEF Owned!Release
  <2> QED BY <1>2, <2>2, <2>3, <2>4, <2>5
<1>3. CASE lost' = lost \cup {r} /\ state'[r] = "over"
  <2>1. Broken' = TRUE
    BY <1>3 DEF Broken
  <2>2. Bound' = Bound \ {r}
    BY <1>1, <1>3, BoundMoves
  <2>3. (phase' = "active") \in BOOLEAN
    OBVIOUS
  <2> QED BY <2>1, <2>2, <2>3 DEF Owned!Break
<1> QED BY <1>2, <1>3

\* The calls that may found the namespace: the run that goes on, or tries again, is bound;
\* one that gives up has lost it.
LEMMA CreationOwned ==
  ASSUME OwnInv, ~Deploys, NEW r \in Runs, RetryNamespace(r)
  PROVE  UNCHANGED Owned!ownedVars \/ Owned!Take(r) \/ Owned!Release(r) \/ Owned!Break(r)
<1>1. /\ At(r, "retryNamespace") /\ state[r] = "body" /\ line[r] = 1 /\ DeferLine = 2
      /\ Len(Script[spec]) \in Nat /\ DeferLine < Len(Script[spec])
      /\ RunTypeOK /\ OtherTypeOK /\ UNCHANGED spec
  BY AtLine, Parts, Lines DEF OwnInv, RetryNamespace
<1>2. phase' = phase \/ phase' = "active"
  BY DEF RetryNamespace, NamespaceThere, NamespaceLost, NamespaceCreated, kubeVars
<1>3. CASE Advance(r) /\ Answered
  <2>1. Proceeds(r) /\ lost' = lost
    BY <1>1, <1>3 DEF Advance, RunTypeOK, Proceeds, Answered, faultVars
  <2> QED BY <1>2, <2>1, RunOwned DEF Run
<1>4. CASE Again(r) /\ FaultRetried /\ count[r] < MaxTries - 1
  <2>1. Repeats(r) /\ lost' = lost
    BY <1>1, <1>4 DEF Again, RunTypeOK, Repeats, Tries, Op, At, FaultRetried
  <2> QED BY <1>2, <2>1, RunOwned DEF Run
<1>5. CASE Fail(r) /\ NamespaceFault(r)
  <2>1. state'[r] = "over" /\ lost' = lost \cup {r}
    BY <1>1, <1>5, FailMoves DEF OwnInv, NamespaceFault
  <2> QED BY <2>1, RunOwned DEF Run
<1> QED BY <1>3, <1>4, <1>5 DEF RetryNamespace, NamespaceThere

\* The rest of the body leaves the namespace alone, and the run bound.
LEMMA BodyOwned ==
  ASSUME OwnInv, ~Deploys, NEW r \in Runs,
         CreateObject(r) \/ Await(r) \/ Eventually(r) \/ Verify(r) \/ DeferCleanup(r)
  PROVE  UNCHANGED Owned!ownedVars \/ Owned!Take(r) \/ Owned!Release(r) \/ Owned!Break(r)
<1>1. PICK op \in {"create", "await", "eventually", "verify", "defer"} : At(r, op)
  BY DEF CreateObject, Await, Eventually, Verify, DeferCleanup
<1>2. /\ state[r] = "body" /\ line[r] \in Nat /\ line[r] > 1 /\ DeferLine = 2
      /\ line[r] = 2 <=> op = "defer"
      /\ RunTypeOK /\ Len(Script[spec]) \in Nat
  <2>1. line[r] # 1 /\ line[r] \in Nat \ {0}
    BY <1>1, AtLine DEF OwnInv
  <2> QED BY <1>1, <2>1, AtLine, Parts, Lines DEF OwnInv
<1>3. r \in Bound
  BY <1>2 DEF Bound, Active
<1>4. UNCHANGED <<phase, spec>>
  BY DEF CreateObject, Await, Eventually, Verify, DeferCleanup, ObjectCreated, kubeVars
<1>5. Moves(r) /\ Run(r)
  BY DEF Moves, Run
<1>6. Repeats(r) \/ Proceeds(r) \/ state'[r] = "cleanup"
  <2>1. CASE DeferCleanup(r)
    <3>1. state'[r] = "body"
      BY <1>2, <2>1 DEF DeferCleanup
    <3> QED BY <1>2, <1>5, <3>1, Ways DEF OwnInv, Leaves, Begins
  <2>2. CASE ~DeferCleanup(r)
    <3>1. op # "defer"
      BY <1>1, <2>2, <1>2 DEF CreateObject, Await, Eventually, Verify, At
    <3>2. Advance(r) \/ Fail(r) \/ Again(r)
      BY <2>2 DEF CreateObject, Await, Eventually, Verify, TimesOut
    <3>3. line[r] > DeferLine
      BY <1>2, <3>1
    <3>4. state'[r] \in {"body", "cleanup"}
      BY <1>2, <1>4, <3>2, <3>3, AdvanceMoves, FailMoves, AgainMoves DEF OwnInv
    <3> QED BY <1>2, <1>5, <3>4, Ways DEF OwnInv, Leaves, Begins
  <2> QED BY <2>1, <2>2
<1>7. lost' = lost
  <2>1. Answered \/ Fault \/ FaultRetried \/ UNCHANGED faultVars
    BY DEF CreateObject, Await, Eventually, TimesOut, Verify, DeferCleanup
  <2> QED BY <2>1 DEF Answered, Fault, FaultRetried, faultVars
<1> QED BY <1>3, <1>4, <1>5, <1>6, <1>7, RunOwned

\* The cleanup marks the namespace for deletion, or finds that another one has.
LEMMA CleanupOwned ==
  ASSUME OwnInv, NEW r \in Runs, Cleanup(r)
  PROVE  UNCHANGED Owned!ownedVars \/ Owned!Take(r) \/ Owned!Release(r) \/ Owned!Break(r)
<1>1. state[r] = "cleanup" /\ RunTypeOK /\ RunInv /\ OtherTypeOK /\ DeferLine \in {2, 5}
  BY Parts DEF OwnInv, Cleanup, DeferLine
<1>2. r \in Bound
  BY <1>1 DEF RunInv, RunTypeOK, Bound, Active
<1>3. state'[r] = "over"
  BY <1>1 DEF Cleanup, Over, RunTypeOK
<1>4. CASE NamespaceFault(r)
  <2>1. lost' = lost \cup {r}
    BY <1>4 DEF NamespaceFault
  <2> QED BY <1>3, <2>1, RunOwned DEF Run
<1>5. CASE ~NamespaceFault(r)
  <2>1. Answered /\ (NamespaceDeleted \/ (phase \in {"absent", "terminating"} /\ UNCHANGED kubeVars))
    BY <1>5 DEF Cleanup
  <2>2. phase' # "active" /\ lost' = lost
    BY <2>1 DEF NamespaceDeleted, kubeVars, Answered, faultVars
  <2> QED BY <1>2, <1>3, <2>2, RunOwned DEF Run
<1> QED BY <1>4, <1>5

LEMMA KillOwned ==
  ASSUME OwnInv, NEW r \in Runs, Kill(r)
  PROVE  Owned!Break(r)
<1>1. Moves(r) /\ verdict'[r] = "killed" /\ state'[r] = "over"
  BY OwnWays DEF Moves
<1>2. Bound' = Bound \ {r}
  BY <1>1, BoundMoves
<1>3. Broken' = TRUE
  BY <1>1 DEF Broken
<1> QED BY <1>2, <1>3 DEF Owned!Break

LEMMA StartOwned ==
  ASSUME OwnInv, NEW r \in Runs, Start(r)
  PROVE  UNCHANGED Owned!ownedVars \/ Owned!Take(r) \/ Owned!Release(r) \/ Owned!Break(r)
<1>1. Begins(r) /\ UNCHANGED <<phase, lost>>
  BY Parts DEF Start, Begins, RunTypeOK, kubeVars, faultVars, OwnInv
<1> QED BY <1>1, RunOwned

\* A namespace that goes away was marked before; nothing else of the cluster touches it.
LEMMA ControllersOwned ==
  ASSUME Controllers \/ UNCHANGED vars
  PROVE  UNCHANGED Owned!ownedVars
<1>1. UNCHANGED <<state, line, count, verdict, lost>>
  BY DEF Controllers, vars, runVars, faultVars
<1>2. Bound' = Bound /\ Broken' = Broken
  BY <1>1 DEF Bound, Active, Broken
<1>3. (phase' = "active") = (phase = "active")
  BY DEF Controllers, ContentRemoved, NamespaceGone, Progresses, Regresses, vars, kubeVars
<1> QED BY <1>2, <1>3 DEF Owned!ownedVars

\* However many executions share the namespace, and whoever of them founded it, found it or
\* deleted it first, the specs of CreateTestNamespace keep the promise of ownership: what
\* stands is deleted by a run that is still on its way.
THEOREM RunsOwnTheirNamespace == Spec => ImplementsOwnership
<1>1. Init => KilledOver /\ Owned!OwnedInit
  <2> SUFFICES ASSUME Init PROVE KilledOver /\ Owned!OwnedInit
    OBVIOUS
  <2>1. KilledOver
    BY DEF Init, KilledOver
  <2>2. Bound = {} /\ Broken = FALSE /\ (phase = "active") = FALSE
    BY DEF Init, KubeInit, Bound, Active, Broken
  <2> QED BY <2>1, <2>2 DEF Owned!OwnedInit
<1>2. OwnInv /\ [Next]_vars => KilledOver'
  BY KilledNext
<1>3. ~Deploys /\ OwnInv /\ [Next]_vars => [Owned!OwnedNext]_Owned!ownedVars
  <2> SUFFICES ASSUME ~Deploys, OwnInv, [Next]_vars
               PROVE  UNCHANGED Owned!ownedVars \/ Owned!OwnedNext
    OBVIOUS
  <2>1. ASSUME NEW r \in Runs, Start(r) \/ Run(r) \/ Kill(r)
        PROVE  UNCHANGED Owned!ownedVars \/ Owned!OwnedNext
    <3>1. ~CreateNamespace(r)
      BY Parts, Lines, AtLine DEF CreateNamespace, At, OwnInv
    <3> QED BY <2>1, <3>1, CreationOwned, BodyOwned, CleanupOwned, StartOwned, KillOwned
            DEF Run, Owned!OwnedNext
  <2>2. CASE Controllers \/ UNCHANGED vars
    BY <2>2, ControllersOwned
  <2> QED BY <2>1, <2>2 DEF Next
<1>4. OwnInv /\ ~Deploys /\ [Next]_vars => ~Deploys'
  <2> SUFFICES ASSUME OwnInv, [Next]_vars PROVE UNCHANGED spec
    BY DEF Deploys
  <2>1. ASSUME NEW r \in Runs, Moves(r) PROVE UNCHANGED spec
    BY <2>1, OwnWays
  <2> QED BY <2>1 DEF Next, Moves, Controllers, vars
<1>5. OwnInv <=> IInv /\ TriesBounded /\ KilledOver
  BY DEF OwnInv
<1> QED BY <1>1, <1>2, <1>3, <1>4, <1>5, Invariant, TriesEnd, PTL
        DEF Spec, ImplementsOwnership, Owned!OwnedSpec

\* At no moment of any executions of a spec of CreateTestNamespace does the namespace stand
\* without a run that will delete it, unless a run was killed or the very call that creates or
\* deletes the namespace failed for good.
THEOREM StandingNamespaceIsOwned == Spec => [](~Deploys => Owned!StandingIsOwned)
<1>1. Owned!OwnedInit => Owned!StandingIsOwned
  BY DEF Owned!OwnedInit, Owned!StandingIsOwned
<1>2. Owned!StandingIsOwned /\ [Owned!OwnedNext]_Owned!ownedVars => Owned!StandingIsOwned'
  BY DEF Owned!OwnedNext, Owned!Take, Owned!Release, Owned!Vanish, Owned!Break, Owned!ownedVars,
         Owned!StandingIsOwned
<1>3. IInv /\ TriesBounded /\ [Next]_vars => (Deploys' <=> Deploys)
  <2> SUFFICES ASSUME IInv, TriesBounded, [Next]_vars PROVE UNCHANGED spec
    BY DEF Deploys
  <2>1. ASSUME NEW r \in Runs, Moves(r) PROVE UNCHANGED spec
    BY <2>1, Ways
  <2> QED BY <2>1 DEF Next, Moves, Controllers, vars
<1> QED BY <1>1, <1>2, <1>3, RunsOwnTheirNamespace, Invariant, TriesEnd, PTL
        DEF Spec, ImplementsOwnership, Owned!OwnedSpec
=============================================================================
