----------------------- MODULE ClusterLifecycle_proofs -----------------------
(***************************************************************************)
(* Proofs about ClusterLifecycle for any timeout of the wait.              *)
(***************************************************************************)
EXTENDS ClusterLifecycle, TLAPS

Before == {"version", "shard", "create"}
After == {"wait", "verifyReady", "credentials", "verifyNodes", "delete", "verifyDeleting"}

\* The cleanup is deferred right after the creation; the verdict comes with the body's end.
PhaseInv ==
  /\ pc \in Before \cup {"defer"} => ~deferred
  /\ pc \in After \cup {"cleanup"} => deferred
  /\ pc \in Calls => verdict = "none"
  /\ pc = "cleanup" => verdict \in {"none", "failed"}

StandInv ==
  /\ pc \in Before => cluster = "unborn"
  /\ LeftOnlyByLoss

\* What the body has seen before it comes to the deletion.
SeenInv ==
  /\ cluster = "ready" /\ nodesUp => healthy
  /\ pc \in {"delete", "verifyDeleting"} => healthy
  /\ pc = "cleanup" /\ verdict = "none" => healthy /\ ~Standing
  /\ PassedMeansAllDone

\* Where the cluster is at each call of a spec that nothing has disturbed.
Quiet == lost = {} /\ ~late /\ ~refused /\ trouble = {}

QuietInv ==
  Quiet =>
    /\ pc \in {"defer", "wait"} => cluster \in {"installing", "ready"}
    /\ pc \in {"verifyReady", "credentials", "verifyNodes", "delete"} => cluster = "ready"
    /\ pc = "verifyDeleting" => cluster \in {"uninstalling", "gone"}
    /\ cluster = "ready" => nodesUp
    /\ verdict = "failed" => cluster = "gone"

IInv == TypeOK /\ PhaseInv /\ StandInv /\ SeenInv /\ QuietInv

-----------------------------------------------------------------------------
LEMMA InitHolds == Init => IInv
<1> SUFFICES ASSUME Init
             PROVE  IInv
  OBVIOUS
<1> USE DEF Init, OcmInit
<1>1. TypeOK
  <2>1. OcmTypeOK
    BY DEF OcmTypeOK
  <2>2. count \in 0 .. MaxPolls
    BY LifecycleAssumption DEF LifecycleAssumption
  <2> QED BY <2>1, <2>2 DEF TypeOK, Calls
<1>2. PhaseInv /\ StandInv /\ SeenInv /\ QuietInv
  BY DEF PhaseInv, StandInv, SeenInv, QuietInv, Before, After, Standing, LeftOnlyByLoss,
         PassedMeansAllDone
<1> QED BY <1>1, <1>2 DEF IInv

USE DEF ocmVars, runVars, history

USE DEF IInv, TypeOK, Calls, Before, After

-----------------------------------------------------------------------------
(***************************************************************************)
(* A failed expectation, whatever the reason, and an interruption.         *)
(***************************************************************************)
LEMMA FailStep ==
  ASSUME IInv, pc \in Calls \ {"defer", "create"}, Fail, UNCHANGED <<ocmVars, topology>>,
         \/ Answered /\ (Quiet => cluster = "gone")
         \/ Fault
         \/ Refused
         \/ late' = TRUE /\ UNCHANGED <<lost, refused>>
  PROVE  IInv'
<1> USE DEF Fail, Answered, Fault, Refused
<1>1. TypeOK'
  BY DEF OcmTypeOK
<1>2. PhaseInv'
  BY DEF PhaseInv
<1>3. StandInv'
  BY DEF PhaseInv, StandInv, LeftOnlyByLoss, Standing
<1>4. SeenInv'
  BY DEF SeenInv, PassedMeansAllDone, Standing
<1>5. QuietInv'
  BY DEF QuietInv, Quiet
<1> QED BY <1>1, <1>2, <1>3, <1>4, <1>5

\* A call of the body that goes on, without having changed anything at OCM.
LEMMA GotoStep ==
  ASSUME IInv, Answered, UNCHANGED <<ocmVars, topology>>, NEW next, Goto(next),
         \/ pc \in {"version", "shard"} /\ next \in {"shard", "create"}
         \/ pc = "wait" /\ next = "verifyReady" /\ cluster = "ready"
         \/ pc = "verifyReady" /\ next = "credentials" /\ cluster = "ready"
         \/ pc = "credentials" /\ next = "verifyNodes"
         \/ pc = "verifyNodes" /\ next = "delete" /\ cluster = "ready" /\ nodesUp
         \/ pc = "delete" /\ next = "verifyDeleting" /\ cluster = "uninstalling"
         \/ pc = "verifyDeleting" /\ next = "cleanup" /\ cluster = "uninstalling"
  PROVE  IInv'
<1> USE DEF Goto, Answered
<1>1. TypeOK'
  BY DEF OcmTypeOK
<1>2. PhaseInv'
  BY DEF PhaseInv
<1>3. StandInv'
  BY DEF StandInv, LeftOnlyByLoss, Standing
<1>4. SeenInv'
  BY DEF SeenInv, PassedMeansAllDone, Standing
<1>5. QuietInv'
  BY DEF QuietInv, Quiet
<1> QED BY <1>1, <1>2, <1>3, <1>4, <1>5

-----------------------------------------------------------------------------
(***************************************************************************)
(* The calls that only look or ask.                                        *)
(***************************************************************************)
LEMMA AskStep ==
  ASSUME IInv, ResolveVersion \/ ResolveShard \/ GetClusterCredentials
  PROVE  IInv'
<1>1. CASE ResolveVersion
  BY <1>1, GotoStep, FailStep DEF ResolveVersion, Ask
<1>2. CASE ResolveShard
  BY <1>2, GotoStep, FailStep DEF ResolveShard, Ask
<1>3. CASE GetClusterCredentials
  BY <1>3, GotoStep, FailStep DEF GetClusterCredentials, Ask
<1> QED BY <1>1, <1>2, <1>3

LEMMA ReadStep ==
  ASSUME IInv, VerifyClusterReady \/ VerifyNodes \/ VerifyClusterDeleting
  PROVE  IInv'
<1>1. CASE VerifyClusterReady
  BY <1>1, GotoStep, FailStep DEF VerifyClusterReady, Read, QuietInv
<1>2. CASE VerifyNodes
  BY <1>2, GotoStep, FailStep DEF VerifyNodes, Read, QuietInv
<1>3. CASE VerifyClusterDeleting
  BY <1>3, GotoStep, FailStep DEF VerifyClusterDeleting, Read, QuietInv
<1> QED BY <1>1, <1>2, <1>3

LEMMA WaitStep ==
  ASSUME IInv, WaitForClusterReady
  PROVE  IInv'
<1>1. CASE Tick /\ cluster = "ready" /\ Goto("verifyReady") /\ Answered
  BY <1>1, GotoStep DEF WaitForClusterReady, Tick
<1>2. CASE Tick /\ cluster \in {"error", "uninstalling"} /\ Fail /\ Answered
  BY <1>2, FailStep DEF WaitForClusterReady, Tick, QuietInv
<1>3. CASE Tick /\ WaitMore /\ (Answered \/ Fault)
  <2> USE <1>3 DEF Tick, WaitMore, Answered, Fault
  <2>1. UNCHANGED <<ocmVars, topology>>
    BY DEF WaitForClusterReady
  <2>2. TypeOK'
    <3>1. count' \in 0 .. MaxPolls
      BY LifecycleAssumption DEF LifecycleAssumption
    <3>2. OcmTypeOK' /\ topology' \in {"hcp", "classic"}
      BY <2>1 DEF OcmTypeOK
    <3>3. lost' \subseteq Calls \cup {"cleanup"} /\ late' = late /\ refused' = refused
      OBVIOUS
    <3> QED BY <3>1, <3>2, <3>3
  <2>3. PhaseInv'
    BY <2>1 DEF PhaseInv
  <2>4. StandInv'
    BY <2>1 DEF StandInv, LeftOnlyByLoss, Standing
  <2>5. SeenInv'
    BY <2>1 DEF SeenInv, PassedMeansAllDone, Standing
  <2>6. QuietInv'
    BY <2>1 DEF QuietInv, Quiet
  <2> QED BY <2>2, <2>3, <2>4, <2>5, <2>6
<1>4. CASE TimesOut
  BY <1>4, FailStep DEF WaitForClusterReady, TimesOut
<1> QED BY <1>1, <1>2, <1>3, <1>4 DEF WaitForClusterReady

-----------------------------------------------------------------------------
(***************************************************************************)
(* The calls with an effect.                                               *)
(***************************************************************************)
LEMMA CreateStep ==
  ASSUME IInv, CreateCluster
  PROVE  IInv'
<1> USE DEF CreateCluster, Goto, Fail, Answered, Refused, Fault, Added
<1>1. TypeOK'
  BY DEF OcmTypeOK
<1>2. PhaseInv'
  BY DEF PhaseInv
<1>3. StandInv'
  BY DEF PhaseInv, StandInv, LeftOnlyByLoss, Standing
<1>4. SeenInv'
  BY DEF PhaseInv, SeenInv, PassedMeansAllDone, Standing
<1>5. QuietInv'
  BY DEF PhaseInv, StandInv, QuietInv, Quiet
<1> QED BY <1>1, <1>2, <1>3, <1>4, <1>5

LEMMA DeferStep ==
  ASSUME IInv, DeferCleanup
  PROVE  IInv'
<1> USE DEF DeferCleanup
<1>1. TypeOK'
  BY DEF OcmTypeOK
<1>2. PhaseInv'
  BY DEF PhaseInv
<1>3. StandInv'
  BY DEF StandInv, LeftOnlyByLoss, Standing
<1>4. SeenInv'
  BY DEF SeenInv, PassedMeansAllDone, Standing
<1>5. QuietInv'
  BY DEF QuietInv, Quiet
<1> QED BY <1>1, <1>2, <1>3, <1>4, <1>5

LEMMA DeleteStep ==
  ASSUME IInv, DeleteCluster
  PROVE  IInv'
<1> USE DEF DeleteCluster
<1>1. CASE cluster = "uninstalling" /\ UNCHANGED ocmVars /\ Goto("verifyDeleting") /\ Answered
  BY <1>1, GotoStep
<1>2. CASE ~Standing /\ UNCHANGED ocmVars /\ Fail /\ Answered
  BY <1>2, FailStep DEF QuietInv, Standing
<1>3. CASE UNCHANGED ocmVars /\ Fail /\ Fault
  BY <1>3, FailStep
<1>4. CASE Deleted /\ Goto("verifyDeleting") /\ Answered
  <2> USE <1>4 DEF Deleted, Goto, Answered
  <2>1. TypeOK'
    BY DEF OcmTypeOK
  <2>2. PhaseInv'
    BY DEF PhaseInv
  <2>3. StandInv'
    BY DEF StandInv, LeftOnlyByLoss, Standing
  <2>4. SeenInv'
    BY DEF SeenInv, PassedMeansAllDone, Standing
  <2>5. QuietInv'
    BY DEF QuietInv, Quiet
  <2> QED BY <2>1, <2>2, <2>3, <2>4, <2>5
<1>5. CASE Deleted /\ Fail /\ Fault
  <2> USE <1>5 DEF Deleted, Fail, Fault
  <2>1. pc = "delete" /\ deferred /\ topology' = topology
    BY DEF PhaseInv
  <2>2. TypeOK'
    BY <2>1 DEF OcmTypeOK
  <2>3. PhaseInv'
    BY <2>1 DEF PhaseInv
  <2>4. StandInv'
    BY <2>1 DEF StandInv, LeftOnlyByLoss, Standing
  <2>5. SeenInv'
    BY <2>1 DEF SeenInv, PassedMeansAllDone, Standing
  <2>6. QuietInv'
    BY <2>1 DEF QuietInv, Quiet
  <2> QED BY <2>2, <2>3, <2>4, <2>5, <2>6
<1> QED BY <1>1, <1>2, <1>3, <1>4, <1>5

LEMMA CleanupStep ==
  ASSUME IInv, Cleanup
  PROVE  IInv'
<1> USE DEF Cleanup, Over, Answered, Fault
<1>1. pc = "cleanup" /\ pc' = "over" /\ topology' = topology /\ count' = count /\ deferred' = deferred
  OBVIOUS
<1>2. /\ verdict' = IF verdict = "none" THEN "passed" ELSE verdict
      /\ lost' = lost \/ lost' = lost \cup {"cleanup"}
      /\ late' = late /\ refused' = refused
  BY <1>1
<1>3. UNCHANGED ocmVars \/ Deleted
  OBVIOUS
<1>4. Standing' => Standing /\ UNCHANGED ocmVars /\ "cleanup" \in lost'
  BY <1>1, <1>3 DEF Deleted, Standing
<1>5. OcmTypeOK' /\ healthy' = healthy /\ trouble' = trouble
  BY <1>3 DEF OcmTypeOK, Deleted
<1>6. TypeOK'
  BY <1>1, <1>2, <1>5
<1>7. PhaseInv'
  BY <1>1 DEF PhaseInv
<1>8. StandInv'
  BY <1>1, <1>4 DEF StandInv, LeftOnlyByLoss
<1>9. SeenInv'
  <2>1. cluster' = "ready" /\ nodesUp' => healthy'
    BY <1>3 DEF Deleted, SeenInv
  <2>2. verdict' = "passed" => healthy' /\ ~Standing'
    BY <1>1, <1>2, <1>4, <1>5 DEF SeenInv, PhaseInv
  <2> QED BY <1>1, <2>1, <2>2 DEF SeenInv, PassedMeansAllDone
<1>10. QuietInv'
  BY <1>1, <1>2, <1>3, <1>5 DEF PhaseInv, QuietInv, Quiet, Deleted, Standing
<1> QED BY <1>6, <1>7, <1>8, <1>9, <1>10

-----------------------------------------------------------------------------
(***************************************************************************)
(* What happens around the spec.                                           *)
(***************************************************************************)
LEMMA KillStep ==
  ASSUME IInv, Kill
  PROVE  IInv'
<1> USE DEF Kill
<1>1. TypeOK'
  BY DEF OcmTypeOK
<1>2. PhaseInv'
  BY DEF PhaseInv
<1>3. StandInv'
  BY DEF StandInv, LeftOnlyByLoss, Standing
<1>4. SeenInv'
  BY DEF SeenInv, PassedMeansAllDone, Standing
<1>5. QuietInv'
  BY DEF QuietInv, Quiet
<1> QED BY <1>1, <1>2, <1>3, <1>4, <1>5

\* OCM never makes a cluster stand that did not, and only trouble moves it away from
\* where a quiet spec needs it.
LEMMA EnvironmentStep ==
  ASSUME IInv, Environment
  PROVE  IInv'
<1> USE DEF Environment, OcmSteps, Installs, NodesChange, Uninstalled, Reaped, Becomes
<1>1. TypeOK'
  <2>1. OcmTypeOK'
    <3>1. cluster' \in {"ready", "error", "installing", "uninstalling", "gone"}
      OBVIOUS
    <3>2. nodesUp' \in BOOLEAN /\ healthy' \in BOOLEAN
      BY DEF OcmTypeOK
    <3>3. trouble' \subseteq Troubles
      BY DEF OcmTypeOK, Troubles
    <3> QED BY <3>1, <3>2, <3>3 DEF OcmTypeOK
  <2> QED BY <2>1
<1>2. PhaseInv'
  BY DEF PhaseInv
<1>3. StandInv'
  BY DEF StandInv, LeftOnlyByLoss, Standing
<1>4. SeenInv'
  BY DEF OcmTypeOK, SeenInv, PassedMeansAllDone, Standing
<1>5. QuietInv'
  BY DEF OcmTypeOK, QuietInv, Quiet, Standing
<1> QED BY <1>1, <1>2, <1>3, <1>4, <1>5

LEMMA StutterStep ==
  ASSUME IInv, UNCHANGED vars
  PROVE  IInv'
BY DEF vars, OcmTypeOK, PhaseInv, StandInv, LeftOnlyByLoss, Standing, SeenInv,
       PassedMeansAllDone, QuietInv, Quiet

-----------------------------------------------------------------------------
\* The invariant holds in every behaviour of either spec.
THEOREM Inductive == Spec => []IInv
<1>1. IInv /\ [Next]_vars => IInv'
  <2> SUFFICES ASSUME IInv, [Next]_vars
               PROVE  IInv'
    OBVIOUS
  <2>1. CASE Step
    BY <2>1, AskStep, ReadStep, WaitStep, CreateStep, DeferStep, DeleteStep, CleanupStep DEF Step
  <2>2. CASE Interrupt
    BY <2>2, FailStep DEF Interrupt
  <2>3. CASE Kill
    BY <2>3, KillStep
  <2>4. CASE Environment
    BY <2>4, EnvironmentStep
  <2>5. CASE UNCHANGED vars
    BY <2>5, StutterStep
  <2> QED BY <2>1, <2>2, <2>3, <2>4, <2>5 DEF Next
<1> QED BY <1>1, InitHolds, PTL DEF Spec

\* Every variable has its type, and WaitForClusterReady stops ticking at its timeout.
THEOREM TypeCorrect == Spec => []TypeOK
<1>1. IInv => TypeOK
  OBVIOUS
<1> QED BY <1>1, Inductive, PTL

\* Only a kill, or the loss of the creation or of the cleanup's delete, leaves a cluster.
THEOREM LossOnly == Spec => []LeftOnlyByLoss
<1>1. IInv => LeftOnlyByLoss
  BY DEF StandInv
<1> QED BY <1>1, Inductive, PTL

\* A spec that passed has seen a healthy cluster and left none.
THEOREM PassSafe == Spec => []PassedMeansAllDone
<1>1. IInv => PassedMeansAllDone
  BY DEF SeenInv
<1> QED BY <1>1, Inductive, PTL

\* Without loss, timeout, refusal or trouble only the last look can fail.
THEOREM QuietPasses == Spec => []UndisturbedPasses
<1>1. IInv => UndisturbedPasses
  BY DEF QuietInv, Quiet, UndisturbedPasses, OcmTypeOK
<1> QED BY <1>1, Inductive, PTL

-----------------------------------------------------------------------------
(***************************************************************************)
(* The way to the end.  Ends itself needs fairness; what it rests on is    *)
(* that every move of the spec shortens the way and nothing lengthens it.  *)
(***************************************************************************)
Rank ==
  [version |-> 11, shard |-> 10, create |-> 9, defer |-> 8, wait |-> 7, verifyReady |-> 6,
   credentials |-> 5, verifyNodes |-> 4, delete |-> 3, verifyDeleting |-> 2, cleanup |-> 1,
   over |-> 0]

\* The calls that are left at most, the ticks of the wait among them.
Distance == Rank[pc] + (MaxPolls - count)

Moves == Step \/ Interrupt \/ Kill

At(n) == pc # "over" /\ Distance = n
Nearer(n) == pc = "over" \/ Distance < n

LEMMA DistanceBound == IInv => Distance \in 0 .. MaxPolls + 11
BY LifecycleAssumption DEF LifecycleAssumption, Distance, Rank

LEMMA MovesApproach ==
  ASSUME IInv, Moves
  PROVE  Distance' < Distance
<1>1. count \in Nat /\ MaxPolls \in Nat
  BY LifecycleAssumption DEF LifecycleAssumption
<1> QED
  BY <1>1 DEF PhaseInv, Distance, Rank, Moves, Step, Interrupt, Kill, ResolveVersion, ResolveShard,
     CreateCluster, DeferCleanup, WaitForClusterReady, VerifyClusterReady, GetClusterCredentials,
     VerifyNodes, DeleteCluster, VerifyClusterDeleting, Cleanup, Read, Ask, Goto, Fail, Over,
     WaitMore, Tick, TimesOut

LEMMA OthersDoNotDelay ==
  ASSUME Environment \/ UNCHANGED vars
  PROVE  Distance' = Distance
BY DEF Environment, vars, Distance

\* No call of either lifecycle spec, no interruption and no kill leaves it as far from its
\* end as it was, and what OCM does never sends it back: it makes MaxPolls + 11 moves at most.
THEOREM Approaches ==
  Spec => /\ [](Distance \in 0 .. MaxPolls + 11)
          /\ [][IF Moves THEN Distance' < Distance ELSE Distance' = Distance]_vars
<1>1. IInv => Distance \in 0 .. MaxPolls + 11
  BY DistanceBound
<1>2. IInv /\ [Next]_vars => [IF Moves THEN Distance' < Distance ELSE Distance' = Distance]_vars
  BY MovesApproach, OthersDoNotDelay DEF Next, Moves
<1> QED BY <1>1, <1>2, Inductive, PTL DEF Spec

\* If a spec that is not over keeps taking steps, then from any distance it comes to its end
\* or strictly nearer to it.
THEOREM EndApproaches ==
  ASSUME NEW n \in Nat
  PROVE  Spec /\ [](pc # "over" => <><<Step>>_vars) => [](At(n) => <>Nearer(n))
<1>1. IInv /\ At(n) /\ [Next]_vars => At(n)' \/ Nearer(n)'
  BY MovesApproach, OthersDoNotDelay DEF Next, Moves, At, Nearer
<1>2. IInv /\ At(n) /\ Step => Nearer(n)'
  BY MovesApproach DEF Moves, At, Nearer
<1>3. At(n) => pc # "over"
  BY DEF At
<1> QED BY <1>1, <1>2, <1>3, Inductive, PTL DEF Spec
-----------------------------------------------------------------------------
(***************************************************************************)
(* The spec implements OwnedResource: it is the owner of its cluster from  *)
(* the answer of the creation to the end of its cleanup.                   *)
(***************************************************************************)
Bound == IF pc \in Before \cup {"over"} THEN {} ELSE {"spec"}
Broken == verdict = "killed" \/ lost \cap {"create", "cleanup"} # {}

Owned == INSTANCE OwnedResource WITH
  Owners <- {"spec"}, standing <- Standing, bound <- Bound, broken <- Broken

ImplementsOwnership == Owned!OwnedSpec

LEMMA OwnedAtStart == Init => Owned!OwnedInit
BY DEF Init, OcmInit, Owned!OwnedInit, Standing, Bound, Broken

\* Before the creation nobody is bound, and a call that is lost there leaves nothing.
LEMMA EarlyOwned ==
  ASSUME IInv, ResolveVersion \/ ResolveShard \/ (Interrupt /\ pc \in Before)
  PROVE  UNCHANGED Owned!ownedVars
<1>1. pc \in {"version", "shard"} /\ ~deferred
  BY DEF ResolveVersion, ResolveShard, Ask, Interrupt, PhaseInv
<1>2. /\ UNCHANGED ocmVars
      /\ pc' \in Before \cup {"over"}
      /\ verdict' \in {verdict, "failed"} /\ verdict = "none"
      /\ lost' \in {lost, lost \cup {pc}}
  BY <1>1 DEF ResolveVersion, ResolveShard, Ask, Interrupt, Fail, Goto, Answered, Fault, Refused,
              PhaseInv
<1>3. Standing' = Standing /\ Bound' = Bound
  BY <1>1, <1>2 DEF Standing, Bound
<1>4. Broken' = Broken
  BY <1>1, <1>2 DEF Broken
<1> QED BY <1>3, <1>4 DEF Owned!ownedVars

\* The creation takes the cluster, unless its answer is lost.
LEMMA CreateOwned ==
  ASSUME IInv, CreateCluster
  PROVE  \/ UNCHANGED Owned!ownedVars
         \/ Owned!Take("spec")
         \/ Owned!Break("spec")
<1>1. pc = "create" /\ ~deferred /\ verdict = "none" /\ cluster = "unborn"
  BY DEF CreateCluster, PhaseInv, StandInv
<1>2. CASE Added /\ Goto("defer") /\ Answered
  <2>1. ~Standing /\ Standing' /\ Bound' = {"spec"} /\ Bound = {}
    BY <1>1, <1>2 DEF Added, Goto, Standing, Bound
  <2>2. Broken' = Broken
    BY <1>2 DEF Goto, Answered, Broken
  <2> QED BY <2>1, <2>2 DEF Owned!Take
<1>3. CASE UNCHANGED ocmVars /\ Fail /\ Refused
  <2>1. Standing' = Standing /\ Bound' = Bound
    BY <1>1, <1>3 DEF Fail, Standing, Bound
  <2>2. Broken' = Broken
    BY <1>1, <1>3 DEF Fail, Refused, Broken
  <2> QED BY <2>1, <2>2 DEF Owned!ownedVars
<1>4. CASE (Added \/ UNCHANGED ocmVars) /\ Fail /\ Fault
  <2>1. Bound' = Bound /\ Standing' \in BOOLEAN
    BY <1>1, <1>4 DEF Fail, Standing, Bound
  <2>2. Broken'
    BY <1>1, <1>4 DEF Fault, Broken
  <2> QED BY <2>1, <2>2 DEF Owned!Break, Broken
<1> QED BY <1>2, <1>3, <1>4 DEF CreateCluster

\* From then on the body may fail at any call, and stays bound; its delete is the cleanup's
\* work done early.
LEMMA BodyOwned ==
  ASSUME IInv,
         \/ DeferCleanup \/ WaitForClusterReady \/ VerifyClusterReady \/ GetClusterCredentials
         \/ VerifyNodes \/ DeleteCluster \/ VerifyClusterDeleting
         \/ (Interrupt /\ pc \notin Before)
  PROVE  UNCHANGED Owned!ownedVars \/ Owned!Vanish
<1>1. /\ pc \in After \cup {"defer"} /\ verdict = "none"
      /\ pc # "defer" => deferred
  BY DEF DeferCleanup, WaitForClusterReady, VerifyClusterReady, GetClusterCredentials, VerifyNodes,
         DeleteCluster, VerifyClusterDeleting, Interrupt, Read, Ask, Tick, TimesOut, PhaseInv
<1>2. CASE DeferCleanup
  BY <1>1, <1>2 DEF DeferCleanup, Standing, Bound, Broken, Owned!ownedVars
<1>3. CASE ~DeferCleanup
  <2>1. pc # "defer"
    BY <1>3 DEF DeferCleanup, WaitForClusterReady, VerifyClusterReady, GetClusterCredentials,
         VerifyNodes, DeleteCluster, VerifyClusterDeleting, Interrupt, Read, Ask, Tick, TimesOut
  <2>2. /\ pc' \in After \cup {"cleanup"}
        /\ verdict' \in {"none", "failed"}
        /\ lost' \in {lost, lost \cup {pc}}
    BY <1>1, <1>3, <2>1 DEF WaitForClusterReady, VerifyClusterReady, GetClusterCredentials,
         VerifyNodes, DeleteCluster, VerifyClusterDeleting, Interrupt, Read, Ask, Tick, TimesOut,
         WaitMore, Goto, Fail, Answered, Fault, Refused
  <2>3. cluster' = cluster \/ Deleted
    BY <1>3 DEF WaitForClusterReady, VerifyClusterReady, GetClusterCredentials,
         VerifyNodes, DeleteCluster, VerifyClusterDeleting, Interrupt, Read, Ask, Tick, TimesOut
  <2>4. Bound' = Bound /\ Broken' = Broken
    BY <1>1, <2>1, <2>2 DEF Bound, Broken
  <2>5. Standing' = Standing \/ Standing' = FALSE
    BY <2>3 DEF Deleted, Standing
  <2> QED BY <2>4, <2>5 DEF Owned!ownedVars, Owned!Vanish
<1> QED BY <1>2, <1>3

LEMMA CleanupOwned ==
  ASSUME IInv, Cleanup
  PROVE  Owned!Release("spec") \/ Owned!Break("spec")
<1>1. pc = "cleanup" /\ verdict \in {"none", "failed"} /\ pc' = "over"
      /\ verdict' \in {"passed", "failed"}
  BY DEF Cleanup, Over, PhaseInv
<1>2. Bound = {"spec"} /\ Bound' = {}
  BY <1>1 DEF Bound
<1>3. CASE (Deleted \/ (~Standing /\ UNCHANGED ocmVars)) /\ Answered
  <2>1. ~Standing'
    BY <1>3 DEF Deleted, Standing
  <2>2. Broken' = Broken
    BY <1>1, <1>3 DEF Answered, Broken
  <2>3. Standing' = FALSE
    BY <2>1 DEF Standing
  <2> QED BY <1>2, <2>2, <2>3 DEF Owned!Release
<1>4. CASE Fault
  <2>1. Broken' /\ Standing' \in BOOLEAN
    BY <1>1, <1>4 DEF Fault, Broken, Standing
  <2> QED BY <1>2, <2>1 DEF Owned!Break, Broken
<1> QED BY <1>3, <1>4 DEF Cleanup

LEMMA OthersOwned ==
  ASSUME IInv, Kill \/ Environment \/ UNCHANGED vars
  PROVE  UNCHANGED Owned!ownedVars \/ Owned!Vanish \/ Owned!Break("spec")
<1>1. CASE Kill
  <2>1. Broken' /\ Bound' = {} /\ UNCHANGED cluster
    BY <1>1 DEF Kill, Broken, Bound
  <2>2. Bound' \in {Bound, Bound \ {"spec"}} /\ Standing' \in BOOLEAN
    BY <2>1 DEF Bound, Standing
  <2> QED BY <2>1, <2>2 DEF Owned!Break, Broken
<1>2. CASE Environment
  <2>1. Bound' = Bound /\ Broken' = Broken
    BY <1>2 DEF Environment, Bound, Broken
  <2>2. Standing' = Standing \/ Standing' = FALSE
    BY <1>2 DEF Environment, OcmSteps, Installs, NodesChange, Uninstalled, Reaped, Becomes, Standing
  <2> QED BY <2>1, <2>2 DEF Owned!ownedVars, Owned!Vanish
<1>3. CASE UNCHANGED vars
  BY <1>3 DEF vars, Standing, Bound, Broken, Owned!ownedVars
<1> QED BY <1>1, <1>2, <1>3

\* Creation, deferred cleanup, delete and failure at any call keep the promise of ownership:
\* the cluster is taken with the answer that names it and released with its deletion, and
\* no other call of the spec that is lost, and nothing OCM does, breaks it.
THEOREM OwnsItsCluster == Spec => ImplementsOwnership
<1>1. IInv /\ [Next]_vars => [Owned!OwnedNext]_Owned!ownedVars
  <2> SUFFICES ASSUME IInv, [Next]_vars
               PROVE  UNCHANGED Owned!ownedVars \/ Owned!OwnedNext
    OBVIOUS
  <2>1. CASE CreateCluster \/ Cleanup
    BY <2>1, CreateOwned, CleanupOwned DEF Owned!OwnedNext
  <2>2. CASE Kill \/ Environment \/ UNCHANGED vars
    BY <2>2, OthersOwned DEF Owned!OwnedNext
  <2>3. CASE (Step \/ Interrupt) /\ ~CreateCluster /\ ~Cleanup
    BY <2>3, EarlyOwned, BodyOwned DEF Step, Owned!OwnedNext
  <2> QED BY <2>1, <2>2, <2>3 DEF Next
<1> QED BY <1>1, OwnedAtStart, Inductive, PTL DEF Spec, ImplementsOwnership, Owned!OwnedSpec

\* Whatever happens to the spec, a cluster that stands has its deletion ahead of it, unless
\* the spec was killed or the answer of the creation or of the cleanup was lost.
THEOREM StandingClusterIsOwned == Spec => []Owned!StandingIsOwned
<1>1. Owned!OwnedInit => Owned!StandingIsOwned
  BY DEF Owned!OwnedInit, Owned!StandingIsOwned
<1>2. Owned!StandingIsOwned /\ [Owned!OwnedNext]_Owned!ownedVars => Owned!StandingIsOwned'
  BY DEF Owned!OwnedNext, Owned!Take, Owned!Release, Owned!Vanish, Owned!Break, Owned!ownedVars,
         Owned!StandingIsOwned
<1> QED BY <1>1, <1>2, OwnsItsCluster, PTL DEF ImplementsOwnership, Owned!OwnedSpec
=============================================================================
