------------------------- MODULE VpcCleanup_proofs -------------------------
(***************************************************************************)
(* Proofs about VpcCleanup for any VPC (any ENIs, groups, rules, subnets), *)
(* any number of steps of the other actors and of faulty calls, and any    *)
(* number of polls and retries.                                            *)
(***************************************************************************)
EXTENDS VpcCleanup, FiniteSetTheorems, TLAPS

\* What stood in the VPC at the call and still stands.
EniLeft == start.eni \cap LiveEnis
SgLeft == start.sg \cap LiveSgs
SubnetLeft == start.subnet \cap LiveSubnets

\* Nothing of the call is "unborn": once gone it cannot come back.
Born ==
  /\ \A e \in start.eni : eni[e] # "unborn"
  /\ \A s \in start.sg : sg[s] # "unborn"
  /\ \A n \in start.subnet : subnet[n] # "unborn"

WithEni == {"pollENI", "sleep", "deleteENI", "retry"}

\* The result is set when the cleanup leaves its last step, and the ENI or group
\* in hand is one.
PcInv ==
  /\ pc = "done" <=> result # "none"
  /\ pc \in WithEni => cur \in Enis
  /\ pc = "egress" => cur \in Sgs

AfterEnis == pc \in {"listSGs", "ingress", "egress", "deleteSG", "listSubnets", "deleteSubnet"}
             \/ result \in {"sg", "subnet", "ok"}
AfterSgs == pc \in {"listSubnets", "deleteSubnet"} \/ result \in {"subnet", "ok"}

\* Where to find what still stands, at each step of the three stages.
EniInv ==
  /\ pc = "eachENI" => EniLeft \subseteq todo
  /\ pc \in WithEni => EniLeft \subseteq todo \cup {cur}
  /\ AfterEnis => EniLeft = {}

SgInv ==
  /\ pc \in {"ingress", "egress"} => SgLeft \subseteq seen
  /\ pc = "deleteSG" => SgLeft \subseteq todo \cup errs
  /\ result = "sg" => SgLeft \subseteq errs
  /\ AfterSgs => SgLeft = {}

SubnetInv ==
  /\ pc = "deleteSubnet" => SubnetLeft \subseteq todo \cup errs
  /\ result = "subnet" => SubnetLeft \subseteq errs
  /\ result = "ok" => SubnetLeft = {}

IInv == TypeOK /\ Born /\ PcInv /\ EniInv /\ SgInv /\ SubnetInv

-----------------------------------------------------------------------------
(***************************************************************************)
(* What a step does to the VPC.                                            *)
(***************************************************************************)
\* A step of anybody: nothing of the call comes back, the call's record is kept.
Vpc == /\ eni \in [Enis -> EniStatus]
       /\ sg \in [Sgs -> Life]
       /\ rules \subseteq Rules
       /\ subnet \in [Subnets -> Life]
       /\ outside \in Nat
Calls == faults \in Nat /\ ctxDone \in BOOLEAN

VpcStep ==
  /\ Vpc' /\ Born' /\ start' = start
  /\ EniLeft' \subseteq EniLeft
  /\ SgLeft' \subseteq SgLeft
  /\ SubnetLeft' \subseteq SubnetLeft

\* A call answers, is refused or fails.
LEMMA CallsType ==
  ASSUME Calls, NEW ok, Served(ok) \/ Refused(ok) \/ Fault
  PROVE  Calls'
<1>1. CASE Served(ok) \/ Refused(ok)
  BY <1>1 DEF Calls, Served, Refused, callVars
<1>2. CASE Fault
  <2>1. faults' = faults + 1 /\ ctxDone' = ctxDone
    BY <1>2 DEF Fault
  <2>2. faults' \in Nat
    BY <2>1 DEF Calls
  <2> QED BY <2>1, <2>2 DEF Calls
<1> QED BY <1>1, <1>2

LEMMA Unaffected ==
  ASSUME Vpc, Born, UNCHANGED ec2Vars, UNCHANGED start
  PROVE  VpcStep
BY DEF VpcStep, Vpc, Born, ec2Vars, EniLeft, SgLeft, SubnetLeft, LiveEnis, LiveSgs, LiveSubnets

\* An ENI moves, and only from "unborn" to "in-use" or between its later states.
LEMMA EniMoves ==
  ASSUME Vpc, Born, start \in [eni : SUBSET Enis, sg : SUBSET (Sgs \ {DefaultSg}), subnet : SUBSET Subnets],
         NEW e \in Enis, NEW to \in EniStatus \ {"unborn"}, eni[e] # "gone",
         eni' = [eni EXCEPT ![e] = to],
         UNCHANGED <<sg, rules, subnet>>, outside' \in Nat, UNCHANGED start
  PROVE  VpcStep /\ (to = "gone" => e \notin EniLeft')
<1>1. Vpc'
  BY DEF Vpc
<1>2. Born'
  BY DEF Vpc, Born
<1>3. ASSUME NEW x \in EniLeft'
      PROVE  x \in EniLeft
  <2>1. x \in start.eni /\ x \in Enis /\ eni'[x] # "gone"
    BY <1>3 DEF EniLeft, LiveEnis
  <2>2. eni[x] # "unborn"
    BY <2>1 DEF Born
  <2>3. eni[x] # "gone"
    BY <2>1 DEF Vpc
  <2> QED BY <2>1, <2>2, <2>3 DEF EniLeft, LiveEnis
<1>4. SgLeft' = SgLeft /\ SubnetLeft' = SubnetLeft
  BY DEF SgLeft, SubnetLeft, LiveSgs, LiveSubnets
<1>5. to = "gone" => e \notin EniLeft'
  BY DEF EniLeft, LiveEnis, Vpc
<1> QED BY <1>1, <1>2, <1>3, <1>4, <1>5 DEF VpcStep

\* A group appears under a new identifier, or one is deleted.
LEMMA SgMoves ==
  ASSUME Vpc, Born, start \in [eni : SUBSET Enis, sg : SUBSET (Sgs \ {DefaultSg}), subnet : SUBSET Subnets],
         NEW s \in Sgs, NEW to \in {"live", "gone"}, to = "live" => sg[s] = "unborn",
         sg' = [sg EXCEPT ![s] = to], rules' \subseteq Rules,
         UNCHANGED <<eni, subnet>>, outside' \in Nat, UNCHANGED start
  PROVE  VpcStep /\ (to = "gone" => s \notin SgLeft')
<1>1. Vpc'
  BY DEF Vpc, Life
<1>2. Born'
  BY DEF Vpc, Born
<1>3. ASSUME NEW x \in SgLeft'
      PROVE  x \in SgLeft
  <2>1. x \in start.sg /\ x \in Sgs /\ sg'[x] = "live"
    BY <1>3 DEF SgLeft, LiveSgs
  <2>2. sg[x] # "unborn"
    BY <2>1 DEF Born
  <2>3. sg[x] = "live"
    BY <2>1, <2>2 DEF Vpc
  <2> QED BY <2>1, <2>3 DEF SgLeft, LiveSgs
<1>4. EniLeft' = EniLeft /\ SubnetLeft' = SubnetLeft
  BY DEF EniLeft, SubnetLeft, LiveEnis, LiveSubnets
<1>5. to = "gone" => s \notin SgLeft'
  BY DEF SgLeft, LiveSgs, Vpc
<1> QED BY <1>1, <1>2, <1>3, <1>4, <1>5 DEF VpcStep

\* The same of subnets.
LEMMA SubnetMoves ==
  ASSUME Vpc, Born, start \in [eni : SUBSET Enis, sg : SUBSET (Sgs \ {DefaultSg}), subnet : SUBSET Subnets],
         NEW n \in Subnets, NEW to \in {"live", "gone"}, to = "live" => subnet[n] = "unborn",
         subnet' = [subnet EXCEPT ![n] = to],
         UNCHANGED <<eni, sg, rules>>, outside' \in Nat, UNCHANGED start
  PROVE  VpcStep /\ (to = "gone" => n \notin SubnetLeft')
<1>1. Vpc'
  BY DEF Vpc, Life
<1>2. Born'
  BY DEF Vpc, Born
<1>3. ASSUME NEW x \in SubnetLeft'
      PROVE  x \in SubnetLeft
  <2>1. x \in start.subnet /\ x \in Subnets /\ subnet'[x] = "live"
    BY <1>3 DEF SubnetLeft, LiveSubnets
  <2>2. subnet[x] # "unborn"
    BY <2>1 DEF Born
  <2>3. subnet[x] = "live"
    BY <2>1, <2>2 DEF Vpc
  <2> QED BY <2>1, <2>3 DEF SubnetLeft, LiveSubnets
<1>4. EniLeft' = EniLeft /\ SgLeft' = SgLeft
  BY DEF EniLeft, SgLeft, LiveEnis, LiveSgs
<1>5. to = "gone" => n \notin SubnetLeft'
  BY DEF SubnetLeft, LiveSubnets, Vpc
<1> QED BY <1>1, <1>2, <1>3, <1>4, <1>5 DEF VpcStep

\* Rules come and go.
LEMMA RulesMove ==
  ASSUME Vpc, Born, rules' \subseteq Rules,
         UNCHANGED <<eni, sg, subnet>>, outside' \in Nat, UNCHANGED start
  PROVE  VpcStep
<1>1. Vpc' /\ Born'
  BY DEF Vpc, Born
<1>2. EniLeft' = EniLeft /\ SgLeft' = SgLeft /\ SubnetLeft' = SubnetLeft
  BY DEF EniLeft, SgLeft, SubnetLeft, LiveEnis, LiveSgs, LiveSubnets
<1> QED BY <1>1, <1>2 DEF VpcStep

StartType == start \in [eni : SUBSET Enis, sg : SUBSET (Sgs \ {DefaultSg}), subnet : SUBSET Subnets]

LEMMA Parts == ASSUME IInv PROVE Vpc /\ Calls /\ Born /\ StartType
BY DEF IInv, TypeOK, Ec2TypeOK, Vpc, Calls, StartType

LEMMA InitInv == Init => IInv
<1> SUFFICES ASSUME Init PROVE IInv
  OBVIOUS
<1>1. Ec2TypeOK
  BY Ec2Assumption DEF Init, Ec2Init, Ec2TypeOK, EniStatus, Life
<1>2. TypeOK
  BY <1>1 DEF Init, TypeOK, Pcs, LiveEnis, LiveSgs, LiveSubnets
<1>3. Born
  BY DEF Init, Born, LiveEnis, LiveSgs, LiveSubnets
<1>4. PcInv /\ EniInv /\ SgInv /\ SubnetInv
  BY DEF Init, PcInv, EniInv, SgInv, SubnetInv, WithEni, AfterEnis, AfterSgs
<1> QED BY <1>2, <1>3, <1>4 DEF IInv

-----------------------------------------------------------------------------
(***************************************************************************)
(* Steps of the cleanup that only move it.                                 *)
(***************************************************************************)
\* The other actors leave the cleanup where it is.
LEMMA StayInv ==
  ASSUME IInv, VpcStep, Calls', UNCHANGED <<pc, loopVars, errs, result>>
  PROVE  IInv'
<1> USE DEF loopVars
<1>1. TypeOK'
  BY DEF IInv, TypeOK, Ec2TypeOK, VpcStep, Vpc, Calls
<1>2. PcInv'
  BY DEF IInv, PcInv
<1>3. EniInv' /\ SgInv' /\ SubnetInv'
  BY DEF IInv, EniInv, SgInv, SubnetInv, AfterEnis, AfterSgs, VpcStep
<1> QED BY <1>1, <1>2, <1>3 DEF IInv, VpcStep

\* An error that ends a listing or the ENI stage says nothing of what is left.
LEMMA FinishInv ==
  ASSUME IInv, VpcStep, Calls', NEW f \in {"describe", "detach", "wait", "delete"},
         NEW named \in SUBSET Resources, Finish(f, named)
  PROVE  IInv'
<1>1. pc' = "done" /\ result' = f /\ errs' = errs \cup named /\ UNCHANGED loopVars
  BY DEF Finish
<1>2. TypeOK'
  BY <1>1 DEF IInv, TypeOK, Ec2TypeOK, VpcStep, Vpc, Calls, loopVars, Pcs, Failures
<1>3. PcInv'
  BY <1>1 DEF PcInv, WithEni
<1>4. EniInv' /\ SgInv' /\ SubnetInv'
  BY <1>1 DEF EniInv, SgInv, SubnetInv, AfterEnis, AfterSgs, WithEni
<1> QED BY <1>2, <1>3, <1>4 DEF IInv, VpcStep

LEMMA DescribeFailsInv ==
  ASSUME IInv, DescribeFails, UNCHANGED <<ec2Vars, start>>
  PROVE  IInv'
<1>1. VpcStep
  BY Parts, Unaffected
<1>2. Calls'
  BY Parts, CallsType DEF DescribeFails
<1> QED BY <1>1, <1>2, FinishInv DEF DescribeFails

-----------------------------------------------------------------------------
(***************************************************************************)
(* The ENI stage.                                                          *)
(***************************************************************************)
LEMMA ListENIsInv == ASSUME IInv, ListENIs PROVE IInv'
<1>1. CASE DescribeFails
  BY <1>1, DescribeFailsInv DEF ListENIs
<1>2. ASSUME NEW page \in SUBSET Enis,
             Page(LiveEnis, page, "listENIs", "eachENI"),
             attached' = attached \cup {e \in page : Attached(e)}, UNCHANGED perms
      PROVE  IInv'
  <2>1. VpcStep /\ Calls'
    BY <1>2, Parts, Unaffected, CallsType DEF ListENIs, Page
  <2>2. /\ pc = "listENIs"
        /\ seen' = seen \cup page
        /\ \/ pc' = "listENIs" /\ todo' = todo
           \/ pc' = "eachENI" /\ todo' = seen' /\ LiveEnis \subseteq seen'
        /\ UNCHANGED <<errs, result, perms, cur, count>>
    BY <1>2 DEF Page, Goto, ListENIs
  <2>3. TypeOK'
    BY <1>2, <2>1, <2>2 DEF IInv, TypeOK, Ec2TypeOK, VpcStep, Vpc, Calls, Pcs, Resources
  <2>4. PcInv'
    BY <2>2 DEF IInv, PcInv, WithEni
  <2>5. EniInv'
    BY <2>1, <2>2 DEF IInv, EniInv, AfterEnis, WithEni, VpcStep, EniLeft
  <2>6. SgInv' /\ SubnetInv'
    BY <2>1, <2>2 DEF IInv, SgInv, SubnetInv, AfterSgs, VpcStep
  <2> QED BY <2>1, <2>3, <2>4, <2>5, <2>6 DEF IInv, VpcStep
<1> QED BY <1>1, <1>2 DEF ListENIs

\* An ENI of the call that still stands is waited for or deleted: the step keeps
\* the one in hand or takes the next one.
LEMMA EniStageInv ==
  ASSUME IInv, VpcStep, Calls', pc \in {"eachENI"} \cup WithEni, pc' \in {"eachENI"} \cup WithEni,
         pc' \in WithEni => cur' \in Enis, cur' \in Enis \cup Sgs \cup {None},
         todo' \subseteq todo, UNCHANGED <<seen, attached, perms, errs, result>>, count' \in Nat,
         pc' = "eachENI" => EniLeft' \subseteq todo',
         pc' \in WithEni => EniLeft' \subseteq todo' \cup {cur'}
  PROVE  IInv'
<1>1. TypeOK'
  BY DEF IInv, TypeOK, Ec2TypeOK, VpcStep, Vpc, Calls, Pcs, WithEni
<1>2. PcInv'
  BY DEF IInv, PcInv, WithEni
<1>3. EniInv'
  BY DEF IInv, EniInv, PcInv, AfterEnis, WithEni
<1>4. SgInv' /\ SubnetInv'
  BY DEF IInv, SgInv, SubnetInv, PcInv, AfterSgs, WithEni
<1> QED BY <1>1, <1>2, <1>3, <1>4 DEF IInv, VpcStep

LEMMA DetachEffect ==
  ASSUME IInv, NEW e \in Enis, Attached(e), DetachTakesEffect(e), UNCHANGED start
  PROVE  VpcStep
<1>1. eni[e] # "gone" /\ "detaching" \in EniStatus \ {"unborn"}
  BY DEF Attached, EniStatus
<1>2. eni' = [eni EXCEPT ![e] = "detaching"] /\ UNCHANGED <<sg, rules, subnet, outside>>
  BY DEF DetachTakesEffect
<1>3. outside' \in Nat
  BY <1>2, Parts DEF Vpc
<1> QED BY <1>1, <1>2, <1>3, Parts, EniMoves DEF StartType

LEMMA DetachENIInv == ASSUME IInv, NEW e \in Enis, DetachENI(e) PROVE IInv'
<1>1. pc = "eachENI" /\ e \in todo /\ UNCHANGED start
  BY DEF DetachENI
<1>2. EniLeft \subseteq todo
  BY <1>1 DEF IInv, EniInv
<1>3. CASE /\ Served(Attached(e))
           /\ DetachTakesEffect(e)
           /\ Goto("pollENI")
           /\ todo' = todo \ {e} /\ cur' = e /\ count' = 0
           /\ UNCHANGED <<seen, attached, perms>>
  <2>1. VpcStep
    BY <1>1, <1>3, DetachEffect DEF Served
  <2>2. Calls'
    BY <1>3, Parts, CallsType DEF Attached
  <2>3. EniLeft' \subseteq todo' \cup {cur'}
    BY <1>2, <1>3, <2>1 DEF VpcStep
  <2>4. pc' = "pollENI" /\ UNCHANGED <<errs, result>>
    BY <1>3 DEF Goto
  <2> QED BY <1>1, <1>3, <2>1, <2>2, <2>3, <2>4, EniStageInv DEF WithEni
<1>4. CASE Finish("detach", {e})
           /\ \/ Refused(Attached(e)) /\ UNCHANGED ec2Vars
              \/ Fault /\ (UNCHANGED ec2Vars \/ (Attached(e) /\ DetachTakesEffect(e)))
  <2>1. VpcStep
    BY <1>1, <1>4, Parts, Unaffected, DetachEffect
  <2>2. Calls'
    BY <1>4, Parts, CallsType DEF Attached
  <2> QED BY <1>4, <2>1, <2>2, FinishInv DEF Resources
<1> QED BY <1>3, <1>4 DEF DetachENI

LEMMA SkipDetachInv == ASSUME IInv, NEW e \in Enis, SkipDetach(e) PROVE IInv'
<1>1. VpcStep /\ Calls'
  BY Parts, Unaffected DEF SkipDetach, callVars, Calls
<1>2. EniLeft \subseteq todo
  BY DEF IInv, EniInv, SkipDetach
<1>3. EniLeft' \subseteq todo' \cup {cur'}
  BY <1>1, <1>2 DEF VpcStep, SkipDetach
<1> QED BY <1>1, <1>3, EniStageInv DEF SkipDetach, WithEni, Goto

LEMMA PollENIInv == ASSUME IInv, PollENI PROVE IInv'
<1>1. VpcStep
  BY Parts, Unaffected DEF PollENI
<1>2. pc = "pollENI" /\ cur \in Enis /\ EniLeft \subseteq todo \cup {cur}
  BY DEF PollENI, IInv, PcInv, EniInv, WithEni
<1>3. CASE Finish("wait", {cur}) /\ (UNCHANGED callVars \/ Refused(TRUE) \/ Fault)
  <2>1. Calls'
    BY <1>3, Parts, CallsType DEF callVars, Calls
  <2> QED BY <1>1, <1>2, <1>3, <2>1, FinishInv DEF Resources
<1>4. CASE /\ Served(TRUE)
           /\ IF eni[cur] \in {"available", "gone"}
                THEN Goto("deleteENI") /\ count' = 0
                ELSE Goto("sleep") /\ UNCHANGED count
           /\ UNCHANGED <<seen, attached, perms, todo, cur>>
  <2>1. Calls'
    BY <1>4, Parts, CallsType
  <2>2. pc' \in {"deleteENI", "sleep"} /\ count' \in Nat /\ UNCHANGED <<errs, result>>
    BY <1>4 DEF Goto, IInv, TypeOK
  <2>3. EniLeft' \subseteq todo' \cup {cur'}
    BY <1>1, <1>2, <1>4 DEF VpcStep
  <2> QED BY <1>1, <1>2, <1>4, <2>1, <2>2, <2>3, EniStageInv DEF WithEni, IInv, TypeOK
<1> QED BY <1>3, <1>4 DEF PollENI

LEMMA SleepInv ==
  ASSUME IInv, NEW label \in WithEni, NEW next \in WithEni, NEW f \in {"wait", "delete"},
         Sleep(label, next, f)
  PROVE  IInv'
<1>1. VpcStep /\ Calls'
  BY Parts, Unaffected DEF Sleep, callVars, Calls
<1>2. pc = label /\ cur \in Enis /\ EniLeft \subseteq todo \cup {cur}
  BY DEF Sleep, IInv, PcInv, EniInv
<1>3. CASE Finish(f, {cur})
  BY <1>1, <1>2, <1>3, FinishInv DEF Resources
<1>4. CASE Goto(next) /\ count' = count + 1 /\ UNCHANGED <<seen, attached, perms, todo, cur>>
  <2>1. count \in Nat
    BY DEF IInv, TypeOK
  <2>2. count' \in Nat
    BY <1>4, <2>1
  <2>3. EniLeft' \subseteq todo' \cup {cur'}
    BY <1>1, <1>2, <1>4 DEF VpcStep
  <2>4. pc' = next /\ UNCHANGED <<errs, result>>
    BY <1>4 DEF Goto
  <2> QED BY <1>1, <1>2, <1>4, <2>2, <2>3, <2>4, EniStageInv DEF WithEni
<1> QED BY <1>3, <1>4 DEF Sleep

LEMMA EniDeletedEffect ==
  ASSUME IInv, NEW e \in Enis, eni[e] = "available", EniDeleted(e), UNCHANGED start
  PROVE  VpcStep /\ e \notin EniLeft'
<1>1. eni[e] # "gone" /\ "gone" \in EniStatus \ {"unborn"}
  BY DEF EniStatus
<1>2. eni' = [eni EXCEPT ![e] = "gone"] /\ UNCHANGED <<sg, rules, subnet, outside>>
  BY DEF EniDeleted
<1>3. outside' \in Nat
  BY <1>2, Parts DEF Vpc
<1> QED BY <1>1, <1>2, <1>3, Parts, EniMoves DEF StartType

LEMMA DeleteENIInv == ASSUME IInv, DeleteENI PROVE IInv'
<1>1. pc = "deleteENI" /\ cur \in Enis /\ EniLeft \subseteq todo \cup {cur} /\ UNCHANGED start
  BY DEF DeleteENI, IInv, PcInv, EniInv, WithEni
<1>2. CASE /\ \/ Served(eni[cur] = "available") /\ EniDeleted(cur)
              \/ Served(eni[cur] = "gone") /\ UNCHANGED ec2Vars
           /\ Goto("eachENI")
           /\ UNCHANGED loopVars
  <2>1. VpcStep /\ cur \notin EniLeft'
    <3>1. CASE Served(eni[cur] = "available") /\ EniDeleted(cur)
      BY <1>1, <3>1, EniDeletedEffect DEF Served
    <3>2. CASE Served(eni[cur] = "gone") /\ UNCHANGED ec2Vars
      BY <1>1, <3>2, Parts, Unaffected DEF Served, EniLeft, LiveEnis, ec2Vars
    <3> QED BY <1>2, <3>1, <3>2
  <2>2. Calls'
    BY <1>2, Parts, CallsType
  <2>3. EniLeft' \subseteq todo'
    BY <1>1, <1>2, <2>1 DEF VpcStep, loopVars
  <2>4. pc' = "eachENI" /\ UNCHANGED <<errs, result, loopVars>>
    BY <1>2 DEF Goto
  <2> QED BY <1>1, <2>1, <2>2, <2>3, <2>4, EniStageInv DEF loopVars, WithEni, IInv, TypeOK
<1>3. CASE /\ \/ Refused(eni[cur] \in {"available", "gone"}) /\ UNCHANGED ec2Vars
              \/ /\ Fault
                 /\ UNCHANGED ec2Vars \/ (eni[cur] = "available" /\ EniDeleted(cur))
           /\ IF count < MaxTries - 1
                THEN Goto("retry") /\ UNCHANGED loopVars
                ELSE Finish("delete", {cur})
  <2>1. VpcStep
    BY <1>1, <1>3, Parts, Unaffected, EniDeletedEffect
  <2>2. Calls'
    BY <1>3, Parts, CallsType
  <2>3. CASE Goto("retry") /\ UNCHANGED loopVars
    <3>1. EniLeft' \subseteq todo' \cup {cur'}
      BY <1>1, <2>1, <2>3 DEF VpcStep, loopVars
    <3>2. pc' = "retry" /\ UNCHANGED <<errs, result, loopVars>>
      BY <2>3 DEF Goto
    <3> QED BY <1>1, <2>1, <2>2, <3>1, <3>2, EniStageInv DEF loopVars, WithEni, IInv, TypeOK
  <2>4. CASE Finish("delete", {cur})
    BY <1>1, <2>1, <2>2, <2>4, FinishInv DEF Resources
  <2> QED BY <1>3, <2>3, <2>4
<1> QED BY <1>2, <1>3 DEF DeleteENI

\* The loop is over: every ENI of the call is gone.
LEMMA ENIsDoneInv == ASSUME IInv, ENIsDone PROVE IInv'
<1>1. VpcStep /\ Calls'
  BY Parts, Unaffected DEF ENIsDone, callVars, Calls
<1>2. pc = "eachENI" /\ pc' = "listSGs" /\ seen' = {} /\ todo = {}
      /\ UNCHANGED <<errs, result, attached, perms, todo, cur, count>>
  BY DEF ENIsDone, NextStage, Goto
<1>3. EniLeft = {}
  BY <1>2 DEF IInv, EniInv
<1>4. TypeOK'
  BY <1>1, <1>2 DEF IInv, TypeOK, Ec2TypeOK, VpcStep, Vpc, Calls, Pcs
<1>5. PcInv' /\ EniInv'
  BY <1>1, <1>2, <1>3 DEF IInv, PcInv, EniInv, WithEni, VpcStep
<1>6. SgInv' /\ SubnetInv'
  BY <1>1, <1>2 DEF IInv, SgInv, SubnetInv, PcInv, AfterSgs, VpcStep
<1> QED BY <1>1, <1>4, <1>5, <1>6 DEF IInv, VpcStep

-----------------------------------------------------------------------------
(***************************************************************************)
(* The group stage.                                                        *)
(***************************************************************************)
LEMMA ListSGsInv == ASSUME IInv, ListSGs PROVE IInv'
<1>1. CASE DescribeFails
  BY <1>1, DescribeFailsInv DEF ListSGs
<1>2. ASSUME NEW page \in SUBSET Sgs,
             Page(LiveSgs \ {DefaultSg}, page, "listSGs", "ingress"),
             perms' = perms \cup {r \in rules : r.owner \in page}, UNCHANGED attached
      PROVE  IInv'
  <2>1. VpcStep /\ Calls'
    BY <1>2, Parts, Unaffected, CallsType DEF ListSGs, Page
  <2>2. /\ pc = "listSGs"
        /\ seen' = seen \cup page
        /\ \/ pc' = "listSGs" /\ todo' = todo
           \/ pc' = "ingress" /\ todo' = seen' /\ LiveSgs \ {DefaultSg} \subseteq seen'
        /\ UNCHANGED <<errs, result, attached, cur, count>>
    BY <1>2 DEF Page, Goto, ListSGs
  <2>3. perms' \subseteq Rules
    BY <1>2 DEF IInv, TypeOK, Ec2TypeOK
  <2>4. TypeOK'
    BY <2>1, <2>2, <2>3 DEF IInv, TypeOK, Ec2TypeOK, VpcStep, Vpc, Calls, Pcs, Resources
  <2>5. PcInv'
    BY <2>2 DEF IInv, PcInv, WithEni
  <2>6. SgLeft \subseteq LiveSgs \ {DefaultSg}
    BY Parts DEF SgLeft, StartType
  <2>7. SgInv'
    BY <2>1, <2>2, <2>6 DEF IInv, SgInv, AfterSgs, VpcStep
  <2>8. EniInv' /\ SubnetInv'
    BY <2>1, <2>2 DEF IInv, EniInv, SubnetInv, AfterEnis, WithEni, VpcStep
  <2> QED BY <2>1, <2>4, <2>5, <2>7, <2>8 DEF IInv, VpcStep
<1> QED BY <1>1, <1>2 DEF ListSGs

\* One revoke call, whatever becomes of it.
LEMMA RevokeEffect ==
  ASSUME IInv, NEW s \in Sgs, NEW dir, RevokeRules(s, dir), UNCHANGED start
  PROVE  VpcStep /\ Calls' /\ errs' \subseteq errs \cup {s} /\ UNCHANGED result
<1> DEFINE asked == {r \in perms : r.owner = s /\ r.dir = dir}
<1>1. errs' \subseteq errs \cup {s} /\ UNCHANGED result
  BY DEF RevokeRules, Collect
<1>2. CASE UNCHANGED ec2Vars /\ (UNCHANGED callVars \/ Refused(sg[s] = "live" /\ asked \subseteq rules) \/ Fault)
  <2>1. VpcStep
    BY <1>2, Parts, Unaffected
  <2>2. Calls'
    BY <1>2, Parts, CallsType DEF callVars, Calls
  <2> QED BY <1>1, <2>1, <2>2
<1>3. CASE RulesRevoked(asked) /\ (Served(sg[s] = "live") \/ Fault)
  <2>1. rules' \subseteq Rules /\ outside' \in Nat /\ UNCHANGED <<eni, sg, subnet>>
    BY <1>3, Parts DEF RulesRevoked, Vpc
  <2>2. VpcStep
    BY <2>1, Parts, RulesMove
  <2>3. Calls'
    BY <1>3, Parts, CallsType
  <2> QED BY <1>1, <2>2, <2>3
<1>4. \/ UNCHANGED ec2Vars /\ (UNCHANGED callVars \/ Refused(sg[s] = "live" /\ asked \subseteq rules) \/ Fault)
      \/ RulesRevoked(asked) /\ (Served(sg[s] = "live") \/ Fault)
  BY DEF RevokeRules
<1> QED BY <1>2, <1>3, <1>4

\* The two loops of the stage, and the loop of the next one.
LEMMA RevokeInv ==
  ASSUME IInv, VpcStep, Calls', pc \in {"ingress", "egress"}, pc' \in {"ingress", "egress"},
         todo' \subseteq todo, cur' \in Sgs, errs' \subseteq errs \cup Sgs,
         UNCHANGED <<result, seen, attached, perms, count>>
  PROVE  IInv'
<1>1. TypeOK'
  BY DEF IInv, TypeOK, Ec2TypeOK, VpcStep, Vpc, Calls, Pcs, Resources
<1>2. PcInv'
  BY DEF IInv, PcInv, WithEni
<1>3. EniInv' /\ SgInv' /\ SubnetInv'
  BY DEF IInv, PcInv, EniInv, SgInv, SubnetInv, AfterEnis, AfterSgs, WithEni, VpcStep
<1> QED BY <1>1, <1>2, <1>3 DEF IInv, VpcStep

LEMMA RevokeIngressInv == ASSUME IInv, NEW s \in Sgs, RevokeIngress(s) PROVE IInv'
<1>1. VpcStep /\ Calls' /\ errs' \subseteq errs \cup {s} /\ UNCHANGED result
  BY RevokeEffect DEF RevokeIngress
<1> QED BY <1>1, RevokeInv DEF RevokeIngress

LEMMA RevokeEgressInv == ASSUME IInv, RevokeEgress PROVE IInv'
<1>1. cur \in Sgs
  BY DEF RevokeEgress, IInv, PcInv
<1>2. VpcStep /\ Calls' /\ errs' \subseteq errs \cup {cur} /\ UNCHANGED result
  BY <1>1, RevokeEffect DEF RevokeEgress
<1> QED BY <1>1, <1>2, RevokeInv DEF RevokeEgress, loopVars

LEMMA RevokesDoneInv == ASSUME IInv, RevokesDone PROVE IInv'
<1>1. VpcStep /\ Calls'
  BY Parts, Unaffected DEF RevokesDone, callVars, Calls
<1>2. pc = "ingress" /\ pc' = "deleteSG" /\ todo' = seen
      /\ UNCHANGED <<errs, result, seen, attached, perms, cur, count>>
  BY DEF RevokesDone, Goto
<1>3. TypeOK'
  BY <1>1, <1>2 DEF IInv, TypeOK, Ec2TypeOK, VpcStep, Vpc, Calls, Pcs
<1>4. PcInv'
  BY <1>2 DEF IInv, PcInv, WithEni
<1>5. EniInv' /\ SgInv' /\ SubnetInv'
  BY <1>1, <1>2 DEF IInv, EniInv, SgInv, SubnetInv, AfterEnis, AfterSgs, WithEni, VpcStep
<1> QED BY <1>1, <1>3, <1>4, <1>5 DEF IInv, VpcStep

LEMMA SgDeletedEffect ==
  ASSUME IInv, NEW s \in Sgs, SgDeleted(s), UNCHANGED start
  PROVE  VpcStep /\ s \notin SgLeft'
<1>1. /\ sg' = [sg EXCEPT ![s] = "gone"] /\ rules' \subseteq Rules
      /\ outside' \in Nat /\ UNCHANGED <<eni, subnet>>
  BY Parts DEF SgDeleted, Vpc
<1> QED BY <1>1, Parts, SgMoves DEF StartType

\* A group leaves the loop gone, or named.
LEMMA DeleteSGInv == ASSUME IInv, NEW s \in Sgs, DeleteSG(s) PROVE IInv'
<1>1. /\ pc = "deleteSG" /\ todo' = todo \ {s}
      /\ UNCHANGED <<pc, seen, attached, perms, cur, count, start, result>>
  BY DEF DeleteSG, Collect
<1>2. /\ VpcStep
      /\ \/ s \notin SgLeft' /\ errs' = errs
         \/ errs' = errs \cup {s}
  <2>1. CASE SgDeleted(s) /\ Served(SgDeletable(s)) /\ Collect(s, FALSE)
    BY <1>1, <2>1, SgDeletedEffect DEF Collect
  <2>2. CASE Collect(s, TRUE) /\ (UNCHANGED ec2Vars \/ SgDeleted(s))
    BY <1>1, <2>2, SgDeletedEffect, Parts, Unaffected DEF Collect
  <2> QED BY <2>1, <2>2 DEF DeleteSG
<1>3. Calls'
  BY Parts, CallsType DEF DeleteSG
<1>4. TypeOK'
  BY <1>1, <1>2, <1>3 DEF IInv, TypeOK, Ec2TypeOK, VpcStep, Vpc, Calls, Resources
<1>5. PcInv'
  BY <1>1 DEF IInv, PcInv, WithEni
<1>6. EniInv' /\ SgInv' /\ SubnetInv'
  BY <1>1, <1>2 DEF IInv, PcInv, EniInv, SgInv, SubnetInv, AfterEnis, AfterSgs, WithEni, VpcStep
<1> QED BY <1>2, <1>4, <1>5, <1>6 DEF IInv, VpcStep

LEMMA SGsDoneInv == ASSUME IInv, SGsDone PROVE IInv'
<1>1. VpcStep /\ Calls'
  BY Parts, Unaffected DEF SGsDone, callVars, Calls
<1>2. pc = "deleteSG" /\ todo = {} /\ SgLeft' \subseteq errs /\ EniLeft' = {}
  BY <1>1 DEF SGsDone, IInv, SgInv, EniInv, AfterEnis, VpcStep
<1>3. CASE errs = {} /\ NextStage("listSubnets")
  <2>1. pc' = "listSubnets" /\ seen' = {} /\ UNCHANGED <<errs, result, attached, perms, todo, cur, count>>
    BY <1>3 DEF NextStage, Goto
  <2>2. TypeOK'
    BY <1>1, <1>2, <2>1 DEF IInv, TypeOK, Ec2TypeOK, VpcStep, Vpc, Calls, Pcs
  <2>3. PcInv'
    BY <1>2, <2>1 DEF IInv, PcInv, WithEni
  <2>4. EniInv' /\ SgInv' /\ SubnetInv'
    BY <1>1, <1>2, <1>3, <2>1 DEF IInv, PcInv, EniInv, SgInv, SubnetInv, WithEni, VpcStep
  <2> QED BY <1>1, <2>2, <2>3, <2>4 DEF IInv, VpcStep
<1>4. CASE errs # {} /\ Finish("sg", {})
  <2>1. pc' = "done" /\ result' = "sg" /\ UNCHANGED <<errs, loopVars>>
    BY <1>4 DEF Finish
  <2>2. TypeOK'
    BY <1>1, <2>1 DEF IInv, TypeOK, Ec2TypeOK, VpcStep, Vpc, Calls, Pcs, Failures, loopVars
  <2>3. PcInv'
    BY <2>1 DEF PcInv, WithEni
  <2>4. EniInv' /\ SgInv' /\ SubnetInv'
    BY <1>2, <2>1 DEF EniInv, SgInv, SubnetInv, AfterSgs, WithEni
  <2> QED BY <1>1, <2>2, <2>3, <2>4 DEF IInv, VpcStep
<1> QED BY <1>3, <1>4 DEF SGsDone

-----------------------------------------------------------------------------
(***************************************************************************)
(* The subnet stage.                                                       *)
(***************************************************************************)
LEMMA ListSubnetsInv == ASSUME IInv, ListSubnets PROVE IInv'
<1>1. CASE DescribeFails
  BY <1>1, DescribeFailsInv DEF ListSubnets
<1>2. ASSUME NEW page \in SUBSET Subnets,
             Page(LiveSubnets, page, "listSubnets", "deleteSubnet"),
             UNCHANGED <<attached, perms>>
      PROVE  IInv'
  <2>1. VpcStep /\ Calls'
    BY <1>2, Parts, Unaffected, CallsType DEF ListSubnets, Page
  <2>2. /\ pc = "listSubnets"
        /\ seen' = seen \cup page
        /\ \/ pc' = "listSubnets" /\ todo' = todo
           \/ pc' = "deleteSubnet" /\ todo' = seen' /\ LiveSubnets \subseteq seen'
        /\ UNCHANGED <<errs, result, cur, count>>
    BY <1>2 DEF Page, Goto, ListSubnets
  <2>3. TypeOK'
    BY <1>2, <2>1, <2>2 DEF IInv, TypeOK, Ec2TypeOK, VpcStep, Vpc, Calls, Pcs, Resources
  <2>4. PcInv'
    BY <2>2 DEF IInv, PcInv, WithEni
  <2>5. SubnetInv'
    BY <2>1, <2>2 DEF IInv, SubnetInv, PcInv, VpcStep, SubnetLeft
  <2>6. EniInv' /\ SgInv'
    BY <2>1, <2>2 DEF IInv, PcInv, EniInv, SgInv, AfterEnis, AfterSgs, WithEni, VpcStep
  <2> QED BY <2>1, <2>3, <2>4, <2>5, <2>6 DEF IInv, VpcStep
<1> QED BY <1>1, <1>2 DEF ListSubnets

LEMMA SubnetDeletedEffect ==
  ASSUME IInv, NEW n \in Subnets, SubnetDeleted(n), UNCHANGED start
  PROVE  VpcStep /\ n \notin SubnetLeft'
<1>1. /\ subnet' = [subnet EXCEPT ![n] = "gone"]
      /\ outside' \in Nat /\ UNCHANGED <<eni, sg, rules>>
  BY Parts DEF SubnetDeleted, Vpc
<1> QED BY <1>1, Parts, SubnetMoves DEF StartType

LEMMA DeleteSubnetInv == ASSUME IInv, NEW n \in Subnets, DeleteSubnet(n) PROVE IInv'
<1>1. /\ pc = "deleteSubnet" /\ todo' = todo \ {n}
      /\ UNCHANGED <<pc, seen, attached, perms, cur, count, start, result>>
  BY DEF DeleteSubnet, Collect
<1>2. /\ VpcStep
      /\ \/ n \notin SubnetLeft' /\ errs' = errs
         \/ errs' = errs \cup {n}
  <2>1. CASE SubnetDeleted(n) /\ Served(SubnetDeletable(n)) /\ Collect(n, FALSE)
    BY <1>1, <2>1, SubnetDeletedEffect DEF Collect
  <2>2. CASE Collect(n, TRUE) /\ (UNCHANGED ec2Vars \/ SubnetDeleted(n))
    BY <1>1, <2>2, SubnetDeletedEffect, Parts, Unaffected DEF Collect
  <2> QED BY <2>1, <2>2 DEF DeleteSubnet
<1>3. Calls'
  BY Parts, CallsType DEF DeleteSubnet
<1>4. TypeOK'
  BY <1>1, <1>2, <1>3 DEF IInv, TypeOK, Ec2TypeOK, VpcStep, Vpc, Calls, Resources
<1>5. PcInv'
  BY <1>1 DEF IInv, PcInv, WithEni
<1>6. EniInv' /\ SgInv' /\ SubnetInv'
  BY <1>1, <1>2 DEF IInv, PcInv, EniInv, SgInv, SubnetInv, AfterEnis, AfterSgs, WithEni, VpcStep
<1> QED BY <1>2, <1>4, <1>5, <1>6 DEF IInv, VpcStep

LEMMA SubnetsDoneInv == ASSUME IInv, SubnetsDone PROVE IInv'
<1>1. VpcStep /\ Calls'
  BY Parts, Unaffected DEF SubnetsDone, callVars, Calls
<1>2. todo = {} /\ SubnetLeft' \subseteq errs /\ EniLeft' = {} /\ SgLeft' = {}
  BY <1>1 DEF SubnetsDone, IInv, SgInv, EniInv, SubnetInv, AfterEnis, AfterSgs, VpcStep
<1>3. /\ pc' = "done" /\ UNCHANGED <<errs, loopVars>>
      /\ result' = IF errs = {} THEN "ok" ELSE "subnet"
  BY DEF SubnetsDone, Finish
<1>4. TypeOK'
  BY <1>1, <1>3 DEF IInv, TypeOK, Ec2TypeOK, VpcStep, Vpc, Calls, Pcs, Failures, loopVars
<1>5. PcInv'
  BY <1>3 DEF PcInv, WithEni
<1>6. EniInv' /\ SgInv' /\ SubnetInv'
  BY <1>2, <1>3 DEF EniInv, SgInv, SubnetInv, WithEni
<1> QED BY <1>1, <1>4, <1>5, <1>6 DEF IInv, VpcStep

-----------------------------------------------------------------------------
(***************************************************************************)
(* The other actors, and the whole.                                        *)
(***************************************************************************)
LEMMA OutsideStep == ASSUME IInv, Outside, UNCHANGED start PROVE VpcStep
<1>1. outside \in Nat
  BY Parts DEF Vpc
<1>2. outside' \in Nat
  BY <1>1 DEF Outside
<1>3. ASSUME NEW e \in Enis, OutsideEni(e) PROVE VpcStep
  <2>1. PICK to \in EniStatus \ {"unborn"} : eni' = [eni EXCEPT ![e] = to] /\ eni[e] # "gone"
    BY <1>3 DEF OutsideEni, EniStatus, LiveEnis
  <2> QED BY <1>2, <1>3, <2>1, Parts, EniMoves DEF OutsideEni, StartType
<1>4. ASSUME NEW s \in Sgs, OutsideSg(s) PROVE VpcStep
  <2>1. PICK to \in {"live", "gone"} :
          sg' = [sg EXCEPT ![s] = to] /\ (to = "live" => sg[s] = "unborn")
    BY <1>4 DEF OutsideSg
  <2>2. rules' \subseteq Rules /\ UNCHANGED <<eni, subnet>>
    BY <1>4, Parts DEF OutsideSg, Vpc
  <2> QED BY <1>2, <2>1, <2>2, Parts, SgMoves DEF StartType
<1>5. ASSUME NEW r \in Rules, OutsideRule(r) PROVE VpcStep
  <2>1. rules' \subseteq Rules /\ UNCHANGED <<eni, sg, subnet>>
    BY <1>5, Parts DEF OutsideRule, Vpc
  <2> QED BY <1>2, <2>1, Parts, RulesMove
<1>6. ASSUME NEW n \in Subnets, OutsideSubnet(n) PROVE VpcStep
  BY <1>2, <1>6, Parts, SubnetMoves DEF OutsideSubnet, StartType
<1> QED BY <1>3, <1>4, <1>5, <1>6 DEF Outside

LEMMA EnvironmentInv == ASSUME IInv, Environment PROVE IInv'
<1>1. UNCHANGED <<pc, loopVars, errs, result, start>>
  BY DEF Environment
<1>2. CASE Outside
  BY <1>1, <1>2, OutsideStep, Parts, StayInv DEF Outside, callVars, Calls
<1>3. CASE Cancel
  BY <1>1, <1>3, Unaffected, Parts, StayInv DEF Cancel, Calls
<1>4. ASSUME NEW e \in Enis, DetachDone(e), UNCHANGED callVars PROVE IInv'
  <2>1. "available" \in EniStatus \ {"unborn"} /\ eni[e] # "gone"
    BY <1>4 DEF DetachDone, EniStatus
  <2>2. outside' \in Nat
    BY <1>4, Parts DEF DetachDone, Vpc
  <2>3. VpcStep
    BY <1>1, <1>4, <2>1, <2>2, Parts, EniMoves DEF DetachDone, StartType
  <2> QED BY <1>1, <1>4, <2>3, Parts, StayInv DEF callVars, Calls
<1> QED BY <1>2, <1>3, <1>4 DEF Environment

LEMMA NextInv == ASSUME IInv, [Next]_vars PROVE IInv'
<1>1. CASE UNCHANGED vars
  BY <1>1, Unaffected, Parts, StayInv DEF vars, callVars, Calls
<1>2. CASE Environment
  BY <1>2, EnvironmentInv
<1>3. CASE CleanupVPCResources
  <2>1. CASE ListENIs \/ PollENI \/ DeleteENI \/ ENIsDone
    BY <2>1, ListENIsInv, PollENIInv, DeleteENIInv, ENIsDoneInv
  <2>2. CASE WaitSleep \/ RetrySleep
    BY <2>2, SleepInv DEF WaitSleep, RetrySleep, WithEni
  <2>3. CASE \E e \in Enis : DetachENI(e) \/ SkipDetach(e)
    BY <2>3, DetachENIInv, SkipDetachInv
  <2>4. CASE ListSGs \/ RevokeEgress \/ RevokesDone \/ SGsDone
    BY <2>4, ListSGsInv, RevokeEgressInv, RevokesDoneInv, SGsDoneInv
  <2>5. CASE \E s \in Sgs : RevokeIngress(s) \/ DeleteSG(s)
    BY <2>5, RevokeIngressInv, DeleteSGInv
  <2>6. CASE ListSubnets \/ SubnetsDone
    BY <2>6, ListSubnetsInv, SubnetsDoneInv
  <2>7. CASE \E n \in Subnets : DeleteSubnet(n)
    BY <2>7, DeleteSubnetInv
  <2> QED BY <1>3, <2>1, <2>2, <2>3, <2>4, <2>5, <2>6, <2>7 DEF CleanupVPCResources
<1> QED BY <1>1, <1>2, <1>3 DEF Next

\* The strengthening that is inductive: where to look for what still stands.
THEOREM Invariant == Spec => []IInv
BY InitInv, NextInv, PTL DEF Spec

\* Every variable keeps its type, in any VPC.
THEOREM TypeCorrect == Spec => []TypeOK
<1>1. IInv => TypeOK
  BY DEF IInv
<1> QED BY <1>1, Invariant, PTL

\* A nil error of CleanupVPCResources means that all that stood in the VPC at the
\* call is gone, however often others change the VPC and calls fail.
THEOREM OkSafe == Spec => []OkMeansStartGone
<1>1. IInv => OkMeansStartGone
  BY DEF IInv, EniInv, SgInv, SubnetInv, AfterEnis, AfterSgs, OkMeansStartGone, EniLeft, SgLeft, SubnetLeft
<1> QED BY <1>1, Invariant, PTL

\* The hard error of the group and of the subnet stage names all that still stands.
THEOREM ErrorSafe == Spec => []ErrorNamesWhatIsLeft
<1>1. IInv => ErrorNamesWhatIsLeft
  BY DEF IInv, EniInv, SgInv, SubnetInv, AfterEnis, AfterSgs, ErrorNamesWhatIsLeft, EniLeft, SgLeft, SubnetLeft
<1> QED BY <1>1, Invariant, PTL

-----------------------------------------------------------------------------
(***************************************************************************)
(* VpcCleanup implements CascadeDelete.                                    *)
(***************************************************************************)
EniPcs == {"listENIs", "eachENI"} \cup WithEni
SgPcs == {"listSGs", "ingress", "egress", "deleteSG"}
SubnetPcs == {"listSubnets", "deleteSubnet"}

LEMMA Stages ==
  ASSUME IInv
  PROVE  /\ pc \in EniPcs => Stage = 1
         /\ pc \in SgPcs => Stage = 2
         /\ pc \in SubnetPcs => Stage = 3
BY DEF IInv, PcInv, Stage, EniPcs, SgPcs, SubnetPcs, WithEni

LEMMA NextStages ==
  ASSUME IInv'
  PROVE  /\ pc' \in EniPcs => Stage' = 1
         /\ pc' \in SgPcs => Stage' = 2
         /\ pc' \in SubnetPcs => Stage' = 3
BY DEF IInv, PcInv, Stage, EniPcs, SgPcs, SubnetPcs, WithEni

\* The three kinds as the tuple the refinement mapping makes of them.
AllLive == <<LiveEnis, LiveSgs, LiveSubnets>>
Goal == <<start.eni, start.sg, start.subnet>>

LEMMA Kinds3 == Cascade!Kinds = 1..3 /\ \A k \in 1..3 : k = 1 \/ k = 2 \/ k = 3
BY DEF Cascade!Kinds

\* A step that changes neither the stage nor what is live.
LEMMA StutterMaps ==
  ASSUME Stage' = Stage, UNCHANGED <<LiveEnis, LiveSgs, LiveSubnets, start, outside>>
  PROVE  UNCHANGED Cascade!cascadeVars
BY DEF Cascade!cascadeVars

\* One resource of the current stage is gone, and perhaps the call with it.
LEMMA DropMaps ==
  /\ \A e \in LiveEnis :
       /\ Stage = 1 /\ LiveEnis' = LiveEnis \ {e} /\ UNCHANGED <<LiveSgs, LiveSubnets>>
       => Cascade!DropOne
  /\ \A s \in LiveSgs \ {DefaultSg} :
       /\ Stage = 2 /\ LiveSgs' = LiveSgs \ {s} /\ UNCHANGED <<LiveEnis, LiveSubnets>>
       => Cascade!DropOne
  /\ \A n \in LiveSubnets :
       /\ Stage = 3 /\ LiveSubnets' = LiveSubnets \ {n} /\ UNCHANGED <<LiveEnis, LiveSgs>>
       => Cascade!DropOne
<1>1. ASSUME NEW e \in LiveEnis, Stage = 1, LiveEnis' = LiveEnis \ {e}, UNCHANGED <<LiveSgs, LiveSubnets>>
      PROVE  Cascade!DropOne
  <2>1. e # DefaultSg /\ e \in <<LiveEnis, LiveSgs, LiveSubnets>>[1]
    BY Ec2Assumption DEF LiveEnis
  <2>2. <<LiveEnis \ {e}, LiveSgs, LiveSubnets>> =
          [<<LiveEnis, LiveSgs, LiveSubnets>> EXCEPT ![1] = @ \ {e}]
    OBVIOUS
  <2> QED BY <1>1, <2>1, <2>2 DEF Cascade!DropOne
<1>2. ASSUME NEW s \in LiveSgs \ {DefaultSg}, Stage = 2, LiveSgs' = LiveSgs \ {s}, UNCHANGED <<LiveEnis, LiveSubnets>>
      PROVE  Cascade!DropOne
  <2>1. s \in <<LiveEnis, LiveSgs, LiveSubnets>>[2] \ {DefaultSg}
    OBVIOUS
  <2>2. <<LiveEnis, LiveSgs \ {s}, LiveSubnets>> =
          [<<LiveEnis, LiveSgs, LiveSubnets>> EXCEPT ![2] = @ \ {s}]
    OBVIOUS
  <2> QED BY <1>2, <2>1, <2>2 DEF Cascade!DropOne
<1>3. ASSUME NEW n \in LiveSubnets, Stage = 3, LiveSubnets' = LiveSubnets \ {n}, UNCHANGED <<LiveEnis, LiveSgs>>
      PROVE  Cascade!DropOne
  <2>1. n # DefaultSg /\ n \in <<LiveEnis, LiveSgs, LiveSubnets>>[3]
    BY Ec2Assumption DEF LiveSubnets
  <2>2. <<LiveEnis, LiveSgs, LiveSubnets \ {n}>> =
          [<<LiveEnis, LiveSgs, LiveSubnets>> EXCEPT ![3] = @ \ {n}]
    OBVIOUS
  <2> QED BY <1>3, <2>1, <2>2 DEF Cascade!DropOne
<1> QED BY <1>1, <1>2, <1>3

\* The four ways a step of the cleanup can map to one of CascadeDelete.
LEMMA StepMaps ==
  ASSUME UNCHANGED <<start, outside>>, Stage \in 1..3,
         UNCHANGED <<LiveEnis, LiveSgs, LiveSubnets>> \/ Cascade!DropOne,
         \/ Stage' \in {Stage, 0}
         \/ /\ UNCHANGED <<LiveEnis, LiveSgs, LiveSubnets>> /\ Stage' = Stage + 1
            /\ AllLive[Stage] \cap Goal[Stage] = {}
  PROVE  [Cascade!CascadeNext]_Cascade!cascadeVars
<1>1. CASE Stage' = 0
  BY <1>1, Kinds3 DEF Cascade!Fail, Cascade!CascadeNext
<1>2. CASE Stage' = Stage /\ Cascade!DropOne
  BY <1>2, Kinds3 DEF Cascade!Remove, Cascade!CascadeNext
<1>3. CASE Stage' = Stage /\ UNCHANGED <<LiveEnis, LiveSgs, LiveSubnets>>
  BY <1>3, StutterMaps
<1>4. CASE /\ UNCHANGED <<LiveEnis, LiveSgs, LiveSubnets>> /\ Stage' = Stage + 1
           /\ AllLive[Stage] \cap Goal[Stage] = {}
  BY <1>4, Kinds3 DEF AllLive, Goal, Cascade!Advance, Cascade!CascadeNext
<1> QED BY <1>1, <1>2, <1>3, <1>4

LEMMA FinishMaps ==
  ASSUME NEW f \in Failures, NEW named, Finish(f, named)
  PROVE  Stage' = 0
BY DEF Finish, Failures, Stage

LEMMA Ec2Same ==
  ASSUME UNCHANGED ec2Vars
  PROVE  UNCHANGED <<LiveEnis, LiveSgs, LiveSubnets, outside>>
BY DEF ec2Vars, LiveEnis, LiveSgs, LiveSubnets

\* Listing, waiting and revoking remove nothing; they stay in their stage or fail.
LEMMA ListMaps ==
  ASSUME IInv, IInv', ListENIs \/ ListSGs \/ ListSubnets
  PROVE  [Cascade!CascadeNext]_Cascade!cascadeVars
<1>1. UNCHANGED ec2Vars /\ UNCHANGED start
  BY DEF ListENIs, ListSGs, ListSubnets
<1>2. CASE Finish("describe", {})
  <2>1. Stage \in 1..3
    BY Stages DEF ListENIs, ListSGs, ListSubnets, EniPcs, SgPcs, SubnetPcs
  <2> QED BY <1>1, <1>2, <2>1, FinishMaps, Ec2Same, StepMaps DEF Failures
<1>3. CASE ListENIs /\ ~Finish("describe", {})
  <2>1. pc \in EniPcs /\ pc' \in EniPcs
    BY <1>3 DEF ListENIs, DescribeFails, Page, Goto, EniPcs, WithEni
  <2> QED BY <1>1, <2>1, Stages, NextStages, Ec2Same, StepMaps
<1>4. CASE ListSGs /\ ~Finish("describe", {})
  <2>1. pc \in SgPcs /\ pc' \in SgPcs
    BY <1>4 DEF ListSGs, DescribeFails, Page, Goto, SgPcs
  <2> QED BY <1>1, <2>1, Stages, NextStages, Ec2Same, StepMaps
<1>5. CASE ListSubnets /\ ~Finish("describe", {})
  <2>1. pc \in SubnetPcs /\ pc' \in SubnetPcs
    BY <1>5 DEF ListSubnets, DescribeFails, Page, Goto, SubnetPcs
  <2> QED BY <1>1, <2>1, Stages, NextStages, Ec2Same, StepMaps
<1> QED BY <1>2, <1>3, <1>4, <1>5

LEMMA WaitMaps ==
  ASSUME IInv, IInv', PollENI \/ WaitSleep \/ RetrySleep \/ \E e \in Enis : SkipDetach(e)
  PROVE  [Cascade!CascadeNext]_Cascade!cascadeVars
<1>1. UNCHANGED ec2Vars /\ UNCHANGED start /\ pc \in EniPcs
  BY DEF PollENI, WaitSleep, RetrySleep, Sleep, SkipDetach, EniPcs, WithEni
<1>2. pc' \in EniPcs \/ \E f \in {"wait", "delete"} : Finish(f, {cur})
  BY DEF PollENI, WaitSleep, RetrySleep, Sleep, SkipDetach, Goto, EniPcs, WithEni
<1>3. Stage = 1 /\ Stage' \in {1, 0}
  BY <1>1, <1>2, Stages, NextStages, FinishMaps DEF Failures
<1> QED BY <1>1, <1>3, Ec2Same, StepMaps

\* A detach changes the status of an ENI, not that it is there.
LEMMA DetachMaps ==
  ASSUME IInv, IInv', NEW e \in Enis, DetachENI(e)
  PROVE  [Cascade!CascadeNext]_Cascade!cascadeVars
<1>1. UNCHANGED start /\ pc \in EniPcs
  BY DEF DetachENI, EniPcs
<1>2. pc' \in EniPcs \/ Finish("detach", {e})
  BY DEF DetachENI, Goto, EniPcs, WithEni
<1>3. UNCHANGED ec2Vars \/ (Attached(e) /\ DetachTakesEffect(e))
  BY DEF DetachENI, Served
<1>4. UNCHANGED <<LiveEnis, LiveSgs, LiveSubnets, outside>>
  <2>1. CASE Attached(e) /\ DetachTakesEffect(e)
    BY <2>1, Parts DEF Attached, DetachTakesEffect, Vpc, LiveEnis, LiveSgs, LiveSubnets
  <2> QED BY <1>3, <2>1, Ec2Same
<1>5. Stage = 1 /\ Stage' \in {1, 0}
  BY <1>1, <1>2, Stages, NextStages, FinishMaps DEF Failures
<1> QED BY <1>1, <1>4, <1>5, StepMaps

LEMMA DeleteENIMaps ==
  ASSUME IInv, IInv', DeleteENI
  PROVE  [Cascade!CascadeNext]_Cascade!cascadeVars
<1>1. UNCHANGED start /\ pc = "deleteENI" /\ pc \in EniPcs
  BY DEF DeleteENI, EniPcs, WithEni
<1>2. pc' \in EniPcs \/ Finish("delete", {cur})
  BY DEF DeleteENI, Goto, EniPcs, WithEni
<1>3. UNCHANGED ec2Vars \/ (eni[cur] = "available" /\ EniDeleted(cur))
  BY DEF DeleteENI, Served
<1>4. Stage = 1 /\ Stage' \in {1, 0}
  BY <1>1, <1>2, Stages, NextStages, FinishMaps DEF Failures
<1>5. /\ UNCHANGED outside
      /\ UNCHANGED <<LiveEnis, LiveSgs, LiveSubnets>> \/ Cascade!DropOne
  <2>1. CASE eni[cur] = "available" /\ EniDeleted(cur)
    <3>1. cur \in Enis
      BY <1>1 DEF IInv, PcInv, WithEni
    <3>2. cur \in LiveEnis /\ LiveEnis' = LiveEnis \ {cur}
      BY <2>1, <3>1, Parts DEF EniDeleted, Vpc, LiveEnis
    <3>3. UNCHANGED <<LiveSgs, LiveSubnets, outside>>
      BY <2>1 DEF EniDeleted, LiveSgs, LiveSubnets
    <3> QED BY <1>4, <3>2, <3>3, DropMaps
  <2> QED BY <1>3, <2>1, Ec2Same
<1> QED BY <1>1, <1>4, <1>5, StepMaps

LEMMA ENIsDoneMaps ==
  ASSUME IInv, IInv', ENIsDone
  PROVE  [Cascade!CascadeNext]_Cascade!cascadeVars
<1>1. UNCHANGED ec2Vars /\ UNCHANGED start /\ pc \in EniPcs /\ pc' \in SgPcs
  BY DEF ENIsDone, NextStage, Goto, EniPcs, SgPcs
<1>2. start.eni \cap LiveEnis = {}
  BY DEF ENIsDone, IInv, EniInv, EniLeft
<1>3. Stage = 1 /\ Stage' = 2
  BY <1>1, Stages, NextStages
<1>4. AllLive[Stage] \cap Goal[Stage] = {}
  BY <1>2, <1>3 DEF AllLive, Goal
<1> QED BY <1>1, <1>3, <1>4, Ec2Same, StepMaps

\* Revoking changes rules only.
LEMMA RevokeMaps ==
  ASSUME IInv, IInv', RevokeEgress \/ RevokesDone \/ \E s \in Sgs : RevokeIngress(s)
  PROVE  [Cascade!CascadeNext]_Cascade!cascadeVars
<1>1. UNCHANGED start /\ pc \in SgPcs /\ pc' \in SgPcs
  BY DEF RevokeEgress, RevokesDone, RevokeIngress, Goto, SgPcs
<1>2. UNCHANGED <<eni, sg, subnet, outside>>
  BY DEF RevokeEgress, RevokesDone, RevokeIngress, RevokeRules, RulesRevoked, ec2Vars
<1>3. UNCHANGED <<LiveEnis, LiveSgs, LiveSubnets>>
  BY <1>2 DEF LiveEnis, LiveSgs, LiveSubnets
<1> QED BY <1>1, <1>2, <1>3, Stages, NextStages, StepMaps

LEMMA DeleteSGMaps ==
  ASSUME IInv, IInv', NEW s \in Sgs, DeleteSG(s)
  PROVE  [Cascade!CascadeNext]_Cascade!cascadeVars
<1>1. UNCHANGED start /\ pc \in SgPcs /\ pc' \in SgPcs
  BY DEF DeleteSG, SgPcs
<1>2. Stage = 2 /\ Stage' = 2
  BY <1>1, Stages, NextStages
<1>3. UNCHANGED ec2Vars \/ (SgDeletable(s) /\ SgDeleted(s))
  BY DEF DeleteSG, Served
<1>4. /\ UNCHANGED outside
      /\ UNCHANGED <<LiveEnis, LiveSgs, LiveSubnets>> \/ Cascade!DropOne
  <2>1. CASE SgDeletable(s) /\ SgDeleted(s)
    <3>1. s \in LiveSgs \ {DefaultSg} /\ LiveSgs' = LiveSgs \ {s}
      BY <2>1, Parts DEF SgDeletable, SgDeleted, Vpc, LiveSgs
    <3>2. UNCHANGED <<LiveEnis, LiveSubnets, outside>>
      BY <2>1 DEF SgDeleted, LiveEnis, LiveSubnets
    <3> QED BY <1>2, <3>1, <3>2, DropMaps
  <2> QED BY <1>3, <2>1, Ec2Same
<1> QED BY <1>1, <1>2, <1>4, StepMaps

LEMMA SGsDoneMaps ==
  ASSUME IInv, IInv', SGsDone
  PROVE  [Cascade!CascadeNext]_Cascade!cascadeVars
<1>1. UNCHANGED ec2Vars /\ UNCHANGED start /\ pc \in SgPcs /\ Stage = 2
  BY Stages DEF SGsDone, SgPcs
<1>2. CASE errs = {} /\ NextStage("listSubnets")
  <2>1. start.sg \cap LiveSgs = {}
    BY <1>2 DEF SGsDone, IInv, SgInv, SgLeft
  <2>2. AllLive[Stage] \cap Goal[Stage] = {}
    BY <1>1, <2>1 DEF AllLive, Goal
  <2>3. Stage' = 3
    BY <1>2, NextStages DEF NextStage, Goto, SubnetPcs
  <2> QED BY <1>1, <2>2, <2>3, Ec2Same, StepMaps
<1>3. CASE Finish("sg", {})
  BY <1>1, <1>3, FinishMaps, Ec2Same, StepMaps DEF Failures
<1> QED BY <1>2, <1>3 DEF SGsDone

LEMMA DeleteSubnetMaps ==
  ASSUME IInv, IInv', NEW n \in Subnets, DeleteSubnet(n)
  PROVE  [Cascade!CascadeNext]_Cascade!cascadeVars
<1>1. UNCHANGED start /\ pc \in SubnetPcs /\ pc' \in SubnetPcs
  BY DEF DeleteSubnet, SubnetPcs
<1>2. Stage = 3 /\ Stage' = 3
  BY <1>1, Stages, NextStages
<1>3. UNCHANGED ec2Vars \/ (SubnetDeletable(n) /\ SubnetDeleted(n))
  BY DEF DeleteSubnet, Served
<1>4. /\ UNCHANGED outside
      /\ UNCHANGED <<LiveEnis, LiveSgs, LiveSubnets>> \/ Cascade!DropOne
  <2>1. CASE SubnetDeletable(n) /\ SubnetDeleted(n)
    <3>1. n \in LiveSubnets /\ LiveSubnets' = LiveSubnets \ {n}
      BY <2>1, Parts DEF SubnetDeletable, SubnetDeleted, Vpc, LiveSubnets
    <3>2. UNCHANGED <<LiveEnis, LiveSgs, outside>>
      BY <2>1 DEF SubnetDeleted, LiveEnis, LiveSgs
    <3> QED BY <1>2, <3>1, <3>2, DropMaps
  <2> QED BY <1>3, <2>1, Ec2Same
<1> QED BY <1>1, <1>2, <1>4, StepMaps

LEMMA SubnetsDoneMaps ==
  ASSUME IInv, IInv', SubnetsDone
  PROVE  [Cascade!CascadeNext]_Cascade!cascadeVars
<1>1. UNCHANGED ec2Vars /\ UNCHANGED start /\ pc \in SubnetPcs /\ Stage = 3
  BY Stages DEF SubnetsDone, SubnetPcs
<1>2. CASE errs = {} /\ Finish("ok", {})
  <2>1. start.subnet \cap LiveSubnets = {}
    BY <1>2 DEF SubnetsDone, IInv, SubnetInv, SubnetLeft
  <2>2. AllLive[Stage] \cap Goal[Stage] = {}
    BY <1>1, <2>1 DEF AllLive, Goal
  <2>3. Stage' = 4
    BY <1>2 DEF Finish, Stage
  <2> QED BY <1>1, <2>2, <2>3, Ec2Same, StepMaps
<1>3. CASE Finish("subnet", {})
  BY <1>1, <1>3, FinishMaps, Ec2Same, StepMaps DEF Failures
<1> QED BY <1>2, <1>3 DEF SubnetsDone

\* The other actors may do anything except bring back what is gone.
LEMMA EnvironmentMaps ==
  ASSUME IInv, IInv', Environment
  PROVE  [Cascade!CascadeNext]_Cascade!cascadeVars
<1>1. UNCHANGED start /\ Stage' = Stage
  BY DEF Environment, Stage
<1>2. CASE Cancel
  BY <1>1, <1>2, Ec2Same, StutterMaps DEF Cancel
<1>3. ASSUME NEW e \in Enis, DetachDone(e)
      PROVE  [Cascade!CascadeNext]_Cascade!cascadeVars
  <2>1. UNCHANGED <<LiveEnis, LiveSgs, LiveSubnets, outside>>
    BY <1>3, Parts DEF DetachDone, Vpc, LiveEnis, LiveSgs, LiveSubnets
  <2> QED BY <1>1, <2>1, StutterMaps
<1>4. CASE Outside
  <2>1. VpcStep
    BY <1>1, <1>4, OutsideStep
  <2>2. /\ (LiveEnis' \ LiveEnis) \cap start.eni = {}
        /\ (LiveSgs' \ LiveSgs) \cap start.sg = {}
        /\ (LiveSubnets' \ LiveSubnets) \cap start.subnet = {}
    BY <2>1 DEF VpcStep, EniLeft, SgLeft, SubnetLeft
  <2>3. \A k \in Cascade!Kinds : (AllLive'[k] \ AllLive[k]) \cap Goal[k] = {}
    BY <2>2, Kinds3 DEF AllLive, Goal
  <2>4. AllLive' \in [Cascade!Kinds -> SUBSET Resources]
    BY Kinds3 DEF AllLive, Resources, LiveEnis, LiveSgs, LiveSubnets
  <2>5. outside' = outside + 1
    BY <1>4 DEF Outside
  <2> QED BY <1>1, <2>3, <2>4, <2>5 DEF AllLive, Goal, Cascade!Others, Cascade!CascadeNext
<1> QED BY <1>2, <1>3, <1>4 DEF Environment

LEMMA InitMaps == Init => Cascade!CascadeInit
<1> SUFFICES ASSUME Init PROVE Cascade!CascadeInit
  OBVIOUS
<1>1. Stage = 1
  BY DEF Init, Stage
<1>2. AllLive \in [Cascade!Kinds -> SUBSET Resources]
  <2>1. {LiveEnis, LiveSgs, LiveSubnets} \subseteq SUBSET Resources
    BY DEF Resources, LiveEnis, LiveSgs, LiveSubnets
  <2> QED BY <2>1, Kinds3 DEF AllLive
<1>3. /\ start.eni = LiveEnis \ {DefaultSg}
      /\ start.sg = LiveSgs \ {DefaultSg}
      /\ start.subnet = LiveSubnets \ {DefaultSg}
  BY Ec2Assumption DEF Init, LiveEnis, LiveSubnets
<1>4. Goal = [k \in Cascade!Kinds |-> AllLive[k] \ {DefaultSg}]
  BY <1>3, Kinds3 DEF Goal, AllLive
<1>5. outside = 0
  BY DEF Init, Ec2Init
<1> QED BY <1>1, <1>2, <1>4, <1>5 DEF AllLive, Goal, Cascade!CascadeInit

LEMMA NextMaps ==
  ASSUME IInv, IInv', [Next]_vars
  PROVE  [Cascade!CascadeNext]_Cascade!cascadeVars
<1>1. CASE UNCHANGED vars
  BY <1>1, Ec2Same, StutterMaps DEF vars, Stage
<1>2. CASE CleanupVPCResources
  BY <1>2, ListMaps, WaitMaps, DetachMaps, DeleteENIMaps, ENIsDoneMaps, RevokeMaps,
     DeleteSGMaps, SGsDoneMaps, DeleteSubnetMaps, SubnetsDoneMaps DEF CleanupVPCResources
<1> QED BY <1>1, <1>2, EnvironmentMaps DEF Next

\* In any VPC, the cleanup empties ENIs, then groups, then subnets, leaves a kind only
\* when what stood there at the call is gone, and never touches the default group.
THEOREM Implements == Spec => ImplementsCascade
<1>1. Init => Cascade!CascadeInit
  BY InitMaps
<1>2. IInv /\ IInv' /\ [Next]_vars => [Cascade!CascadeNext]_Cascade!cascadeVars
  <2> SUFFICES ASSUME IInv, IInv', [Next]_vars
               PROVE  [Cascade!CascadeNext]_Cascade!cascadeVars
    OBVIOUS
  <2> QED BY NextMaps
<1> QED BY <1>1, <1>2, Invariant, PTL DEF Spec, ImplementsCascade, Cascade!CascadeSpec

-----------------------------------------------------------------------------
(***************************************************************************)
(* A cleanup that nobody disturbs.                                         *)
(***************************************************************************)
\* No rule of the default group refers to another group.  The cleanup does not revoke
\* the rules of the default group, so one that did would keep that group in use.
DefaultKeepsToItself ==
  \A r \in Rules : r.owner = DefaultSg => r.peer \notin Sgs \ {DefaultSg}

Quiet == outside = 0 /\ faults = 0 /\ ~ctxDone

\* Nothing has failed, and nothing has appeared since the call.
NothingWrong ==
  /\ result \in {"none", "ok", "wait"}
  /\ pc # "retry"
  /\ pc # "done" => errs = {}
  /\ LiveEnis \subseteq start.eni
  /\ \A r \in rules : r.owner \in LiveSgs

\* ENIs the cleanup has not reached are as the listing showed them.
AsListed(S) == \A e \in S : e \in Enis /\ eni[e] = (IF e \in attached THEN "in-use" ELSE "available")

EnisKnown ==
  /\ pc \in EniPcs => perms = {}
  /\ pc = "listENIs" =>
       attached \subseteq seen /\ AsListed(seen) /\ \A e \in Enis : eni[e] # "detaching"
  /\ pc \in {"eachENI"} \cup WithEni => AsListed(todo)
  /\ pc \in WithEni => cur \notin todo
  /\ pc = "deleteENI" => eni[cur] \in {"available", "gone"}

\* A listed rule that has not been revoked yet.
Pending(r) == r.owner \in todo \/ (pc = "egress" /\ r.owner = cur /\ r.dir = "egress")

Revoking ==
  /\ seen = LiveSgs \ {DefaultSg}
  /\ \A r \in rules : r.owner \in seen => r \in perms /\ Pending(r)
  /\ \A r \in perms : Pending(r) => r \in rules
  /\ pc = "egress" => cur \in seen \ todo

RulesKnown ==
  /\ pc = "listSGs" =>
       seen \subseteq LiveSgs \ {DefaultSg} /\ perms = {r \in rules : r.owner \in seen}
  /\ pc \in {"ingress", "egress"} => Revoking
  /\ pc = "deleteSG" =>
       todo \subseteq LiveSgs \ {DefaultSg} /\ \A r \in rules : r.owner = DefaultSg

SubnetsKnown ==
  /\ pc = "listSubnets" => seen \subseteq LiveSubnets
  /\ pc = "deleteSubnet" => todo \subseteq LiveSubnets

Smooth == NothingWrong /\ EnisKnown /\ RulesKnown /\ SubnetsKnown
QuietInv == Quiet => Smooth

LEMMA StillQuiet == ASSUME IInv, [Next]_vars, Quiet' PROVE Quiet
<1>1. Vpc /\ Calls
  BY Parts
<1>2. outside' = outside \/ outside' = outside + 1
  BY DEF Next, Environment, CleanupVPCResources, Outside, Cancel, DetachDone, vars, ec2Vars,
     ListENIs, DetachENI, SkipDetach, DetachTakesEffect, PollENI, WaitSleep, RetrySleep, Sleep,
     DeleteENI, EniDeleted, ENIsDone, ListSGs, RevokeIngress, RevokeEgress, RevokeRules,
     RulesRevoked, RevokesDone, DeleteSG, SgDeleted, SGsDone, ListSubnets, DeleteSubnet,
     SubnetDeleted, SubnetsDone
<1>3. \/ UNCHANGED callVars \/ Fault \/ Cancel
      \/ \E ok \in BOOLEAN : Served(ok) \/ Refused(ok)
  BY DEF Next, Environment, CleanupVPCResources, Outside, vars,
     ListENIs, Page, DescribeFails, DetachENI, SkipDetach, PollENI, WaitSleep, RetrySleep, Sleep,
     DeleteENI, ENIsDone, ListSGs, RevokeIngress, RevokeEgress, RevokeRules,
     RevokesDone, DeleteSG, SGsDone, ListSubnets, DeleteSubnet, SubnetsDone, Served, Refused
<1>4. faults' = 0 /\ ~ctxDone' => faults = 0 /\ ~ctxDone
  BY <1>1, <1>3 DEF Fault, Cancel, Served, Refused, callVars, Calls
<1> QED BY <1>1, <1>2, <1>4 DEF Quiet, Vpc

\* While nobody disturbs it, a call that EC2 would accept is served.
LEMMA QuietCalls ==
  ASSUME Quiet, Quiet'
  PROVE  ~Fault /\ \A ok : Refused(ok) => ~ok
BY DEF Quiet, Fault, Refused

LEMMA NoEniLeft == ASSUME IInv, Smooth, AfterEnis PROVE LiveEnis = {}
BY DEF IInv, EniInv, Smooth, NothingWrong, EniLeft

\* Steps that only move the cleanup, in a VPC that stays as it is.
LEMMA EniStageSmooth ==
  ASSUME IInv, Smooth, pc \in EniPcs, pc' \in EniPcs \ {"retry"}, pc' # "listENIs",
         UNCHANGED <<errs, result, perms, start, sg, rules>>,
         LiveEnis' \subseteq LiveEnis, AsListed(todo)', pc' \in WithEni => cur' \notin todo',
         pc' = "deleteENI" => eni'[cur'] \in {"available", "gone"}
  PROVE  Smooth'
<1>1. NothingWrong'
  BY DEF Smooth, NothingWrong, LiveSgs, EniPcs, WithEni
<1>2. EnisKnown'
  BY DEF Smooth, EnisKnown, EniPcs
<1>3. RulesKnown' /\ SubnetsKnown'
  BY DEF RulesKnown, SubnetsKnown, EniPcs, WithEni
<1> QED BY <1>1, <1>2, <1>3 DEF Smooth

LEMMA ListENIsSmooth == ASSUME IInv, Smooth, Quiet, Quiet', ListENIs PROVE Smooth'
<1>1. pc = "listENIs" /\ UNCHANGED <<eni, sg, rules, start>>
  BY DEF ListENIs, ec2Vars
<1>2. PICK page \in SUBSET Enis :
        /\ Page(LiveEnis, page, "listENIs", "eachENI")
        /\ attached' = attached \cup {e \in page : Attached(e)}
        /\ UNCHANGED perms
  BY QuietCalls DEF ListENIs, DescribeFails
<1>3. /\ page \subseteq LiveEnis \ seen /\ seen' = seen \cup page
      /\ pc' = "listENIs" \/ (pc' = "eachENI" /\ todo' = seen')
      /\ UNCHANGED <<errs, result>>
  BY <1>2 DEF Page, Goto
<1>4. /\ attached \subseteq seen /\ AsListed(seen) /\ \A e \in Enis : eni[e] # "detaching"
      /\ perms = {}
  BY <1>1 DEF Smooth, EnisKnown, EniPcs
<1>5. \A e \in page : eni[e] = (IF e \in attached' THEN "in-use" ELSE "available")
  BY <1>2, <1>3, <1>4, Parts DEF LiveEnis, Attached, Vpc, EniStatus
<1>6. attached' \subseteq seen' /\ \A e \in seen : e \in attached' <=> e \in attached
  BY <1>2, <1>3, <1>4
<1>7. AsListed(seen)'
  BY <1>1, <1>3, <1>4, <1>5, <1>6 DEF AsListed
<1>8. NothingWrong'
  BY <1>1, <1>3 DEF Smooth, NothingWrong, LiveEnis, LiveSgs
<1>9. EnisKnown' /\ RulesKnown' /\ SubnetsKnown'
  BY <1>1, <1>2, <1>3, <1>4, <1>6, <1>7
     DEF EnisKnown, RulesKnown, SubnetsKnown, AsListed, EniPcs, WithEni
<1> QED BY <1>8, <1>9 DEF Smooth

LEMMA DetachENISmooth == ASSUME IInv, Smooth, Quiet, Quiet', NEW e \in Enis, DetachENI(e) PROVE Smooth'
<1>1. pc = "eachENI" /\ e \in todo /\ e \in attached /\ UNCHANGED start
  BY DEF DetachENI
<1>2. AsListed(todo) /\ eni[e] = "in-use"
  BY <1>1 DEF Smooth, EnisKnown, AsListed
<1>3. Attached(e)
  BY <1>2 DEF Attached
<1>4. /\ DetachTakesEffect(e) /\ Goto("pollENI")
      /\ todo' = todo \ {e} /\ cur' = e /\ UNCHANGED <<seen, attached, perms>>
  BY <1>3, QuietCalls DEF DetachENI
<1>5. /\ eni' = [eni EXCEPT ![e] = "detaching"] /\ UNCHANGED <<sg, rules>>
      /\ pc' = "pollENI" /\ UNCHANGED <<errs, result>>
  BY <1>4 DEF DetachTakesEffect, Goto
<1>6. AsListed(todo)'
  BY <1>2, <1>4, <1>5, Parts DEF AsListed, Vpc
<1>7. LiveEnis' \subseteq LiveEnis
  BY <1>2, <1>5, Parts DEF LiveEnis, Vpc
<1> QED BY <1>1, <1>4, <1>5, <1>6, <1>7, EniStageSmooth DEF EniPcs, WithEni

LEMMA SkipDetachSmooth == ASSUME IInv, Smooth, NEW e \in Enis, SkipDetach(e) PROVE Smooth'
<1>1. /\ pc = "eachENI" /\ e \in todo /\ e \notin attached
      /\ pc' = "deleteENI" /\ todo' = todo \ {e} /\ cur' = e
      /\ UNCHANGED <<errs, result, eni, sg, rules, start, attached, perms>>
  BY DEF SkipDetach, Goto, ec2Vars
<1>2. AsListed(todo)
  BY <1>1 DEF Smooth, EnisKnown
<1>3. AsListed(todo)' /\ eni'[cur'] = "available" /\ LiveEnis' = LiveEnis
  BY <1>1, <1>2 DEF AsListed, LiveEnis
<1> QED BY <1>1, <1>3, EniStageSmooth DEF EniPcs, WithEni

\* The wait may end the call, whatever is left.
LEMMA WaitFailsSmooth ==
  ASSUME Smooth, Finish("wait", {cur}), UNCHANGED <<ec2Vars, start>>
  PROVE  Smooth'
BY DEF Smooth, Finish, NothingWrong, EnisKnown, RulesKnown, SubnetsKnown, EniPcs, WithEni,
   LiveEnis, LiveSgs, ec2Vars

LEMMA PollENISmooth == ASSUME IInv, Smooth, Quiet, Quiet', PollENI PROVE Smooth'
<1>1. CASE Finish("wait", {cur})
  BY <1>1, WaitFailsSmooth DEF PollENI
<1>2. CASE ~Finish("wait", {cur})
  <2>1. /\ pc = "pollENI" /\ UNCHANGED <<eni, sg, rules, start, attached, perms, todo, cur>>
        /\ IF eni[cur] \in {"available", "gone"}
             THEN Goto("deleteENI") /\ count' = 0
             ELSE Goto("sleep") /\ UNCHANGED count
    BY <1>2 DEF PollENI, ec2Vars
  <2>2. /\ UNCHANGED <<errs, result>>
        /\ pc' \in {"deleteENI", "sleep"} /\ (pc' = "deleteENI" => eni[cur] \in {"available", "gone"})
    BY <2>1 DEF Goto
  <2>3. AsListed(todo)' /\ cur \notin todo /\ LiveEnis' = LiveEnis
    BY <2>1 DEF Smooth, EnisKnown, AsListed, LiveEnis, WithEni
  <2> QED BY <2>1, <2>2, <2>3, EniStageSmooth DEF EniPcs, WithEni
<1> QED BY <1>1, <1>2

LEMMA SleepSmooth == ASSUME IInv, Smooth, Quiet, WaitSleep \/ RetrySleep PROVE Smooth'
<1>1. pc = "sleep" /\ WaitSleep
  BY DEF WaitSleep, RetrySleep, Sleep, Smooth, NothingWrong
<1>2. /\ pc' = "pollENI"
      /\ UNCHANGED <<errs, result, eni, sg, rules, start, attached, perms, todo, cur>>
  BY <1>1 DEF WaitSleep, Sleep, Quiet, Goto, ec2Vars
<1>3. AsListed(todo)' /\ cur \notin todo /\ LiveEnis' = LiveEnis
  BY <1>1, <1>2 DEF Smooth, EnisKnown, AsListed, LiveEnis, WithEni
<1> QED BY <1>1, <1>2, <1>3, EniStageSmooth DEF EniPcs, WithEni

\* What is deleted is available, or gone already: the delete is never retried.
LEMMA DeleteENISmooth == ASSUME IInv, Smooth, Quiet, Quiet', DeleteENI PROVE Smooth'
<1>1. /\ pc = "deleteENI" /\ cur \in Enis /\ UNCHANGED start
      /\ eni[cur] \in {"available", "gone"} /\ AsListed(todo) /\ cur \notin todo
  BY DEF DeleteENI, IInv, PcInv, Smooth, EnisKnown, WithEni
<1>2. /\ EniDeleted(cur) \/ UNCHANGED ec2Vars
      /\ Goto("eachENI") /\ UNCHANGED loopVars
  BY <1>1, QuietCalls DEF DeleteENI
<1>3. /\ pc' = "eachENI" /\ UNCHANGED <<errs, result, attached, perms, todo, cur, sg, rules>>
      /\ eni' = eni \/ eni' = [eni EXCEPT ![cur] = "gone"]
  BY <1>2 DEF Goto, loopVars, EniDeleted, ec2Vars
<1>4. AsListed(todo)' /\ LiveEnis' \subseteq LiveEnis
  BY <1>1, <1>3, Parts DEF AsListed, LiveEnis, Vpc
<1> QED BY <1>1, <1>3, <1>4, EniStageSmooth DEF EniPcs, WithEni

LEMMA ENIsDoneSmooth == ASSUME IInv, Smooth, ENIsDone PROVE Smooth'
<1>1. /\ pc = "eachENI" /\ pc' = "listSGs" /\ seen' = {}
      /\ UNCHANGED <<errs, result, perms, eni, sg, rules, start>>
  BY DEF ENIsDone, NextStage, Goto, ec2Vars
<1>2. NothingWrong' /\ perms = {}
  BY <1>1 DEF Smooth, NothingWrong, EnisKnown, EniPcs, LiveEnis, LiveSgs
<1> QED BY <1>1, <1>2 DEF Smooth, EnisKnown, RulesKnown, SubnetsKnown, EniPcs, WithEni

\* In the later stages there is no ENI left and none is known to the loop.
LEMMA LaterEnis ==
  ASSUME pc' \in SgPcs \cup SubnetPcs \cup {"done"}
  PROVE  EnisKnown'
BY DEF EnisKnown, EniPcs, SgPcs, SubnetPcs, WithEni

LEMMA ListSGsSmooth == ASSUME IInv, Smooth, Quiet, Quiet', ListSGs PROVE Smooth'
<1>1. pc = "listSGs" /\ UNCHANGED <<eni, sg, rules, subnet, start>>
  BY DEF ListSGs, ec2Vars
<1>2. PICK page \in SUBSET Sgs :
        /\ Page(LiveSgs \ {DefaultSg}, page, "listSGs", "ingress")
        /\ perms' = perms \cup {r \in rules : r.owner \in page}
  BY QuietCalls DEF ListSGs, DescribeFails
<1>3. /\ page \subseteq (LiveSgs \ {DefaultSg}) \ seen /\ seen' = seen \cup page
      /\ \/ pc' = "listSGs"
         \/ pc' = "ingress" /\ todo' = seen' /\ page = (LiveSgs \ {DefaultSg}) \ seen
      /\ UNCHANGED <<errs, result>>
  BY <1>2 DEF Page, Goto
<1>4. seen \subseteq LiveSgs \ {DefaultSg} /\ perms = {r \in rules : r.owner \in seen}
  BY <1>1 DEF Smooth, RulesKnown
<1>5. seen' \subseteq LiveSgs' \ {DefaultSg} /\ perms' = {r \in rules' : r.owner \in seen'}
  BY <1>1, <1>2, <1>3, <1>4 DEF LiveSgs
<1>6. pc' = "ingress" => Revoking'
  BY <1>1, <1>3, <1>4, <1>5 DEF Revoking, Pending, LiveSgs
<1>7. NothingWrong'
  BY <1>1, <1>3 DEF Smooth, NothingWrong, LiveEnis, LiveSgs
<1>8. RulesKnown' /\ SubnetsKnown'
  BY <1>3, <1>5, <1>6 DEF RulesKnown, SubnetsKnown
<1> QED BY <1>3, <1>7, <1>8, LaterEnis DEF Smooth, SgPcs

\* A revoke of listed rules that are all in force takes them, and nothing else.
LEMMA RevokeServed ==
  ASSUME Quiet, Quiet', NEW s \in LiveSgs, NEW dir, RevokeRules(s, dir),
         {r \in perms : r.owner = s /\ r.dir = dir} \subseteq rules
  PROVE  /\ rules' = rules \ {r \in perms : r.owner = s /\ r.dir = dir}
         /\ UNCHANGED <<eni, sg, subnet, errs, result>>
<1> DEFINE asked == {r \in perms : r.owner = s /\ r.dir = dir}
<1>1. sg[s] = "live"
  BY DEF LiveSgs
<1>2. CASE asked = {}
  <2>1. UNCHANGED ec2Vars /\ Collect(s, FALSE)
    BY <1>1, <1>2, QuietCalls DEF RevokeRules
  <2> QED BY <1>2, <2>1 DEF ec2Vars, Collect
<1>3. CASE asked # {}
  <2>1. RulesRevoked(asked) /\ Collect(s, FALSE)
    BY <1>1, <1>3, QuietCalls DEF RevokeRules
  <2> QED BY <2>1 DEF RulesRevoked, Collect
<1> QED BY <1>2, <1>3

LEMMA RevokeIngressSmooth ==
  ASSUME IInv, Smooth, Quiet, Quiet', NEW s \in Sgs, RevokeIngress(s) PROVE Smooth'
<1> DEFINE asked == {r \in perms : r.owner = s /\ r.dir = "ingress"}
<1>1. /\ pc = "ingress" /\ s \in todo /\ pc' = "egress" /\ todo' = todo \ {s} /\ cur' = s
      /\ RevokeRules(s, "ingress") /\ UNCHANGED <<seen, perms, start>>
  BY DEF RevokeIngress
<1>2. Revoking /\ s \in seen
  BY <1>1 DEF Smooth, RulesKnown, IInv, TypeOK
<1>3. s \in LiveSgs /\ asked \subseteq rules
  BY <1>1, <1>2 DEF Revoking, Pending
<1>4. rules' = rules \ asked /\ UNCHANGED <<eni, sg, subnet, errs, result>>
  BY <1>1, <1>3, RevokeServed
<1>5. \A r \in rules : r.dir \in {"ingress", "egress"}
  BY Parts, Ec2Assumption DEF Vpc, Rule
<1>6. Revoking'
  <2>1. seen' = LiveSgs' \ {DefaultSg} /\ cur' \in seen' \ todo'
    BY <1>1, <1>2, <1>4 DEF Revoking, LiveSgs
  <2>2. \A r \in rules' : r.owner \in seen' => r \in perms' /\ Pending(r)'
    BY <1>1, <1>2, <1>4, <1>5 DEF Revoking, Pending
  <2>3. \A r \in perms' : Pending(r)' => r \in rules'
    BY <1>1, <1>2, <1>4 DEF Revoking, Pending
  <2> QED BY <2>1, <2>2, <2>3 DEF Revoking
<1>7. NothingWrong'
  BY <1>1, <1>4 DEF Smooth, NothingWrong, LiveEnis, LiveSgs
<1> QED BY <1>1, <1>6, <1>7, LaterEnis DEF Smooth, RulesKnown, SubnetsKnown, SgPcs

LEMMA RevokeEgressSmooth ==
  ASSUME IInv, Smooth, Quiet, Quiet', RevokeEgress PROVE Smooth'
<1> DEFINE asked == {r \in perms : r.owner = cur /\ r.dir = "egress"}
<1>1. /\ pc = "egress" /\ pc' = "ingress"
      /\ RevokeRules(cur, "egress") /\ UNCHANGED <<seen, perms, todo, cur, start>>
  BY DEF RevokeEgress, loopVars
<1>2. Revoking
  BY <1>1 DEF Smooth, RulesKnown
<1>3. cur \in LiveSgs /\ asked \subseteq rules
  BY <1>1, <1>2 DEF Revoking, Pending
<1>4. rules' = rules \ asked /\ UNCHANGED <<eni, sg, subnet, errs, result>>
  BY <1>1, <1>3, RevokeServed
<1>5. Revoking'
  <2>1. seen' = LiveSgs' \ {DefaultSg}
    BY <1>1, <1>2, <1>4 DEF Revoking, LiveSgs
  <2>2. \A r \in rules' : r.owner \in seen' => r \in perms' /\ Pending(r)'
    BY <1>1, <1>2, <1>4 DEF Revoking, Pending
  <2>3. \A r \in perms' : Pending(r)' => r \in rules'
    BY <1>1, <1>2, <1>4 DEF Revoking, Pending
  <2> QED BY <1>1, <2>1, <2>2, <2>3 DEF Revoking
<1>6. NothingWrong'
  BY <1>1, <1>4 DEF Smooth, NothingWrong, LiveEnis, LiveSgs
<1> QED BY <1>1, <1>5, <1>6, LaterEnis DEF Smooth, RulesKnown, SubnetsKnown, SgPcs

\* After the revoke pass only the default group has rules.
LEMMA RevokesDoneSmooth == ASSUME IInv, Smooth, RevokesDone PROVE Smooth'
<1>1. /\ pc = "ingress" /\ todo = {} /\ pc' = "deleteSG" /\ todo' = seen
      /\ UNCHANGED <<errs, result, eni, sg, rules, start>>
  BY DEF RevokesDone, Goto, ec2Vars
<1>2. Revoking
  BY <1>1 DEF Smooth, RulesKnown
<1>3. \A r \in rules : r.owner = DefaultSg
  BY <1>1, <1>2 DEF Smooth, NothingWrong, Revoking, Pending
<1>4. NothingWrong'
  BY <1>1 DEF Smooth, NothingWrong, LiveEnis, LiveSgs
<1>5. RulesKnown' /\ SubnetsKnown'
  BY <1>1, <1>2, <1>3 DEF Revoking, RulesKnown, SubnetsKnown, LiveSgs
<1> QED BY <1>1, <1>4, <1>5, LaterEnis DEF Smooth, SgPcs

\* No ENI and no rule keeps a listed group in use.
LEMMA DeleteSGSmooth ==
  ASSUME DefaultKeepsToItself, IInv, Smooth, Quiet, Quiet', NEW s \in Sgs, DeleteSG(s)
  PROVE  Smooth'
<1>1. pc = "deleteSG" /\ pc' = pc /\ s \in todo /\ todo' = todo \ {s} /\ UNCHANGED start
  BY DEF DeleteSG
<1>2. s \in LiveSgs \ {DefaultSg} /\ todo \subseteq LiveSgs \ {DefaultSg}
      /\ \A r \in rules : r.owner = DefaultSg
  BY <1>1 DEF Smooth, RulesKnown
<1>3. LiveEnis = {}
  BY <1>1, NoEniLeft DEF AfterEnis
<1>4. \A r \in rules : r.peer # s
  BY <1>2, Parts DEF DefaultKeepsToItself, Vpc
<1>5. SgDeletable(s)
  BY <1>2, <1>3, <1>4 DEF SgDeletable, SgInUse, LiveSgs
<1>6. SgDeleted(s) /\ Collect(s, FALSE)
  BY <1>5, QuietCalls DEF DeleteSG
<1>7. /\ sg' = [sg EXCEPT ![s] = "gone"] /\ rules' = rules \ RulesOf(s)
      /\ UNCHANGED <<eni, subnet, errs, result>>
  BY <1>6 DEF SgDeleted, Collect
<1>8. LiveSgs' = LiveSgs \ {s}
  BY <1>7, Parts DEF LiveSgs, Vpc
<1>9. NothingWrong'
  BY <1>1, <1>7, <1>8 DEF Smooth, NothingWrong, LiveEnis, RulesOf
<1>10. RulesKnown' /\ SubnetsKnown'
  BY <1>1, <1>2, <1>7, <1>8 DEF RulesKnown, SubnetsKnown
<1> QED BY <1>1, <1>9, <1>10, LaterEnis DEF Smooth, SgPcs

LEMMA SGsDoneSmooth == ASSUME IInv, Smooth, SGsDone PROVE Smooth'
<1>1. pc = "deleteSG" /\ errs = {} /\ UNCHANGED <<eni, sg, rules, start>>
  BY DEF SGsDone, Smooth, NothingWrong, ec2Vars
<1>2. pc' = "listSubnets" /\ seen' = {} /\ UNCHANGED <<errs, result>>
  BY <1>1 DEF SGsDone, NextStage, Goto
<1>3. NothingWrong'
  BY <1>1, <1>2 DEF Smooth, NothingWrong, LiveEnis, LiveSgs
<1> QED BY <1>2, <1>3, LaterEnis DEF Smooth, RulesKnown, SubnetsKnown, SubnetPcs

LEMMA ListSubnetsSmooth == ASSUME IInv, Smooth, Quiet, Quiet', ListSubnets PROVE Smooth'
<1>1. pc = "listSubnets" /\ UNCHANGED <<eni, sg, rules, subnet, start>>
  BY DEF ListSubnets, ec2Vars
<1>2. PICK page \in SUBSET Subnets : Page(LiveSubnets, page, "listSubnets", "deleteSubnet")
  BY QuietCalls DEF ListSubnets, DescribeFails
<1>3. /\ seen' \subseteq seen \cup LiveSubnets
      /\ pc' = "listSubnets" \/ (pc' = "deleteSubnet" /\ todo' = seen')
      /\ UNCHANGED <<errs, result>>
  BY <1>2 DEF Page, Goto
<1>4. NothingWrong'
  BY <1>1, <1>3 DEF Smooth, NothingWrong, LiveEnis, LiveSgs
<1>5. RulesKnown' /\ SubnetsKnown'
  BY <1>1, <1>3 DEF Smooth, RulesKnown, SubnetsKnown, LiveSubnets
<1> QED BY <1>3, <1>4, <1>5, LaterEnis DEF Smooth, SubnetPcs

LEMMA DeleteSubnetSmooth ==
  ASSUME IInv, Smooth, Quiet, Quiet', NEW n \in Subnets, DeleteSubnet(n)
  PROVE  Smooth'
<1>1. pc = "deleteSubnet" /\ pc' = pc /\ n \in todo /\ todo' = todo \ {n} /\ UNCHANGED start
  BY DEF DeleteSubnet
<1>2. todo \subseteq LiveSubnets
  BY <1>1 DEF Smooth, SubnetsKnown
<1>3. LiveEnis = {}
  BY <1>1, NoEniLeft DEF AfterEnis
<1>4. SubnetDeletable(n)
  BY <1>1, <1>2, <1>3 DEF SubnetDeletable, LiveSubnets
<1>5. SubnetDeleted(n) /\ Collect(n, FALSE)
  BY <1>4, QuietCalls DEF DeleteSubnet
<1>6. /\ subnet' = [subnet EXCEPT ![n] = "gone"]
      /\ UNCHANGED <<eni, sg, rules, errs, result>>
  BY <1>5 DEF SubnetDeleted, Collect
<1>7. NothingWrong'
  BY <1>1, <1>6 DEF Smooth, NothingWrong, LiveEnis, LiveSgs
<1>8. RulesKnown' /\ SubnetsKnown'
  BY <1>1, <1>2, <1>6, Parts DEF RulesKnown, SubnetsKnown, LiveSubnets, Vpc
<1> QED BY <1>1, <1>7, <1>8, LaterEnis DEF Smooth, SubnetPcs

LEMMA SubnetsDoneSmooth == ASSUME IInv, Smooth, SubnetsDone PROVE Smooth'
<1>1. pc = "deleteSubnet" /\ errs = {} /\ UNCHANGED <<eni, sg, rules, start>>
  BY DEF SubnetsDone, Smooth, NothingWrong, ec2Vars
<1>2. pc' = "done" /\ result' = "ok"
  BY <1>1 DEF SubnetsDone, Finish
<1>3. NothingWrong'
  BY <1>1, <1>2 DEF Smooth, NothingWrong, LiveEnis, LiveSgs
<1> QED BY <1>2, <1>3, LaterEnis DEF Smooth, RulesKnown, SubnetsKnown

\* The only thing that happens by itself is that a detached ENI becomes available.
LEMMA DetachDoneSmooth ==
  ASSUME IInv, Smooth, NEW e \in Enis, DetachDone(e),
         UNCHANGED <<pc, loopVars, errs, result, start>>
  PROVE  Smooth'
<1>1. /\ eni[e] = "detaching" /\ eni' = [eni EXCEPT ![e] = "available"]
      /\ UNCHANGED <<sg, rules, subnet, seen, attached, perms, todo, cur>>
  BY DEF DetachDone, loopVars
<1>2. LiveEnis' = LiveEnis
  BY <1>1, Parts DEF LiveEnis, Vpc
<1>3. NothingWrong'
  BY <1>1, <1>2 DEF Smooth, NothingWrong, LiveSgs
<1>4. pc # "listENIs"
  BY <1>1 DEF Smooth, EnisKnown
<1>5. AsListed(todo) => AsListed(todo)'
  BY <1>1, Parts DEF AsListed, Vpc
<1>6. cur \in Enis /\ eni[cur] \in {"available", "gone"} => eni'[cur] = eni[cur]
  BY <1>1, Parts DEF Vpc
<1>7. EnisKnown'
  BY <1>1, <1>4, <1>5, <1>6 DEF Smooth, EnisKnown, IInv, PcInv, WithEni
<1>8. RulesKnown' /\ SubnetsKnown'
  BY <1>1 DEF Smooth, RulesKnown, SubnetsKnown, Revoking, Pending, LiveSgs, LiveSubnets
<1> QED BY <1>3, <1>7, <1>8 DEF Smooth

LEMMA QuietNext ==
  ASSUME DefaultKeepsToItself, IInv, QuietInv, [Next]_vars PROVE QuietInv'
<1> SUFFICES ASSUME Quiet' PROVE Smooth'
  BY DEF QuietInv
<1>1. Quiet /\ Smooth
  BY StillQuiet DEF QuietInv
<1>2. CASE UNCHANGED vars
  BY <1>1, <1>2 DEF vars, ec2Vars, callVars, loopVars, Smooth, NothingWrong, EnisKnown, AsListed,
     RulesKnown, Revoking, Pending, SubnetsKnown, LiveEnis, LiveSgs, LiveSubnets
<1>3. CASE Environment
  <2>1. ~Outside /\ ~Cancel
    BY <1>1, Parts DEF Outside, Cancel, Quiet, Vpc
  <2> QED BY <1>1, <1>3, <2>1, DetachDoneSmooth DEF Environment
<1>4. CASE CleanupVPCResources
  <2>1. CASE ListENIs \/ PollENI \/ DeleteENI \/ ENIsDone \/ WaitSleep \/ RetrySleep
    BY <1>1, <2>1, ListENIsSmooth, PollENISmooth, DeleteENISmooth, ENIsDoneSmooth, SleepSmooth
  <2>2. CASE \E e \in Enis : DetachENI(e) \/ SkipDetach(e)
    BY <1>1, <2>2, DetachENISmooth, SkipDetachSmooth
  <2>3. CASE ListSGs \/ RevokeEgress \/ RevokesDone \/ SGsDone
    BY <1>1, <2>3, ListSGsSmooth, RevokeEgressSmooth, RevokesDoneSmooth, SGsDoneSmooth
  <2>4. CASE \E s \in Sgs : RevokeIngress(s) \/ DeleteSG(s)
    BY <1>1, <2>4, RevokeIngressSmooth, DeleteSGSmooth
  <2>5. CASE ListSubnets \/ SubnetsDone \/ \E n \in Subnets : DeleteSubnet(n)
    BY <1>1, <2>5, ListSubnetsSmooth, SubnetsDoneSmooth, DeleteSubnetSmooth
  <2> QED BY <1>4, <2>1, <2>2, <2>3, <2>4, <2>5 DEF CleanupVPCResources
<1> QED BY <1>2, <1>3, <1>4 DEF Next

LEMMA QuietAtStart == Init => QuietInv
<1> SUFFICES ASSUME Init PROVE Smooth
  BY DEF QuietInv
<1>1. /\ pc = "listENIs" /\ seen = {} /\ attached = {} /\ perms = {} /\ todo = {} /\ errs = {}
      /\ result = "none" /\ start.eni = LiveEnis
      /\ eni \in [Enis -> {"unborn", "in-use", "available"}]
      /\ \A r \in rules : r \in Rules /\ r.owner \in LiveSgs \cup {Cidr}
  BY DEF Init, Ec2Init
<1>2. \A r \in rules : r.owner \in LiveSgs
  BY <1>1, Ec2Assumption DEF Rule
<1> QED BY <1>1, <1>2 DEF Smooth, NothingWrong, EnisKnown, AsListed, RulesKnown, SubnetsKnown, WithEni

\* In a VPC that is left alone, with calls that answer, only an ENI that does not detach
\* in time makes the cleanup fail, however many ENIs, groups and subnets there are and
\* however the rules of the groups refer to each other, if none of the default group's
\* refers to another group.
THEOREM UndisturbedCleanupSucceeds ==
  ASSUME DefaultKeepsToItself
  PROVE  Spec => []UndisturbedSucceeds
<1>1. IInv /\ QuietInv /\ [Next]_vars => QuietInv'
  BY QuietNext
<1>2. QuietInv => UndisturbedSucceeds
  BY DEF QuietInv, Quiet, Smooth, NothingWrong, UndisturbedSucceeds
<1> QED BY <1>1, <1>2, QuietAtStart, Invariant, PTL DEF Spec
-----------------------------------------------------------------------------
(***************************************************************************)
(* The cleanup's way to its end, in a VPC whose kinds are finite: it goes  *)
(* to a later stage, or less of the stage is left, or less of the work on  *)
(* the ENI or group in hand, or fewer of its polls and attempts.           *)
(***************************************************************************)
\* Sleeps before the deadline, and attempts of a delete, are counted within their bounds.
CountInv ==
  /\ pc = "pollENI" => count <= MaxPolls
  /\ pc = "sleep" => count < MaxPolls
  /\ pc = "deleteENI" => count < MaxTries
  /\ pc = "retry" => count < MaxTries - 1

Rank ==
  [listENIs |-> 7, eachENI |-> 6, pollENI |-> 6, sleep |-> 6, deleteENI |-> 6, retry |-> 6,
   listSGs |-> 5, ingress |-> 4, egress |-> 4, deleteSG |-> 3,
   listSubnets |-> 2, deleteSubnet |-> 1, done |-> 0]

\* What the listing may still show, or the loop has not reached.
Ahead ==
  CASE pc = "listENIs" -> Enis \ seen
    [] pc = "listSGs" -> Sgs \ seen
    [] pc = "listSubnets" -> Subnets \ seen
    [] OTHER -> todo

\* The steps of an ENI or a group: wait, delete; ingress, egress.
InHand == [pollENI |-> 2, sleep |-> 2, deleteENI |-> 1, retry |-> 1, egress |-> 1,
           listENIs |-> 0, eachENI |-> 0, listSGs |-> 0, ingress |-> 0, deleteSG |-> 0,
           listSubnets |-> 0, deleteSubnet |-> 0, done |-> 0]

\* Calls and sleeps that are left of a wait or a delete.
Turns ==
  CASE pc = "pollENI" -> 2 * (MaxPolls - count) + 1
    [] pc = "sleep" -> 2 * (MaxPolls - count)
    [] pc = "deleteENI" -> 2 * (MaxTries - count) + 1
    [] pc = "retry" -> 2 * (MaxTries - count)
    [] OTHER -> 0

Position == <<Rank[pc], Cardinality(Ahead), InHand[pc], Turns>>
Positions == Nat \X Nat \X Nat \X Nat

\* The order of positions.
Below(p, q) ==
  \/ p[1] < q[1]
  \/ p[1] = q[1] /\ p[2] < q[2]
  \/ p[1] = q[1] /\ p[2] = q[2] /\ p[3] < q[3]
  \/ p[1] = q[1] /\ p[2] = q[2] /\ p[3] = q[3] /\ p[4] < q[4]

FiniteVpc == IsFiniteSet(Enis) /\ IsFiniteSet(Sgs) /\ IsFiniteSet(Subnets)

LEMMA FiniteAhead == ASSUME FiniteVpc, TypeOK PROVE IsFiniteSet(Ahead)
<1>1. IsFiniteSet(Resources)
  BY FS_Union DEF FiniteVpc, Resources
<1>2. IsFiniteSet(todo)
  BY <1>1, FS_Subset DEF TypeOK
<1>3. IsFiniteSet(Enis \ seen) /\ IsFiniteSet(Sgs \ seen) /\ IsFiniteSet(Subnets \ seen)
  BY FS_Difference DEF FiniteVpc
<1> QED BY <1>2, <1>3 DEF Ahead

LEMMA PositionType ==
  ASSUME FiniteVpc, TypeOK, CountInv
  PROVE  Position \in Positions
<1>1. Cardinality(Ahead) \in Nat
  BY FiniteAhead, FS_CardinalityType
<1>2. Rank[pc] \in Nat /\ InHand[pc] \in Nat
  BY DEF TypeOK, Pcs, Rank, InHand
<1>3. Turns \in Nat
  BY VpcAssumption DEF TypeOK, Pcs, CountInv, Turns, VpcAssumption
<1> QED BY <1>1, <1>2, <1>3 DEF Position, Positions

\* A later stage, or the end.
LEMMA LaterStage ==
  ASSUME Rank[pc'] < Rank[pc]
  PROVE  Below(Position', Position)
BY DEF Below, Position

LEMMA FinishNear ==
  ASSUME TypeOK, pc # "done", NEW f, NEW named, Finish(f, named)
  PROVE  CountInv' /\ Below(Position', Position)
<1>1. pc' = "done"
  BY DEF Finish
<1>2. Rank[pc'] < Rank[pc]
  BY <1>1 DEF TypeOK, Pcs, Rank
<1> QED BY <1>1, <1>2, LaterStage DEF CountInv

\* One element less is ahead.
LEMMA FewerAhead ==
  ASSUME FiniteVpc, TypeOK, Rank[pc'] = Rank[pc], Ahead' \subseteq Ahead, Ahead' # Ahead
  PROVE  Below(Position', Position)
<1>1. IsFiniteSet(Ahead) /\ Cardinality(Ahead) \in Nat
  BY FiniteAhead, FS_CardinalityType
<1>2. IsFiniteSet(Ahead') /\ Cardinality(Ahead') <= Cardinality(Ahead)
      /\ Cardinality(Ahead') # Cardinality(Ahead)
  BY <1>1, FS_Subset
<1>3. Cardinality(Ahead') \in Nat
  BY <1>2, FS_CardinalityType
<1>4. Cardinality(Ahead') < Cardinality(Ahead)
  BY <1>1, <1>2, <1>3
<1> QED BY <1>4 DEF Below, Position

\* A page shows something new, or it is the last one.
LEMMA PageNear ==
  ASSUME FiniteVpc, TypeOK, NEW kind, NEW live \in SUBSET kind, NEW page, NEW first, NEW next,
         pc = first, Ahead = kind \ seen, pc' = first => Ahead' = kind \ seen',
         Rank[next] < Rank[first],
         Page(live, page, first, next)
  PROVE  Below(Position', Position)
<1>1. page \subseteq live \ seen /\ seen' = seen \cup page
  BY DEF Page
<1>2. CASE page # {} /\ Goto(first)
  <2>1. Rank[pc'] = Rank[pc] /\ Ahead' = kind \ seen'
    BY <1>2 DEF Goto
  <2>2. Ahead' \subseteq Ahead /\ Ahead' # Ahead
    BY <1>1, <1>2, <2>1
  <2> QED BY <2>1, <2>2, FewerAhead
<1>3. CASE Goto(next)
  BY <1>3, LaterStage DEF Goto
<1> QED BY <1>2, <1>3 DEF Page

LEMMA ListingsNear ==
  ASSUME FiniteVpc, TypeOK, ListENIs \/ ListSGs \/ ListSubnets
  PROVE  CountInv' /\ Below(Position', Position)
<1>1. pc # "done"
  BY DEF ListENIs, ListSGs, ListSubnets
<1>2. CASE DescribeFails
  BY <1>1, <1>2, FinishNear DEF DescribeFails
<1>3. CASE ListENIs /\ ~DescribeFails
  <2>1. pc = "listENIs" /\ Ahead = Enis \ seen
    BY <1>3 DEF ListENIs, Ahead
  <2>2. PICK page \in SUBSET Enis : Page(LiveEnis, page, "listENIs", "eachENI")
    BY <1>3 DEF ListENIs
  <2>3. pc' = "listENIs" => Ahead' = Enis \ seen'
    BY DEF Ahead
  <2>4. LiveEnis \in SUBSET Enis /\ Rank["eachENI"] < Rank["listENIs"]
    BY DEF LiveEnis, Rank
  <2>5. CountInv'
    BY <2>2 DEF Page, Goto, CountInv
  <2> QED BY <2>1, <2>2, <2>3, <2>4, <2>5, PageNear
<1>4. CASE ListSGs /\ ~DescribeFails
  <2>1. pc = "listSGs" /\ Ahead = Sgs \ seen
    BY <1>4 DEF ListSGs, Ahead
  <2>2. PICK page \in SUBSET Sgs : Page(LiveSgs \ {DefaultSg}, page, "listSGs", "ingress")
    BY <1>4 DEF ListSGs
  <2>3. pc' = "listSGs" => Ahead' = Sgs \ seen'
    BY DEF Ahead
  <2>4. LiveSgs \ {DefaultSg} \in SUBSET Sgs /\ Rank["ingress"] < Rank["listSGs"]
    BY DEF LiveSgs, Rank
  <2>5. CountInv'
    BY <2>2 DEF Page, Goto, CountInv
  <2> QED BY <2>1, <2>2, <2>3, <2>4, <2>5, PageNear
<1>5. CASE ListSubnets /\ ~DescribeFails
  <2>1. pc = "listSubnets" /\ Ahead = Subnets \ seen
    BY <1>5 DEF ListSubnets, Ahead
  <2>2. PICK page \in SUBSET Subnets : Page(LiveSubnets, page, "listSubnets", "deleteSubnet")
    BY <1>5 DEF ListSubnets
  <2>3. pc' = "listSubnets" => Ahead' = Subnets \ seen'
    BY DEF Ahead
  <2>4. LiveSubnets \in SUBSET Subnets /\ Rank["deleteSubnet"] < Rank["listSubnets"]
    BY DEF LiveSubnets, Rank
  <2>5. CountInv'
    BY <2>2 DEF Page, Goto, CountInv
  <2> QED BY <2>1, <2>2, <2>3, <2>4, <2>5, PageNear
<1> QED BY <1>2, <1>3, <1>4, <1>5

\* A loop takes its next element out of todo.
LEMMA TakeNear ==
  ASSUME FiniteVpc, TypeOK, NEW x \in todo, todo' = todo \ {x},
         pc \notin {"listENIs", "listSGs", "listSubnets"},
         pc' \notin {"listENIs", "listSGs", "listSubnets"}, Rank[pc'] = Rank[pc]
  PROVE  Below(Position', Position)
<1>1. Ahead = todo /\ Ahead' = todo'
  BY DEF Ahead
<1> QED BY <1>1, FewerAhead

LEMMA EachENINear ==
  ASSUME FiniteVpc, TypeOK, NEW e \in Enis, DetachENI(e) \/ SkipDetach(e)
  PROVE  CountInv' /\ Below(Position', Position)
<1>1. pc = "eachENI" /\ e \in todo
  BY DEF DetachENI, SkipDetach
<1>2. CASE Finish("detach", {e})
  BY <1>1, <1>2, FinishNear
<1>3. CASE pc' \in {"pollENI", "deleteENI"} /\ todo' = todo \ {e} /\ count' = 0
  <2>1. CountInv'
    BY <1>3, VpcAssumption DEF CountInv, VpcAssumption
  <2>2. Rank[pc'] = Rank[pc]
    BY <1>1, <1>3 DEF Rank
  <2> QED BY <1>1, <1>3, <2>1, <2>2, TakeNear
<1> QED BY <1>2, <1>3 DEF DetachENI, SkipDetach, Goto

\* The work on one ENI.
LEMMA InHandNear ==
  ASSUME pc \in {"eachENI"} \cup WithEni, pc' \in {"eachENI"} \cup WithEni, todo' = todo,
         InHand[pc'] < InHand[pc] \/ (InHand[pc'] = InHand[pc] /\ Turns' < Turns)
  PROVE  Below(Position', Position)
<1>1. Rank[pc'] = Rank[pc]
  BY DEF Rank, WithEni
<1>2. Ahead' = Ahead
  BY DEF Ahead, WithEni
<1> QED BY <1>1, <1>2 DEF Below, Position

LEMMA PollENINear ==
  ASSUME TypeOK, CountInv, PollENI
  PROVE  CountInv' /\ Below(Position', Position)
<1>1. pc = "pollENI" /\ count \in Nat /\ MaxPolls \in Nat
  BY VpcAssumption DEF PollENI, TypeOK, VpcAssumption
<1>2. CASE Finish("wait", {cur})
  BY <1>1, <1>2, FinishNear
<1>3. CASE count < MaxPolls /\ pc' = "deleteENI" /\ count' = 0 /\ todo' = todo
  <2>1. CountInv'
    BY <1>3, VpcAssumption DEF CountInv, VpcAssumption
  <2>2. InHand[pc'] < InHand[pc]
    BY <1>1, <1>3 DEF InHand
  <2> QED BY <1>1, <1>3, <2>1, <2>2, InHandNear DEF WithEni
<1>4. CASE count < MaxPolls /\ pc' = "sleep" /\ count' = count /\ todo' = todo
  <2>1. CountInv'
    BY <1>4 DEF CountInv
  <2>2. InHand[pc'] = InHand[pc] /\ Turns' < Turns
    BY <1>1, <1>4 DEF InHand, Turns
  <2> QED BY <1>1, <1>4, <2>1, <2>2, InHandNear DEF WithEni
<1> QED BY <1>2, <1>3, <1>4 DEF PollENI, Goto

LEMMA SleepsNear ==
  ASSUME TypeOK, CountInv, WaitSleep \/ RetrySleep
  PROVE  CountInv' /\ Below(Position', Position)
<1>1. pc \in {"sleep", "retry"} /\ count \in Nat /\ MaxPolls \in Nat /\ MaxTries \in Nat
  BY VpcAssumption DEF WaitSleep, RetrySleep, Sleep, TypeOK, VpcAssumption
<1>2. CASE \E f : Finish(f, {cur})
  BY <1>1, <1>2, FinishNear
<1>3. CASE pc = "sleep" /\ pc' = "pollENI" /\ count' = count + 1 /\ todo' = todo
  <2>1. CountInv'
    BY <1>1, <1>3 DEF CountInv
  <2>2. InHand[pc'] = InHand[pc] /\ Turns' < Turns
    BY <1>1, <1>3 DEF InHand, Turns
  <2> QED BY <1>3, <2>1, <2>2, InHandNear DEF WithEni
<1>4. CASE pc = "retry" /\ pc' = "deleteENI" /\ count' = count + 1 /\ todo' = todo
  <2>1. CountInv'
    BY <1>1, <1>4 DEF CountInv
  <2>2. InHand[pc'] = InHand[pc] /\ Turns' < Turns
    BY <1>1, <1>4 DEF InHand, Turns
  <2> QED BY <1>4, <2>1, <2>2, InHandNear DEF WithEni
<1> QED BY <1>2, <1>3, <1>4 DEF WaitSleep, RetrySleep, Sleep, Goto

LEMMA DeleteENINear ==
  ASSUME TypeOK, CountInv, DeleteENI
  PROVE  CountInv' /\ Below(Position', Position)
<1>1. pc = "deleteENI" /\ count \in Nat /\ MaxTries \in Nat
  BY VpcAssumption DEF DeleteENI, TypeOK, VpcAssumption
<1>2. CASE Finish("delete", {cur})
  BY <1>1, <1>2, FinishNear
<1>3. CASE pc' = "eachENI" /\ todo' = todo
  <2>1. CountInv' /\ InHand[pc'] < InHand[pc]
    BY <1>1, <1>3 DEF CountInv, InHand
  <2> QED BY <1>1, <1>3, <2>1, InHandNear DEF WithEni
<1>4. CASE count < MaxTries - 1 /\ pc' = "retry" /\ count' = count /\ todo' = todo
  <2>1. CountInv'
    BY <1>4 DEF CountInv
  <2>2. InHand[pc'] = InHand[pc] /\ Turns' < Turns
    BY <1>1, <1>4 DEF InHand, Turns
  <2> QED BY <1>1, <1>4, <2>1, <2>2, InHandNear DEF WithEni
<1> QED BY <1>2, <1>3, <1>4 DEF DeleteENI, Goto, loopVars

\* The loops over groups and subnets.
LEMMA LoopsNear ==
  ASSUME FiniteVpc, TypeOK,
         \/ \E s \in Sgs : RevokeIngress(s) \/ DeleteSG(s)
         \/ \E n \in Subnets : DeleteSubnet(n)
  PROVE  CountInv' /\ Below(Position', Position)
<1>1. PICK x \in todo :
        /\ todo' = todo \ {x}
        /\ \/ pc = "ingress" /\ pc' = "egress"
           \/ pc \in {"deleteSG", "deleteSubnet"} /\ pc' = pc
  BY DEF RevokeIngress, DeleteSG, DeleteSubnet
<1>2. CountInv' /\ Rank[pc'] = Rank[pc]
  BY <1>1 DEF CountInv, Rank
<1>3. /\ pc \notin {"listENIs", "listSGs", "listSubnets"}
      /\ pc' \notin {"listENIs", "listSGs", "listSubnets"}
  BY <1>1
<1> QED BY <1>1, <1>2, <1>3, TakeNear

LEMMA EgressNear ==
  ASSUME RevokeEgress
  PROVE  CountInv' /\ Below(Position', Position)
<1>1. pc = "egress" /\ pc' = "ingress" /\ todo' = todo
  BY DEF RevokeEgress, loopVars
<1>2. Rank[pc'] = Rank[pc] /\ Ahead' = Ahead /\ InHand[pc'] < InHand[pc]
  BY <1>1 DEF Rank, Ahead, InHand
<1> QED BY <1>1, <1>2 DEF CountInv, Below, Position

LEMMA StagesNear ==
  ASSUME TypeOK, ENIsDone \/ RevokesDone \/ SGsDone \/ SubnetsDone
  PROVE  CountInv' /\ Below(Position', Position)
<1>1. pc # "done"
  BY DEF ENIsDone, RevokesDone, SGsDone, SubnetsDone
<1>2. CASE \E f : Finish(f, {})
  BY <1>1, <1>2, FinishNear
<1>3. CASE \/ pc = "eachENI" /\ pc' = "listSGs"
           \/ pc = "ingress" /\ pc' = "deleteSG"
           \/ pc = "deleteSG" /\ pc' = "listSubnets"
  <2>1. CountInv' /\ Rank[pc'] < Rank[pc]
    BY <1>3 DEF CountInv, Rank
  <2> QED BY <2>1, LaterStage
<1> QED BY <1>2, <1>3 DEF ENIsDone, RevokesDone, SGsDone, SubnetsDone, NextStage, Goto

LEMMA CleanupNear ==
  ASSUME FiniteVpc, TypeOK, CountInv, CleanupVPCResources
  PROVE  CountInv' /\ Below(Position', Position)
<1>1. CASE ListENIs \/ ListSGs \/ ListSubnets
  BY <1>1, ListingsNear
<1>2. CASE \E e \in Enis : DetachENI(e) \/ SkipDetach(e)
  BY <1>2, EachENINear
<1>3. CASE PollENI \/ WaitSleep \/ DeleteENI \/ RetrySleep
  BY <1>3, PollENINear, SleepsNear, DeleteENINear
<1>4. CASE (\E s \in Sgs : RevokeIngress(s) \/ DeleteSG(s)) \/ \E n \in Subnets : DeleteSubnet(n)
  BY <1>4, LoopsNear
<1>5. CASE RevokeEgress
  BY <1>5, EgressNear
<1>6. CASE ENIsDone \/ RevokesDone \/ SGsDone \/ SubnetsDone
  BY <1>6, StagesNear
<1> QED BY <1>1, <1>2, <1>3, <1>4, <1>5, <1>6 DEF CleanupVPCResources

\* The other actors change what the cleanup finds, not how far it is.
LEMMA OthersDoNotDelay ==
  ASSUME [Next]_vars, ~CleanupVPCResources
  PROVE  UNCHANGED <<pc, result>> /\ (CountInv => CountInv') /\ Position' = Position
<1>1. UNCHANGED <<pc, seen, todo, count, result>>
  BY DEF Next, Environment, vars, loopVars
<1>2. Ahead' = Ahead /\ Turns' = Turns
  BY <1>1 DEF Ahead, Turns
<1> QED BY <1>1, <1>2 DEF CountInv, Position

\* An ENI is asked for its status at most MaxPolls times, and EC2 to delete it at most
\* MaxTries times, before the wait or the delete ends, whatever the answers are.
LEMMA CountInvHolds ==
  ASSUME FiniteVpc
  PROVE  Spec => [](TypeOK /\ CountInv)
<1>1. Init => CountInv
  BY DEF Init, CountInv
<1>2. TypeOK /\ CountInv /\ [Next]_vars => CountInv'
  BY CleanupNear, OthersDoNotDelay
<1> QED BY <1>1, <1>2, TypeCorrect, PTL DEF Spec

\* Every step of the cleanup strictly approaches its end in a well-founded order, and nobody
\* else, whatever they do in the VPC meanwhile, ever sends it back: each page of a listing
\* that is not the last shows something new, each ENI is waited for at most MaxPolls sleeps
\* and tried at most MaxTries times.
THEOREM Approaches ==
  ASSUME FiniteVpc
  PROVE  Spec => /\ [](Position \in Positions)
                 /\ [][IF CleanupVPCResources THEN Below(Position', Position)
                                              ELSE Position' = Position]_vars
<1>1. TypeOK /\ CountInv => Position \in Positions
  BY PositionType
<1>2. TypeOK /\ CountInv /\ [Next]_vars =>
        [IF CleanupVPCResources THEN Below(Position', Position) ELSE Position' = Position]_vars
  BY CleanupNear, OthersDoNotDelay
<1> QED BY <1>1, <1>2, CountInvHolds, PTL DEF Spec

Stands(p) == result = "none" /\ Position = p
Nearer(p) == result # "none" \/ Below(Position, p)

\* If the goroutine that runs the cleanup keeps taking steps until there is a result, then
\* from any position it comes to the result or strictly nearer to it.
THEOREM EndApproaches ==
  ASSUME FiniteVpc, NEW p \in Positions
  PROVE  Spec /\ [](result = "none" => <><<CleanupVPCResources>>_vars)
           => [](Stands(p) => <>Nearer(p))
<1>1. TypeOK /\ CountInv /\ Stands(p) /\ [Next]_vars => Stands(p)' \/ Nearer(p)'
  BY CleanupNear, OthersDoNotDelay DEF Stands, Nearer
<1>2. TypeOK /\ CountInv /\ Stands(p) /\ CleanupVPCResources => Nearer(p)'
  BY CleanupNear DEF Stands, Nearer
<1>3. Stands(p) => result = "none"
  BY DEF Stands
<1> QED BY <1>1, <1>2, <1>3, CountInvHolds, PTL DEF Spec

-----------------------------------------------------------------------------
(***************************************************************************)
(* What the refinement gives the cleanup.                                  *)
(***************************************************************************)
LEMMA StageRange == Stage \in 0..4 /\ Stage' \in 0..4
BY DEF Stage

LEMMA CascadeDrops ==
  ASSUME Cascade!DropOne, Stage \in 1..3
  PROVE  \A k \in 1..3 :
           /\ AllLive'[k] \subseteq AllLive[k]
           /\ AllLive'[k] # AllLive[k] => k = Stage /\ AllLive[k] \cap {DefaultSg} \subseteq AllLive'[k]
<1>1. PICK r \in AllLive[Stage] \ {DefaultSg} : AllLive' = [AllLive EXCEPT ![Stage] = @ \ {r}]
  BY DEF Cascade!DropOne, AllLive
<1>2. DOMAIN AllLive = 1..3
  BY DEF AllLive
<1> SUFFICES ASSUME NEW k \in 1..3
             PROVE  /\ AllLive'[k] \subseteq AllLive[k]
                    /\ AllLive'[k] # AllLive[k] =>
                         k = Stage /\ AllLive[k] \cap {DefaultSg} \subseteq AllLive'[k]
  OBVIOUS
<1>3. AllLive'[k] = IF k = Stage THEN AllLive[k] \ {r} ELSE AllLive[k]
  BY <1>1, <1>2
<1> QED BY <1>1, <1>3

LEMMA CascadeMoves ==
  ASSUME [Cascade!CascadeNext]_Cascade!cascadeVars
  PROVE  /\ Goal' = Goal
         /\ \A k \in 1..3 : (AllLive'[k] \ AllLive[k]) \cap Goal[k] = {}
         /\ \/ Stage' \in {Stage, 0}
            \/ Stage \in 1..3 /\ Stage' = Stage + 1 /\ AllLive[Stage] \cap Goal[Stage] = {}
         /\ \/ \A k \in 1..3 : AllLive'[k] # AllLive[k] =>
                 k = Stage /\ AllLive[k] \cap {DefaultSg} \subseteq AllLive'[k]
            \/ outside' = outside + 1
<1>1. CASE UNCHANGED Cascade!cascadeVars
  BY <1>1 DEF Cascade!cascadeVars, AllLive, Goal
<1>2. CASE Cascade!Remove
  <2>1. Stage \in 1..3 /\ Cascade!DropOne /\ Stage' = Stage /\ Goal' = Goal
    BY <1>2, Kinds3 DEF Cascade!Remove, Goal
  <2> QED BY <2>1, CascadeDrops
<1>3. CASE Cascade!Advance
  <2>1. /\ Stage \in 1..3 /\ Stage' = Stage + 1 /\ Goal' = Goal /\ AllLive' = AllLive
        /\ AllLive[Stage] \cap Goal[Stage] = {}
    BY <1>3, Kinds3 DEF Cascade!Advance, Goal, AllLive
  <2> QED BY <2>1
<1>4. CASE Cascade!Fail
  <2>1. /\ Stage \in 1..3 /\ Stage' = 0 /\ Goal' = Goal
        /\ AllLive' = AllLive \/ Cascade!DropOne
    BY <1>4, Kinds3 DEF Cascade!Fail, Goal, AllLive
  <2>2. CASE AllLive' = AllLive
    BY <2>1, <2>2
  <2> QED BY <2>1, <2>2, CascadeDrops
<1>5. CASE Cascade!Others
  <2>1. /\ Stage' = Stage /\ Goal' = Goal /\ outside' = outside + 1
        /\ \A k \in 1..3 : (AllLive'[k] \ AllLive[k]) \cap Goal[k] = {}
    BY <1>5, Kinds3 DEF Cascade!Others, Goal, AllLive
  <2> QED BY <2>1
<1> QED BY <1>1, <1>2, <1>3, <1>4, <1>5 DEF Cascade!CascadeNext

\* When the cleanup has gone on to the groups, none of the ENIs of the start is left, nor of
\* those groups when it has gone on to the subnets, whatever the other actors do meanwhile.
THEOREM LeftKindsStayGone == Spec => []Cascade!EarlierGone
<1>1. Cascade!EarlierGone <=> \A k \in 1..3 : k < Stage => AllLive[k] \cap Goal[k] = {}
  BY Kinds3 DEF Cascade!EarlierGone, AllLive, Goal
<1>2. Cascade!EarlierGone' <=> \A k \in 1..3 : k < Stage' => AllLive'[k] \cap Goal'[k] = {}
  BY Kinds3 DEF Cascade!EarlierGone, AllLive, Goal
<1>3. Cascade!CascadeInit => Cascade!EarlierGone
  BY <1>1 DEF Cascade!CascadeInit
<1>4. Cascade!EarlierGone /\ [Cascade!CascadeNext]_Cascade!cascadeVars => Cascade!EarlierGone'
  <2> SUFFICES ASSUME Cascade!EarlierGone, [Cascade!CascadeNext]_Cascade!cascadeVars,
                      NEW k \in 1..3, k < Stage'
               PROVE  AllLive'[k] \cap Goal'[k] = {}
    BY <1>2
  <2>1. AllLive[k] \cap Goal[k] = {}
    <3>1. k < Stage \/ (k = Stage /\ AllLive[Stage] \cap Goal[Stage] = {})
      BY CascadeMoves, StageRange
    <3> QED BY <1>1, <3>1
  <2> QED BY <2>1, CascadeMoves
<1> QED BY <1>3, <1>4, Implements, PTL DEF ImplementsCascade, Cascade!CascadeSpec

\* No call of the cleanup deletes anything of another kind than the one it is emptying, nor
\* the default group.
THEOREM TouchesOneKind == Spec => [][Cascade!OneKindAtATime]_Cascade!cascadeVars
<1>1. IInv /\ [Cascade!CascadeNext]_Cascade!cascadeVars => Cascade!OneKindAtATime
  <2> SUFFICES ASSUME IInv, [Cascade!CascadeNext]_Cascade!cascadeVars, outside' = outside,
                      NEW k \in 1..3, AllLive'[k] # AllLive[k]
               PROVE  k = Stage /\ AllLive[k] \cap {DefaultSg} \subseteq AllLive'[k]
    BY Kinds3 DEF Cascade!OneKindAtATime, AllLive
  <2>1. outside' # outside + 1
    <3>1. outside \in Nat
      BY DEF IInv, TypeOK, Ec2TypeOK
    <3> QED BY <3>1
  <2> QED BY <2>1, CascadeMoves
<1> QED BY <1>1, Implements, Invariant, PTL DEF ImplementsCascade, Cascade!CascadeSpec
=============================================================================
