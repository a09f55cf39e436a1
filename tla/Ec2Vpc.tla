------------------------------ MODULE Ec2Vpc ------------------------------
(***************************************************************************)
(* The EC2 side of a VPC, as pkg/framework/vpc_cleanup.go uses it: network *)
(* interfaces (ENIs), security groups with their rules, and subnets, what  *)
(* EC2 accepts or refuses, and the other actors of the account (instances, *)
(* load balancers, controllers of a cluster) that change the same VPC.     *)
(* External: the repository only sees EC2 through EC2VPCClient.            *)
(***************************************************************************)
EXTENDS Integers

CONSTANTS
  Enis, Sgs, Subnets,  \* identifiers, never reused
  DefaultSg,           \* the group named "default", which EC2 keeps with the VPC
  Rules,               \* the rules the groups may hold, see Rule
  Cidr,                \* the peer of a rule that names an address range
  EniSg, EniSubnet,    \* the group and the subnet each ENI lives in
  MaxOutside,          \* bound: steps of the other actors
  MaxFaults            \* bound: calls that fail although EC2 would accept them

Rule == [owner : Sgs, dir : {"ingress", "egress"}, peer : Sgs \cup {Cidr}]

ASSUME Ec2Assumption ==
  /\ DefaultSg \in Sgs
  /\ Sgs \cap (Enis \cup Subnets) = {}  \* an identifier carries its kind
  /\ Cidr \notin Sgs
  /\ Rules \subseteq Rule
  /\ EniSg \in [Enis -> Sgs]
  /\ EniSubnet \in [Enis -> Subnets]
  /\ MaxOutside \in Nat
  /\ MaxFaults \in Nat

VARIABLES
  eni,      \* status of each ENI
  sg,       \* life of each security group
  rules,    \* the rules in force
  subnet,   \* life of each subnet
  outside,  \* number of steps the other actors made
  faults,   \* number of calls that failed without a reason in the VPC
  ctxDone   \* the caller's context is cancelled

ec2Vars == <<eni, sg, rules, subnet, outside>>
callVars == <<faults, ctxDone>>

EniStatus == {"unborn", "in-use", "detaching", "available", "gone"}
Life == {"unborn", "live", "gone"}

Attached(e) == eni[e] \in {"in-use", "detaching"}
LiveEnis == {e \in Enis : eni[e] \notin {"unborn", "gone"}}
LiveSgs == {s \in Sgs : sg[s] = "live"}
LiveSubnets == {n \in Subnets : subnet[n] = "live"}

Ec2TypeOK ==
  /\ eni \in [Enis -> EniStatus]
  /\ sg \in [Sgs -> Life]
  /\ rules \subseteq Rules
  /\ subnet \in [Subnets -> Life]
  /\ outside \in Nat
  /\ faults \in Nat
  /\ ctxDone \in BOOLEAN

(***************************************************************************)
(* What a VPC can look like when the cleanup is called: the default group  *)
(* is there, an ENI's group and subnet exist, and so do both ends of a     *)
(* rule.  A VPC an earlier cleanup left half way is one of these.          *)
(***************************************************************************)
Ec2Init ==
  /\ eni \in [Enis -> {"unborn", "in-use", "available"}]
  /\ sg \in [Sgs -> {"unborn", "live"}]
  /\ sg[DefaultSg] = "live"
  /\ subnet \in [Subnets -> {"unborn", "live"}]
  /\ \A e \in LiveEnis : sg[EniSg[e]] = "live" /\ subnet[EniSubnet[e]] = "live"
  /\ rules \in SUBSET {r \in Rules : {r.owner, r.peer} \subseteq LiveSgs \cup {Cidr}}
  /\ outside = 0
  /\ faults = 0
  /\ ctxDone = FALSE

(***************************************************************************)
(* What EC2 accepts.                                                       *)
(***************************************************************************)
SgInUse(s) ==
  \/ \E e \in LiveEnis : EniSg[e] = s
  \/ \E r \in rules : r.peer = s /\ r.owner # s
SgDeletable(s) == s # DefaultSg /\ sg[s] = "live" /\ ~SgInUse(s)
SubnetDeletable(n) == subnet[n] = "live" /\ \A e \in LiveEnis : EniSubnet[e] # n
RulesOf(s) == {r \in rules : r.owner = s}

(***************************************************************************)
(* A call is served, or it comes back with an error: because the context   *)
(* is cancelled, because EC2 refuses it, or by a fault.  A faulty call may *)
(* still have taken effect, its answer being lost.                         *)
(***************************************************************************)
Served(accepted) == ~ctxDone /\ accepted /\ UNCHANGED callVars
Refused(accepted) == (ctxDone \/ ~accepted) /\ UNCHANGED callVars
Fault == faults < MaxFaults /\ faults' = faults + 1 /\ UNCHANGED ctxDone

(***************************************************************************)
(* The other actors.                                                       *)
(***************************************************************************)
DetachDone(e) ==
  /\ eni[e] = "detaching"
  /\ eni' = [eni EXCEPT ![e] = "available"]
  /\ UNCHANGED <<sg, rules, subnet, outside>>

OutsideEni(e) ==
  /\ \/ /\ eni[e] = "unborn"
        /\ sg[EniSg[e]] = "live" /\ subnet[EniSubnet[e]] = "live"
        /\ eni' = [eni EXCEPT ![e] = "in-use"]
     \/ eni[e] = "available" /\ eni' = [eni EXCEPT ![e] = "in-use"]
     \/ eni[e] = "in-use" /\ eni' = [eni EXCEPT ![e] = "detaching"]
     \/ e \in LiveEnis /\ eni' = [eni EXCEPT ![e] = "gone"]
  /\ UNCHANGED <<sg, rules, subnet>>

OutsideSg(s) ==
  /\ \/ /\ sg[s] = "unborn"
        /\ sg' = [sg EXCEPT ![s] = "live"]
        /\ UNCHANGED rules
     \/ /\ SgDeletable(s)
        /\ sg' = [sg EXCEPT ![s] = "gone"]
        /\ rules' = rules \ RulesOf(s)
  /\ UNCHANGED <<eni, subnet>>

OutsideRule(r) ==
  /\ {r.owner, r.peer} \subseteq LiveSgs \cup {Cidr}
  /\ rules' = IF r \in rules THEN rules \ {r} ELSE rules \cup {r}
  /\ UNCHANGED <<eni, sg, subnet>>

OutsideSubnet(n) ==
  /\ subnet[n] = "unborn"
  /\ subnet' = [subnet EXCEPT ![n] = "live"]
  /\ UNCHANGED <<eni, sg, rules>>

Outside ==
  /\ outside < MaxOutside
  /\ outside' = outside + 1
  /\ \/ \E e \in Enis : OutsideEni(e)
     \/ \E s \in Sgs : OutsideSg(s)
     \/ \E r \in Rules : OutsideRule(r)
     \/ \E n \in Subnets : OutsideSubnet(n)
  /\ UNCHANGED callVars

Cancel ==
  /\ ~ctxDone
  /\ ctxDone' = TRUE
  /\ UNCHANGED <<ec2Vars, faults>>
=============================================================================
