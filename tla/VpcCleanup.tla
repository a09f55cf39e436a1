---------------------------- MODULE VpcCleanup ----------------------------
(***************************************************************************)
(* CleanupVPCResources (pkg/framework/vpc_cleanup.go): one call of it, one *)
(* action per EC2 call, in the VPC of Ec2Vpc that other actors share.      *)
(* Each stage lists its kind page by page, then works through what it saw. *)
(* The order of a listing is EC2's, hence any order.                       *)
(***************************************************************************)
EXTENDS Ec2Vpc

CONSTANTS
  MaxPolls,  \* eniDetachTimeout / eniDetachPollInterval: sleeps before the deadline
  MaxTries,  \* eniDeleteMaxRetries
  None       \* nothing in hand

ASSUME VpcAssumption ==
  /\ MaxPolls \in Nat \ {0}
  /\ MaxTries \in Nat \ {0}
  /\ None \notin Enis \cup Sgs

VARIABLES
  pc,        \* what is to be done next
  seen,      \* the listing of the current stage: enis, sgs or subnets in the code
  attached,  \* ENIs the listing showed with an attachment
  perms,     \* rules the listing showed: IpPermissions and IpPermissionsEgress
  todo,      \* what the current loop has not reached yet
  cur,       \* the ENI, or the group whose rules are revoked, in hand
  count,     \* polls of the wait, or attempts of the delete
  errs,      \* resources the error names
  result,    \* "none" while running, "ok", or the step that failed
  start      \* history: what stood in the VPC at the call, the default group apart

loopVars == <<seen, attached, perms, todo, cur, count>>
vars == <<ec2Vars, callVars, pc, loopVars, errs, result, start>>

Resources == Enis \cup Sgs \cup Subnets
Failures == {"describe", "detach", "wait", "delete", "sg", "subnet"}
Pcs == {"listENIs", "eachENI", "pollENI", "sleep", "deleteENI", "retry",
        "listSGs", "ingress", "egress", "deleteSG", "listSubnets", "deleteSubnet", "done"}

Init ==
  /\ Ec2Init
  /\ pc = "listENIs"
  /\ seen = {} /\ attached = {} /\ perms = {} /\ todo = {}
  /\ cur = None
  /\ count = 0
  /\ errs = {}
  /\ result = "none"
  /\ start = [eni |-> LiveEnis, sg |-> LiveSgs \ {DefaultSg}, subnet |-> LiveSubnets]

(***************************************************************************)
(* Ways to leave a step.                                                   *)
(***************************************************************************)
Goto(label) == pc' = label /\ UNCHANGED <<errs, result>>

Finish(failure, named) ==
  /\ pc' = "done"
  /\ result' = failure
  /\ errs' = errs \cup named
  /\ UNCHANGED loopVars

\* The next stage starts with an empty listing.
NextStage(label) ==
  /\ Goto(label)
  /\ seen' = {}
  /\ UNCHANGED <<attached, perms, todo, cur, count>>

(***************************************************************************)
(* Pages of a listing: some of what has not been listed yet, and the last  *)
(* page all that is left.  `live` is read anew for every page.             *)
(***************************************************************************)
\* Slip: only the first page is read.
FirstPageOnly(live, page, first, next) ==
  /\ page \subseteq live \ seen
  /\ Served(TRUE)
  /\ seen' = page
  /\ page # {} \/ live = {}
  /\ Goto(next)
  /\ todo' = page
  /\ UNCHANGED <<cur, count>>

Page(live, page, first, next) ==
  /\ page \subseteq live \ seen
  /\ Served(TRUE)
  /\ seen' = seen \cup page
  /\ \/ page # {} /\ Goto(first) /\ UNCHANGED todo
     \/ page = live \ seen /\ Goto(next) /\ todo' = seen \cup page
  /\ UNCHANGED <<cur, count>>

DescribeFails == (Refused(TRUE) \/ Fault) /\ Finish("describe", {})

ListENIs ==
  /\ pc = "listENIs"
  /\ \/ \E page \in SUBSET Enis :
          /\ Page(LiveEnis, page, "listENIs", "eachENI")
          /\ attached' = attached \cup {e \in page : Attached(e)}
          /\ UNCHANGED perms
     \/ DescribeFails
  /\ UNCHANGED <<ec2Vars, start>>

ListSGs ==
  /\ pc = "listSGs"
  /\ \/ \E page \in SUBSET Sgs :
          /\ Page(LiveSgs \ {DefaultSg}, page, "listSGs", "ingress")
          /\ perms' = perms \cup {r \in rules : r.owner \in page}
          /\ UNCHANGED attached
     \/ DescribeFails
  /\ UNCHANGED <<ec2Vars, start>>

ListSubnets ==
  /\ pc = "listSubnets"
  /\ \/ \E page \in SUBSET Subnets :
          /\ Page(LiveSubnets, page, "listSubnets", "deleteSubnet")
          /\ UNCHANGED <<attached, perms>>
     \/ DescribeFails
  /\ UNCHANGED <<ec2Vars, start>>

(***************************************************************************)
(* cleanupENIs: detach by force what the listing showed attached, wait for *)
(* it to become available, delete it; the first failure ends the cleanup.  *)
(***************************************************************************)
DetachTakesEffect(e) ==
  /\ eni' = [eni EXCEPT ![e] = "detaching"]
  /\ UNCHANGED <<sg, rules, subnet, outside>>

DetachENI(e) ==
  /\ pc = "eachENI" /\ e \in todo /\ e \in attached
  /\ \/ /\ Served(Attached(e))
        /\ DetachTakesEffect(e)
        /\ Goto("pollENI")
        /\ todo' = todo \ {e} /\ cur' = e /\ count' = 0
        /\ UNCHANGED <<seen, attached, perms>>
     \/ Refused(Attached(e)) /\ UNCHANGED ec2Vars /\ Finish("detach", {e})
     \/ /\ Fault
        /\ UNCHANGED ec2Vars \/ (Attached(e) /\ DetachTakesEffect(e))
        /\ Finish("detach", {e})
  /\ UNCHANGED start

SkipDetach(e) ==
  /\ pc = "eachENI" /\ e \in todo /\ e \notin attached
  /\ Goto("deleteENI")
  /\ todo' = todo \ {e} /\ cur' = e /\ count' = 0
  /\ UNCHANGED <<ec2Vars, callVars, seen, attached, perms, start>>

\* Slip: the wait has no deadline.
PollForever ==
  /\ pc = "pollENI"
  /\ Served(TRUE)
  /\ Goto(IF eni[cur] \in {"available", "gone"} THEN "deleteENI" ELSE "sleep")
  /\ count' = 0
  /\ UNCHANGED <<ec2Vars, seen, attached, perms, todo, cur, start>>

\* waitForENIAvailable.  The calls between the sleeps take time as well, so the
\* deadline can pass before MaxPolls sleeps, but never before the first.
PollENI ==
  /\ pc = "pollENI"
  /\ \/ /\ count < MaxPolls
        /\ \/ /\ Served(TRUE)
              /\ IF eni[cur] \in {"available", "gone"}
                   THEN Goto("deleteENI") /\ count' = 0
                   ELSE Goto("sleep") /\ UNCHANGED count
              /\ UNCHANGED <<seen, attached, perms, todo, cur>>
           \/ (Refused(TRUE) \/ Fault) /\ Finish("wait", {cur})
     \/ count > 0 /\ Finish("wait", {cur}) /\ UNCHANGED callVars
  /\ UNCHANGED <<ec2Vars, start>>

\* The select of both loops: the timer fires, or the context is done.
Sleep(label, next, failure) ==
  /\ pc = label
  /\ \/ /\ Goto(next)
        /\ count' = count + 1
        /\ UNCHANGED <<seen, attached, perms, todo, cur>>
     \/ ctxDone /\ Finish(failure, {cur})
  /\ UNCHANGED <<ec2Vars, callVars, start>>

WaitSleep == Sleep("sleep", "pollENI", "wait")
RetrySleep == Sleep("retry", "deleteENI", "delete")

EniDeleted(e) ==
  /\ eni' = [eni EXCEPT ![e] = "gone"]
  /\ UNCHANGED <<sg, rules, subnet, outside>>

\* Slip: an ENI that cannot be deleted is logged and left.
DeleteENIGivesUp ==
  /\ pc = "deleteENI"
  /\ \/ Served(eni[cur] = "available") /\ EniDeleted(cur)
     \/ Refused(eni[cur] = "available") /\ UNCHANGED ec2Vars
  /\ Goto("eachENI")
  /\ UNCHANGED <<loopVars, start>>

\* deleteENIWithRetry.  An ENI that is gone already (InvalidNetworkInterfaceID)
\* counts as deleted; any other error is retried.
DeleteENI ==
  /\ pc = "deleteENI"
  /\ \/ /\ \/ Served(eni[cur] = "available") /\ EniDeleted(cur)
           \/ Served(eni[cur] = "gone") /\ UNCHANGED ec2Vars
        /\ Goto("eachENI")
        /\ UNCHANGED loopVars
     \/ /\ \/ Refused(eni[cur] \in {"available", "gone"}) /\ UNCHANGED ec2Vars
           \/ /\ Fault
              /\ UNCHANGED ec2Vars \/ (eni[cur] = "available" /\ EniDeleted(cur))
        /\ IF count < MaxTries - 1
             THEN Goto("retry") /\ UNCHANGED loopVars
             ELSE Finish("delete", {cur})
  /\ UNCHANGED start

ENIsDone ==
  /\ pc = "eachENI" /\ todo = {}
  /\ NextStage("listSGs")
  /\ UNCHANGED <<ec2Vars, callVars, start>>

(***************************************************************************)
(* cleanupSecurityGroups: one pass revokes the rules the listing showed,   *)
(* a second one deletes the groups; failures are collected and reported    *)
(* at the end of both.                                                     *)
(***************************************************************************)
Collect(s, failed) ==
  /\ errs' = IF failed THEN errs \cup {s} ELSE errs
  /\ UNCHANGED result

RulesRevoked(gone) ==
  /\ rules' = rules \ gone
  /\ UNCHANGED <<eni, sg, subnet, outside>>

\* One revoke call.  A rule of the request that is no longer there makes EC2
\* refuse it or ignore that rule, by the kind of VPC.
RevokeRules(s, dir) ==
  LET asked == {r \in perms : r.owner = s /\ r.dir = dir} IN
  \/ asked = {} /\ UNCHANGED <<ec2Vars, callVars>> /\ Collect(s, FALSE)
  \/ /\ asked # {}
     /\ \/ Served(sg[s] = "live") /\ RulesRevoked(asked) /\ Collect(s, FALSE)
        \/ /\ Refused(sg[s] = "live" /\ asked \subseteq rules)
           /\ UNCHANGED ec2Vars /\ Collect(s, TRUE)
        \/ /\ Fault
           /\ UNCHANGED ec2Vars \/ (sg[s] = "live" /\ RulesRevoked(asked))
           /\ Collect(s, TRUE)

RevokeIngress(s) ==
  /\ pc = "ingress" /\ s \in todo
  /\ RevokeRules(s, "ingress")
  /\ pc' = "egress"
  /\ todo' = todo \ {s} /\ cur' = s
  /\ UNCHANGED <<seen, attached, perms, count, start>>

\* Slip: only ingress rules are revoked.
NoEgressRevoked ==
  /\ pc = "egress"
  /\ Goto("ingress")
  /\ UNCHANGED <<ec2Vars, callVars, loopVars, start>>

RevokeEgress ==
  /\ pc = "egress"
  /\ RevokeRules(cur, "egress")
  /\ pc' = "ingress"
  /\ UNCHANGED <<loopVars, start>>

\* Slip: the delete pass walks the unfiltered listing, the default group in it.
DeleteUnfiltered ==
  /\ pc = "ingress" /\ todo = {}
  /\ Goto("deleteSG")
  /\ todo' = LiveSgs
  /\ UNCHANGED <<ec2Vars, callVars, seen, attached, perms, cur, count, start>>

RevokesDone ==
  /\ pc = "ingress" /\ todo = {}
  /\ Goto("deleteSG")
  /\ todo' = seen
  /\ UNCHANGED <<ec2Vars, callVars, seen, attached, perms, cur, count, start>>

SgDeleted(s) ==
  /\ sg' = [sg EXCEPT ![s] = "gone"]
  /\ rules' = rules \ RulesOf(s)
  /\ UNCHANGED <<eni, subnet, outside>>

DeleteSG(s) ==
  /\ pc = "deleteSG" /\ s \in todo
  /\ \/ Served(SgDeletable(s)) /\ SgDeleted(s) /\ Collect(s, FALSE)
     \/ Refused(SgDeletable(s)) /\ UNCHANGED ec2Vars /\ Collect(s, TRUE)
     \/ /\ Fault
        /\ UNCHANGED ec2Vars \/ (SgDeletable(s) /\ SgDeleted(s))
        /\ Collect(s, TRUE)
  /\ todo' = todo \ {s}
  /\ UNCHANGED <<pc, seen, attached, perms, cur, count, start>>

\* Slip: the delete pass stops at the first group that fails.
SGsStopEarly ==
  /\ pc = "deleteSG" /\ (todo = {} \/ errs # {})
  /\ IF errs = {} THEN NextStage("listSubnets") ELSE Finish("sg", {})
  /\ UNCHANGED <<ec2Vars, callVars, start>>

SGsDone ==
  /\ pc = "deleteSG" /\ todo = {}
  /\ IF errs = {} THEN NextStage("listSubnets") ELSE Finish("sg", {})
  /\ UNCHANGED <<ec2Vars, callVars, start>>

(***************************************************************************)
(* cleanupSubnets.                                                         *)
(***************************************************************************)
SubnetDeleted(n) ==
  /\ subnet' = [subnet EXCEPT ![n] = "gone"]
  /\ UNCHANGED <<eni, sg, rules, outside>>

DeleteSubnet(n) ==
  /\ pc = "deleteSubnet" /\ n \in todo
  /\ \/ Served(SubnetDeletable(n)) /\ SubnetDeleted(n) /\ Collect(n, FALSE)
     \/ Refused(SubnetDeletable(n)) /\ UNCHANGED ec2Vars /\ Collect(n, TRUE)
     \/ /\ Fault
        /\ UNCHANGED ec2Vars \/ (SubnetDeletable(n) /\ SubnetDeleted(n))
        /\ Collect(n, TRUE)
  /\ todo' = todo \ {n}
  /\ UNCHANGED <<pc, seen, attached, perms, cur, count, start>>

SubnetsDone ==
  /\ pc = "deleteSubnet" /\ todo = {}
  /\ Finish(IF errs = {} THEN "ok" ELSE "subnet", {})
  /\ UNCHANGED <<ec2Vars, callVars, start>>

(***************************************************************************)
(* The specification.                                                      *)
(***************************************************************************)
CleanupVPCResources ==
  \/ ListENIs
  \/ \E e \in Enis : DetachENI(e) \/ SkipDetach(e)
  \/ PollENI \/ WaitSleep \/ DeleteENI \/ RetrySleep \/ ENIsDone
  \/ ListSGs
  \/ \E s \in Sgs : RevokeIngress(s) \/ DeleteSG(s)
  \/ RevokeEgress \/ RevokesDone \/ SGsDone
  \/ ListSubnets
  \/ \E n \in Subnets : DeleteSubnet(n)
  \/ SubnetsDone

Environment ==
  /\ \/ (\E e \in Enis : DetachDone(e)) /\ UNCHANGED callVars
     \/ Outside
     \/ Cancel
  /\ UNCHANGED <<pc, loopVars, errs, result, start>>

Next == CleanupVPCResources \/ Environment

Spec == Init /\ [][Next]_vars

\* The goroutine that runs the cleanup is scheduled; nothing is assumed of EC2.
FairSpec == Spec /\ WF_vars(CleanupVPCResources)

(***************************************************************************)
(* Properties.                                                             *)
(***************************************************************************)
TypeOK ==
  /\ Ec2TypeOK
  /\ pc \in Pcs
  /\ seen \subseteq Resources
  /\ attached \subseteq Enis
  /\ perms \subseteq Rules
  /\ todo \subseteq seen
  /\ cur \in Enis \cup Sgs \cup {None}
  /\ count \in Nat
  /\ errs \subseteq Resources
  /\ result \in Failures \cup {"none", "ok"}
  /\ start \in [eni : SUBSET Enis, sg : SUBSET (Sgs \ {DefaultSg}), subnet : SUBSET Subnets]

\* A nil error of CleanupVPCResources means that everything that stood in the VPC
\* when it was called is gone, whatever page it was listed on, whoever else changed
\* the VPC and whichever calls had to be retried.
OkMeansStartGone ==
  result = "ok" =>
    /\ start.eni \cap LiveEnis = {}
    /\ start.sg \cap LiveSgs = {}
    /\ start.subnet \cap LiveSubnets = {}

\* "Returns a hard error identifying blocking resources" (vpc_cleanup.go:43): when
\* the group or the subnet stage fails after its deletions, every group or subnet of
\* the call that still stands is named, and the stages before it are done.
ErrorNamesWhatIsLeft ==
  /\ result = "sg" =>
       start.eni \cap LiveEnis = {} /\ start.sg \cap LiveSgs \subseteq errs
  /\ result = "subnet" =>
       start.sg \cap LiveSgs = {} /\ start.subnet \cap LiveSubnets \subseteq errs

\* In a VPC nobody else touches, with a live context and calls that answer, only an
\* ENI that does not detach in time makes the cleanup fail: the stage order (ENIs,
\* groups, subnets) and revoking before deleting leave no dependency behind
\* ("Revoke all rules first to break cross-SG reference cycles", vpc_cleanup.go:203).
UndisturbedSucceeds ==
  outside = 0 /\ faults = 0 /\ ~ctxDone => result \in {"none", "ok", "wait"}

\* The call returns, whatever EC2 and the other actors do: an ENI that never
\* detaches and one that can never be deleted end in an error.
Terminates == <>(result # "none")

(***************************************************************************)
(* CascadeDelete, kind 1: ENIs, 2: groups, 3: subnets.                     *)
(***************************************************************************)
Stage ==
  CASE result = "ok" -> 4
    [] result \notin {"none", "ok"} -> 0
    [] pc \in {"listSGs", "ingress", "egress", "deleteSG"} -> 2
    [] pc \in {"listSubnets", "deleteSubnet"} -> 3
    [] OTHER -> 1

Cascade == INSTANCE CascadeDelete WITH
  NKinds <- 3,
  Protected <- {DefaultSg},
  stage <- Stage,
  live <- <<LiveEnis, LiveSgs, LiveSubnets>>,
  goal <- <<start.eni, start.sg, start.subnet>>,
  others <- outside

\* The cleanup empties ENIs, then groups, then subnets, touches nothing of a kind
\* outside its stage and never the default group.
ImplementsCascade == Cascade!CascadeSpec
=============================================================================
