---------------------------- MODULE UpgradeSpecs ----------------------------
(***************************************************************************)
(* The upgrade specs of test/e2e/upgrade_test.go with the calls of         *)
(* pkg/framework/upgrade.go and the topology lookup of context.go.  The    *)
(* specs are separate containers, which Ginkgo runs in any order or in     *)
(* parallel; each runs once, against the same cluster.  The post-upgrade   *)
(* workload spec is the "workload" script of TestSpecs.                    *)
(***************************************************************************)
EXTENDS OcmUpgrade, Naturals

CONSTANTS
  Suite,     \* the specs that the label filter selects
  MaxPolls,  \* ticks of a wait before its timeout
  MaxFaults  \* calls that fail although OCM would have served them

SpecNames == {"controlPlane", "nodePool", "classic", "osdGcp", "operators"}

ASSUME UpgradeAssumption ==
  /\ Suite \subseteq SpecNames
  /\ MaxPolls \in Nat \ {0}
  /\ MaxFaults \in Nat
  /\ "cluster" \notin Pools

VARIABLES
  pc,        \* the next call of each spec; "over" after the last
  pool,      \* nodePoolID, "none" before it is chosen
  count,     \* ticks of each wait
  verdict,   \* of each spec: "none", "passed", "failed", "skipped", "killed"
  faults,    \* calls that failed so far
  abandoned  \* history: specs whose Initiate was lost or whose wait timed out

runVars == <<pc, pool, count, verdict>>
vars == <<ocmVars, runVars, faults, abandoned>>

Calls == {"topology", "list", "clients", "initiate", "wait", "verify"}
Verdicts == {"none", "passed", "failed", "skipped", "killed"}

(***************************************************************************)
(* What each spec upgrades, and how it begins.                             *)
(***************************************************************************)
Upgrades == Suite \ {"operators"}
Part(s) == IF s = "nodePool" THEN pool ELSE "cluster"

\* The specs that look at the topology; the others run on any.
Home == [classic |-> "classic", osdGcp |-> "osd-gcp"]

First == [controlPlane |-> "initiate", nodePool |-> "list", operators |-> "clients",
          classic |-> "topology", osdGcp |-> "topology"]

Init ==
  /\ OcmInit
  /\ pc = [s \in Suite |-> First[s]]
  /\ pool = "none"
  /\ count = [s \in Suite |-> 0]
  /\ verdict = [s \in Suite |-> "none"]
  /\ faults = 0
  /\ abandoned = {}

(***************************************************************************)
(* Ways to leave a call.                                                   *)
(***************************************************************************)
Goto(s, next) ==
  /\ pc' = [pc EXCEPT ![s] = next]
  /\ UNCHANGED <<pool, count, verdict>>

Ends(s, how) ==
  /\ pc' = [pc EXCEPT ![s] = "over"]
  /\ verdict' = [verdict EXCEPT ![s] = how]
  /\ UNCHANGED <<pool, count>>

Answered == UNCHANGED faults
Fault == faults < MaxFaults /\ faults' = faults + 1
Abandon(s) == abandoned' = abandoned \cup {s}

(***************************************************************************)
(* Before the upgrade.                                                     *)
(***************************************************************************)
\* IsClassic, IsOSDGCP: a topology that cannot be looked up is "", which is neither.
Detect(s) ==
  /\ pc[s] = "topology"
  /\ \/ topology = Home[s] /\ Goto(s, "initiate") /\ Answered
     \/ topology # Home[s] /\ Ends(s, "skipped") /\ Answered
     \/ Ends(s, "skipped") /\ Fault
  /\ UNCHANGED <<ocmVars, abandoned>>

\* items[0]; the order is OCM's.
ListPools(s) ==
  /\ pc[s] = "list"
  /\ \/ /\ pool' \in Listed
        /\ pc' = [pc EXCEPT ![s] = "initiate"]
        /\ UNCHANGED <<count, verdict>> /\ Answered
     \/ Listed = {} /\ Ends(s, "failed") /\ Answered
     \/ Ends(s, "failed") /\ Fault
  /\ UNCHANGED <<ocmVars, abandoned>>

\* InitHCClients of the post-upgrade spec.
InitClients(s) ==
  /\ pc[s] = "clients"
  /\ \/ Goto(s, "verify") /\ Answered
     \/ Ends(s, "failed") /\ Fault
  /\ UNCHANGED <<ocmVars, abandoned>>

(***************************************************************************)
(* InitiateControlPlaneUpgrade, InitiateNodePoolUpgrade,                   *)
(* InitiateClusterUpgrade.  OCM may refuse any upgrade, and a control      *)
(* plane's where there is none.                                            *)
(***************************************************************************)
Accepted(s) ==
  /\ s = "controlPlane" => topology = "hcp"
  /\ Scheduled(Part(s))

Initiate(s) ==
  /\ pc[s] = "initiate"
  /\ \/ Accepted(s) /\ Goto(s, "wait") /\ Answered /\ UNCHANGED abandoned
     \/ UNCHANGED ocmVars /\ Ends(s, "failed") /\ Answered /\ UNCHANGED abandoned
     \/ (Accepted(s) \/ UNCHANGED ocmVars) /\ Ends(s, "failed") /\ Fault /\ Abandon(s)

(***************************************************************************)
(* WaitForUpgradeComplete, and the Eventually of the node pool: only the   *)
(* version is compared, an error is one more tick.                         *)
(***************************************************************************)
\* Slip: the timeout is looked at after the tick it falls on.
TickOnceMore(s) == pc[s] = "wait" /\ count[s] <= MaxPolls

Tick(s) == pc[s] = "wait" /\ count[s] < MaxPolls

WaitMore(s) ==
  /\ count' = [count EXCEPT ![s] = @ + 1]
  /\ UNCHANGED <<pc, pool, verdict, abandoned>>

TimesOut(s) ==
  /\ pc[s] = "wait" /\ count[s] > 0
  /\ Ends(s, "failed") /\ Answered /\ Abandon(s)

\* Slip: the upgrade is over when its policy is.
PolicyGone(s) == policy[Part(s)] = "none"

Reached(s) == version[Part(s)] = "target"

\* Slip: an error ends the wait.
WaitStrictly(s) ==
  /\ \/ Tick(s) /\ Reached(s) /\ Goto(s, "verify") /\ Answered /\ UNCHANGED abandoned
     \/ Tick(s) /\ ~Reached(s) /\ WaitMore(s) /\ Answered
     \/ Tick(s) /\ Ends(s, "failed") /\ Fault /\ UNCHANGED abandoned
     \/ TimesOut(s)
  /\ UNCHANGED ocmVars

\* Slip: a tick does not count against the timeout.
WaitForever(s) ==
  /\ pc[s] = "wait"
  /\ \/ Reached(s) /\ Goto(s, "verify") /\ Answered
     \/ ~Reached(s) /\ UNCHANGED <<runVars, faults>>
  /\ UNCHANGED <<ocmVars, abandoned>>

WaitForUpgrade(s) ==
  /\ \/ Tick(s) /\ Reached(s) /\ Goto(s, "verify") /\ Answered /\ UNCHANGED abandoned
     \/ Tick(s) /\ ~Reached(s) /\ WaitMore(s) /\ Answered
     \/ Tick(s) /\ WaitMore(s) /\ Fault
     \/ TimesOut(s)
  /\ UNCHANGED ocmVars

(***************************************************************************)
(* The last look: VerifyClusterReady, the nodes of the cluster through new *)
(* clients, or its operators.                                              *)
(***************************************************************************)
Aspect(s) ==
  CASE s = "nodePool" -> "nodes"
    [] s = "operators" -> "operators"
    [] OTHER -> "state"

Verify(s) ==
  /\ pc[s] = "verify"
  /\ \/ sound[Aspect(s)] /\ Ends(s, "passed") /\ Answered
     \/ ~sound[Aspect(s)] /\ Ends(s, "failed") /\ Answered
     \/ Ends(s, "failed") /\ Fault
  /\ UNCHANGED <<ocmVars, abandoned>>

(***************************************************************************)
(* The specification.                                                      *)
(***************************************************************************)
Run(s) ==
  Detect(s) \/ ListPools(s) \/ InitClients(s) \/ Initiate(s) \/ WaitForUpgrade(s) \/ Verify(s)

\* The job is killed, with all its specs.
Kill ==
  /\ \E s \in Suite : pc[s] # "over"
  /\ verdict' = [s \in Suite |-> IF pc[s] = "over" THEN verdict[s] ELSE "killed"]
  /\ pc' = [s \in Suite |-> "over"]
  /\ UNCHANGED <<ocmVars, pool, count, faults, abandoned>>

Environment == OcmSteps /\ UNCHANGED <<runVars, faults, abandoned>>

Next == (\E s \in Suite : Run(s)) \/ Kill \/ Environment

Spec == Init /\ [][Next]_vars

\* Each spec that Ginkgo has started runs; nothing is assumed of OCM.
FairSpec == Spec /\ \A s \in Suite : WF_vars(Run(s))

(***************************************************************************)
(* Properties.                                                             *)
(***************************************************************************)
\* Every variable has its type; a wait ticks MaxPolls times at most.
TypeOK ==
  /\ OcmTypeOK
  /\ pc \in [Suite -> Calls \cup {"over"}]
  /\ pool \in Pools \cup {"none"}
  /\ count \in [Suite -> 0 .. MaxPolls]
  /\ verdict \in [Suite -> Verdicts]
  /\ faults \in 0 .. MaxFaults
  /\ abandoned \subseteq Suite

\* WaitForUpgradeComplete "polls the cluster version until it matches" (upgrade.go:37): an
\* upgrade spec that passed has upgraded its part, and the upgrade is not still going on,
\* although the wait never looks at the policy and other specs upgrade at the same time.
PassedMeansUpgraded ==
  \A s \in Upgrades :
    verdict[s] = "passed" => version[Part(s)] = "target" /\ policy[Part(s)] = "none"

\* No upgrade goes on without a spec that waits for it, unless its spec was killed, timed
\* out or lost the answer of its Initiate: no other way out of a spec leaves the cluster in
\* the middle of an upgrade for the specs that follow.
EveryUpgradeWatched ==
  \A p \in Parts :
    policy[p] # "none" =>
      \E s \in Upgrades :
        Part(s) = p /\ (pc[s] = "wait" \/ s \in abandoned \/ verdict[s] = "killed")

\* Every spec ends, whatever OCM does.
AllEnd == <>(\A s \in Suite : pc[s] = "over")

\* "should upgrade node pools to target version" (upgrade_test.go:41).  The code upgrades
\* the first one only.
PoolsUpgraded ==
  verdict["nodePool"] = "passed" => \A p \in Listed : version[p] = "target"

\* "Returns "hcp", "classic", or "osd-gcp"" (context.go:262): a spec skips with "Not a
\* Classic cluster" only where that is so.  The code also returns "", after an error.
SkippedElsewhere ==
  \A s \in Suite \cap DOMAIN Home : verdict[s] = "skipped" => topology # Home[s]
=============================================================================
