------------------------ MODULE UpgradeSpecs_proofs -------------------------
(***************************************************************************)
(* Proofs about UpgradeSpecs for any selection of specs, any node pools,   *)
(* any timeout and any number of failing calls.                            *)
(***************************************************************************)
EXTENDS UpgradeSpecs, TLAPS

\* A version that is reached has no policy any more.
PolicyInv == \A p \in Parts : version[p] = "target" => policy[p] = "none"

\* Where each spec can be, and what it can have decided there.
PhaseInv ==
  \A s \in Suite :
    /\ pc[s] = "list" => s = "nodePool"
    /\ pc[s] = "clients" => s = "operators"
    /\ pc[s] = "topology" => s \in {"classic", "osdGcp"}
    /\ pc[s] \in {"initiate", "wait"} => s \in Upgrades
    /\ pc[s] \in {"initiate", "wait", "verify"} /\ s = "nodePool" => pool \in Pools
    /\ pc[s] # "over" => verdict[s] = "none" /\ s \notin abandoned

\* The version that ended the wait is still the cluster's or the pool's.
VersionInv ==
  \A s \in Upgrades :
    pc[s] = "verify" \/ verdict[s] = "passed" =>
      Part(s) \in Parts /\ version[Part(s)] = "target"

IInv == TypeOK /\ PolicyInv /\ PhaseInv /\ VersionInv /\ EveryUpgradeWatched

-----------------------------------------------------------------------------
LEMMA InitHolds == Init => IInv
<1> SUFFICES ASSUME Init
             PROVE  IInv
  OBVIOUS
<1> USE UpgradeAssumption DEF UpgradeAssumption, Init, OcmInit
<1>1. OcmTypeOK
  BY DEF OcmTypeOK
<1>2. pc \in [Suite -> Calls \cup {"over"}]
  BY DEF First, Calls, SpecNames
<1>3. count \in [Suite -> 0 .. MaxPolls] /\ faults \in 0 .. MaxFaults
  OBVIOUS
<1>4. verdict \in [Suite -> Verdicts] /\ pool \in Pools \cup {"none"} /\ abandoned \subseteq Suite
  BY DEF Verdicts
<1>5. PhaseInv
  BY DEF PhaseInv, First, Upgrades, SpecNames
<1>6. PolicyInv /\ VersionInv /\ EveryUpgradeWatched
  BY DEF PolicyInv, VersionInv, EveryUpgradeWatched, First, Upgrades, SpecNames
<1> QED BY <1>1, <1>2, <1>3, <1>4, <1>5, <1>6 DEF IInv, TypeOK

-----------------------------------------------------------------------------
(***************************************************************************)
(* A step of one spec that leaves OCM, the pool and the abandoned as they  *)
(* are, and does not leave a wait.                                         *)
(***************************************************************************)
LEMMA QuietStep ==
  ASSUME IInv, NEW s \in Suite, pc[s] # "over",
         UNCHANGED <<ocmVars, pool, abandoned>>,
         NEW next, pc' = [pc EXCEPT ![s] = next], next \in Calls \cup {"over"},
         NEW how \in Verdicts, verdict' = [verdict EXCEPT ![s] = how],
         count' \in [Suite -> 0 .. MaxPolls], faults' \in 0 .. MaxFaults,
         next # "over" => how = "none",
         next \notin {"list", "clients", "topology"},
         next \in {"initiate", "wait"} => s \in Upgrades,
         next \in {"initiate", "wait", "verify"} /\ s = "nodePool" => pool \in Pools,
         s \in Upgrades /\ (next = "verify" \/ how = "passed") =>
           Part(s) \in Parts /\ version[Part(s)] = "target",
         pc[s] = "wait" /\ next # "wait" => version[Part(s)] = "target"
  PROVE  IInv'
<1> USE DEF IInv, TypeOK
<1>1. \A t : Part(t)' = Part(t)
  BY DEF Part
<1>2. \A t \in Suite \ {s} : pc'[t] = pc[t] /\ verdict'[t] = verdict[t]
  OBVIOUS
<1>3. pc'[s] = next /\ verdict'[s] = how
  OBVIOUS
<1>4. UNCHANGED <<topology, version, policy, sound>>
  BY DEF ocmVars
<1>5. TypeOK'
  <2>1. pc' \in [Suite -> Calls \cup {"over"}] /\ verdict' \in [Suite -> Verdicts]
    OBVIOUS
  <2>2. OcmTypeOK' /\ pool' \in Pools \cup {"none"} /\ abandoned' \subseteq Suite
    BY <1>4 DEF OcmTypeOK
  <2> QED BY <2>1, <2>2
<1>6. PolicyInv'
  BY <1>4 DEF PolicyInv
<1>7. PhaseInv'
  BY <1>2, <1>3 DEF PhaseInv
<1>8. VersionInv'
  BY <1>1, <1>2, <1>3, <1>4 DEF VersionInv, Upgrades
<1>9. EveryUpgradeWatched'
  <2> SUFFICES ASSUME NEW p \in Parts, policy[p] # "none"
               PROVE  \E t \in Upgrades :
                        Part(t) = p /\ (pc'[t] = "wait" \/ t \in abandoned \/ verdict'[t] = "killed")
    BY <1>1, <1>4 DEF EveryUpgradeWatched
  <2>1. PICK t \in Upgrades :
          Part(t) = p /\ (pc[t] = "wait" \/ t \in abandoned \/ verdict[t] = "killed")
    BY DEF EveryUpgradeWatched
  <2>2. CASE t # s
    BY <2>1, <2>2, <1>2 DEF Upgrades
  <2>3. CASE t = s
    <3>1. pc[s] = "wait"
      BY <2>1, <2>3 DEF PhaseInv
    <3>2. version[p] # "target"
      BY DEF PolicyInv
    <3>3. next = "wait"
      BY <2>1, <2>3, <3>1, <3>2
    <3> QED BY <2>1, <2>3, <3>3, <1>3
  <2> QED BY <2>2, <2>3
<1> QED BY <1>5, <1>6, <1>7, <1>8, <1>9

(***************************************************************************)
(* A spec that gives up, and may not know what it started.                 *)
(***************************************************************************)
LEMMA GiveUpStep ==
  ASSUME IInv, NEW s \in Upgrades, pc[s] \in {"initiate", "wait"},
         UNCHANGED <<ocmVars, pool>> \/ (UNCHANGED pool /\ Scheduled(Part(s))),
         pc' = [pc EXCEPT ![s] = "over"],
         verdict' = [verdict EXCEPT ![s] = "failed"],
         UNCHANGED count, faults' \in 0 .. MaxFaults, Abandon(s)
  PROVE  IInv'
<1> USE DEF IInv, TypeOK, Abandon
<1>1. s \in Suite /\ \A t : Part(t)' = Part(t)
  BY DEF Part, Upgrades
<1>2. \A t \in Suite \ {s} : pc'[t] = pc[t] /\ verdict'[t] = verdict[t]
  OBVIOUS
<1>3. pc'[s] = "over" /\ verdict'[s] = "failed"
  BY <1>1
<1>4. version' = version /\ topology' = topology /\ sound' = sound
  BY DEF ocmVars, Scheduled
<1>5. Part(s) \in Parts
  BY DEF PhaseInv, Part, Parts, Upgrades
<1>6. policy' \in [Parts -> {"none", "scheduled", "running"}]
  BY <1>5 DEF ocmVars, Scheduled, OcmTypeOK
<1>7. \A p \in Parts : p # Part(s) => policy'[p] = policy[p]
  BY <1>5 DEF ocmVars, Scheduled, OcmTypeOK
<1>8. policy'[Part(s)] # "none" => policy[Part(s)] # "none" \/ version[Part(s)] = "old"
  BY DEF ocmVars, Scheduled
<1>9. TypeOK'
  <2>1. pc' \in [Suite -> Calls \cup {"over"}] /\ verdict' \in [Suite -> Verdicts]
    BY DEF Verdicts
  <2>2. OcmTypeOK' /\ pool' \in Pools \cup {"none"} /\ abandoned' \subseteq Suite
    BY <1>1, <1>4, <1>6 DEF OcmTypeOK
  <2> QED BY <2>1, <2>2
<1>10. PolicyInv'
  BY <1>4, <1>7, <1>8 DEF PolicyInv
<1>11. PhaseInv'
  BY <1>1, <1>2, <1>3 DEF PhaseInv
<1>12. VersionInv'
  BY <1>1, <1>2, <1>3, <1>4 DEF VersionInv, Upgrades
<1>13. EveryUpgradeWatched'
  <2> SUFFICES ASSUME NEW p \in Parts, policy'[p] # "none"
               PROVE  \E t \in Upgrades :
                        Part(t) = p /\ (pc'[t] = "wait" \/ t \in abandoned' \/ verdict'[t] = "killed")
    BY <1>1 DEF EveryUpgradeWatched
  <2>1. CASE p = Part(s)
    BY <2>1
  <2>2. CASE p # Part(s)
    <3>1. PICK t \in Upgrades :
            Part(t) = p /\ (pc[t] = "wait" \/ t \in abandoned \/ verdict[t] = "killed")
      BY <2>2, <1>7 DEF EveryUpgradeWatched
    <3>2. t # s
      BY <3>1, <2>2
    <3> QED BY <3>1, <3>2, <1>2 DEF Upgrades
  <2> QED BY <2>1, <2>2
<1> QED BY <1>9, <1>10, <1>11, <1>12, <1>13

-----------------------------------------------------------------------------
(***************************************************************************)
(* The calls of a spec.                                                    *)
(***************************************************************************)
LEMMA FaultBound ==
  ASSUME IInv, Answered \/ Fault
  PROVE  faults' \in 0 .. MaxFaults
BY UpgradeAssumption DEF UpgradeAssumption, IInv, TypeOK, Answered, Fault

\* Going on to `next`, and ending with a verdict, when nothing else changes.
LEMMA GotoStep ==
  ASSUME IInv, NEW s \in Suite, pc[s] # "over", Answered \/ Fault,
         UNCHANGED <<ocmVars, abandoned>>,
         NEW next \in {"initiate", "verify"}, Goto(s, next),
         next = "initiate" => s \in Upgrades \ {"nodePool"} /\ pc[s] # "wait",
         next = "verify" =>
           \/ s \notin Upgrades /\ pc[s] # "wait"
           \/ pc[s] = "wait" /\ version[Part(s)] = "target"
  PROVE  IInv'
<1> USE DEF IInv, TypeOK
<1>1. faults' \in 0 .. MaxFaults
  BY FaultBound
<1>2. verdict[s] = "none" /\ (pc[s] = "wait" /\ s = "nodePool" => pool \in Pools)
  BY DEF PhaseInv
<1>3. verdict' = [verdict EXCEPT ![s] = "none"]
  BY <1>2 DEF Goto
<1>4. pc[s] = "wait" => Part(s) \in Parts
  BY <1>2 DEF Part, Parts
<1>5. next \in Calls \cup {"over"} /\ "none" \in Verdicts
  BY DEF Calls, Verdicts
<1>6. UNCHANGED <<ocmVars, pool, abandoned>> /\ pc' = [pc EXCEPT ![s] = next] /\ count' = count
  BY DEF Goto
<1>7. next = "initiate" => s \in Upgrades /\ s # "nodePool"
  OBVIOUS
<1>8. next = "verify" /\ s = "nodePool" => pool \in Pools
  BY <1>2 DEF Upgrades
<1>9. next = "verify" /\ s \in Upgrades => Part(s) \in Parts /\ version[Part(s)] = "target"
  BY <1>4
<1> QED BY <1>1, <1>3, <1>5, <1>6, <1>7, <1>8, <1>9, QuietStep

LEMMA EndStep ==
  ASSUME IInv, NEW s \in Suite, pc[s] \notin {"wait", "over"}, Answered \/ Fault,
         UNCHANGED <<ocmVars, abandoned>>,
         NEW how \in {"passed", "failed", "skipped"}, Ends(s, how),
         how = "passed" => pc[s] = "verify"
  PROVE  IInv'
<1> USE DEF IInv, TypeOK
<1>1. faults' \in 0 .. MaxFaults
  BY FaultBound
<1>2. how = "passed" /\ s \in Upgrades => Part(s) \in Parts /\ version[Part(s)] = "target"
  BY DEF VersionInv
<1>3. PICK next : next = "over"
  OBVIOUS
<1>4. next \in Calls \cup {"over"} /\ how \in Verdicts
  BY <1>3 DEF Verdicts
<1>5. /\ UNCHANGED <<ocmVars, pool, abandoned>>
      /\ pc' = [pc EXCEPT ![s] = next] /\ verdict' = [verdict EXCEPT ![s] = how]
      /\ count' \in [Suite -> 0 .. MaxPolls]
  BY <1>3 DEF Ends
<1>6. /\ next # "over" => how = "none"
      /\ next \notin {"list", "clients", "topology"}
      /\ next \in {"initiate", "wait"} => s \in Upgrades
      /\ next \in {"initiate", "wait", "verify"} /\ s = "nodePool" => pool \in Pools
      /\ next # "verify"
  BY <1>3
<1> HIDE DEF IInv, TypeOK
<1> QED BY <1>1, <1>2, <1>4, <1>5, <1>6, QuietStep

LEMMA DetectStep ==
  ASSUME IInv, NEW s \in Suite, Detect(s)
  PROVE  IInv'
<1>1. pc[s] = "topology" /\ s \in Upgrades \ {"nodePool"}
  BY DEF Detect, IInv, PhaseInv, Upgrades
<1>2. CASE Goto(s, "initiate") /\ Answered
  BY <1>1, <1>2, GotoStep DEF Detect
<1>3. CASE Ends(s, "skipped") /\ (Answered \/ Fault)
  BY <1>1, <1>3, EndStep DEF Detect
<1> QED BY <1>2, <1>3 DEF Detect

LEMMA InitClientsStep ==
  ASSUME IInv, NEW s \in Suite, InitClients(s)
  PROVE  IInv'
<1>1. pc[s] = "clients" /\ s \notin Upgrades
  BY DEF InitClients, IInv, PhaseInv, Upgrades
<1>2. CASE Goto(s, "verify") /\ Answered
  BY <1>1, <1>2, GotoStep DEF InitClients
<1>3. CASE Ends(s, "failed") /\ Fault
  BY <1>1, <1>3, EndStep DEF InitClients
<1> QED BY <1>2, <1>3 DEF InitClients

LEMMA VerifyStep ==
  ASSUME IInv, NEW s \in Suite, Verify(s)
  PROVE  IInv'
<1>1. pc[s] = "verify"
  BY DEF Verify
<1>2. CASE Ends(s, "passed") /\ Answered
  BY <1>1, <1>2, EndStep DEF Verify
<1>3. CASE Ends(s, "failed") /\ (Answered \/ Fault)
  BY <1>1, <1>3, EndStep DEF Verify
<1> QED BY <1>2, <1>3 DEF Verify

\* The node pool is chosen while no policy is its spec's.
LEMMA ListPoolsStep ==
  ASSUME IInv, NEW s \in Suite, ListPools(s)
  PROVE  IInv'
<1>1. pc[s] = "list" /\ s = "nodePool" /\ verdict[s] = "none" /\ s \notin abandoned
  BY DEF ListPools, IInv, PhaseInv
<1>2. CASE Ends(s, "failed") /\ (Answered \/ Fault)
  BY <1>1, <1>2, EndStep DEF ListPools
<1>3. CASE /\ pool' \in Listed
           /\ pc' = [pc EXCEPT ![s] = "initiate"]
           /\ UNCHANGED <<count, verdict>> /\ Answered
  <2> USE <1>1, <1>3 DEF IInv, TypeOK, Answered
  <2>1. UNCHANGED <<topology, version, policy, sound, abandoned, verdict, count, faults>>
    BY DEF ListPools, ocmVars
  <2>2. pool' \in Pools
    BY DEF Listed
  <2>3. \A t \in Suite \ {s} : pc'[t] = pc[t] /\ Part(t)' = Part(t)
    BY DEF Part
  <2>4. pc'[s] = "initiate"
    OBVIOUS
  <2>5. TypeOK'
    <3>1. pc' \in [Suite -> Calls \cup {"over"}]
      BY DEF Calls
    <3>2. OcmTypeOK'
      BY <2>1 DEF OcmTypeOK
    <3> QED BY <2>1, <2>2, <3>1, <3>2
  <2>6. PolicyInv'
    BY <2>1 DEF PolicyInv
  <2>7. PhaseInv'
    BY <2>1, <2>2, <2>3, <2>4 DEF PhaseInv, Upgrades
  <2>8. VersionInv'
    BY <2>1, <2>3, <2>4 DEF VersionInv, Upgrades
  <2>9. EveryUpgradeWatched'
    BY <2>1, <2>3 DEF EveryUpgradeWatched, Upgrades
  <2> QED BY <2>5, <2>6, <2>7, <2>8, <2>9
<1> QED BY <1>2, <1>3 DEF ListPools

LEMMA WaitStep ==
  ASSUME IInv, NEW s \in Suite, WaitForUpgrade(s)
  PROVE  IInv'
<1>1. UNCHANGED ocmVars /\ pc[s] = "wait" /\ s \in Upgrades
  BY DEF WaitForUpgrade, Tick, TimesOut, IInv, PhaseInv
<1>2. CASE Tick(s) /\ Reached(s) /\ Goto(s, "verify") /\ Answered /\ UNCHANGED abandoned
  BY <1>1, <1>2, GotoStep DEF Reached
<1>3. CASE Tick(s) /\ WaitMore(s) /\ (Answered \/ Fault)
  <2> USE <1>1, <1>3 DEF IInv, TypeOK, WaitMore
  <2>1. faults' \in 0 .. MaxFaults
    BY FaultBound
  <2>2. count' \in [Suite -> 0 .. MaxPolls]
    BY UpgradeAssumption DEF UpgradeAssumption, Tick
  <2>3. verdict[s] = "none" /\ (s = "nodePool" => pool \in Pools)
    BY DEF PhaseInv
  <2>4. pc' = [pc EXCEPT ![s] = "wait"] /\ verdict' = [verdict EXCEPT ![s] = "none"]
    BY <2>3
  <2> QED BY <2>1, <2>2, <2>3, <2>4, QuietStep DEF Calls, Verdicts
<1>4. CASE TimesOut(s)
  <2>1. faults' \in 0 .. MaxFaults
    BY <1>4, FaultBound DEF TimesOut
  <2> QED BY <1>1, <1>4, <2>1, GiveUpStep DEF TimesOut, Ends
<1> QED BY <1>2, <1>3, <1>4 DEF WaitForUpgrade

\* An upgrade that is accepted has its spec waiting for it.
LEMMA InitiateStep ==
  ASSUME IInv, NEW s \in Suite, Initiate(s)
  PROVE  IInv'
<1>1. /\ pc[s] = "initiate" /\ s \in Upgrades /\ verdict[s] = "none" /\ s \notin abandoned
      /\ Part(s) \in Parts
  BY DEF Initiate, IInv, PhaseInv, Part, Parts
<1>2. CASE UNCHANGED ocmVars /\ Ends(s, "failed") /\ Answered /\ UNCHANGED abandoned
  BY <1>1, <1>2, EndStep
<1>3. CASE (Accepted(s) \/ UNCHANGED ocmVars) /\ Ends(s, "failed") /\ Fault /\ Abandon(s)
  <2>1. faults' \in 0 .. MaxFaults
    BY <1>3, FaultBound
  <2> QED BY <1>1, <1>3, <2>1, GiveUpStep DEF Accepted, Ends
<1>4. CASE Accepted(s) /\ Goto(s, "wait") /\ Answered /\ UNCHANGED abandoned
  <2> USE <1>1, <1>4 DEF IInv, TypeOK, Accepted, Scheduled, Goto, Answered
  <2>1. UNCHANGED <<topology, version, sound, pool, count, verdict, faults, abandoned>>
    OBVIOUS
  <2>2. \A t : Part(t)' = Part(t)
    BY DEF Part
  <2>3. pc'[s] = "wait" /\ \A t \in Suite \ {s} : pc'[t] = pc[t]
    OBVIOUS
  <2>4. \A p \in Parts \ {Part(s)} : policy'[p] = policy[p]
    BY DEF OcmTypeOK
  <2>5. TypeOK'
    <3>1. pc' \in [Suite -> Calls \cup {"over"}]
      BY DEF Calls
    <3>2. policy' \in [Parts -> {"none", "scheduled", "running"}]
      BY DEF OcmTypeOK
    <3>3. OcmTypeOK'
      BY <2>1, <3>2 DEF OcmTypeOK
    <3> QED BY <2>1, <3>1, <3>3
  <2>6. PolicyInv'
    BY <2>1, <2>4 DEF PolicyInv
  <2>7. PhaseInv'
    BY <2>1, <2>3 DEF PhaseInv
  <2>8. VersionInv'
    BY <2>1, <2>2, <2>3 DEF VersionInv, Upgrades
  <2>9. EveryUpgradeWatched'
    <3> SUFFICES ASSUME NEW p \in Parts, policy'[p] # "none"
                 PROVE  \E t \in Upgrades :
                          Part(t) = p /\ (pc'[t] = "wait" \/ t \in abandoned \/ verdict[t] = "killed")
      BY <2>1, <2>2 DEF EveryUpgradeWatched
    <3>1. CASE p = Part(s)
      BY <2>3, <3>1
    <3>2. CASE p # Part(s)
      <4>1. PICK t \in Upgrades :
              Part(t) = p /\ (pc[t] = "wait" \/ t \in abandoned \/ verdict[t] = "killed")
        BY <2>4, <3>2 DEF EveryUpgradeWatched
      <4> QED BY <4>1, <2>3, <3>2 DEF Upgrades
    <3> QED BY <3>1, <3>2
  <2> QED BY <2>5, <2>6, <2>7, <2>8, <2>9
<1> QED BY <1>2, <1>3, <1>4 DEF Initiate

-----------------------------------------------------------------------------
(***************************************************************************)
(* What happens around the specs.                                          *)
(***************************************************************************)
LEMMA KillStep ==
  ASSUME IInv, Kill
  PROVE  IInv'
<1> USE DEF IInv, TypeOK, Kill
<1>1. UNCHANGED <<topology, version, policy, sound, pool, count, faults, abandoned>>
  BY DEF ocmVars
<1>2. \A t : Part(t)' = Part(t)
  BY <1>1 DEF Part
<1>3. \A t \in Suite : pc'[t] = "over"
  OBVIOUS
<1>4. \A t \in Suite : verdict'[t] = IF pc[t] = "over" THEN verdict[t] ELSE "killed"
  OBVIOUS
<1>5. TypeOK'
  <2>1. pc' \in [Suite -> Calls \cup {"over"}] /\ verdict' \in [Suite -> Verdicts]
    BY DEF Verdicts
  <2>2. OcmTypeOK'
    BY <1>1 DEF OcmTypeOK
  <2> QED BY <1>1, <2>1, <2>2
<1>6. PolicyInv'
  BY <1>1 DEF PolicyInv
<1>7. PhaseInv'
  BY <1>3 DEF PhaseInv
<1>8. VersionInv'
  BY <1>1, <1>2, <1>3, <1>4 DEF VersionInv, Upgrades
<1>9. EveryUpgradeWatched'
  BY <1>1, <1>2, <1>4 DEF EveryUpgradeWatched, Upgrades
<1> QED BY <1>5, <1>6, <1>7, <1>8, <1>9

LEMMA EnvironmentStep ==
  ASSUME IInv, Environment
  PROVE  IInv'
<1> USE DEF IInv, TypeOK, Environment, runVars
<1>1. UNCHANGED <<pc, pool, count, verdict, faults, abandoned, topology>>
  BY DEF OcmSteps, Begins, Finishes, Wavers
<1>2. \A t : Part(t)' = Part(t)
  BY <1>1 DEF Part
<1>3. CASE \E p \in Parts : Begins(p) \/ Finishes(p)
  <2>1. PICK p \in Parts : Begins(p) \/ Finishes(p)
    BY <1>3
  <2>2. policy[p] # "none" /\ sound' = sound
    BY <2>1 DEF Begins, Finishes
  <2>3. \A q \in Parts : policy'[q] # "none" => policy[q] # "none"
    BY <2>1 DEF Begins, Finishes, OcmTypeOK
  <2>4. \A q \in Parts : version[q] = "target" => version'[q] = "target"
    BY <2>1 DEF Begins, Finishes, OcmTypeOK
  <2>5. OcmTypeOK'
    <3>1. policy' \in [Parts -> {"none", "scheduled", "running"}]
      BY <2>1 DEF Begins, Finishes, OcmTypeOK
    <3>2. version' \in [Parts -> {"old", "target"}]
      BY <2>1 DEF Begins, Finishes, OcmTypeOK
    <3> QED BY <1>1, <2>2, <3>1, <3>2 DEF OcmTypeOK
  <2>6. TypeOK'
    BY <1>1, <2>5
  <2>7. PolicyInv'
    <3>1. CASE Begins(p)
      BY <3>1 DEF Begins, PolicyInv, OcmTypeOK
    <3>2. CASE Finishes(p)
      BY <3>2 DEF Finishes, PolicyInv, OcmTypeOK
    <3> QED BY <2>1, <3>1, <3>2
  <2>8. PhaseInv'
    BY <1>1 DEF PhaseInv
  <2>9. VersionInv'
    BY <1>1, <1>2, <2>4 DEF VersionInv, Upgrades
  <2>10. EveryUpgradeWatched'
    BY <1>1, <1>2, <2>3 DEF EveryUpgradeWatched, Upgrades
  <2> QED BY <2>6, <2>7, <2>8, <2>9, <2>10
<1>4. CASE \E a \in Aspects : Wavers(a)
  <2>1. UNCHANGED <<version, policy>>
    BY <1>4 DEF Wavers
  <2>2. sound' \in [Aspects -> BOOLEAN]
    BY <1>4 DEF Wavers, OcmTypeOK
  <2>3. TypeOK'
    BY <1>1, <2>1, <2>2 DEF OcmTypeOK
  <2>4. PolicyInv' /\ PhaseInv'
    BY <1>1, <2>1 DEF PolicyInv, PhaseInv
  <2>5. VersionInv' /\ EveryUpgradeWatched'
    BY <1>1, <1>2, <2>1 DEF VersionInv, EveryUpgradeWatched, Upgrades
  <2> QED BY <2>3, <2>4, <2>5
<1> QED BY <1>3, <1>4 DEF OcmSteps

LEMMA StutterStep ==
  ASSUME IInv, UNCHANGED vars
  PROVE  IInv'
<1> USE DEF IInv, vars, runVars, ocmVars
<1>1. \A t : Part(t)' = Part(t)
  BY DEF Part
<1>2. TypeOK'
  BY DEF TypeOK, OcmTypeOK
<1>3. PolicyInv' /\ PhaseInv'
  BY DEF PolicyInv, PhaseInv
<1>4. VersionInv' /\ EveryUpgradeWatched'
  BY <1>1 DEF VersionInv, EveryUpgradeWatched
<1> QED BY <1>2, <1>3, <1>4

-----------------------------------------------------------------------------
\* The invariant holds in every behaviour.
THEOREM Inductive == Spec => []IInv
<1>1. IInv /\ [Next]_vars => IInv'
  <2> SUFFICES ASSUME IInv, [Next]_vars
               PROVE  IInv'
    OBVIOUS
  <2>1. ASSUME NEW s \in Suite, Run(s)
        PROVE  IInv'
    BY <2>1, DetectStep, ListPoolsStep, InitClientsStep, InitiateStep, WaitStep, VerifyStep DEF Run
  <2>2. CASE Kill
    BY <2>2, KillStep
  <2>3. CASE Environment
    BY <2>3, EnvironmentStep
  <2>4. CASE UNCHANGED vars
    BY <2>4, StutterStep
  <2> QED BY <2>1, <2>2, <2>3, <2>4 DEF Next
<1> QED BY <1>1, InitHolds, PTL DEF Spec

\* Every variable has its type, and no wait ticks past its timeout.
THEOREM TypeCorrect == Spec => []TypeOK
<1>1. IInv => TypeOK
  BY DEF IInv
<1> QED BY <1>1, Inductive, PTL

\* A spec that passed has upgraded its part, and nothing upgrades it any more.
THEOREM PassSafe == Spec => []PassedMeansUpgraded
<1>1. IInv => PassedMeansUpgraded
  BY DEF IInv, PassedMeansUpgraded, VersionInv, PolicyInv
<1> QED BY <1>1, Inductive, PTL

\* Every upgrade that goes on is watched, or its spec was killed or had to give up.
THEOREM WatchSafe == Spec => []EveryUpgradeWatched
<1>1. IInv => EveryUpgradeWatched
  BY DEF IInv
<1> QED BY <1>1, Inductive, PTL

-----------------------------------------------------------------------------
(***************************************************************************)
(* The way of each spec to its end.  AllEnd itself needs fairness; what it *)
(* rests on is that every move of a spec shortens its own way, and that    *)
(* neither OCM nor the specs beside it lengthen it.                        *)
(***************************************************************************)
Rank ==
  [topology |-> 4, list |-> 4, clients |-> 4, initiate |-> 3, wait |-> 2, verify |-> 1,
   over |-> 0]

\* The calls that are left to s at most, the ticks of its wait among them.
Distance(s) == Rank[pc[s]] + (MaxPolls - count[s])

Moves(s) == Run(s) \/ (Kill /\ pc[s] # "over")

At(s, n) == pc[s] # "over" /\ Distance(s) = n
Nearer(s, n) == pc[s] = "over" \/ Distance(s) < n

LEMMA DistanceBound == IInv => \A s \in Suite : Distance(s) \in 0 .. MaxPolls + 4
<1> SUFFICES ASSUME IInv, NEW s \in Suite
             PROVE  Distance(s) \in 0 .. MaxPolls + 4
  OBVIOUS
<1>1. pc[s] \in Calls \cup {"over"} /\ count[s] \in 0 .. MaxPolls /\ MaxPolls \in Nat
  BY UpgradeAssumption DEF UpgradeAssumption, IInv, TypeOK
<1> QED BY <1>1 DEF Distance, Rank, Calls

LEMMA RunApproaches ==
  ASSUME IInv, NEW s \in Suite, Run(s)
  PROVE  Distance(s)' < Distance(s)
<1>1. pc \in [Suite -> Calls \cup {"over"}] /\ count \in [Suite -> 0 .. MaxPolls]
  BY DEF IInv, TypeOK
<1>2. count[s] \in Nat /\ MaxPolls \in Nat
  BY <1>1, UpgradeAssumption DEF UpgradeAssumption
<1>3. \/ pc[s]' = "over" /\ pc[s] \in Calls /\ count[s]' = count[s]
      \/ pc[s] = "topology" /\ pc[s]' = "initiate" /\ count[s]' = count[s]
      \/ pc[s] = "list" /\ pc[s]' = "initiate" /\ count[s]' = count[s]
      \/ pc[s] = "clients" /\ pc[s]' = "verify" /\ count[s]' = count[s]
      \/ pc[s] = "initiate" /\ pc[s]' = "wait" /\ count[s]' = count[s]
      \/ pc[s] = "wait" /\ pc[s]' = "verify" /\ count[s]' = count[s]
      \/ pc[s] = "wait" /\ pc[s]' = "wait" /\ count[s]' = count[s] + 1
  BY <1>1 DEF Run, Detect, ListPools, InitClients, Initiate, WaitForUpgrade, Verify, Goto, Ends,
     WaitMore, Tick, TimesOut, Calls
<1> QED BY <1>2, <1>3 DEF Distance, Rank, Calls

LEMMA KillApproaches ==
  ASSUME IInv, Kill, NEW s \in Suite, pc[s] # "over"
  PROVE  Distance(s)' < Distance(s)
<1>1. pc[s] \in Calls /\ pc[s]' = "over" /\ count[s]' = count[s]
  BY DEF IInv, TypeOK, Kill
<1>2. count[s] \in Nat /\ MaxPolls \in Nat
  BY UpgradeAssumption DEF UpgradeAssumption, IInv, TypeOK
<1> QED BY <1>1, <1>2 DEF Distance, Rank, Calls

LEMMA OthersDoNotDelay ==
  ASSUME IInv, [Next]_vars, NEW s \in Suite, ~Moves(s)
  PROVE  Distance(s)' = Distance(s)
<1>1. pc \in [Suite -> Calls \cup {"over"}] /\ count \in [Suite -> 0 .. MaxPolls]
  BY DEF IInv, TypeOK
<1>2. ASSUME NEW t \in Suite, Run(t)
      PROVE  pc[s]' = pc[s] /\ count[s]' = count[s]
  BY <1>1, <1>2 DEF Moves, Run, Detect, ListPools, InitClients, Initiate, WaitForUpgrade, Verify,
     Goto, Ends, WaitMore, TimesOut
<1>3. CASE Kill
  <2>1. pc[s]' = pc[s] /\ count[s]' = count[s]
    BY <1>3 DEF Moves, Kill
  <2> QED BY <2>1 DEF Distance
<1>4. CASE Environment \/ UNCHANGED vars
  BY <1>4 DEF Environment, vars, runVars, Distance
<1> QED BY <1>2, <1>3, <1>4 DEF Next, Distance

LEMMA MovesApproach ==
  ASSUME IInv, NEW s \in Suite, Moves(s)
  PROVE  Distance(s)' < Distance(s)
BY RunApproaches, KillApproaches DEF Moves

\* No call and no kill leaves an upgrade spec as far from its end as it was; OCM and the
\* specs that run beside it never send it back: it makes MaxPolls + 4 moves at most.
THEOREM Approaches ==
  ASSUME NEW s \in Suite
  PROVE  Spec => /\ [](Distance(s) \in 0 .. MaxPolls + 4)
                 /\ [][IF Moves(s) THEN Distance(s)' < Distance(s)
                                   ELSE Distance(s)' = Distance(s)]_vars
<1>1. IInv => Distance(s) \in 0 .. MaxPolls + 4
  BY DistanceBound
<1>2. IInv /\ [Next]_vars =>
        [IF Moves(s) THEN Distance(s)' < Distance(s) ELSE Distance(s)' = Distance(s)]_vars
  BY MovesApproach, OthersDoNotDelay
<1> QED BY <1>1, <1>2, Inductive, PTL DEF Spec

\* If a spec that is not over keeps taking steps, whatever the others do in between, then
\* from any distance it comes to its end or strictly nearer to it.
THEOREM EndApproaches ==
  ASSUME NEW s \in Suite, NEW n \in Nat
  PROVE  Spec /\ [](pc[s] # "over" => <><<Run(s)>>_vars) => [](At(s, n) => <>Nearer(s, n))
<1>1. IInv /\ At(s, n) /\ [Next]_vars => At(s, n)' \/ Nearer(s, n)'
  BY MovesApproach, OthersDoNotDelay DEF At, Nearer
<1>2. IInv /\ At(s, n) /\ Run(s) => Nearer(s, n)'
  BY RunApproaches DEF At, Nearer
<1>3. At(s, n) => pc[s] # "over"
  BY DEF At
<1> QED BY <1>1, <1>2, <1>3, Inductive, PTL DEF Spec
=============================================================================
