------------------------- MODULE HealthChecks_proofs -------------------------
(***************************************************************************)
(* Proofs about HealthChecks, for any timeouts, deployments, providers,    *)
(* logs, page sizes and page limits.  No check touches another's           *)
(* variables, so there is an invariant for each, and the steps of the      *)
(* others leave it alone.                                                  *)
(***************************************************************************)
EXTENDS HealthChecks, FiniteSetTheorems, TLAPS

-----------------------------------------------------------------------------
(***************************************************************************)
(* Types.                                                                  *)
(***************************************************************************)
LEMMA InitTypeOK == Init => TypeOK
<1> SUFFICES ASSUME Init
             PROVE  TypeOK
  OBVIOUS
<1> USE DEF Init
<1>1. check \in Checks /\ at \in Calls \ {"over"} /\ verdict = "none"
  BY ChecksAssumption DEF ChecksAssumption, FirstCall, Calls
<1>2. OAuthTypeOK
  <2>1. pods \in [Pods -> Containers]
    BY DEF OAuthInit, Absentee, Containers
  <2> QED BY <2>1, OAuthAssumption DEF OAuthAssumption, OAuthInit, OAuthTypeOK
<1>3. RevisionTypeOK
  BY RevisionAssumption DEF RevisionAssumption, RevisionInit, RevisionTypeOK, Nothing, Revisions, Missing
<1>4. AuthTypeOK
  BY DEF AuthInit, AuthTypeOK
<1>5. TrailTypeOK
  <2>1. log \in Logs \cup {<<>>}
    BY DEF TrailInit
  <2>2. MaxPages \in Nat
    BY CloudTrailAssumption DEF CloudTrailAssumption
  <2>3. page \in 0 .. MaxPages
    BY <2>2 DEF TrailInit
  <2>4. denied \in BOOLEAN
    BY DEF TrailInit
  <2> QED BY <2>1, <2>3, <2>4 DEF TrailTypeOK
<1>6. StatusTypeOK
  <2>1. "claim" \in Kinds
    BY DEF Kinds, Wants
  <2> QED BY <2>1 DEF StatusInit, StatusTypeOK
<1> QED
  BY <1>1, <1>2, <1>3, <1>4, <1>5, <1>6 DEF TypeOK

ControlTypeOK ==
  /\ check \in Checks /\ at \in Calls
  /\ verdict \in {"none", "nil", "error", "found", "skipped"}
  /\ at = "over" <=> verdict # "none"

LEMMA Untouched ==
  ASSUME TypeOK
  PROVE  /\ UNCHANGED oauthVars => OAuthTypeOK'
         /\ UNCHANGED revisionVars => RevisionTypeOK'
         /\ UNCHANGED authVars => AuthTypeOK'
         /\ UNCHANGED trailVars => TrailTypeOK'
         /\ UNCHANGED statusVars => StatusTypeOK'
<1>1. UNCHANGED oauthVars => OAuthTypeOK'
  BY DEF TypeOK, OAuthTypeOK, oauthVars
<1>2. UNCHANGED revisionVars => RevisionTypeOK'
  BY DEF TypeOK, RevisionTypeOK, revisionVars
<1>3. UNCHANGED authVars => AuthTypeOK'
  BY DEF TypeOK, AuthTypeOK, authVars
<1>4. UNCHANGED trailVars => TrailTypeOK'
  BY DEF TypeOK, TrailTypeOK, trailVars
<1>5. UNCHANGED statusVars => StatusTypeOK'
  BY DEF TypeOK, StatusTypeOK, statusVars
<1> QED BY <1>1, <1>2, <1>3, <1>4, <1>5

LEMMA OAuthTypes ==
  ASSUME TypeOK, OAuth
  PROVE  ControlTypeOK' /\ OAuthTypeOK'
<1> USE DEF TypeOK, ControlTypeOK, OAuthTypeOK, Calls, Goto, Ends, oauthVars
<1> USE OAuthAssumption DEF OAuthAssumption
<1>1. CASE TimesOut
  BY <1>1 DEF TimesOut
<1>2. ASSUME NEW d \in 0 .. MaxCall, ListPods(d)
      PROVE  ControlTypeOK' /\ OAuthTypeOK'
  <2>1. now' = now + d /\ d \in Nat
    BY <1>2 DEF ListPods
  <2>2. now' \in Nat
    BY <2>1
  <2>3. deadline' \in Nat
    BY <1>2, <2>2 DEF ListPods
  <2>4. ControlTypeOK'
    BY <1>2 DEF ListPods
  <2> QED BY <1>2, <2>2, <2>3, <2>4 DEF ListPods
<1>3. ASSUME NEW d \in 0 .. MaxCall, ProbeEndpoint(d)
      PROVE  ControlTypeOK' /\ OAuthTypeOK'
  <2>1. now' = now + d /\ d \in Nat
    BY <1>3 DEF ProbeEndpoint
  <2>2. now' \in Nat
    BY <2>1
  <2>3. ControlTypeOK'
    BY <1>3 DEF ProbeEndpoint
  <2> QED BY <1>3, <2>2, <2>3 DEF ProbeEndpoint
<1>4. ASSUME NEW call \in Calls, NEW interval \in Nat, NEW next \in Calls \ {"over"},
             call # "over", Poll(call, interval, next)
      PROVE  ControlTypeOK' /\ OAuthTypeOK'
  <2>1. now' \in Nat
    BY <1>4 DEF Poll, Sleep
  <2>2. deadline' = deadline
    BY <1>4 DEF Poll, Sleep
  <2>3. ControlTypeOK'
    BY <1>4 DEF Poll
  <2> QED BY <1>4, <2>1, <2>2, <2>3 DEF Poll
<1>5. CASE OAuthWorld
  <2>1. ControlTypeOK' /\ now' \in Nat /\ deadline' \in Nat
    BY <1>5 DEF OAuthWorld, Elsewhere, control
  <2>2. pods' \in [Pods -> Containers]
    BY <1>5 DEF OAuthWorld
  <2>3. answers' \in BOOLEAN /\ cancelled' \in BOOLEAN
    BY <1>5 DEF OAuthWorld
  <2> QED BY <2>1, <2>2, <2>3
<1>6. Poll("podPoll", PodPoll, "pods") => ControlTypeOK' /\ OAuthTypeOK'
  BY <1>4
<1>7. Poll("endpointPoll", EndpointPoll, "endpoint") => ControlTypeOK' /\ OAuthTypeOK'
  BY <1>4
<1> QED BY <1>1, <1>2, <1>3, <1>5, <1>6, <1>7 DEF OAuth, OAuthSteps

LEMMA RevisionTypes ==
  ASSUME TypeOK, Revision
  PROVE  ControlTypeOK' /\ RevisionTypeOK'
<1> USE DEF TypeOK, ControlTypeOK, RevisionTypeOK, Calls, Goto, Ends, revisionVars
<1>1. CASE FirstSnapshot
  BY <1>1 DEF FirstSnapshot
<1>2. CASE Observe
  BY <1>2 DEF Observe
<1>3. CASE SecondSnapshot
  BY <1>3 DEF SecondSnapshot
<1>4. CASE RevisionWorld
  <2>1. ControlTypeOK' /\ initial' = initial
    BY <1>4 DEF RevisionWorld, Elsewhere, control
  <2>2. PICK d \in Deployments : RollsOut(d) \/ Goes(d) \/ Comes(d)
    BY <1>4 DEF RevisionWorld
  <2>3. rolled' \subseteq Deployments /\ gone' \subseteq Deployments
    BY <2>2 DEF RollsOut, Goes, Comes
  <2>4. PICK n \in Revisions : revision' = [revision EXCEPT ![d] = n]
    BY <2>2, RevisionAssumption DEF RollsOut, Goes, Comes, Revisions, Missing, RevisionAssumption
  <2> QED BY <2>1, <2>3, <2>4
<1> QED BY <1>1, <1>2, <1>3, <1>4 DEF Revision, RevisionSteps

LEMMA AuthTypes ==
  ASSUME TypeOK, Auth
  PROVE  ControlTypeOK' /\ AuthTypeOK'
<1> USE DEF TypeOK, ControlTypeOK, AuthTypeOK, Calls, Goto, Ends, authVars
<1>1. CASE ExternalAuthEnabled
  BY <1>1 DEF ExternalAuthEnabled
<1>2. CASE ReadConfig
  BY <1>2 DEF ReadConfig
<1>3. CASE VerifyExternalAuthProviders
  BY <1>3 DEF VerifyExternalAuthProviders
<1>4. CASE ListIssuers
  BY <1>4 DEF ListIssuers, Listed
<1>5. CASE FetchDiscovery
  <2>1. left' \subseteq Providers /\ probing' \subseteq Providers
    BY <1>5 DEF FetchDiscovery
  <2> QED BY <1>5, <2>1 DEF FetchDiscovery
<1>6. CASE FetchJWKS
  BY <1>6 DEF FetchJWKS, NextIssuer
<1>7. CASE AuthWorld
  <2>1. ControlTypeOK' /\ left' = left /\ probing' = probing
    BY <1>7 DEF AuthWorld, Elsewhere, control
  <2>2. enabled' \in BOOLEAN /\ steady' \subseteq Providers
    BY <1>7 DEF AuthWorld
  <2>3. providers' \in [Providers -> {"absent", "noIssuer", "bad", "good"}]
    BY <1>7 DEF AuthWorld
  <2>4. issuer' \in [Providers -> {"down", "noKeys", "keys"}]
    BY <1>7 DEF AuthWorld
  <2> QED BY <2>1, <2>2, <2>3, <2>4
<1> QED BY <1>1, <1>2, <1>3, <1>4, <1>5, <1>6, <1>7 DEF Auth, AuthSteps

\* Between lookups there is a page left to read.
PageInv == check = "cloudTrail" /\ at \in {"begin", "lookup"} => page < MaxPages

LEMMA TrailTypes ==
  ASSUME TypeOK, PageInv, TrailSteps
  PROVE  ControlTypeOK' /\ TrailTypeOK' /\ PageInv'
<1> USE DEF TypeOK, ControlTypeOK, TrailTypeOK, PageInv, Calls, Goto, Ends
<1> USE CloudTrailAssumption DEF CloudTrailAssumption
<1>1. CASE FindLog
  BY <1>1 DEF FindLog
<1>2. CASE LookupEvents
  <2>1. page' \in 0 .. MaxPages /\ log' = log
    BY <1>2 DEF LookupEvents
  <2>2. denied' \in BOOLEAN
    BY <1>2 DEF LookupEvents
  <2>3. ControlTypeOK'
    BY <1>2 DEF LookupEvents
  <2>4. PageInv'
    BY <1>2 DEF LookupEvents, MorePages
  <2> QED BY <2>1, <2>2, <2>3, <2>4
<1> QED BY <1>1, <1>2 DEF TrailSteps

\* Nothing was read before the read.
ReadInv == check = "status" /\ at = "read" => objects = <<>>

LEMMA StatusTypes ==
  ASSUME TypeOK, ReadInv, VerifyStatus
  PROVE  ControlTypeOK' /\ StatusTypeOK' /\ ReadInv'
<1>1. at' = "over" /\ check' = check /\ verdict' \in {"error", "nil", "found"}
  BY DEF VerifyStatus, Ends
<1>2. kind' \in Kinds /\ (objects' = <<>> \/ objects' \in Readings(kind'))
  BY DEF VerifyStatus, ReadInv
<1>3. ControlTypeOK'
  BY <1>1 DEF TypeOK, ControlTypeOK, Calls
<1>4. ReadInv'
  BY <1>1 DEF ReadInv
<1> QED BY <1>2, <1>3, <1>4 DEF StatusTypeOK

-----------------------------------------------------------------------------
(***************************************************************************)
(* The waits for OAuth: each ends at most a call and a poll after its      *)
(* deadline, and the second deadline is set when the pods are found ready. *)
(***************************************************************************)
WaitInv ==
  check = "oauth" =>
    /\ at \in {"pods", "podPoll"} => deadline = Timeout
    /\ at = "pods" => now <= Timeout + MaxCall + PodPoll
    /\ at = "podPoll" => now <= Timeout + MaxCall
    /\ at \in {"endpoint", "endpointPoll"} => deadline <= 2 * Timeout + MaxCall
    /\ at = "endpoint" => now <= deadline + MaxCall + EndpointPoll
    /\ at = "endpointPoll" => now <= deadline + MaxCall

LEMMA OAuthWaits ==
  ASSUME TypeOK, WaitInv, OAuthInTime, OAuth
  PROVE  WaitInv' /\ OAuthInTime'
<1> USE DEF WaitInv, OAuthInTime, Goto, Ends, oauthVars
<1> USE OAuthAssumption DEF OAuthAssumption
<1>0. now \in Nat /\ deadline \in Nat /\ (at = "over" <=> verdict # "none")
  BY DEF TypeOK, OAuthTypeOK
<1>1. CASE TimesOut
  BY <1>0, <1>1 DEF TimesOut
<1>2. ASSUME NEW d \in 0 .. MaxCall, ListPods(d)
      PROVE  WaitInv' /\ OAuthInTime'
  <2>1. now' = now + d /\ now <= Timeout /\ d \in Nat /\ d <= MaxCall
    BY <1>0, <1>2 DEF ListPods
  <2>2. now' \in Nat /\ now' <= Timeout + MaxCall
    BY <1>0, <2>1
  <2> QED BY <1>0, <1>2, <2>2 DEF ListPods
<1>3. ASSUME NEW d \in 0 .. MaxCall, ProbeEndpoint(d)
      PROVE  WaitInv' /\ OAuthInTime'
  <2>1. now' = now + d /\ now <= deadline /\ d \in Nat /\ d <= MaxCall
    BY <1>0, <1>3 DEF ProbeEndpoint
  <2>2. now' \in Nat /\ now' <= deadline + MaxCall
    BY <1>0, <2>1
  <2> QED BY <1>0, <1>3, <2>2 DEF ProbeEndpoint
<1>4. CASE Poll("podPoll", PodPoll, "pods")
  <2>1. check = "oauth" /\ at = "podPoll" /\ check' = check /\ deadline' = deadline
    BY <1>4 DEF Poll, Sleep
  <2>2. CASE Ends("error") /\ now' = now
    BY <1>0, <2>1, <2>2
  <2>3. CASE Goto("pods") /\ now' = now + PodPoll
    BY <1>0, <2>1, <2>3
  <2>4. (Ends("error") /\ now' = now) \/ (Goto("pods") /\ now' = now + PodPoll)
    BY <1>4 DEF Poll, Sleep
  <2> QED BY <2>2, <2>3, <2>4
<1>5. CASE Poll("endpointPoll", EndpointPoll, "endpoint")
  <2>1. check = "oauth" /\ at = "endpointPoll" /\ check' = check /\ deadline' = deadline
    BY <1>5 DEF Poll, Sleep
  <2>2. CASE Ends("error") /\ now' = now
    BY <1>0, <2>1, <2>2
  <2>3. CASE Goto("endpoint") /\ now' = now + EndpointPoll
    BY <1>0, <2>1, <2>3
  <2>4. (Ends("error") /\ now' = now) \/ (Goto("endpoint") /\ now' = now + EndpointPoll)
    BY <1>5 DEF Poll, Sleep
  <2> QED BY <2>2, <2>3, <2>4
<1>6. CASE OAuthWorld
  BY <1>6 DEF OAuthWorld, Elsewhere, control
<1> QED BY <1>1, <1>2, <1>3, <1>4, <1>5, <1>6 DEF OAuth, OAuthSteps

-----------------------------------------------------------------------------
(***************************************************************************)
(* The observed deployments: one that was never away since the first       *)
(* listing has rolled out if and only if its revision is a later one.      *)
(***************************************************************************)
Followed ==
  \A d \in Deployments \ gone :
    /\ revision[d] # Missing /\ initial[d] # Missing /\ initial[d] <= revision[d]
    /\ d \in rolled <=> initial[d] < revision[d]

ObservedInv ==
  check = "revisions" =>
    (at \in {"observe", "second"} \/ verdict \in {"nil", "found"} => Followed)

LEMMA RevisionsFollowed ==
  ASSUME TypeOK, ObservedInv, RevisionSound, Revision
  PROVE  ObservedInv' /\ RevisionSound'
<1> USE DEF ObservedInv, RevisionSound, Goto, Ends, revisionVars
<1>0. /\ revision \in [Deployments -> Revisions] /\ initial \in [Deployments -> Revisions]
      /\ at = "over" <=> verdict # "none"
      /\ Revisions \subseteq Int
      /\ check = "revisions"
  BY RevisionAssumption
     DEF RevisionAssumption, TypeOK, RevisionTypeOK, Revisions, Missing, Revision, RevisionSteps,
         FirstSnapshot, Observe, SecondSnapshot, RevisionWorld
<1>1. CASE FirstSnapshot
  <2>1. Ends("error") => ObservedInv' /\ RevisionSound'
    BY <1>1 DEF FirstSnapshot
  <2>2. ASSUME ~Ends("error")
        PROVE  Followed' /\ verdict' # "found" /\ rolled' = {}
    <3>1. /\ revision' = revision /\ initial' = revision /\ rolled' = {}
          /\ gone' = {d \in Deployments : revision[d] = Missing}
      BY <1>1, <2>2 DEF FirstSnapshot
    <3>2. \A d \in Deployments \ gone' : revision[d] # Missing /\ revision[d] \in Int
      BY <1>0, <3>1
    <3>3. Followed'
      BY <3>1, <3>2 DEF Followed
    <3>4. verdict' # "found"
      BY <1>0, <1>1, <2>2 DEF FirstSnapshot
    <3> QED BY <3>1, <3>3, <3>4
  <2> QED BY <2>1, <2>2
<1>2. CASE Observe
  <2>1. Followed' <=> Followed
    BY <1>2 DEF Observe, Followed
  <2> QED BY <1>0, <1>2, <2>1 DEF Observe
<1>3. CASE SecondSnapshot
  <2>1. Followed /\ UNCHANGED revisionVars
    BY <1>0, <1>3 DEF SecondSnapshot
  <2>2. Followed'
    BY <2>1 DEF Followed
  <2>3. verdict' = "nil" => rolled \subseteq gone
    <3> SUFFICES ASSUME verdict' = "nil", NEW d \in rolled, d \notin gone
                 PROVE  FALSE
      OBVIOUS
    <3>1. d \in Deployments
      BY DEF TypeOK, RevisionTypeOK
    <3>2. initial[d] \in Int /\ revision[d] \in Int
      BY <1>0, <3>1
    <3>3. initial[d] < revision[d] /\ initial[d] # Missing /\ revision[d] # Missing
      BY <2>1, <3>1 DEF Followed
    <3>4. Changed(d)
      BY <3>2, <3>3 DEF Changed
    <3>5. Ends("nil")
      BY <1>3 DEF SecondSnapshot
    <3>6. ~\E e \in Deployments : Changed(e)
      BY <1>3, <3>5 DEF SecondSnapshot
    <3> QED BY <3>1, <3>4, <3>6
  <2>4. verdict' = "found" => \E d \in rolled \cup gone : Missing \notin {initial[d], revision[d]}
    <3> SUFFICES ASSUME verdict' = "found"
                 PROVE  \E d \in rolled \cup gone : Missing \notin {initial[d], revision[d]}
      OBVIOUS
    <3>1. PICK d \in Deployments : Changed(d)
      BY <1>3 DEF SecondSnapshot
    <3>2. initial[d] \in Int /\ revision[d] \in Int
      BY <1>0
    <3>3. d \in rolled \cup gone
      BY <2>1, <3>1, <3>2 DEF Followed, Changed
    <3> QED BY <3>1, <3>3 DEF Changed
  <2> QED BY <2>1, <2>2, <2>3, <2>4
<1>4. CASE RevisionWorld
  <2>1. at # "over" /\ UNCHANGED <<check, at, verdict, initial>> /\ verdict = "none"
    BY <1>0, <1>4 DEF RevisionWorld, Elsewhere, control
  <2>2. PICK d \in Deployments : RollsOut(d) \/ Goes(d) \/ Comes(d)
    BY <1>4 DEF RevisionWorld
  <2>3. ASSUME Followed
        PROVE  Followed'
    <3> SUFFICES ASSUME NEW e \in Deployments, e \notin gone'
                 PROVE  /\ revision'[e] # Missing /\ initial'[e] # Missing
                        /\ initial'[e] <= revision'[e]
                        /\ e \in rolled' <=> initial'[e] < revision'[e]
      BY DEF Followed
    <3>1. e \notin gone /\ initial[e] \in Int /\ revision[e] \in Int
      BY <1>0, <2>2 DEF RollsOut, Goes, Comes
    <3>2. /\ revision[e] # Missing /\ initial[e] # Missing /\ initial[e] <= revision[e]
          /\ e \in rolled <=> initial[e] < revision[e]
      BY <2>3, <3>1 DEF Followed
    <3>3. CASE e # d
      BY <1>0, <2>1, <2>2, <3>2, <3>3 DEF RollsOut, Goes, Comes
    <3>4. CASE e = d /\ RollsOut(d)
      <4>1. revision'[e] = revision[e] + 1 /\ e \in rolled'
        BY <1>0, <3>4 DEF RollsOut
      <4>2. initial'[e] = initial[e] /\ initial[e] >= 0
        BY <1>0, <2>1, <3>2 DEF Revisions, Missing
      <4>3. initial[e] < revision'[e] /\ revision'[e] >= 0
        BY <3>1, <3>2, <4>1, <4>2
      <4> QED BY <3>1, <4>1, <4>2, <4>3 DEF Missing
    <3>5. CASE e = d /\ ~RollsOut(d)
      BY <2>2, <3>1, <3>2, <3>5 DEF Goes, Comes
    <3> QED BY <3>3, <3>4, <3>5
  <2> QED BY <2>1, <2>3
<1> QED BY <1>1, <1>2, <1>3, <1>4 DEF Revision, RevisionSteps

-----------------------------------------------------------------------------
(***************************************************************************)
(* The providers nobody touched: well formed once they were looked at,     *)
(* with a key published once their issuer was probed.                      *)
(***************************************************************************)
Validated ==
  /\ \A p \in steady \cap Listed : providers[p] = "good"
  /\ steady = Providers => Listed # {}

Probed(rest) == \A p \in (steady \cap Listed) \ rest : issuer[p] = "keys"

ProbeInv ==
  check = "externalAuth" =>
    /\ at \in {"relist", "discovery", "jwks"} => Validated
    /\ at = "discovery" => Probed(left)
    /\ at = "jwks" => Probed(left \cup probing)

LEMMA WorldKeepsSteady ==
  ASSUME TypeOK, AuthWorld
  PROVE  /\ UNCHANGED <<check, at, verdict, left, probing>> /\ at # "over"
         /\ Validated => Validated'
         /\ \A rest : Probed(rest) => Probed(rest)'
<1>1. UNCHANGED <<check, at, verdict, left, probing>> /\ at # "over"
  BY DEF AuthWorld, Elsewhere, control
<1>2. CASE UNCHANGED <<providers, issuer, steady>>
  BY <1>1, <1>2 DEF Validated, Probed, Listed
<1>3. ASSUME NEW p \in Providers, steady' = steady \ {p},
             \A q \in Providers \ {p} : providers'[q] = providers[q] /\ issuer'[q] = issuer[q]
      PROVE  /\ Validated => Validated'
             /\ \A rest : Probed(rest) => Probed(rest)'
  <2>1. steady \subseteq Providers
    BY DEF TypeOK, AuthTypeOK
  <2>2. steady' # Providers /\ (steady \cap Listed)' \subseteq steady \cap Listed
    BY <1>3, <2>1 DEF Listed
  <2>3. \A q \in (steady \cap Listed)' : providers'[q] = providers[q] /\ issuer'[q] = issuer[q]
    BY <1>3 DEF Listed
  <2> QED BY <2>2, <2>3 DEF Validated, Probed
<1>4. CASE ~UNCHANGED <<providers, issuer, steady>>
  <2>1. PICK p \in Providers :
          /\ steady' = steady \ {p}
          /\ \/ (\E v : providers' = [providers EXCEPT ![p] = v]) /\ issuer' = issuer
             \/ (\E v : issuer' = [issuer EXCEPT ![p] = v]) /\ providers' = providers
    BY <1>4 DEF AuthWorld
  <2>2. providers \in [Providers -> {"absent", "noIssuer", "bad", "good"}]
        /\ issuer \in [Providers -> {"down", "noKeys", "keys"}]
    BY DEF TypeOK, AuthTypeOK
  <2>3. \A q \in Providers \ {p} : providers'[q] = providers[q] /\ issuer'[q] = issuer[q]
    BY <2>1, <2>2
  <2> QED BY <1>1, <1>3, <2>1, <2>3
<1> QED BY <1>1, <1>2, <1>4

LEMMA ProvidersProbed ==
  ASSUME TypeOK, ProbeInv, ProvidersSound, Auth
  PROVE  ProbeInv' /\ ProvidersSound'
<1> USE DEF ProbeInv, ProvidersSound, Goto, Ends
<1>0. at = "over" <=> verdict # "none"
  BY DEF TypeOK
<1>1. CASE ExternalAuthEnabled
  BY <1>0, <1>1 DEF ExternalAuthEnabled
<1>2. CASE ReadConfig
  BY <1>0, <1>2 DEF ReadConfig
<1>3. CASE VerifyExternalAuthProviders
  <2>1. Validated' \/ Ends("error")
    BY <1>3 DEF VerifyExternalAuthProviders, validateExternalAuthProvider, Validated, Listed, authVars
  <2>2. Goto("relist") \/ Ends("error")
    BY <1>3 DEF VerifyExternalAuthProviders
  <2> QED BY <1>0, <1>3, <2>1, <2>2 DEF VerifyExternalAuthProviders
<1>4. CASE ListIssuers
  <2>1. Validated' /\ check' = check
    BY <1>4 DEF ListIssuers, Validated, Listed
  <2>2. CASE Goto("discovery") /\ left' = Listed
    <3>1. Listed' = Listed
      BY <1>4 DEF ListIssuers, Listed
    <3>2. Probed(left)'
      BY <2>2, <3>1 DEF Probed
    <3> QED BY <1>0, <1>4, <2>1, <2>2, <3>2 DEF ListIssuers
  <2> QED BY <1>4, <2>1, <2>2 DEF ListIssuers
<1>5. CASE FetchDiscovery
  <2>1. Validated'
    BY <1>5 DEF FetchDiscovery, Validated, Listed
  <2>2. CASE Ends("error")
    BY <2>2
  <2>3. CASE ~Ends("error")
    <3>1. PICK p \in left : probing' = {p} /\ left' = left \ {p} /\ Goto("jwks")
      BY <1>5, <2>3 DEF FetchDiscovery
    <3>2. left' \cup probing' = left
      BY <3>1
    <3>3. Probed(left)
      BY <1>5 DEF FetchDiscovery
    <3>4. Probed(left \cup probing)'
      BY <1>5, <3>2, <3>3 DEF FetchDiscovery, Probed, Listed
    <3> QED BY <1>0, <1>5, <2>1, <3>1, <3>4 DEF FetchDiscovery
  <2> QED BY <2>2, <2>3
<1>6. CASE FetchJWKS
  <2>1. Validated /\ Probed(left \cup probing) /\ UNCHANGED authVars
    BY <1>6 DEF FetchJWKS
  <2>2. Validated'
    BY <2>1 DEF Validated, Listed, authVars
  <2>3. CASE Ends("error")
    BY <2>3
  <2>4. CASE ~Ends("error")
    <3>1. NextIssuer /\ \A p \in probing : issuer[p] = "keys"
      BY <1>6, <2>4 DEF FetchJWKS
    <3>2. Probed(left)
      BY <2>1, <3>1 DEF Probed
    <3>3. Probed(left)'
      BY <2>1, <3>2 DEF Probed, Listed, authVars
    <3>4. CASE left = {}
      <4>1. \A p \in (steady \cap Listed)' : issuer'[p] = "keys"
        BY <2>1, <3>3, <3>4 DEF Probed, authVars
      <4>2. Ends("nil")
        BY <3>1, <3>4 DEF NextIssuer
      <4>3. ProbeInv'
        BY <4>2
      <4>4. ProvidersSound'
        BY <2>2, <4>1 DEF Validated
      <4> QED BY <4>3, <4>4
    <3>5. CASE left # {}
      BY <1>0, <1>6, <2>2, <3>1, <3>3, <3>5 DEF NextIssuer, FetchJWKS
    <3> QED BY <3>4, <3>5
  <2> QED BY <2>3, <2>4
<1>7. CASE AuthWorld
  <2>1. /\ UNCHANGED <<check, at, verdict, left, probing>> /\ at # "over"
        /\ Validated => Validated'
        /\ \A rest : Probed(rest) => Probed(rest)'
    BY <1>7, WorldKeepsSteady
  <2>2. Probed(left) => Probed(left)'
    BY <2>1 DEF Probed
  <2>3. Probed(left \cup probing) => Probed(left \cup probing)'
    BY <2>1 DEF Probed
  <2> QED BY <1>0, <2>1, <2>2, <2>3
<1> QED BY <1>1, <1>2, <1>3, <1>4, <1>5, <1>6, <1>7 DEF Auth, AuthSteps

-----------------------------------------------------------------------------
(***************************************************************************)
(* The pages: what was read so far holds a denial if and only if one was   *)
(* noted.                                                                  *)
(***************************************************************************)
LEMMA RegressionsCount ==
  ASSUME NEW e \in Events
  PROVE  Regression(e) <=> Counted(e)
BY DEF Events, Roles, Regression, Counted, isKnownDenial, callerARNFromEvent

TrailInv ==
  check = "cloudTrail" =>
    /\ at = "begin" => page = 0 /\ ~denied
    /\ at \in {"begin", "lookup"} => page < MaxPages
    /\ ~denied => \A i \in DOMAIN log : i <= page * PageSize => ~Counted(log[i])
    /\ denied => \E i \in DOMAIN log : Counted(log[i])
    /\ verdict = "nil" => ~denied /\ (page = MaxPages \/ Len(log) <= page * PageSize)
    /\ verdict = "found" => denied

LEMMA LogIndices ==
  ASSUME NEW l \in Logs
  PROVE  /\ Len(l) \in Nat /\ DOMAIN l = 1 .. Len(l)
         /\ \A i \in DOMAIN l : l[i] \in Events
<1>1. l \in Seq(Events)
  BY LogAssumption DEF LogAssumption
<1> QED BY <1>1

LEMMA PagesRead ==
  ASSUME TypeOK, TrailInv, TrailSteps
  PROVE  TrailInv'
<1> USE DEF TrailInv, Goto, Ends
<1>0. /\ at = "over" <=> verdict # "none"
      /\ page \in Nat /\ page <= MaxPages /\ denied \in BOOLEAN
      /\ MaxPages \in Nat /\ PageSize \in Nat
  BY CloudTrailAssumption DEF CloudTrailAssumption, TypeOK, TrailTypeOK
<1>1. CASE FindLog
  <2>1. /\ at = "begin" /\ at' = "lookup" /\ page' = 0 /\ verdict' = "none" /\ page' < MaxPages
        /\ ~denied' /\ check = "cloudTrail" /\ check' = check /\ log' \in Logs
    BY <1>0, <1>1 DEF FindLog
  <2>2. 0 * PageSize = 0
    BY <1>0
  <2>3. \A i \in DOMAIN log' : ~(i <= page' * PageSize)
    BY <2>1, <2>2, LogIndices
  <2> QED BY <2>1, <2>3
<1>2. CASE LookupEvents
  <2>1. /\ check = "cloudTrail" /\ at = "lookup" /\ check' = check /\ log' = log /\ page < MaxPages
        /\ verdict = "none"
    BY <1>0, <1>2 DEF LookupEvents
  <2>2. CASE Ends("error") /\ UNCHANGED <<page, denied>>
    BY <2>1, <2>2
  <2>3. CASE /\ denied' = (denied \/ \E i \in DOMAIN log :
                   i > page * PageSize /\ i <= (page + 1) * PageSize /\ Counted(log[i]))
             /\ page' = page + 1
             /\ IF MorePages /\ (page + 1) * PageSize < Len(log) THEN Goto("lookup")
                ELSE Ends(IF denied' THEN "found" ELSE "nil")
    <3>1. DOMAIN log \subseteq Int /\ Len(log) \in Nat
      BY LogIndices DEF TypeOK, TrailTypeOK
    <3>2. page * PageSize \in Int
      BY <1>0
    <3>3. ~denied' => \A i \in DOMAIN log' : i <= page' * PageSize => ~Counted(log'[i])
      <4> SUFFICES ASSUME ~denied', NEW i \in DOMAIN log, i <= page' * PageSize
                   PROVE  ~Counted(log[i])
        BY <2>1
      <4>1. ~denied /\ (i > page * PageSize => ~Counted(log[i]))
        BY <2>3
      <4>2. i <= page * PageSize => ~Counted(log[i])
        BY <2>1, <4>1
      <4> QED BY <3>1, <3>2, <4>1, <4>2
    <3>4. denied' => \E i \in DOMAIN log' : Counted(log'[i])
      BY <2>1, <2>3
    <3>5. CASE MorePages /\ (page + 1) * PageSize < Len(log)
      <4>1. Goto("lookup") /\ page' < MaxPages
        BY <2>3, <3>5 DEF MorePages
      <4> QED BY <2>1, <3>3, <3>4, <4>1
    <3>6. CASE ~(MorePages /\ (page + 1) * PageSize < Len(log))
      <4>1. Ends(IF denied' THEN "found" ELSE "nil")
        BY <2>3, <3>6
      <4>2. page' = MaxPages \/ Len(log) <= page' * PageSize
        <5>1. CASE ~MorePages
          BY <1>0, <2>1, <2>3, <5>1 DEF MorePages
        <5>2. CASE ~((page + 1) * PageSize < Len(log))
          <6>1. (page + 1) * PageSize \in Int /\ page' = page + 1
            BY <1>0, <2>3
          <6> QED BY <3>1, <5>2, <6>1
        <5> QED BY <3>6, <5>1, <5>2
      <4> QED BY <2>1, <3>3, <3>4, <4>1, <4>2
    <3> QED BY <3>5, <3>6
  <2> QED BY <1>2, <2>2, <2>3 DEF LookupEvents
<1> QED BY <1>1, <1>2 DEF TrailSteps

\* The invariant says of the pages what DenialsSeen says of the check.
LEMMA PagesSuffice ==
  ASSUME TypeOK, TrailInv
  PROVE  DenialsSeen
<1> SUFFICES ASSUME check = "cloudTrail"
             PROVE  /\ verdict = "nil" =>
                         \A i \in DOMAIN log : Regression(log[i]) => i > MaxPages * PageSize
                    /\ verdict = "found" => \E i \in DOMAIN log : Regression(log[i])
  BY DEF DenialsSeen
<1>1. /\ DOMAIN log = 1 .. Len(log) /\ Len(log) \in Nat
      /\ \A i \in DOMAIN log : log[i] \in Events
  BY LogIndices DEF TypeOK, TrailTypeOK
<1>2. MaxPages * PageSize \in Int /\ page * PageSize \in Int
  BY CloudTrailAssumption DEF CloudTrailAssumption, TypeOK, TrailTypeOK
<1>3. ASSUME verdict = "nil", NEW i \in DOMAIN log, Regression(log[i])
      PROVE  i > MaxPages * PageSize
  <2>1. Counted(log[i])
    BY <1>1, <1>3, RegressionsCount
  <2>2. ~(i <= page * PageSize)
    BY <1>3, <2>1 DEF TrailInv
  <2>3. i <= Len(log) /\ i \in Int
    BY <1>1
  <2>4. page = MaxPages
    BY <1>1, <1>2, <1>3, <2>2, <2>3 DEF TrailInv
  <2> QED BY <1>2, <2>2, <2>3, <2>4
<1>4. ASSUME verdict = "found"
      PROVE  \E i \in DOMAIN log : Regression(log[i])
  <2>1. PICK i \in DOMAIN log : Counted(log[i])
    BY <1>4 DEF TrailInv
  <2> QED BY <1>1, <2>1, RegressionsCount
<1> QED BY <1>3, <1>4

-----------------------------------------------------------------------------
(***************************************************************************)
(* The judgement of a status: one object first, kind by kind.              *)
(***************************************************************************)
LEMMA ObjectShape ==
  ASSUME NEW k \in Kinds, NEW o \in Objects(k)
  PROVE  /\ o.skip \in BOOLEAN /\ o.status \in BOOLEAN
         /\ o.skip => k \in {"clusterOperators", "namespaceDeployments"}
         /\ ~o.status => DOMAIN o.said = {}
         /\ \E m \in Nat : o.said \in [1 .. m -> Pairs(k)]
<1>1. /\ o \in [skip : BOOLEAN, status : BOOLEAN, said : Lists(Pairs(k), MaxSayings)]
      /\ o.skip => k \in {"clusterOperators", "namespaceDeployments"}
      /\ ~o.status => o.said = <<>>
  BY DEF Objects
<1>2. o.said \in Lists(Pairs(k), MaxSayings) /\ o.skip \in BOOLEAN /\ o.status \in BOOLEAN
  BY <1>1
<1>3. PICK m \in 0 .. MaxSayings : o.said \in [1 .. m -> Pairs(k)]
  BY <1>2 DEF Lists
<1>4. ~o.status => DOMAIN o.said = {}
  BY <1>1
<1> QED BY <1>1, <1>2, <1>3, <1>4, StatusAssumption DEF StatusAssumption

LEMMA Sayings ==
  ASSUME NEW k \in Kinds, NEW o \in Objects(k)
  PROVE  /\ \A i \in DOMAIN o.said : o.said[i] \in Pairs(k)
         /\ \A i \in DOMAIN o.said : o.said[i][2] \in {"True", "False"}
         /\ \A i \in DOMAIN o.said : o.said[i] = <<o.said[i][1], o.said[i][2]>>
<1>1. PICK m \in Nat : o.said \in [1 .. m -> Pairs(k)]
  BY ObjectShape
<1>2. \A i \in DOMAIN o.said : o.said[i] \in Pairs(k)
  BY <1>1
<1>3. \A p \in Pairs(k) : \E w \in Wants[k], v \in {"True", "False"} : p = <<w[1], v>>
  BY DEF Pairs
<1> QED BY <1>2, <1>3

\* What is said of a type, as a set and value by value.
LEMMA ValuesSaid ==
  ASSUME NEW k \in Kinds, NEW o \in Objects(k), NEW t
  PROVE  /\ Values(o, t) = {"True"} <=> Says(o, t, "True") /\ ~Says(o, t, "False")
         /\ Values(o, t) = {"False"} <=> Says(o, t, "False") /\ ~Says(o, t, "True")
         /\ Values(o, t) = {"True", "False"} <=> Says(o, t, "True") /\ Says(o, t, "False")
         /\ "True" \in Values(o, t) <=> Says(o, t, "True")
         /\ "False" \in Values(o, t) <=> Says(o, t, "False")
         /\ Mentions(o, t) <=> Says(o, t, "True") \/ Says(o, t, "False")
<1>1. Values(o, t) \subseteq {"True", "False"}
  BY DEF Values
<1>2. /\ "True" \in Values(o, t) <=> Says(o, t, "True")
      /\ "False" \in Values(o, t) <=> Says(o, t, "False")
  BY DEF Values, Says
<1>3. Mentions(o, t) <=> Says(o, t, "True") \/ Says(o, t, "False")
  BY Sayings DEF Mentions, Says
<1>4. "True" # "False"
  OBVIOUS
<1> QED BY <1>1, <1>2, <1>3, <1>4

\* The verdict on one object, for an object that wants what w says: one or two things.
OneWanted(k, o, a, x) ==
  /\ Sound(k, o) <=> o.skip \/ Values(o, a) = {x}
  /\ Unanimous(k, o) <=> Values(o, a) # {"True", "False"}
  /\ HalfRight(k, o) <=> o.skip \/ x \in Values(o, a)

TwoWanted(k, o, a, x, b, y) ==
  /\ Sound(k, o) <=> o.skip \/ (Values(o, a) = {x} /\ Values(o, b) = {y})
  /\ Unanimous(k, o) <=> Values(o, a) # {"True", "False"} /\ Values(o, b) # {"True", "False"}
  /\ HalfRight(k, o) <=> o.skip \/ x \in Values(o, a) \/ y \in Values(o, b)

LEMMA WantsOfOne ==
  ASSUME NEW k \in Kinds, k # "vpcEndpoints", NEW o, NEW a, NEW x, Wants[k] = {<<a, x>>}
  PROVE  OneWanted(k, o, a, x)
<1>1. \A w \in Wants[k] : w[1] = a /\ w[2] = x
  OBVIOUS
<1>2. \E w \in Wants[k] : w[1] = a /\ w[2] = x
  OBVIOUS
<1> QED BY <1>1, <1>2, Zenon DEF OneWanted, Sound, Right, Unanimous, HalfRight

LEMMA WantsOfTwo ==
  ASSUME NEW k \in Kinds, k # "vpcEndpoints", NEW o, NEW a, NEW x, NEW b, NEW y,
         Wants[k] = {<<a, x>>, <<b, y>>}
  PROVE  TwoWanted(k, o, a, x, b, y)
<1>1. \A w \in Wants[k] : (w[1] = a /\ w[2] = x) \/ (w[1] = b /\ w[2] = y)
  OBVIOUS
<1>2. /\ \E w \in Wants[k] : w[1] = a /\ w[2] = x
      /\ \E w \in Wants[k] : w[1] = b /\ w[2] = y
  OBVIOUS
<1>3. Wants[k] # {}
  OBVIOUS
<1>4. Sound(k, o) <=> o.skip \/ (Values(o, a) = {x} /\ Values(o, b) = {y})
  BY <1>1, <1>2, Zenon DEF Sound, Right
<1>5. Unanimous(k, o) <=> Values(o, a) # {"True", "False"} /\ Values(o, b) # {"True", "False"}
  BY <1>1, <1>2, Zenon DEF Unanimous
<1>6. HalfRight(k, o) <=> o.skip \/ x \in Values(o, a) \/ y \in Values(o, b)
  BY <1>1, <1>2, <1>3, Zenon DEF HalfRight
<1> QED BY <1>4, <1>5, <1>6 DEF TwoWanted

JudgedRight(k, o) ==
  /\ Unanimous(k, o) => (Sound(k, o) <=> Healthy(k, o))
  /\ Healthy(k, o) => HalfRight(k, o)

\* An endpoint's two types stand for one thing.
LEMMA EndpointJudged ==
  ASSUME NEW o \in Objects("vpcEndpoints")
  PROVE  JudgedRight("vpcEndpoints", o)
<1> DEFINE k == "vpcEndpoints"
           said == UNION {Values(o, w[1]) : w \in Wants[k]}
<1>0. k \in Kinds
  BY DEF Kinds, Wants
<1>1. PICK m \in Nat : o.said \in [1 .. m -> Pairs(k)]
  BY <1>0, ObjectShape
<1>2. \A i \in DOMAIN o.said : o.said[i] = <<o.said[i][1], o.said[i][2]>>
                             /\ o.said[i][2] \in {"True", "False"}
  BY <1>0, Sayings
<1>3. ~o.skip
  BY <1>0, ObjectShape
<1>4. \A p \in Pairs(k) : \E w \in Wants[k] : p[1] = w[1]
  BY DEF Pairs
<1>5. \A i \in DOMAIN o.said : \E w \in Wants[k] : o.said[i][1] = w[1]
  BY <1>0, <1>4, Sayings
<1>6. \A v : v \in said <=> \E i \in DOMAIN o.said : o.said[i][2] = v
  <2>1. ASSUME NEW v, NEW i \in DOMAIN o.said, o.said[i][2] = v
        PROVE  v \in said
    <3>1. PICK w \in Wants[k] : o.said[i][1] = w[1]
      BY <1>5
    <3>2. o.said[i] = <<w[1], v>> /\ v \in {"True", "False"}
      BY <1>2, <2>1, <3>1
    <3>3. v \in Values(o, w[1])
      BY <3>2 DEF Values
    <3> QED BY <3>3
  <2>2. ASSUME NEW v, v \in said
        PROVE  \E i \in DOMAIN o.said : o.said[i][2] = v
    <3>1. PICK w \in Wants[k] : v \in Values(o, w[1])
      BY <2>2
    <3>2. PICK i \in DOMAIN o.said : o.said[i] = <<w[1], v>>
      BY <3>1 DEF Values
    <3> QED BY <3>2
  <2> QED BY <2>1, <2>2
<1>7. Healthy(k, o) <=> EndpointAvailable(o)
  BY DEF Healthy
<1>8. EndpointAvailable(o) <=> m > 0 /\ o.said[1][2] = "True"
  BY <1>1 DEF EndpointAvailable
<1>9. m > 0 => 1 \in DOMAIN o.said
  BY <1>1
<1>10. DOMAIN o.said = 1 .. m
  BY <1>1
<1>11. Sound(k, o) <=> said = {"True"}
  BY DEF Sound
<1>12. ASSUME Unanimous(k, o)
       PROVE  Sound(k, o) <=> Healthy(k, o)
  <2>1. \A i, j \in DOMAIN o.said : o.said[i][2] = o.said[j][2]
    BY <1>12 DEF Unanimous
  <2>2. CASE m = 0
    <3>1. said = {}
      BY <1>6, <1>10, <2>2
    <3> QED BY <1>7, <1>8, <1>11, <2>2, <3>1
  <2>3. CASE m > 0
    <3>1. said = {o.said[1][2]}
      BY <1>6, <1>9, <2>1, <2>3
    <3> QED BY <1>7, <1>8, <1>11, <2>3, <3>1
  <2> QED BY <2>2, <2>3
<1>13. ASSUME Healthy(k, o)
       PROVE  HalfRight(k, o)
  <2>1. 1 \in DOMAIN o.said /\ o.said[1][2] = "True"
    BY <1>7, <1>8, <1>9, <1>13
  <2>2. PICK w \in Wants[k] : o.said[1][1] = w[1]
    BY <1>5, <2>1
  <2>3. o.said[1] = <<w[1], "True">> /\ w[2] = "True"
    BY <1>2, <2>1, <2>2 DEF Wants
  <2>4. w[2] \in Values(o, w[1])
    BY <2>1, <2>3 DEF Values
  <2> QED BY <2>2, <2>4 DEF HalfRight
<1> QED BY <1>12, <1>13 DEF JudgedRight

LEMMA ObjectJudged ==
  ASSUME NEW k \in Kinds, NEW o \in Objects(k)
  PROVE  JudgedRight(k, o)
<1> USE DEF JudgedRight
<1>1. CASE k = "present"
  <2>1. Wants[k] = {}
    BY <1>1 DEF Wants
  <2>2. Healthy(k, o) = TRUE
    BY <1>1 DEF Healthy
  <2>3. Sound(k, o) /\ HalfRight(k, o)
    BY <1>1, <2>1 DEF Sound, Right, HalfRight
  <2> QED BY <2>2, <2>3
<1>2. CASE k = "hostedCluster"
  <2>0. k # "vpcEndpoints"
    BY <1>2
  <2>1. Wants[k] = {<<"Available", "True">>, <<"Degraded", "False">>}
    BY <1>2 DEF Wants
  <2>2. Healthy(k, o) <=> verifyConditions(o)
    BY <1>2 DEF Healthy
  <2>3. ~o.skip /\ (~o.status => ~Mentions(o, "Available"))
    BY <1>2, ObjectShape DEF Mentions
  <2>4. TwoWanted(k, o, "Available", "True", "Degraded", "False")
    BY <2>0, <2>1, WantsOfTwo
  <2> QED BY <2>2, <2>3, <2>4, ValuesSaid DEF verifyConditions, TwoWanted
<1>3. CASE k = "nodePools"
  <2>0. k # "vpcEndpoints"
    BY <1>3
  <2>1. Wants[k] = {<<"Ready", "True">>, <<"AllNodesHealthy", "True">>}
    BY <1>3 DEF Wants
  <2>2. Healthy(k, o) <=> NodePoolHealthy(o)
    BY <1>3 DEF Healthy
  <2>3. ~o.skip
    BY <1>3, ObjectShape
  <2>4. TwoWanted(k, o, "Ready", "True", "AllNodesHealthy", "True")
    BY <2>0, <2>1, WantsOfTwo
  <2> QED BY <2>2, <2>3, <2>4, ValuesSaid DEF NodePoolHealthy, TwoWanted
<1>4. CASE k = "clusterOperators"
  <2>0. k # "vpcEndpoints"
    BY <1>4
  <2>1. Wants[k] = {<<"Available", "True">>, <<"Degraded", "False">>}
    BY <1>4 DEF Wants
  <2>2. Healthy(k, o) <=> OperatorHealthy(o)
    BY <1>4 DEF Healthy
  <2>4. TwoWanted(k, o, "Available", "True", "Degraded", "False")
    BY <2>0, <2>1, WantsOfTwo
  <2> QED BY <2>2, <2>4, ValuesSaid DEF OperatorHealthy, TwoWanted
<1>5. CASE k = "vpcEndpoints"
  BY <1>5, EndpointJudged
<1>6. CASE k = "deployment"
  <2>1. Wants[k] = {<<"Available", "True">>}
    BY <1>6 DEF Wants
  <2>2. Healthy(k, o) <=> DeploymentAvailable(o)
    BY <1>6 DEF Healthy
  <2>3. ~o.skip
    BY <1>6, ObjectShape
  <2>4. OneWanted(k, o, "Available", "True")
    BY <1>6, <2>1, WantsOfOne
  <2> QED BY <2>2, <2>3, <2>4, ValuesSaid DEF DeploymentAvailable, OneWanted
<1>7. CASE k = "namespaceDeployments"
  <2>1. Wants[k] = {<<"Available", "True">>}
    BY <1>7 DEF Wants
  <2>2. Healthy(k, o) <=> o.skip \/ DeploymentAvailable(o)
    BY <1>7 DEF Healthy, NamespaceDeploymentAvailable
  <2>4. OneWanted(k, o, "Available", "True")
    BY <1>7, <2>1, WantsOfOne
  <2> QED BY <2>2, <2>4, ValuesSaid DEF DeploymentAvailable, OneWanted
<1>8. CASE k \in {"hubs", "claim"}
  <2>1. Wants[k] = {<<"phase", "True">>}
    BY <1>8 DEF Wants
  <2>2. Healthy(k, o) <=> Says(o, "phase", "True")
    BY <1>8 DEF Healthy, HubRunning, PVCBound
  <2>3. ~o.skip /\ k # "vpcEndpoints"
    BY <1>8, ObjectShape
  <2>4. OneWanted(k, o, "phase", "True")
    BY <2>3, <2>1, WantsOfOne
  <2> QED BY <2>2, <2>3, <2>4, ValuesSaid DEF OneWanted
<1>9. CASE k = "snapshot"
  <2>1. Wants[k] = {<<"readyToUse", "True">>}
    BY <1>9 DEF Wants
  <2>2. Healthy(k, o) <=> o.status /\ Says(o, "readyToUse", "True")
    BY <1>9 DEF Healthy, SnapshotReady
  <2>3. ~o.skip /\ (~o.status => ~Says(o, "readyToUse", "True"))
    BY <1>9, ObjectShape DEF Says
  <2>4. OneWanted(k, o, "readyToUse", "True")
    BY <1>9, <2>1, WantsOfOne
  <2> QED BY <2>2, <2>3, <2>4, ValuesSaid DEF OneWanted
<1>10. CASE k = "volumes"
  <2>0. k # "vpcEndpoints"
    BY <1>10
  <2>1. Wants[k] = {<<"owner", "True">>, <<"cluster", "True">>}
    BY <1>10 DEF Wants
  <2>2. Healthy(k, o) <=> TagsPresent(o)
    BY <1>10 DEF Healthy
  <2>3. ~o.skip
    BY <1>10, ObjectShape
  <2>4. TwoWanted(k, o, "owner", "True", "cluster", "True")
    BY <2>0, <2>1, WantsOfTwo
  <2> QED BY <2>2, <2>3, <2>4, ValuesSaid DEF TagsPresent, TwoWanted
<1>11. CASE k = "linkedRoles"
  <2>1. Wants[k] = {<<"role", "True">>}
    BY <1>11 DEF Wants
  <2>2. Healthy(k, o) <=> RoleLinked(o)
    BY <1>11 DEF Healthy
  <2>3. ~o.skip
    BY <1>11, ObjectShape
  <2>4. OneWanted(k, o, "role", "True")
    BY <1>11, <2>1, WantsOfOne
  <2> QED BY <2>2, <2>3, <2>4, ValuesSaid DEF RoleLinked, OneWanted
<1>12. CASE k = "linkedForAccount"
  <2>0. k # "vpcEndpoints"
    BY <1>12
  <2>1. Wants[k] = {<<"role", "True">>, <<"account", "True">>}
    BY <1>12 DEF Wants
  <2>2. Healthy(k, o) <=> AccountLinked(o)
    BY <1>12 DEF Healthy
  <2>3. ~o.skip
    BY <1>12, ObjectShape
  <2>4. TwoWanted(k, o, "role", "True", "account", "True")
    BY <2>0, <2>1, WantsOfTwo
  <2> QED BY <2>2, <2>3, <2>4, ValuesSaid DEF AccountLinked, RoleLinked, TwoWanted
<1>13. k \in {"present", "hostedCluster", "nodePools", "clusterOperators", "vpcEndpoints", "deployment",
             "namespaceDeployments", "hubs", "claim", "snapshot", "volumes", "linkedRoles",
             "linkedForAccount"}
  BY DEF Kinds, Wants
<1> QED BY <1>1, <1>2, <1>3, <1>4, <1>5, <1>6, <1>7, <1>8, <1>9, <1>10, <1>11, <1>12, <1>13

\* Then the list.
LEMMA ReadingShape ==
  ASSUME NEW k \in Kinds, NEW list \in Readings(k)
  PROVE  /\ \A i \in DOMAIN list : list[i] \in Objects(k)
         /\ Present(list) <=> DOMAIN list # {}
<1>1. PICK n \in Nat : list \in Lists(Objects(k), n)
  <2>1. list \in Lists(Objects(k), 1) \/ list \in Lists(Objects(k), MaxObjects)
    BY DEF Readings
  <2>2. 1 \in Nat /\ MaxObjects \in Nat
    BY StatusAssumption DEF StatusAssumption
  <2> QED BY <2>1, <2>2
<1>2. PICK m \in Nat : list \in [1 .. m -> Objects(k)]
  BY <1>1 DEF Lists
<1>3. Present(list) <=> m > 0
  <2>1. m = 0 => list = <<>>
    BY <1>2
  <2>2. list = <<>> => m = 0
    BY <1>2
  <2> QED BY <1>2, <2>1, <2>2 DEF Present
<1>4. DOMAIN list = 1 .. m /\ (m > 0 <=> 1 .. m # {})
  <2>1. m > 0 => 1 \in 1 .. m
    OBVIOUS
  <2>2. m = 0 => 1 .. m = {}
    OBVIOUS
  <2> QED BY <1>2, <2>1, <2>2
<1>5. \A i \in DOMAIN list : list[i] \in Objects(k)
  BY <1>2
<1> QED BY <1>3, <1>4, <1>5

LEMMA ReadingJudged ==
  ASSUME NEW k \in Kinds, NEW list \in Readings(k),
         NEW good, good = {i \in DOMAIN list : Healthy(k, list[i])}
  PROVE  Judged(k, list) <=> IF k \in AnyWillDo THEN good # {} ELSE good = DOMAIN list /\ DOMAIN list # {}
<1>1. Present(list) <=> DOMAIN list # {}
  BY ReadingShape
<1>2. CASE k \in AnyWillDo
  BY <1>1, <1>2 DEF Judged
<1>3. CASE k \notin AnyWillDo
  BY <1>1, <1>3 DEF Judged
<1> QED BY <1>2, <1>3

LEMMA StatusJudged ==
  ASSUME TypeOK, HealthyVerdict, VerifyStatus
  PROVE  HealthyVerdict'
<1> DEFINE those == DOMAIN objects'
           good == {i \in those : Healthy(kind', objects'[i])}
           sound == {i \in those : Sound(kind', objects'[i])}
           half == {i \in those : HalfRight(kind', objects'[i])}
           Enough(those_) == IF kind' \in AnyWillDo THEN those_ # {} ELSE those_ = those /\ those # {}
<1>1. CASE verdict' \notin {"nil", "found"}
  BY <1>1 DEF HealthyVerdict
<1>2. CASE verdict' \in {"nil", "found"}
  <2>1. kind' \in Kinds /\ objects' \in Readings(kind')
    BY <1>2 DEF VerifyStatus, Ends
  <2>2. verdict' = "nil" <=> Judged(kind', objects')
    BY <1>2 DEF VerifyStatus, Ends
  <2>3. \A i \in those : JudgedRight(kind', objects'[i])
    BY <2>1, ReadingShape, ObjectJudged
  <2>4. verdict' = "nil" <=> Enough(good)
    BY <2>1, <2>2, ReadingJudged
  <2>5. ASSUME \A i \in those : Unanimous(kind', objects'[i])
        PROVE  verdict' = "nil" <=> Enough(sound)
    <3>1. good = sound
      BY <2>3, <2>5 DEF JudgedRight
    <3> QED BY <2>4, <3>1
  <2>6. good \subseteq half
    BY <2>3 DEF JudgedRight
  <2>7. verdict' = "nil" => Enough(half)
    BY <2>4, <2>6
  <2> QED BY <2>5, <2>7 DEF HealthyVerdict
<1> QED BY <1>1, <1>2

-----------------------------------------------------------------------------
(***************************************************************************)
(* All of it.  An invariant of one check says nothing while another runs.  *)
(***************************************************************************)
OAuthInv == WaitInv /\ OAuthInTime
RevisionInv == ObservedInv /\ RevisionSound
AuthInv == ProbeInv /\ ProvidersSound

IInv ==
  TypeOK /\ PageInv /\ ReadInv /\ OAuthInv /\ RevisionInv /\ AuthInv /\ TrailInv /\ HealthyVerdict

LEMMA InitHolds == Init => IInv
<1> SUFFICES ASSUME Init
             PROVE  IInv
  OBVIOUS
<1>1. TypeOK
  BY InitTypeOK
<1>2. verdict = "none" /\ at = FirstCall[check] /\ check \in DOMAIN FirstCall
  BY ChecksAssumption DEF ChecksAssumption, Init
<1>3. PageInv /\ ReadInv
  BY CloudTrailAssumption
     DEF CloudTrailAssumption, PageInv, ReadInv, Init, TrailInit, StatusInit
<1>4. OAuthInv
  BY <1>2, OAuthAssumption DEF OAuthAssumption, OAuthInv, WaitInv, OAuthInTime, Init, OAuthInit, FirstCall
<1>5. RevisionInv
  BY <1>2 DEF RevisionInv, ObservedInv, RevisionSound, FirstCall
<1>6. AuthInv
  BY <1>2 DEF AuthInv, ProbeInv, ProvidersSound, FirstCall
<1>7. TrailInv
  <2>1. log = <<>> /\ page = 0 /\ ~denied /\ 0 < MaxPages
    BY CloudTrailAssumption DEF CloudTrailAssumption, Init, TrailInit
  <2>2. DOMAIN log = {}
    BY <2>1
  <2> QED BY <1>2, <2>1, <2>2 DEF TrailInv
<1>8. HealthyVerdict
  BY <1>2 DEF HealthyVerdict
<1> QED BY <1>1, <1>3, <1>4, <1>5, <1>6, <1>7, <1>8 DEF IInv

\* Who moves, and that the check in progress stays the one it is.
LEMMA Movers ==
  /\ OAuth => check = "oauth" /\ check' = check
  /\ Revision => check = "revisions" /\ check' = check
  /\ Auth => check = "externalAuth" /\ check' = check
  /\ TrailSteps => check = "cloudTrail" /\ check' = check
  /\ VerifyStatus => check = "status" /\ check' = check
<1> USE DEF Goto, Ends, Elsewhere, control
<1>1. OAuth => check = "oauth" /\ check' = check
  BY DEF OAuth, OAuthSteps, OAuthWorld, TimesOut, ListPods, ProbeEndpoint, Poll
<1>2. Revision => check = "revisions" /\ check' = check
  BY DEF Revision, RevisionSteps, RevisionWorld, FirstSnapshot, Observe, SecondSnapshot
<1>3. Auth => check = "externalAuth" /\ check' = check
  BY DEF Auth, AuthSteps, AuthWorld, ExternalAuthEnabled, ReadConfig, VerifyExternalAuthProviders,
         ListIssuers, FetchDiscovery, FetchJWKS, NextIssuer
<1>4. TrailSteps => check = "cloudTrail" /\ check' = check
  BY DEF TrailSteps, FindLog, LookupEvents
<1>5. VerifyStatus => check = "status" /\ check' = check
  BY DEF VerifyStatus
<1> QED BY <1>1, <1>2, <1>3, <1>4, <1>5

LEMMA Idle ==
  ASSUME check' = check
  PROVE  /\ check # "oauth" /\ OAuthInTime /\ UNCHANGED oauthVars => OAuthInv'
         /\ check # "revisions" => RevisionInv'
         /\ check # "externalAuth" => AuthInv'
         /\ check # "cloudTrail" => TrailInv' /\ PageInv'
         /\ check # "status" => ReadInv' /\ HealthyVerdict'
<1>1. check # "oauth" /\ OAuthInTime /\ UNCHANGED oauthVars => OAuthInv'
  BY DEF OAuthInv, WaitInv, OAuthInTime, oauthVars
<1>2. check # "revisions" => RevisionInv'
  BY DEF RevisionInv, ObservedInv, RevisionSound
<1>3. check # "externalAuth" => AuthInv'
  BY DEF AuthInv, ProbeInv, ProvidersSound
<1>4. check # "cloudTrail" => TrailInv' /\ PageInv'
  BY DEF TrailInv, PageInv
<1>5. check # "status" => ReadInv' /\ HealthyVerdict'
  BY DEF ReadInv, HealthyVerdict
<1> QED BY <1>1, <1>2, <1>3, <1>4, <1>5

LEMMA Preserved ==
  ASSUME IInv, [Next]_vars
  PROVE  IInv'
<1>0. /\ TypeOK /\ PageInv /\ ReadInv /\ OAuthInv /\ RevisionInv /\ AuthInv /\ TrailInv
      /\ HealthyVerdict
  BY DEF IInv
<1>1. CASE OAuth /\ UNCHANGED <<revisionVars, authVars, trailVars, statusVars>>
  <2>1. TypeOK'
    BY <1>0, <1>1, OAuthTypes, Untouched DEF TypeOK, ControlTypeOK
  <2>2. OAuthInv'
    BY <1>0, <1>1, OAuthWaits DEF OAuthInv
  <2> QED BY <1>0, <1>1, <2>1, <2>2, Movers, Idle DEF IInv
<1>2. CASE Revision /\ UNCHANGED <<oauthVars, authVars, trailVars, statusVars>>
  <2>1. TypeOK'
    BY <1>0, <1>2, RevisionTypes, Untouched DEF TypeOK, ControlTypeOK
  <2>2. RevisionInv'
    BY <1>0, <1>2, RevisionsFollowed DEF RevisionInv
  <2> QED BY <1>0, <1>2, <2>1, <2>2, Movers, Idle DEF IInv, OAuthInv
<1>3. CASE Auth /\ UNCHANGED <<oauthVars, revisionVars, trailVars, statusVars>>
  <2>1. TypeOK'
    BY <1>0, <1>3, AuthTypes, Untouched DEF TypeOK, ControlTypeOK
  <2>2. AuthInv'
    BY <1>0, <1>3, ProvidersProbed DEF AuthInv
  <2> QED BY <1>0, <1>3, <2>1, <2>2, Movers, Idle DEF IInv, OAuthInv
<1>4. CASE TrailSteps /\ UNCHANGED <<oauthVars, revisionVars, authVars, statusVars>>
  <2>1. TypeOK' /\ PageInv'
    BY <1>0, <1>4, TrailTypes, Untouched DEF TypeOK, ControlTypeOK
  <2>2. TrailInv'
    BY <1>0, <1>4, PagesRead
  <2> QED BY <1>0, <1>4, <2>1, <2>2, Movers, Idle DEF IInv, OAuthInv
<1>5. CASE VerifyStatus /\ UNCHANGED <<oauthVars, revisionVars, authVars, trailVars>>
  <2>1. TypeOK' /\ ReadInv'
    BY <1>0, <1>5, StatusTypes, Untouched DEF TypeOK, ControlTypeOK
  <2>2. HealthyVerdict'
    BY <1>0, <1>5, StatusJudged
  <2> QED BY <1>0, <1>5, <2>1, <2>2, Movers, Idle DEF IInv, OAuthInv
<1>6. CASE UNCHANGED vars
  <2> USE <1>6 DEF vars, control, oauthVars, revisionVars, authVars, trailVars, statusVars
  <2>1. TypeOK'
    BY <1>0, Untouched DEF TypeOK
  <2>2. PageInv' /\ ReadInv'
    BY <1>0 DEF PageInv, ReadInv
  <2>3. OAuthInv'
    BY <1>0 DEF OAuthInv, WaitInv, OAuthInTime
  <2>4. RevisionInv'
    BY <1>0 DEF RevisionInv, ObservedInv, RevisionSound, Followed
  <2>5. AuthInv'
    BY <1>0 DEF AuthInv, ProbeInv, ProvidersSound, Validated, Probed, Listed
  <2>6. TrailInv'
    BY <1>0 DEF TrailInv
  <2>7. HealthyVerdict'
    <3>1. check' = check /\ verdict' = verdict /\ kind' = kind /\ objects' = objects
      OBVIOUS
    <3>2. HealthyVerdict
      BY <1>0
    <3> QED BY <3>1, <3>2 DEF HealthyVerdict
  <2> QED BY <2>1, <2>2, <2>3, <2>4, <2>5, <2>6, <2>7 DEF IInv
<1> QED BY <1>1, <1>2, <1>3, <1>4, <1>5, <1>6 DEF Next

LEMMA Invariant == Spec => []IInv
<1>1. Init => IInv
  BY InitHolds
<1>2. IInv /\ [Next]_vars => IInv'
  BY Preserved
<1> QED BY <1>1, <1>2, PTL DEF Spec

\* Types, for any instance: among them, that no more than maxPages pages are read and that a
\* check is over when it has a verdict (cloudtrail.go:45).
THEOREM TypesHold == Spec => []TypeOK
<1>1. IInv => TypeOK
  BY DEF IInv
<1> QED BY <1>1, Invariant, PTL

\* The two waits for OAuth end in time, for any timeout, poll intervals and length of a call
\* (oauth_readiness.go:30-146).
THEOREM WaitsEndInTime == Spec => []OAuthInTime
<1>1. IInv => OAuthInTime
  BY DEF IInv, OAuthInv
<1> QED BY <1>1, Invariant, PTL

\* The revision check finds what rolls out while it looks and nothing else, for any number of
\* deployments and revisions (revision.go:24-73).
THEOREM RevisionCheckSound == Spec => []RevisionSound
<1>1. IInv => RevisionSound
  BY DEF IInv, RevisionInv
<1> QED BY <1>1, Invariant, PTL

\* What the external-auth spec's pass says of the providers, for any set of them and whatever
\* edits and outages come between its calls (external_auth.go:24-181).
THEOREM ProviderCheckSound == Spec => []ProvidersSound
<1>1. IInv => ProvidersSound
  BY DEF IInv, AuthInv
<1> QED BY <1>1, Invariant, PTL

\* What the CloudTrail check sees, for any log, page size and page limit (cloudtrail.go:25-119).
THEOREM NoDenialMissed == Spec => []DenialsSeen
<1>1. IInv => DenialsSeen
  BY PagesSuffice DEF IInv
<1> QED BY <1>1, Invariant, PTL

\* What a verdict says of the objects that were read, for every verifier, any number of objects
\* and conditions and every order of them (hostedcluster.go:28-146 and the other status
\* verifiers).
THEOREM VerdictsAreRight == Spec => []HealthyVerdict
<1>1. IInv => HealthyVerdict
  BY DEF IInv
<1> QED BY <1>1, Invariant, PTL
-----------------------------------------------------------------------------
(***************************************************************************)
(* Every check ends: the calls it may still make are counted down.         *)
(***************************************************************************)
Steps == OAuthSteps \/ RevisionSteps \/ AuthSteps \/ TrailSteps \/ VerifyStatus

\* The two intervals are fifteen and ten seconds; a cluster has finitely many providers.
PollsTakeTime == PodPoll > 0 /\ EndpointPoll > 0
FiniteProviders == IsFiniteSet(Providers)

\* What is left of a wait at the time n: none once its deadline d has passed.  Awake is the
\* bound before a call, asleep the one before a pause.
TimeLeft(d, n) == IF d < n THEN 0 ELSE d - n + 1
AwakeFor(t) == IF t = 0 THEN 0 ELSE 2 * t + 1
AsleepFor(t) == IF t = 0 THEN 1 ELSE 2 * t
Awake == AwakeFor(TimeLeft(deadline, now))
Asleep == AsleepFor(TimeLeft(deadline, now))

\* A bound of the calls that are left.
Distance ==
  CASE at = "over" -> 0
    [] at = "pods" -> Awake + 2 * Timeout + 5
    [] at = "podPoll" -> Asleep + 2 * Timeout + 5
    [] at = "endpoint" -> Awake + 1
    [] at = "endpointPoll" -> Asleep + 1
    [] at = "first" -> 3
    [] at = "observe" -> 2
    [] at = "second" -> 1
    [] at = "enabled" -> 2 * Cardinality(Providers) + 5
    [] at = "config" -> 2 * Cardinality(Providers) + 4
    [] at = "validate" -> 2 * Cardinality(Providers) + 3
    [] at = "relist" -> 2 * Cardinality(Providers) + 2
    [] at = "discovery" -> 2 * Cardinality(left) + 1
    [] at = "jwks" -> 2 * Cardinality(left) + 2
    [] at = "begin" -> MaxPages + 1
    [] at = "lookup" -> MaxPages - page
    [] at = "read" -> 1
    [] OTHER -> 0

LEMMA Unfold ==
  /\ at = "over" => Distance = 0
  /\ at = "pods" => Distance = Awake + 2 * Timeout + 5
  /\ at = "podPoll" => Distance = Asleep + 2 * Timeout + 5
  /\ at = "endpoint" => Distance = Awake + 1
  /\ at = "endpointPoll" => Distance = Asleep + 1
  /\ at = "first" => Distance = 3
  /\ at = "observe" => Distance = 2
  /\ at = "second" => Distance = 1
  /\ at = "enabled" => Distance = 2 * Cardinality(Providers) + 5
  /\ at = "config" => Distance = 2 * Cardinality(Providers) + 4
  /\ at = "validate" => Distance = 2 * Cardinality(Providers) + 3
  /\ at = "relist" => Distance = 2 * Cardinality(Providers) + 2
  /\ at = "discovery" => Distance = 2 * Cardinality(left) + 1
  /\ at = "jwks" => Distance = 2 * Cardinality(left) + 2
  /\ at = "begin" => Distance = MaxPages + 1
  /\ at = "lookup" => Distance = MaxPages - page
  /\ at = "read" => Distance = 1
BY DEF Distance

LEMMA UnfoldNext ==
  /\ at' = "over" => Distance' = 0
  /\ at' = "pods" => Distance' = Awake' + 2 * Timeout + 5
  /\ at' = "podPoll" => Distance' = Asleep' + 2 * Timeout + 5
  /\ at' = "endpoint" => Distance' = Awake' + 1
  /\ at' = "endpointPoll" => Distance' = Asleep' + 1
  /\ at' = "observe" => Distance' = 2
  /\ at' = "second" => Distance' = 1
  /\ at' = "config" => Distance' = 2 * Cardinality(Providers) + 4
  /\ at' = "validate" => Distance' = 2 * Cardinality(Providers) + 3
  /\ at' = "relist" => Distance' = 2 * Cardinality(Providers) + 2
  /\ at' = "discovery" => Distance' = 2 * Cardinality(left') + 1
  /\ at' = "jwks" => Distance' = 2 * Cardinality(left') + 2
  /\ at' = "lookup" => Distance' = MaxPages - page'
BY DEF Distance

LEMMA TimeType == \A d, n \in Nat : TimeLeft(d, n) \in Nat
BY DEF TimeLeft

LEMMA WaitTypes ==
  \A d, n \in Nat :
    AwakeFor(TimeLeft(d, n)) \in Nat /\ AsleepFor(TimeLeft(d, n)) \in Nat \ {0}
<1>1. \A t \in Nat : AwakeFor(t) \in Nat /\ AsleepFor(t) \in Nat \ {0}
  BY DEF AwakeFor, AsleepFor
<1> QED BY <1>1, TimeType

\* A call that may still be made, at the time n, leaves less of the wait at the time m after
\* it, and so does a pause, during which time passes.
LEMMA Shortens ==
  ASSUME NEW d \in Nat, NEW n \in Nat, NEW m \in Nat, n <= m
  PROVE  /\ n <= d => AsleepFor(TimeLeft(d, m)) < AwakeFor(TimeLeft(d, n))
         /\ n < m => AwakeFor(TimeLeft(d, m)) < AsleepFor(TimeLeft(d, n))
<1>1. \A t, u \in Nat : u <= t /\ 0 < t => AsleepFor(u) < AwakeFor(t)
  BY DEF AsleepFor, AwakeFor
<1>2. \A t, u \in Nat : u < t \/ u = 0 => AwakeFor(u) < AsleepFor(t)
  BY DEF AsleepFor, AwakeFor
<1>3. /\ TimeLeft(d, m) <= TimeLeft(d, n)
      /\ n <= d => 0 < TimeLeft(d, n)
      /\ n < m => TimeLeft(d, m) < TimeLeft(d, n) \/ TimeLeft(d, m) = 0
  BY DEF TimeLeft
<1> QED BY <1>1, <1>2, <1>3, TimeType

LEMMA SecondWait ==
  ASSUME NEW n \in Nat, NEW t \in Nat
  PROVE  AwakeFor(TimeLeft(n + t, n)) = 2 * t + 3
BY DEF TimeLeft, AwakeFor

\* The same of the two bounds and of the distances they are part of.
LEMMA WaitLess ==
  ASSUME OAuthTypeOK, OAuthTypeOK', now' >= now
  PROVE  /\ deadline' = deadline /\ now <= deadline => Asleep' < Awake
         /\ deadline' = deadline /\ now' > now => Awake' < Asleep
         /\ deadline' = now' + Timeout => Awake' = 2 * Timeout + 3
         /\ Awake \in Nat /\ Asleep \in Nat \ {0} /\ Awake' \in Nat /\ Asleep' \in Nat \ {0}
<1> DEFINE m == now'
           e == deadline'
<1>1. now \in Nat /\ deadline \in Nat /\ m \in Nat /\ e \in Nat /\ m >= now /\ Timeout \in Nat
  BY OAuthAssumption DEF OAuthTypeOK, OAuthAssumption
<1>2. Awake' = AwakeFor(TimeLeft(e, m)) /\ Asleep' = AsleepFor(TimeLeft(e, m))
  BY DEF Awake, Asleep
<1> HIDE DEF m, e
<1>3. /\ e = deadline /\ now <= deadline => Asleep' < Awake
      /\ e = deadline /\ m > now => Awake' < Asleep
      /\ e = m + Timeout => Awake' = 2 * Timeout + 3
      /\ Awake \in Nat /\ Asleep \in Nat \ {0} /\ Awake' \in Nat /\ Asleep' \in Nat \ {0}
  BY <1>1, <1>2, Shortens, SecondWait, WaitTypes DEF Awake, Asleep
<1> QED BY <1>3 DEF m, e

LEMMA Sums ==
  ASSUME NEW a \in Nat, NEW b \in Nat, NEW t \in Nat
  PROVE  /\ 0 < a + 1 /\ 0 < a + 2 * t + 5
         /\ b < a => b + 1 < a + 1 /\ b + 2 * t + 5 < a + 2 * t + 5
         /\ b = 2 * t + 3 => b + 1 < a + 2 * t + 5
OBVIOUS

LEMMA OAuthNearer ==
  ASSUME PollsTakeTime, TypeOK, TypeOK', OAuthSteps
  PROVE  Distance' < Distance
<1>1. /\ OAuthTypeOK /\ OAuthTypeOK' /\ now \in Nat
      /\ Timeout \in Nat /\ PodPoll \in Nat /\ EndpointPoll \in Nat /\ MaxCall \in Nat
  BY OAuthAssumption DEF TypeOK, OAuthTypeOK, OAuthAssumption
<1>2. ASSUME at' = "over" PROVE Distance' < Distance
  <2>1. at \in {"pods", "endpoint", "podPoll", "endpointPoll"}
    BY DEF OAuthSteps, TimesOut, ListPods, ProbeEndpoint, Poll
  <2>2. Awake \in Nat /\ Asleep \in Nat
    BY <1>1, WaitTypes DEF OAuthTypeOK, Awake, Asleep
  <2> QED BY <1>1, <1>2, <2>1, <2>2, Sums, Unfold, UnfoldNext
<1>3. ASSUME NEW d \in 0 .. MaxCall, ListPods(d), at' # "over"
      PROVE  Distance' < Distance
  <2>1. at = "pods" /\ now <= deadline /\ now' >= now
    BY <1>1, <1>3 DEF ListPods
  <2>2. /\ Awake \in Nat /\ Awake' \in Nat /\ Asleep' \in Nat
        /\ deadline' = deadline => Asleep' < Awake
        /\ deadline' = now' + Timeout => Awake' = 2 * Timeout + 3
    BY <1>1, <2>1, WaitLess
  <2>3. CASE at' = "podPoll" /\ deadline' = deadline
    <3>1. Asleep' < Awake
      BY <2>2, <2>3
    <3>2. Asleep' + 2 * Timeout + 5 < Awake + 2 * Timeout + 5
      BY <1>1, <2>2, <3>1, Sums
    <3> QED BY <2>1, <2>3, <3>2, Unfold, UnfoldNext
  <2>4. CASE at' = "endpoint" /\ deadline' = now' + Timeout
    BY <1>1, <2>1, <2>2, <2>4, Sums, Unfold, UnfoldNext
  <2> QED BY <1>3, <2>3, <2>4 DEF ListPods, Ends, Goto
<1>4. ASSUME NEW d \in 0 .. MaxCall, ProbeEndpoint(d), at' # "over"
      PROVE  Distance' < Distance
  <2>1. at = "endpoint" /\ now <= deadline /\ now' >= now /\ deadline' = deadline
    BY <1>1, <1>4 DEF ProbeEndpoint
  <2>2. at' = "endpointPoll"
    BY <1>4 DEF ProbeEndpoint, Ends, Goto
  <2>3. Awake \in Nat /\ Asleep' \in Nat /\ Asleep' < Awake
    BY <1>1, <2>1, WaitLess
  <2> QED BY <1>1, <2>1, <2>2, <2>3, Sums, Unfold, UnfoldNext
<1>5. ASSUME NEW interval \in Nat, interval > 0, at' # "over",
             Poll("podPoll", interval, "pods") \/ Poll("endpointPoll", interval, "endpoint")
      PROVE  Distance' < Distance
  <2>1. now' = now + interval /\ deadline' = deadline
    BY <1>5 DEF Poll, Sleep, Ends
  <2>2. now' > now /\ now' >= now
    BY <1>1, <1>5, <2>1
  <2>3. (at = "podPoll" /\ at' = "pods") \/ (at = "endpointPoll" /\ at' = "endpoint")
    BY <1>5 DEF Poll, Ends, Goto
  <2>4. Asleep \in Nat /\ Awake' \in Nat /\ Awake' < Asleep
    BY <1>1, <2>1, <2>2, WaitLess
  <2> QED BY <1>1, <2>3, <2>4, Sums, Unfold, UnfoldNext
<1>6. CASE TimesOut
  BY <1>2, <1>6 DEF TimesOut, Ends
<1> QED BY <1>1, <1>2, <1>3, <1>4, <1>5, <1>6 DEF OAuthSteps, PollsTakeTime

LEMMA RevisionNearer ==
  ASSUME RevisionSteps
  PROVE  Distance' < Distance
<1>1. \/ at = "first" /\ at' \in {"over", "observe"}
      \/ at = "observe" /\ at' \in {"over", "second"}
      \/ at = "second" /\ at' = "over"
  BY DEF RevisionSteps, FirstSnapshot, Observe, SecondSnapshot, Ends, Goto
<1> QED BY <1>1, Unfold, UnfoldNext

LEMMA ProvidersCounted ==
  ASSUME FiniteProviders, TypeOK, TypeOK'
  PROVE  /\ Cardinality(Providers) \in Nat /\ Cardinality(left) \in Nat /\ Cardinality(left') \in Nat
         /\ Cardinality(left') <= Cardinality(Providers)
         /\ \A p \in left : Cardinality(left \ {p}) = Cardinality(left) - 1
<1>1. left \subseteq Providers /\ left' \subseteq Providers
  BY DEF TypeOK, AuthTypeOK
<1>2. IsFiniteSet(left) /\ IsFiniteSet(left')
  BY <1>1, FS_Subset DEF FiniteProviders
<1> QED BY <1>1, <1>2, FS_CardinalityType, FS_Subset, FS_RemoveElement DEF FiniteProviders

LEMMA AuthNearer ==
  ASSUME FiniteProviders, TypeOK, TypeOK', AuthSteps
  PROVE  Distance' < Distance
<1>1. CASE at' = "over"
  <2>1. at \in {"enabled", "config", "validate", "relist", "discovery", "jwks"}
    BY DEF AuthSteps, ExternalAuthEnabled, ReadConfig, VerifyExternalAuthProviders, ListIssuers,
           FetchDiscovery, FetchJWKS
  <2> QED BY <1>1, <2>1, ProvidersCounted, Unfold, UnfoldNext
<1>2. CASE at' # "over" /\ (ExternalAuthEnabled \/ ReadConfig \/ VerifyExternalAuthProviders)
  <2>1. \/ at = "enabled" /\ at' = "config"
        \/ at = "config" /\ at' = "validate"
        \/ at = "validate" /\ at' = "relist"
    BY <1>2 DEF ExternalAuthEnabled, ReadConfig, VerifyExternalAuthProviders, Ends, Goto
  <2> QED BY <2>1, ProvidersCounted, Unfold, UnfoldNext
<1>3. CASE at' # "over" /\ ListIssuers
  <2>1. at = "relist" /\ at' = "discovery"
    BY <1>3 DEF ListIssuers, Ends, Goto
  <2> QED BY <2>1, ProvidersCounted, Unfold, UnfoldNext
<1>4. CASE at' # "over" /\ FetchDiscovery
  <2>1. at = "discovery" /\ at' = "jwks" /\ \E p \in left : left' = left \ {p}
    BY <1>4 DEF FetchDiscovery, Ends, Goto
  <2>2. Cardinality(left') = Cardinality(left) - 1
    BY <2>1, ProvidersCounted
  <2> QED BY <2>1, <2>2, ProvidersCounted, Unfold, UnfoldNext
<1>5. CASE at' # "over" /\ FetchJWKS
  <2>1. at = "jwks" /\ at' = "discovery" /\ left' = left
    BY <1>5 DEF FetchJWKS, NextIssuer, Ends, Goto, authVars
  <2> QED BY <2>1, ProvidersCounted, Unfold, UnfoldNext
<1> QED BY <1>1, <1>2, <1>3, <1>4, <1>5 DEF AuthSteps

LEMMA TrailNearer ==
  ASSUME TypeOK, PageInv, TrailSteps
  PROVE  Distance' < Distance
<1>1. page \in Nat /\ MaxPages \in Nat \ {0} /\ (at = "lookup" => page < MaxPages)
  <2>1. MaxPages \in Nat \ {0} /\ page \in 0 .. MaxPages
    BY CloudTrailAssumption DEF CloudTrailAssumption, TypeOK, TrailTypeOK
  <2>2. check = "cloudTrail"
    BY DEF TrailSteps, FindLog, LookupEvents
  <2> QED BY <2>1, <2>2 DEF PageInv
<1>2. \/ at = "begin" /\ at' = "lookup" /\ page' = page
      \/ at = "lookup" /\ at' = "lookup" /\ page' = page + 1
      \/ at = "lookup" /\ at' = "over"
  BY DEF TrailSteps, FindLog, LookupEvents, Ends, Goto
<1> QED BY <1>1, <1>2, Unfold, UnfoldNext

LEMMA StatusNearer ==
  ASSUME VerifyStatus
  PROVE  Distance' < Distance
<1>1. at = "read" /\ at' = "over"
  BY DEF VerifyStatus, Ends
<1> QED BY <1>1, Unfold, UnfoldNext

LEMMA StepsNearer ==
  ASSUME PollsTakeTime, FiniteProviders, IInv, [Next]_vars, Steps
  PROVE  Distance' < Distance
<1>1. TypeOK /\ PageInv /\ TypeOK'
  BY Preserved DEF IInv
<1> QED BY <1>1, OAuthNearer, RevisionNearer, AuthNearer, TrailNearer, StatusNearer DEF Steps

\* What the world does moves neither the clock nor the check.
LEMMA WorldDoesNotDelay ==
  ASSUME [Next]_vars, ~Steps
  PROVE  Distance' = Distance /\ at' = at
<1>1. OAuthWorld \/ RevisionWorld \/ AuthWorld \/ UNCHANGED vars
  BY DEF Next, OAuth, Revision, Auth, Steps
<1>2. UNCHANGED <<at, now, deadline, left, page>>
  BY <1>1 DEF Next, Steps, OAuthWorld, RevisionWorld, AuthWorld, OAuth, Revision, Auth, Elsewhere,
         vars, control, oauthVars, authVars, trailVars
<1> QED BY <1>2 DEF Distance, Awake, Asleep, TimeLeft

LEMMA DistanceType ==
  ASSUME FiniteProviders, TypeOK
  PROVE  Distance \in Nat
<1>1. /\ Timeout \in Nat /\ MaxPages \in Nat /\ page \in 0 .. MaxPages /\ at \in Calls
      /\ Awake \in Nat /\ Asleep \in Nat
  <2>1. MaxPages \in Nat /\ page \in 0 .. MaxPages
    BY CloudTrailAssumption DEF CloudTrailAssumption, TypeOK, TrailTypeOK
  <2>2. Timeout \in Nat /\ now \in Nat /\ deadline \in Nat /\ at \in Calls
    BY OAuthAssumption DEF OAuthAssumption, TypeOK, OAuthTypeOK
  <2> QED BY <2>1, <2>2, WaitTypes DEF Awake, Asleep
<1>2. Cardinality(Providers) \in Nat /\ Cardinality(left) \in Nat
  BY FS_Subset, FS_CardinalityType DEF FiniteProviders, TypeOK, AuthTypeOK
<1> QED BY <1>1, <1>2, Unfold DEF Calls

\* Every call and every pause of any of the checks brings its end nearer, and nothing that the
\* controllers, the providers or the endpoint do meanwhile puts it off.
THEOREM Approaches ==
  ASSUME PollsTakeTime, FiniteProviders
  PROVE  Spec => /\ [](Distance \in Nat)
                 /\ [][IF Steps THEN Distance' < Distance ELSE Distance' = Distance]_vars
<1>1. IInv => Distance \in Nat
  BY DistanceType DEF IInv
<1>2. IInv /\ [Next]_vars => [IF Steps THEN Distance' < Distance ELSE Distance' = Distance]_vars
  BY StepsNearer, WorldDoesNotDelay
<1> QED BY <1>1, <1>2, Invariant, PTL DEF Spec

Stands(n) == at # "over" /\ Distance = n
Nearer(n) == at = "over" \/ Distance < n

\* If a check that is not over keeps making calls, then from any distance it comes to its
\* verdict or strictly nearer to it.
THEOREM EndApproaches ==
  ASSUME PollsTakeTime, FiniteProviders, NEW n \in Nat
  PROVE  Spec /\ [](at # "over" => <><<Steps>>_vars) => [](Stands(n) => <>Nearer(n))
<1>1. IInv /\ Stands(n) /\ [Next]_vars => Stands(n)' \/ Nearer(n)'
  BY StepsNearer, WorldDoesNotDelay DEF Stands, Nearer
<1>2. IInv /\ Stands(n) /\ [Next]_vars /\ Steps => Nearer(n)'
  BY StepsNearer DEF Stands, Nearer
<1>3. Stands(n) => at # "over"
  BY DEF Stands
<1> QED BY <1>1, <1>2, <1>3, Invariant, PTL DEF Spec
=============================================================================
