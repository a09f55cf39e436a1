---------------------------- MODULE HealthChecks ----------------------------
(***************************************************************************)
(* The checks of pkg/verifiers that keep nothing from one another: each    *)
(* behaviour is one run of one of them, with the part of the world it      *)
(* looks at moving between its calls.                                      *)
(***************************************************************************)
EXTENDS OAuthReadiness, RevisionCheck, ExternalAuth, CloudTrail, StatusVerifiers

CONSTANT Checks  \* the checks that are run

FirstCall ==
  [oauth |-> "pods", revisions |-> "first", externalAuth |-> "enabled", cloudTrail |-> "begin",
   status |-> "read"]

ASSUME ChecksAssumption == Checks \subseteq DOMAIN FirstCall

vars == <<control, oauthVars, revisionVars, authVars, trailVars, statusVars>>

Init ==
  /\ check \in Checks /\ at = FirstCall[check] /\ verdict = "none"
  /\ OAuthInit /\ RevisionInit /\ AuthInit /\ TrailInit /\ StatusInit

OAuth == OAuthSteps \/ OAuthWorld
Revision == RevisionSteps \/ RevisionWorld
Auth == AuthSteps \/ AuthWorld

Next ==
  \/ OAuth /\ UNCHANGED <<revisionVars, authVars, trailVars, statusVars>>
  \/ Revision /\ UNCHANGED <<oauthVars, authVars, trailVars, statusVars>>
  \/ Auth /\ UNCHANGED <<oauthVars, revisionVars, trailVars, statusVars>>
  \/ TrailSteps /\ UNCHANGED <<oauthVars, revisionVars, authVars, statusVars>>
  \/ VerifyStatus /\ UNCHANGED <<oauthVars, revisionVars, authVars, trailVars>>

Spec == Init /\ [][Next]_vars

(***************************************************************************)
(* Properties.                                                             *)
(***************************************************************************)
Calls ==
  {"pods", "podPoll", "endpoint", "endpointPoll", "first", "observe", "second", "enabled", "config",
   "validate", "relist", "discovery", "jwks", "begin", "lookup", "read", "over"}

\* Every variable stays in its type: no more pages are read than maxPages, and a check that is
\* over has a verdict.
TypeOK ==
  /\ check \in Checks /\ at \in Calls
  /\ verdict \in {"none", "nil", "error", "found", "skipped"}
  /\ at = "over" <=> verdict # "none"
  /\ OAuthTypeOK /\ RevisionTypeOK /\ AuthTypeOK /\ TrailTypeOK /\ StatusTypeOK

\* VerifyOAuthServerReadiness ends in time, but its time is twice the timeout it is given, and
\* each wait may overshoot by a call and a poll; when it returns nil, the pods it found ready
\* were so no longer ago than the second wait may last (oauth_readiness.go:30-146).
OAuthInTime ==
  /\ \/ now <= Timeout + MaxCall + PodPoll
     \/ now <= 2 * (Timeout + MaxCall) + EndpointPoll
  /\ check = "oauth" /\ verdict = "nil" => now <= deadline + MaxCall

\* A deployment that rolls out between the two listings is found, unless it was missing from one
\* of them or away in between; and if one is found, some deployment that both listings have did
\* roll out or was away (revision.go:24-59).
RevisionSound ==
  check = "revisions" =>
    /\ verdict = "nil" => rolled \subseteq gone
    /\ verdict = "found" => \E d \in rolled \cup gone : Missing \notin {initial[d], revision[d]}

\* When the external-auth spec passes, every provider nobody touched meanwhile is well formed
\* and its issuer publishes a key; if none was touched, there is one
\* (external_auth.go:44-161, customer_features_test.go:206-217).
ProvidersSound ==
  check = "externalAuth" /\ verdict = "nil" =>
    /\ \A p \in steady \cap Listed : providers[p] = "good" /\ issuer[p] = "keys"
    /\ steady = Providers => Listed # {}

\* A denial that is this cluster's and not the known one.
Regression(e) ==
  /\ e.complete /\ e.mine /\ e.refused
  /\ e.name = "DeleteListener" =>
       ~(e.arn = "installer" \/ (e.arn = "none" /\ e.issuer = "installer"))

\* VerifyNoAccessDenied misses no denial but those that older pages hold, however known and
\* unknown denials are mixed, and it names one only if there is one (cloudtrail.go:38-99).
DenialsSeen ==
  check = "cloudTrail" =>
    /\ verdict = "nil" => \A i \in DOMAIN log : Regression(log[i]) => i > MaxPages * PageSize
    /\ verdict = "found" => \E i \in DOMAIN log : Regression(log[i])

\* What the comment of VerifyNoAccessDenied says (cloudtrail.go:34-35): "queries CloudTrail for
\* AccessDenied or UnauthorizedAccess events within the specified lookback window and returns an
\* error if any are found".
NoDenialInWindow == verdict = "nil" => \A i \in DOMAIN log : ~Regression(log[i])

\* What a status says of a type.
Values(o, type) == {v \in {"True", "False"} : \E i \in DOMAIN o.said : o.said[i] = <<type, v>>}
Right(k, o) == \A w \in Wants[k] : o.skip \/ Values(o, w[1]) = {w[2]}
\* Says nothing twice in different ways; an endpoint says it in one of two types.
Unanimous(k, o) ==
  IF k = "vpcEndpoints" THEN \A i, j \in DOMAIN o.said : o.said[i][2] = o.said[j][2]
  ELSE \A w \in Wants[k] : Values(o, w[1]) # {"True", "False"}
Sound(k, o) ==
  IF k = "vpcEndpoints" THEN UNION {Values(o, w[1]) : w \in Wants[k]} = {"True"} ELSE Right(k, o)
HalfRight(k, o) == o.skip \/ Wants[k] = {} \/ \E w \in Wants[k] : w[2] \in Values(o, w[1])

\* Whatever the order of lists and conditions, and whatever is missing from a status: objects
\* that say one thing only are judged healthy if and only if they say all that is wanted; one
\* that contradicts itself never passes unless it also says what is wanted
\* (hostedcluster.go, clusteroperators.go, managed_operators.go, hcp_namespace.go,
\* management_cluster.go, service_cluster.go, storage.go, tags.go, ocm_role.go).
HealthyVerdict ==
  LET those == DOMAIN objects
      sound == {i \in those : Sound(kind, objects[i])}
      half == {i \in those : HalfRight(kind, objects[i])}
      Enough(good) == IF kind \in AnyWillDo THEN good # {} ELSE good = those /\ those # {} IN
  check = "status" /\ verdict \in {"nil", "found"} =>
    /\ (\A i \in those : Unanimous(kind, objects[i])) => (verdict = "nil" <=> Enough(sound))
    /\ verdict = "nil" => Enough(half)
=============================================================================
