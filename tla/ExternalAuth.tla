---------------------------- MODULE ExternalAuth ----------------------------
(***************************************************************************)
(* pkg/verifiers/external_auth.go as its spec uses it                      *)
(* (customer_features_test): the configuration is read twice and the       *)
(* providers are listed twice, once to look at them, once to probe their   *)
(* issuers, while providers are edited and issuers come and go.  An edit   *)
(* leaves a provider the issuer it has, or none.                           *)
(***************************************************************************)
EXTENDS HealthCheck

CONSTANT Providers

VARIABLES
  enabled,    \* external_auth_config
  providers,  \* "absent", without an issuer URL, otherwise malformed or failed ("bad"), "good"
  issuer,     \* "down" (or its document names no JWKS), "noKeys", "keys"
  left,       \* listed providers whose issuer is still to be probed
  probing,    \* the one whose document was read
  steady      \* history: providers nobody has touched since the check began

authVars == <<enabled, providers, issuer, left, probing, steady>>

AuthInit ==
  /\ enabled = FALSE
  /\ providers = [p \in Providers |-> "absent"] /\ issuer = [p \in Providers |-> "down"]
  /\ left = {} /\ probing = {} /\ steady = {}

Listed == {p \in Providers : providers[p] # "absent"}

ExternalAuthEnabled ==
  /\ check = "externalAuth" /\ at = "enabled"
  /\ Ends("error") \/ (~enabled /\ Ends("skipped")) \/ (enabled /\ Goto("config"))
  /\ steady' = Providers
  /\ UNCHANGED <<enabled, providers, issuer, left, probing>>

ReadConfig ==
  /\ check = "externalAuth" /\ at = "config"
  /\ Ends("error") \/ (enabled /\ Goto("validate"))
  /\ UNCHANGED authVars

validateExternalAuthProvider(p) == providers[p] = "good"

VerifyExternalAuthProviders ==
  /\ check = "externalAuth" /\ at = "validate"
  /\ \/ Ends("error")
     \/ /\ Listed # {} /\ \A p \in Listed : validateExternalAuthProvider(p)
        /\ Goto("relist")
  /\ UNCHANGED authVars

\* A provider listed without an issuer URL fails the check, whatever is probed before it.
ListIssuers ==
  /\ check = "externalAuth" /\ at = "relist"
  /\ \/ Ends("error") /\ UNCHANGED left
     \/ /\ Listed # {} /\ \A p \in Listed : providers[p] # "noIssuer"
        /\ Goto("discovery") /\ left' = Listed
  /\ UNCHANGED <<enabled, providers, issuer, probing, steady>>

\* The listed providers' issuers, in the order of the list.
FetchDiscovery ==
  /\ check = "externalAuth" /\ at = "discovery"
  /\ \/ Ends("error") /\ UNCHANGED <<left, probing>>
     \/ \E p \in left :
          /\ issuer[p] # "down"
          /\ probing' = {p} /\ left' = left \ {p} /\ Goto("jwks")
  /\ UNCHANGED <<enabled, providers, issuer, steady>>

\* Slip: the first issuer that publishes a key is enough.
OneWillDo == Ends("nil")

NextIssuer == IF left = {} THEN Ends("nil") ELSE Goto("discovery")

FetchJWKS ==
  /\ check = "externalAuth" /\ at = "jwks"
  /\ Ends("error") \/ (NextIssuer /\ \A p \in probing : issuer[p] = "keys")
  /\ UNCHANGED authVars

AuthSteps ==
  \/ ExternalAuthEnabled \/ ReadConfig \/ VerifyExternalAuthProviders \/ ListIssuers
  \/ FetchDiscovery \/ FetchJWKS

AuthWorld ==
  /\ check = "externalAuth" /\ Elsewhere
  /\ \/ enabled' = ~enabled /\ UNCHANGED <<providers, issuer, steady>>
     \/ \E p \in Providers :
          /\ steady' = steady \ {p} /\ UNCHANGED enabled
          /\ \/ \E v \in {"absent", "noIssuer", "bad", "good"} :
                  providers' = [providers EXCEPT ![p] = v] /\ UNCHANGED issuer
             \/ \E v \in {"down", "noKeys", "keys"} :
                  issuer' = [issuer EXCEPT ![p] = v] /\ UNCHANGED providers
  /\ UNCHANGED <<left, probing>>

AuthTypeOK ==
  /\ enabled \in BOOLEAN
  /\ providers \in [Providers -> {"absent", "noIssuer", "bad", "good"}]
  /\ issuer \in [Providers -> {"down", "noKeys", "keys"}]
  /\ left \subseteq Providers /\ probing \subseteq Providers /\ steady \subseteq Providers
=============================================================================
