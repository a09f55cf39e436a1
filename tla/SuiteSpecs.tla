----------------------------- MODULE SuiteSpecs -----------------------------
(***************************************************************************)
(* One process of the suite: BeforeSuite loads the configuration, then     *)
(* specs run one after another, each with a TestContext of its own         *)
(* (pkg/framework/context.go) but all with that one configuration, which   *)
(* LoadRHOBSCredentialsFromMC writes to.  The specs are those of           *)
(* rhobs_synthetic_monitoring_test ("probe", "labels", "metrics",          *)
(* "rules"), rhobs_cardinality_test ("gate") and hostedcluster_health_test *)
(* ("namespaces"); Ginkgo picks their order and may run one again.         *)
(* One action per remote call.                                             *)
(***************************************************************************)
EXTENDS SuiteConfig, Rhobs, Sequences

CONSTANTS
  Suites,       \* the surroundings a process may start in
  Offers,       \* the sets of keys the ConfigMap may hold
  Tsdbs,        \* the counts a gate may find
  MaxAttempts,  \* getOIDCAccessToken: the first attempt and one per delay
  MaxPolls,     \* polls that fit in the timeout of an Eventually
  MaxVersion,   \* bound: versions of the ConfigMap (the first is 2)
  MaxSpecs      \* bound: specs that are run

ASSUME SuiteAssumption ==
  /\ Suites \subseteq Surroundings
  /\ Offers \subseteq SUBSET Access
  /\ Tsdbs \subseteq [Readings -> Counts \cup {Absent}]
  /\ MaxAttempts \in Nat \ {0}
  /\ MaxPolls \in Nat \ {0}
  /\ MaxVersion \in Nat
  /\ MaxSpecs \in Nat

VARIABLES
  settings,   \* the surroundings
  configMap,  \* route-monitor-operator-config: its version and the keys it has
  suite,      \* "starting", "running", "broken"
  cfg,        \* the shared configuration
  spec,       \* the spec that runs, or "none"
  at,         \* the call it makes next, or "over"
  line,       \* which of its body's queries
  attempt,    \* attempts of the token request that failed
  polls,      \* attempts of its Eventually that failed
  started,    \* specs started
  verdict,    \* "none", "passed", "failed", "skipped"
  rhobs,      \* RHOBSConfig: its copy of the configuration
  hasData,    \* what probeSuccessDataExists answered: "yes", "no", "error"
  seen,       \* the counts the gate read
  diagnosis,  \* what VerifyRecordingRules said last: "none", "notYet", "notEvaluating", "queryFailed"
  calm,       \* history: nothing has gone wrong around the spec
  partial,    \* history: the sources the configuration held only some credentials of
  sawData,    \* history: what there was of probe_success during this attempt
  before      \* history: the counts when the spec started

outside == <<settings, configMap, backend>>
shared == <<suite, cfg, partial>>
run == <<spec, at, line, attempt, polls, started, verdict>>
memory == <<rhobs, hasData, seen, diagnosis>>
history == <<calm, sawData, before>>
vars == <<outside, shared, run, memory, history>>

Synthetic == {"probe", "labels", "metrics", "rules"}
Script ==
  [probe |-> <<"public", "private">>, labels |-> <<"labels">>, metrics |-> <<"data">>,
   rules |-> <<"data", "active", "blackbox">>,
   gate |-> <<"head", "head2h", "rate", "rate2h", "top">>]
Specs == Synthetic \cup {"gate", "namespaces"}
Query == Script[spec][line]
NoReadings == [r \in Readings |-> Absent]

NoConfig ==
  [access |-> [f \in Access |-> Unset], metrics |-> Unset, topology |-> "", cluster |-> FALSE,
   mc |-> FALSE]

\* What HasRHOBSAccess promises.
Complete(access) == \A f \in Access : access[f] # Unset

Init ==
  /\ settings \in Suites
  /\ configMap = [version |-> Loaded, has |-> {}]
  /\ backend = Quiet
  /\ suite = "starting" /\ cfg = NoConfig
  /\ spec = "none" /\ at = "over" /\ line = 1 /\ attempt = 0 /\ polls = 0
  /\ started = 0 /\ verdict = "none"
  /\ rhobs = NoConfig /\ hasData = "error" /\ seen = NoReadings
  /\ diagnosis = "none"
  /\ calm = TRUE /\ partial = {} /\ sawData = {} /\ before = NoReadings

(***************************************************************************)
(* The shared configuration.                                               *)
(***************************************************************************)
Shares(c) ==
  /\ cfg' = c
  /\ partial' = partial \cup
       IF Complete(c.access) THEN {} ELSE {c.access[f] : f \in Access} \ {Unset}

\* A panic in BeforeSuite ends the process before its first spec.
BeforeSuite ==
  /\ suite = "starting"
  /\ IF LoadFails(settings)
       THEN suite' = "broken" /\ UNCHANGED <<cfg, partial>>
       ELSE suite' = "running" /\ Shares(Load(settings))
  /\ UNCHANGED <<outside, run, memory, history>>

FromConfigMap(f) == IF f \in configMap.has THEN configMap.version ELSE Unset

\* Slip: only what is missing is taken from the ConfigMap.
FillIn ==
  LET access == [f \in Access |->
        IF cfg.access[f] # Unset THEN cfg.access[f] ELSE FromConfigMap(f)] IN
  [cfg EXCEPT !.access = access, !.metrics = Derive(@, access["probe"])]

\* All four fields are overwritten, with "" where the ConfigMap lacks the key.
FromMC ==
  LET access == [f \in Access |-> FromConfigMap(f)] IN
  [cfg EXCEPT !.access = access, !.metrics = Derive(@, access["probe"])]

(***************************************************************************)
(* Moves of the spec.                                                      *)
(***************************************************************************)
Goto(call) ==
  /\ at' = call
  /\ UNCHANGED <<spec, line, attempt, polls, started, verdict>>

Ends(v) ==
  /\ at' = "over"
  /\ verdict' = v
  /\ UNCHANGED <<spec, line, attempt, polls, started>>

Answered == UNCHANGED calm
Fault == calm' = FALSE

\* The probe API is always asked with a token, the metrics API only with credentials.
FirstCall(query, c) ==
  IF query \in {"public", "private", "labels"} \/ (c.access["id"] # Unset /\ c.access["secret"] # Unset)
    THEN "token" ELSE "query"

Request(n) ==
  /\ line' = n
  /\ attempt' = 0
  /\ at' = FirstCall(Script[spec][n], rhobs)
  /\ UNCHANGED <<spec, started, verdict>>

\* NewRHOBSConfig, and the first query.
Body(c) ==
  /\ rhobs' = c
  /\ at' = FirstCall(Script[spec][1], c)
  /\ UNCHANGED <<spec, line, attempt, polls, started, verdict>>
  /\ UNCHANGED <<hasData, seen, diagnosis>>

\* The first call of InitMCClients: the management cluster is looked up when nothing names it.
FirstMC == IF settings.kubeconfig \/ cfg.mc THEN "credentials" ELSE "findMC"

(***************************************************************************)
(* A spec starts, on a backend in whatever state.                          *)
(***************************************************************************)
Within(current, baseline, maxDeltaPct) ==
  baseline <= 0 \/ (current - baseline) * 100 <= maxDeltaPct * baseline

Small(counts) == counts["top"] <= MaxSeriesPerMetric
Grown(counts) ==
  \E pair \in {<<"head", "head2h">>, <<"rate", "rate2h">>} :
    /\ counts[pair[2]] > 0
    /\ (counts[pair[1]] - counts[pair[2]]) * 100 > MaxDeltaPct * counts[pair[2]]

FineFor(s, b) ==
  CASE s \in {"probe", "labels"} -> b.probes = 1
    [] s = "metrics" -> b.data
    [] s = "rules" -> b.rules = Rules
    [] s = "gate" -> /\ \A r \in Readings \ {"top"} : b.tsdb[r] # Absent
                     /\ ~Grown(b.tsdb) /\ Small(b.tsdb)
    [] OTHER -> TRUE

\* Only what the spec reads is told apart.
FoundBy(s) ==
  [probes : IF s \in {"probe", "labels"} THEN 0 .. 2 ELSE {0},
   label : IF s \in {"probe", "labels"} THEN {"public", "private"} ELSE {"public"},
   data : IF s \in {"metrics", "rules"} THEN BOOLEAN ELSE {FALSE},
   rules : IF s = "rules" THEN SUBSET Rules ELSE {{}},
   tsdb : IF s = "gate" THEN Tsdbs ELSE {NoReadings}]

FirstOf(s) ==
  CASE s = "gate" -> FirstCall("head", cfg) [] s = "namespaces" -> FirstMC [] OTHER -> "cluster"

SkippedAtOnce(s) ==
  \/ s \in Synthetic /\ ~cfg.cluster
  \/ s = "gate" /\ cfg.metrics = Unset
  \/ s = "namespaces" /\ ~settings.kubeconfig /\ ~cfg.mc

Start(s) ==
  /\ suite = "running" /\ at = "over" /\ started < MaxSpecs
  /\ spec' = s /\ line' = 1 /\ attempt' = 0 /\ polls' = 0 /\ started' = started + 1
  /\ IF SkippedAtOnce(s) THEN at' = "over" /\ verdict' = "skipped"
                         ELSE at' = FirstOf(s) /\ verdict' = "none"
  /\ rhobs' = IF s = "gate" THEN cfg ELSE NoConfig
  /\ hasData' = "error" /\ seen' = NoReadings /\ diagnosis' = "none"
  /\ \E b \in FoundBy(s) :
       /\ backend' = b
       /\ calm' = FineFor(s, b)
       /\ sawData' = {b.data}
       /\ before' = b.tsdb
  /\ UNCHANGED <<settings, configMap, shared>>

(***************************************************************************)
(* BeforeEach, and the calls of InitMCClients.                             *)
(***************************************************************************)
\* The cluster's external ID; the rest is skipped when the configuration is complete.
\* Whoever runs this has a hosted cluster in OCM: an answer, when there is one, says so.
GetCluster ==
  /\ at = "cluster"
  /\ \/ Answered /\ HasRHOBSAccess(cfg) /\ Body(cfg)
     \/ Answered /\ ~HasRHOBSAccess(cfg) /\ Goto(FirstMC) /\ UNCHANGED memory
     \/ Fault /\ Ends("failed") /\ UNCHANGED memory
  /\ UNCHANGED <<outside, shared, sawData, before>>

\* An error of InitMCClients skips a synthetic spec and fails the others.
InitFails == Ends(IF spec \in Synthetic THEN "skipped" ELSE "failed")

\* InitMCClients returned nil; the namespaces spec needs the namespaces as well.
InitDone(resolved) ==
  IF spec \in Synthetic THEN Goto("configMap")
  ELSE IF resolved THEN Goto("verify") ELSE Ends("failed")

FindMC ==
  /\ at = "findMC"
  /\ (Answered /\ Goto("credentials")) \/ (Fault /\ InitFails)
  /\ UNCHANGED <<outside, shared, memory, sawData, before>>

Credentials ==
  /\ at = "credentials"
  /\ (Answered /\ Goto("topology")) \/ (Fault /\ InitFails)
  /\ UNCHANGED <<outside, shared, memory, sawData, before>>

\* A lookup that fails leaves "", and the namespaces unresolved without an error.
DetectTopology ==
  /\ at = "topology"
  /\ \/ Answered /\ ~cfg.cluster /\ InitDone(FALSE)
     \/ Answered /\ cfg.cluster /\ cfg.topology \in {"", "hcp"} /\ Goto("name")
     \/ Answered /\ cfg.cluster /\ cfg.topology \notin {"", "hcp"} /\ InitDone(FALSE)
     \/ Fault /\ cfg.cluster /\ cfg.topology = "" /\ InitDone(FALSE)
  /\ UNCHANGED <<outside, shared, memory, sawData, before>>

\* Without a name the HostedCluster is found by its namespace.
ResolveName ==
  /\ at = "name"
  /\ Answered \/ Fault
  /\ Goto("hostedClusters")
  /\ UNCHANGED <<outside, shared, memory, sawData, before>>

\* An error here is not fatal to InitMCClients.
ResolveHCPNamespaces ==
  /\ at = "hostedClusters"
  /\ (Answered /\ InitDone(TRUE)) \/ (Fault /\ InitDone(FALSE))
  /\ UNCHANGED <<outside, shared, memory, sawData, before>>

VerifyNamespace ==
  /\ at = "verify"
  /\ (Answered /\ Ends("passed")) \/ (Fault /\ Ends("failed"))
  /\ UNCHANGED <<outside, shared, memory, sawData, before>>

\* The configuration is written before it is known to be complete.
LoadRHOBSCredentialsFromMC ==
  /\ at = "configMap"
  /\ \/ /\ HasRHOBSAccess(cfg)
        /\ Answered /\ Body(cfg) /\ UNCHANGED shared
     \/ /\ ~HasRHOBSAccess(cfg)
        /\ Fault \/ (configMap.version = Loaded /\ Answered)
        /\ Ends("skipped") /\ UNCHANGED <<shared, memory>>
     \/ /\ ~HasRHOBSAccess(cfg) /\ configMap.version # Loaded
        /\ Answered /\ Shares(FromMC) /\ UNCHANGED suite
        /\ IF HasRHOBSAccess(FromMC) THEN Body(FromMC) ELSE Ends("skipped") /\ UNCHANGED memory
  /\ UNCHANGED <<outside, sawData, before>>

(***************************************************************************)
(* The body's queries.                                                     *)
(***************************************************************************)
\* Slip: one attempt more than the timeout has time for.
TryOnceMore ==
  \/ /\ polls < MaxPolls
     /\ polls' = polls + 1
     /\ Request(1)
  \/ Ends("failed")

\* Slip: the Eventually has no timeout.
PollForEver == polls' = polls /\ Request(1)

\* Eventually: another attempt while its timeout lasts.
TryAgain ==
  \/ /\ polls + 1 < MaxPolls
     /\ polls' = polls + 1
     /\ Request(1)
  \/ Ends("failed")

NextQuery == Request(line + 1) /\ UNCHANGED polls

\* "should have probe created": either label will do.
ProbeReplies(r) ==
  /\ spec = "probe"
  /\ IF r = "yes" THEN Ends("passed") ELSE IF line = 1 THEN NextQuery ELSE Ends("failed")
  /\ UNCHANGED <<memory, sawData>>

LabelsReply(r) ==
  /\ spec = "labels"
  /\ Ends(IF r = "yes" THEN "passed" ELSE "failed")
  /\ UNCHANGED <<memory, sawData>>

MetricsReply(r) ==
  /\ spec = "metrics"
  /\ IF r = "yes" THEN Ends("passed") ELSE TryAgain
  /\ UNCHANGED <<memory, sawData>>

\* Slip: a query that failed counts as one that found nothing.
DiagnoseAnyway(r) ==
  IF r = "error" THEN "queryFailed" ELSE IF hasData # "yes" THEN "notYet" ELSE "notEvaluating"

Diagnose(r) ==
  IF r = "error" THEN "queryFailed" ELSE IF hasData = "no" THEN "notYet" ELSE "notEvaluating"

\* VerifyRecordingRules: the data is looked at first, for the diagnosis only.
RulesReply(r) ==
  /\ spec = "rules"
  /\ \/ /\ line = 1
        /\ hasData' = r /\ diagnosis' = "none" /\ sawData' = {backend.data}
        /\ NextQuery
     \/ /\ line > 1 /\ r = "yes"
        /\ IF line = 2 THEN NextQuery ELSE Ends("passed")
        /\ UNCHANGED <<hasData, diagnosis, sawData>>
     \/ /\ line > 1 /\ r # "yes"
        /\ diagnosis' = Diagnose(r)
        /\ TryAgain
        /\ UNCHANGED <<hasData, sawData>>
  /\ UNCHANGED <<rhobs, seen>>

\* Slip: the growth is taken relative to the current count, the wrong way round.
BackwardPasses(counts) ==
  /\ Within(counts["head2h"], counts["head"], MaxDeltaPct)
  /\ Within(counts["rate2h"], counts["rate"], MaxDeltaPct)
  /\ Small(counts)

\* VerifyCardinalityThreshold's results, all passed.
GatePasses(counts) ==
  /\ Within(counts["head"], counts["head2h"], MaxDeltaPct)
  /\ Within(counts["rate"], counts["rate2h"], MaxDeltaPct)
  /\ Small(counts)

\* A pair is looked at when both its queries are back; an empty result there is an error,
\* an empty list of metrics is not.
GateReplies(r) ==
  /\ spec = "gate"
  /\ LET counts == [seen EXCEPT ![Query] = backend.tsdb[Query]]
         empty == \/ line = 2 /\ Absent \in {counts["head"], counts["head2h"]}
                  \/ line = 4 /\ Absent \in {counts["rate"], counts["rate2h"]} IN
       /\ seen' = IF r = "error" THEN seen ELSE counts
       /\ IF r = "error" \/ empty THEN Ends("failed")
          ELSE IF line < 5 THEN NextQuery
          ELSE Ends(IF GatePasses(counts) THEN "passed" ELSE "failed")
  /\ UNCHANGED <<rhobs, hasData, diagnosis, sawData>>

Replies(r) ==
  ProbeReplies(r) \/ LabelsReply(r) \/ MetricsReply(r) \/ RulesReply(r) \/ GateReplies(r)

Retry == attempt' = attempt + 1 /\ UNCHANGED <<spec, at, line, polls, started, verdict>>

\* Slip: the last delay is never used.
LastAttempt == attempt + 2 >= MaxAttempts

NoMoreAttempts == attempt + 1 >= MaxAttempts

\* What the issuer accepts: all four from the suite, or from the ConfigMap as it is now.
Valid(access) == \E v \in {Loaded, configMap.version} : \A f \in Access : access[f] = v

\* getOIDCAccessToken: no answer and 5xx are tried again, any other failure is final.
GetToken ==
  /\ at = "token"
  /\ \/ /\ Valid(rhobs.access)
        /\ Answered /\ Goto("query") /\ UNCHANGED <<memory, sawData>>
     \/ /\ ~NoMoreAttempts
        /\ Answered /\ Retry /\ UNCHANGED <<memory, sawData>>
     \/ /\ NoMoreAttempts
        /\ calm' = (calm /\ attempt + 1 < MaxAttempts) /\ Replies("error")
     \/ /\ ~Valid(rhobs.access) /\ rhobs.access["issuer"] # Unset
        /\ Answered /\ Replies("error")
     \/ Fault /\ Replies("error")
  /\ UNCHANGED <<outside, shared, before>>

Holds(query) ==
  CASE query \in {"public", "private"} -> backend.probes = 1 /\ backend.label = query
    [] query = "labels" -> backend.probes > 0
    [] query = "data" -> backend.data
    [] query \in Rules -> query \in backend.rules
    [] OTHER -> TRUE

SendQuery ==
  /\ at = "query"
  /\ \/ Answered /\ Replies(IF Holds(Query) THEN "yes" ELSE "no")
     \/ Fault /\ Replies("error")
  /\ UNCHANGED <<outside, shared, before>>

(***************************************************************************)
(* The surroundings move.                                                  *)
(***************************************************************************)
\* The operator writes the ConfigMap, for the first time or with new credentials.
Publish ==
  /\ suite = "running" /\ configMap.version < MaxVersion
  /\ \E keys \in Offers : configMap' = [version |-> configMap.version + 1, has |-> keys]
  /\ UNCHANGED <<settings, backend, shared, run, memory, history>>

BackendMoves ==
  /\ at # "over"
  /\ \/ spec \in {"probe", "labels"} /\ ProbesChange
     \/ spec \in {"metrics", "rules"} /\ DataChanges
     \/ spec = "rules" /\ RuleEvaluates
     \/ spec = "gate" /\ Grows
  /\ calm' = (calm /\ FineFor(spec, backend'))
  /\ sawData' = sawData \cup {backend'.data}
  /\ UNCHANGED <<settings, configMap, shared, run, memory, before>>

SpecSteps ==
  \/ GetCluster \/ FindMC \/ Credentials \/ DetectTopology \/ ResolveName \/ ResolveHCPNamespaces
  \/ VerifyNamespace \/ LoadRHOBSCredentialsFromMC \/ GetToken \/ SendQuery

Environment == Publish \/ BackendMoves

Next ==
  \/ BeforeSuite
  \/ \E s \in Specs : Start(s)
  \/ SpecSteps
  \/ Environment

\* Every call has a client timeout, and Ginkgo runs the spec it has started.
Spec == Init /\ [][Next]_vars /\ WF_vars(SpecSteps)

(***************************************************************************)
(* Properties.                                                             *)
(***************************************************************************)
Sources == Unset .. MaxVersion \cup {Loaded}
Configs ==
  [access : [Access -> Sources], metrics : Sources \cup {Explicit}, topology : Spellings \cup {""},
   cluster : BOOLEAN, mc : BOOLEAN]

\* Every variable stays in its type; the counters stay below what the code allows.
TypeOK ==
  /\ settings \in Suites
  /\ configMap \in [version : Sources \ {Unset}, has : SUBSET Access]
  /\ backend \in Backends
  /\ suite \in {"starting", "running", "broken"}
  /\ cfg \in Configs /\ rhobs \in Configs
  /\ spec \in Specs \cup {"none"}
  /\ at \in {"over", "cluster", "findMC", "credentials", "topology", "name", "hostedClusters",
             "verify", "configMap", "token", "query"}
  /\ line \in 1 .. 5 /\ attempt \in 0 .. MaxAttempts - 1 /\ polls \in 0 .. MaxPolls - 1
  /\ started \in 0 .. MaxSpecs
  /\ verdict \in {"none", "passed", "failed", "skipped"}
  /\ hasData \in {"yes", "no", "error"}
  /\ seen \in [Readings -> Counts \cup {Absent}]
  /\ diagnosis \in {"none", "notYet", "notEvaluating", "queryFailed"}
  /\ calm \in BOOLEAN /\ partial \subseteq Sources /\ sawData \subseteq BOOLEAN
  /\ before \in [Readings -> Counts \cup {Absent}]

\* The credentials in use all come from one place: from what the process was started with, or
\* from one version of the ConfigMap, however many specs have loaded them and however often
\* it was written in between (context.go:327-366).
OneSource ==
  \A c \in {cfg, rhobs} : \A f, g \in Access :
    Unset \in {c.access[f], c.access[g]} \/ c.access[f] = c.access[g]

\* Credentials that are complete stay as they are for the rest of the process: no spec
\* replaces what another one, or the environment, has set (context.go:328-331).
CompleteStays == [][Complete(cfg.access) => UNCHANGED cfg]_vars

\* A metrics URL that was derived belongs to the probe URL in use, except where credentials
\* were taken that turned out incomplete: the URL derived from them is kept for ever
\* (config.go:217-221, context.go:354-358).
MetricsApartOnly ==
  cfg.metrics \notin {Explicit, cfg.access["probe"]} => cfg.metrics \in partial

\* A spec around which nothing goes wrong does not fail: neither fewer outages of the token
\* endpoint than it has attempts, nor specs before it, nor the ConfigMap's history.  What is
\* left are credentials that are not, or no longer, the issuer's, and a configuration in
\* which the hosted cluster's namespaces cannot be found (rhobs.go:54-108, context.go:125-134).
UndisturbedPasses ==
  verdict = "failed" /\ calm =>
    \/ spec = "namespaces" /\ (~cfg.cluster \/ cfg.topology \notin {"", "hcp"})
    \/ spec # "namespaces" /\ ~Valid(rhobs.access)

\* Missing probe data is blamed only if there was none at some time since it was asked for, and
\* the rules are blamed only if there was some or the question had failed
\* (rhobs.go:483-487, 508-511, 533-536).
DiagnosisGrounded ==
  /\ diagnosis = "notYet" => FALSE \in sawData
  /\ diagnosis = "notEvaluating" => TRUE \in sawData \/ hasData = "error"

\* The gate does not let through a growth there was before it started, whatever grows while
\* it asks (rhobs.go:342-424).
GateSeesGrowth ==
  spec = "gate" /\ verdict = "passed" => ~Grown(before) /\ Small(before)

\* Every spec that is started ends (rhobs.go:61-107 and the Eventually of the specs).
SpecsEnd == at # "over" ~> at = "over"
=============================================================================
