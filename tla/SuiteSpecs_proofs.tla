-------------------------- MODULE SuiteSpecs_proofs --------------------------
(***************************************************************************)
(* Proofs about SuiteSpecs, for any surroundings, ConfigMap, counts,       *)
(* thresholds, attempts, polls and number of specs.                        *)
(***************************************************************************)
EXTENDS SuiteSpecs, TLAPS

-----------------------------------------------------------------------------
(***************************************************************************)
(* Types, a group of variables at a time.                                  *)
(***************************************************************************)
Calls ==
  {"over", "cluster", "findMC", "credentials", "topology", "name", "hostedClusters", "verify",
   "configMap", "token", "query"}

OutsideOK ==
  /\ settings \in Suites
  /\ configMap \in [version : Sources \ {Unset}, has : SUBSET Access]
  /\ backend \in Backends
SharedOK == suite \in {"starting", "running", "broken"} /\ cfg \in Configs /\ partial \subseteq Sources
RunOK ==
  /\ spec \in Specs \cup {"none"} /\ at \in Calls
  /\ line \in 1 .. 5 /\ attempt \in 0 .. MaxAttempts - 1 /\ polls \in 0 .. MaxPolls - 1
  /\ started \in 0 .. MaxSpecs
  /\ verdict \in {"none", "passed", "failed", "skipped"}
MemoryOK ==
  /\ rhobs \in Configs /\ hasData \in {"yes", "no", "error"}
  /\ seen \in [Readings -> Counts \cup {Absent}]
  /\ diagnosis \in {"none", "notYet", "notEvaluating", "queryFailed"}
HistoryOK ==
  /\ calm \in BOOLEAN /\ sawData \subseteq BOOLEAN
  /\ before \in [Readings -> Counts \cup {Absent}]

LEMMA Groups == TypeOK <=> OutsideOK /\ SharedOK /\ RunOK /\ MemoryOK /\ HistoryOK
BY DEF TypeOK, OutsideOK, SharedOK, RunOK, MemoryOK, HistoryOK, Calls

LEMMA GroupsNext == OutsideOK' /\ SharedOK' /\ RunOK' /\ MemoryOK' /\ HistoryOK' => TypeOK'
BY DEF TypeOK, OutsideOK, SharedOK, RunOK, MemoryOK, HistoryOK, Calls

LEMMA SourceFacts ==
  /\ Unset \in Sources /\ Loaded \in Sources \ {Unset} /\ Sources \subseteq Nat
  /\ \A n \in 1 .. MaxVersion : n \in Sources \ {Unset}
BY SuiteAssumption DEF SuiteAssumption, Sources, Unset, Loaded

LEMMA LoadTypes ==
  ASSUME NEW s \in Suites
  PROVE  NoConfig \in Configs /\ Load(s) \in Configs
<1>1. NoConfig \in Configs
  BY SourceFacts DEF NoConfig, Configs
<1> DEFINE access == [f \in Access |-> IF Given(s, f) THEN Loaded ELSE Unset]
<1>2. access \in [Access -> Sources]
  BY SourceFacts
<1>3. access["probe"] \in Sources
  BY <1>2 DEF Access
<1>4. Derive(IF Given(s, "metrics") THEN Explicit ELSE Unset, access["probe"]) \in Sources \cup {Explicit}
  BY <1>3 DEF Derive
<1>5. ClusterTopology(s) \in Spellings \cup {""}
  <2>1. s.spelling \in Spellings
    BY SuiteAssumption DEF SuiteAssumption, Surroundings
  <2>2. Lower[s.spelling] \in Spellings
    BY <2>1 DEF Lower, Spellings
  <2> QED BY <2>1, <2>2 DEF ClusterTopology
<1>6. Given(s, "cluster") \in BOOLEAN /\ Given(s, "mc") \in BOOLEAN
  BY DEF Given
<1> HIDE DEF access
<1>7. [access |-> access,
       metrics |-> Derive(IF Given(s, "metrics") THEN Explicit ELSE Unset, access["probe"]),
       topology |-> ClusterTopology(s), cluster |-> Given(s, "cluster"), mc |-> Given(s, "mc")]
      \in Configs
  BY <1>2, <1>4, <1>5, <1>6 DEF Configs
<1> QED BY <1>1, <1>7 DEF Load, access

LEMMA FromMCTypes ==
  ASSUME OutsideOK, SharedOK
  PROVE  FromMC \in Configs
<1> DEFINE access == [f \in Access |-> FromConfigMap(f)]
<1>1. access \in [Access -> Sources]
  BY SourceFacts DEF OutsideOK, FromConfigMap
<1>2. access["probe"] \in Sources
  BY <1>1 DEF Access
<1>3. cfg \in Configs
  BY DEF SharedOK
<1>4. Derive(cfg.metrics, access["probe"]) \in Sources \cup {Explicit}
  BY <1>2, <1>3 DEF Derive, Configs
<1> HIDE DEF access
<1>5. [cfg EXCEPT !.access = access, !.metrics = Derive(cfg.metrics, access["probe"])] \in Configs
  BY <1>1, <1>3, <1>4 DEF Configs
<1> QED BY <1>5 DEF FromMC, access

LEMMA SharesTypes ==
  ASSUME SharedOK, NEW c \in Configs, Shares(c)
  PROVE  cfg' \in Configs /\ partial' \subseteq Sources
<1>1. \A f \in Access : c.access[f] \in Sources
  BY DEF Configs
<1> QED BY <1>1 DEF Shares, SharedOK

(***************************************************************************)
(* What a group needs to stay in its type.                                 *)
(***************************************************************************)
LEMMA Kept ==
  /\ OutsideOK /\ UNCHANGED outside => OutsideOK'
  /\ SharedOK /\ UNCHANGED shared => SharedOK'
  /\ RunOK /\ UNCHANGED run => RunOK'
  /\ MemoryOK /\ UNCHANGED memory => MemoryOK'
  /\ HistoryOK /\ UNCHANGED history => HistoryOK'
<1>1. OutsideOK /\ UNCHANGED outside => OutsideOK'
  BY DEF OutsideOK, outside
<1>2. SharedOK /\ UNCHANGED shared => SharedOK'
  BY DEF SharedOK, shared
<1>3. RunOK /\ UNCHANGED run => RunOK'
  BY DEF RunOK, run
<1>4. MemoryOK /\ UNCHANGED memory => MemoryOK'
  BY DEF MemoryOK, memory
<1>5. HistoryOK /\ UNCHANGED history => HistoryOK'
  BY DEF HistoryOK, history
<1> QED BY <1>1, <1>2, <1>3, <1>4, <1>5

LEMMA GotoKeeps == ASSUME RunOK, NEW call \in Calls, Goto(call) PROVE RunOK'
BY DEF RunOK, Goto

LEMMA EndsKeeps ==
  ASSUME RunOK, NEW v \in {"passed", "failed", "skipped"}, Ends(v) PROVE RunOK'
BY DEF RunOK, Ends, Calls

LEMMA FirstCalls == \A query, c : FirstCall(query, c) \in {"token", "query"}
BY DEF FirstCall

LEMMA RequestKeeps ==
  ASSUME RunOK, NEW n \in 1 .. 5, Request(n), polls' \in 0 .. MaxPolls - 1 PROVE RunOK'
<1>1. at' \in Calls
  BY FirstCalls DEF Request, Calls
<1>2. attempt' \in 0 .. MaxAttempts - 1
  BY SuiteAssumption DEF SuiteAssumption, Request
<1> QED BY <1>1, <1>2 DEF RunOK, Request

LEMMA BodyKeeps ==
  ASSUME RunOK, MemoryOK, NEW c \in Configs, Body(c) PROVE RunOK' /\ MemoryOK'
<1>1. at' \in Calls
  BY FirstCalls DEF Body, Calls
<1>2. RunOK'
  BY <1>1 DEF RunOK, Body
<1> QED BY <1>2 DEF MemoryOK, Body

LEMMA InitFailsKeeps == ASSUME RunOK, InitFails PROVE RunOK'
BY EndsKeeps DEF InitFails

LEMMA InitDoneKeeps == ASSUME RunOK, NEW b, InitDone(b) PROVE RunOK'
BY EndsKeeps, GotoKeeps DEF InitDone, Calls

LEMMA FirstMCType == FirstMC \in Calls
BY DEF FirstMC, Calls

LEMMA TryAgainKeeps == ASSUME RunOK, TryAgain PROVE RunOK'
<1>1. CASE Ends("failed")
  BY <1>1, EndsKeeps
<1>2. CASE polls + 1 < MaxPolls /\ polls' = polls + 1 /\ Request(1)
  <2>1. polls' \in 0 .. MaxPolls - 1
    BY <1>2, SuiteAssumption DEF RunOK, SuiteAssumption
  <2> QED BY <1>2, <2>1, RequestKeeps
<1> QED BY <1>1, <1>2 DEF TryAgain

LEMMA NextQueryKeeps == ASSUME RunOK, line < 5, NextQuery PROVE RunOK'
<1>1. line + 1 \in 1 .. 5
  BY DEF RunOK
<1>2. polls' \in 0 .. MaxPolls - 1
  BY DEF RunOK, NextQuery
<1> QED BY <1>1, <1>2, RequestKeeps DEF NextQuery

LEMMA RepliesKeep ==
  ASSUME TypeOK, NEW r \in {"yes", "no", "error"}, Replies(r)
  PROVE  RunOK' /\ MemoryOK' /\ sawData' \subseteq BOOLEAN
<1>0. OutsideOK /\ RunOK /\ MemoryOK /\ HistoryOK
  BY Groups
<1>1. CASE ProbeReplies(r)
  <2>1. RunOK'
    BY <1>0, <1>1, EndsKeeps, NextQueryKeeps DEF ProbeReplies
  <2> QED BY <1>0, <1>1, <2>1, Kept DEF ProbeReplies, HistoryOK
<1>2. CASE LabelsReply(r)
  <2>1. RunOK'
    BY <1>0, <1>2, EndsKeeps DEF LabelsReply
  <2> QED BY <1>0, <1>2, <2>1, Kept DEF LabelsReply, HistoryOK
<1>3. CASE MetricsReply(r)
  <2>1. RunOK'
    BY <1>0, <1>3, EndsKeeps, TryAgainKeeps DEF MetricsReply
  <2> QED BY <1>0, <1>3, <2>1, Kept DEF MetricsReply, HistoryOK
<1>4. CASE RulesReply(r)
  <2>1. RunOK'
    BY <1>0, <1>4, EndsKeeps, TryAgainKeeps, NextQueryKeeps DEF RulesReply
  <2>2. hasData' \in {"yes", "no", "error"}
    BY <1>0, <1>4 DEF RulesReply, MemoryOK
  <2>3. diagnosis' \in {"none", "notYet", "notEvaluating", "queryFailed"}
    BY <1>0, <1>4 DEF RulesReply, MemoryOK, Diagnose
  <2>4. rhobs' \in Configs /\ seen' \in [Readings -> Counts \cup {Absent}]
    BY <1>0, <1>4 DEF RulesReply, MemoryOK
  <2>5. backend.data \in BOOLEAN
    BY <1>0 DEF OutsideOK, Backends
  <2>6. sawData' \subseteq BOOLEAN
    BY <1>0, <1>4, <2>5 DEF RulesReply, HistoryOK
  <2> QED BY <2>1, <2>2, <2>3, <2>4, <2>6 DEF MemoryOK
<1>5. CASE GateReplies(r)
  <2>1. RunOK'
    BY <1>0, <1>5, EndsKeeps, NextQueryKeeps DEF GateReplies
  <2>2. seen \in [Readings -> Counts \cup {Absent}] /\ backend.tsdb \in [Readings -> Counts \cup {Absent}]
    BY <1>0 DEF MemoryOK, OutsideOK, Backends
  <2>3. [seen EXCEPT ![Query] = backend.tsdb[Query]] \in [Readings -> Counts \cup {Absent}]
    BY <2>2
  <2>4. seen' \in [Readings -> Counts \cup {Absent}]
    BY <1>5, <2>2, <2>3 DEF GateReplies
  <2>5. MemoryOK'
    BY <1>0, <1>5, <2>4 DEF MemoryOK, GateReplies
  <2> QED BY <1>0, <1>5, <2>1, <2>5 DEF GateReplies, HistoryOK
<1> QED BY <1>1, <1>2, <1>3, <1>4, <1>5 DEF Replies

LEMMA GetTokenTypes == ASSUME TypeOK, GetToken PROVE TypeOK'
<1>0. OutsideOK /\ SharedOK /\ RunOK /\ MemoryOK /\ HistoryOK
  BY Groups
<1>1. OutsideOK' /\ SharedOK'
  BY <1>0, Kept DEF GetToken
<1>2. calm' \in BOOLEAN
  BY <1>0 DEF GetToken, HistoryOK, Answered, Fault
<1>3. RunOK' /\ MemoryOK' /\ sawData' \subseteq BOOLEAN
  <2>1. CASE Goto("query") /\ UNCHANGED <<memory, sawData>>
    BY <1>0, <2>1, GotoKeeps, Kept DEF Calls, HistoryOK
  <2>2. CASE ~NoMoreAttempts /\ Retry /\ UNCHANGED <<memory, sawData>>
    <3>1. attempt' \in 0 .. MaxAttempts - 1
      BY <1>0, <2>2, SuiteAssumption DEF NoMoreAttempts, Retry, RunOK, SuiteAssumption
    <3>2. RunOK'
      BY <1>0, <2>2, <3>1 DEF RunOK, Retry
    <3> QED BY <1>0, <2>2, <3>2, Kept DEF HistoryOK
  <2>3. CASE Replies("error")
    BY <2>3, RepliesKeep
  <2> QED BY <2>1, <2>2, <2>3 DEF GetToken
<1>4. HistoryOK'
  BY <1>0, <1>2, <1>3 DEF HistoryOK, GetToken
<1> QED BY <1>1, <1>3, <1>4, GroupsNext

LEMMA SendQueryTypes == ASSUME TypeOK, SendQuery PROVE TypeOK'
<1>0. OutsideOK /\ SharedOK /\ RunOK /\ MemoryOK /\ HistoryOK
  BY Groups
<1>1. OutsideOK' /\ SharedOK'
  BY <1>0, Kept DEF SendQuery
<1>2. calm' \in BOOLEAN
  BY <1>0 DEF SendQuery, HistoryOK, Answered, Fault
<1>3. PICK r \in {"yes", "no", "error"} : Replies(r)
  BY DEF SendQuery
<1>4. RunOK' /\ MemoryOK' /\ sawData' \subseteq BOOLEAN
  BY <1>3, RepliesKeep
<1>5. HistoryOK'
  BY <1>0, <1>2, <1>4 DEF HistoryOK, SendQuery
<1> QED BY <1>1, <1>4, <1>5, GroupsNext

LEMMA LoadRHOBSTypes == ASSUME TypeOK, LoadRHOBSCredentialsFromMC PROVE TypeOK'
<1>0. OutsideOK /\ SharedOK /\ RunOK /\ MemoryOK /\ HistoryOK
  BY Groups
<1>1. OutsideOK' /\ HistoryOK'
  BY <1>0, Kept DEF LoadRHOBSCredentialsFromMC, HistoryOK, Answered, Fault
<1>2. cfg \in Configs /\ FromMC \in Configs
  BY <1>0, FromMCTypes DEF SharedOK
<1>3. CASE Body(cfg) /\ UNCHANGED shared
  <2>1. RunOK' /\ MemoryOK'
    BY <1>0, <1>2, <1>3, BodyKeeps
  <2> QED BY <1>0, <1>1, <1>3, <2>1, Kept, GroupsNext
<1>4. CASE Ends("skipped") /\ UNCHANGED <<shared, memory>>
  <2>1. RunOK'
    BY <1>0, <1>4, EndsKeeps
  <2> QED BY <1>0, <1>1, <1>4, <2>1, Kept, GroupsNext
<1>5. CASE /\ Shares(FromMC) /\ UNCHANGED suite
           /\ IF HasRHOBSAccess(FromMC) THEN Body(FromMC) ELSE Ends("skipped") /\ UNCHANGED memory
  <2>1. SharedOK'
    BY <1>0, <1>2, <1>5, SharesTypes DEF SharedOK
  <2>2. RunOK' /\ MemoryOK'
    BY <1>0, <1>2, <1>5, BodyKeeps, EndsKeeps, Kept
  <2> QED BY <1>1, <2>1, <2>2, GroupsNext
<1> QED BY <1>3, <1>4, <1>5 DEF LoadRHOBSCredentialsFromMC

\* The calls of BeforeEach and of InitMCClients leave the shared state and the memory alone.
LEMMA SetupTypes ==
  ASSUME TypeOK,
         GetCluster \/ FindMC \/ Credentials \/ DetectTopology \/ ResolveName
           \/ ResolveHCPNamespaces \/ VerifyNamespace
  PROVE  TypeOK'
<1>0. OutsideOK /\ SharedOK /\ RunOK /\ MemoryOK /\ HistoryOK
  BY Groups
<1>1. OutsideOK' /\ SharedOK' /\ HistoryOK'
  BY <1>0, Kept DEF GetCluster, FindMC, Credentials, DetectTopology, ResolveName,
     ResolveHCPNamespaces, VerifyNamespace, HistoryOK, Answered, Fault
<1>2. RunOK' /\ MemoryOK'
  <2>1. CASE GetCluster
    <3>1. CASE Body(cfg)
      BY <1>0, <3>1, BodyKeeps DEF SharedOK
    <3>2. CASE Goto(FirstMC) /\ UNCHANGED memory
      BY <1>0, <3>2, GotoKeeps, FirstMCType, Kept
    <3>3. CASE Ends("failed") /\ UNCHANGED memory
      BY <1>0, <3>3, EndsKeeps, Kept
    <3> QED BY <2>1, <3>1, <3>2, <3>3 DEF GetCluster
  <2>2. CASE FindMC
    BY <1>0, <2>2, GotoKeeps, InitFailsKeeps, Kept DEF FindMC, Calls
  <2>3. CASE Credentials
    BY <1>0, <2>3, GotoKeeps, InitFailsKeeps, Kept DEF Credentials, Calls
  <2>4. CASE DetectTopology
    BY <1>0, <2>4, GotoKeeps, InitDoneKeeps, Kept DEF DetectTopology, Calls
  <2>5. CASE ResolveName
    BY <1>0, <2>5, GotoKeeps, Kept DEF ResolveName, Calls
  <2>6. CASE ResolveHCPNamespaces
    BY <1>0, <2>6, InitDoneKeeps, Kept DEF ResolveHCPNamespaces
  <2>7. CASE VerifyNamespace
    BY <1>0, <2>7, EndsKeeps, Kept DEF VerifyNamespace
  <2> QED BY <2>1, <2>2, <2>3, <2>4, <2>5, <2>6, <2>7
<1> QED BY <1>0, <1>1, <1>2, GroupsNext

LEMMA FoundTypes == ASSUME NEW s, NEW b \in FoundBy(s) PROVE b \in Backends
<1>1. NoReadings \in [Readings -> Counts \cup {Absent}]
  BY DEF NoReadings
<1>2. Tsdbs \subseteq [Readings -> Counts \cup {Absent}]
  BY SuiteAssumption DEF SuiteAssumption
<1>3. /\ b.probes \in 0 .. 2 /\ b.label \in {"public", "private"}
      /\ b.data \in BOOLEAN /\ b.rules \in SUBSET Rules
  <2>1. b.probes \in 0 .. 2
    BY DEF FoundBy
  <2>2. b.label \in {"public", "private"} /\ b.data \in BOOLEAN
    BY DEF FoundBy
  <2>3. b.rules \in IF s = "rules" THEN SUBSET Rules ELSE {{}}
    BY DEF FoundBy
  <2>4. b.rules \in SUBSET Rules
    BY <2>3
  <2> QED BY <2>1, <2>2, <2>4
<1>4. b.tsdb \in [Readings -> Counts \cup {Absent}]
  BY <1>1, <1>2 DEF FoundBy
<1>5. b = [probes |-> b.probes, label |-> b.label, data |-> b.data, rules |-> b.rules, tsdb |-> b.tsdb]
  BY DEF FoundBy
<1> QED BY <1>3, <1>4, <1>5 DEF Backends

LEMMA FineIsBoolean == ASSUME NEW s, NEW b \in Backends PROVE FineFor(s, b) \in BOOLEAN
<1>1. CASE s = "metrics"
  BY <1>1 DEF FineFor, Backends
<1>2. CASE s = "gate"
  BY <1>2 DEF FineFor
<1>3. CASE s \in {"probe", "labels"}
  BY <1>3 DEF FineFor
<1>4. CASE s = "rules"
  BY <1>4 DEF FineFor
<1>5. CASE s \notin {"metrics", "gate", "probe", "labels", "rules"}
  BY <1>5 DEF FineFor
<1> QED BY <1>1, <1>2, <1>3, <1>4, <1>5

LEMMA StartTypes == ASSUME TypeOK, NEW s \in Specs, Start(s) PROVE TypeOK'
<1>0. OutsideOK /\ SharedOK /\ RunOK /\ MemoryOK /\ HistoryOK
  BY Groups
<1>1. PICK b \in FoundBy(s) :
        backend' = b /\ calm' = FineFor(s, b) /\ sawData' = {b.data} /\ before' = b.tsdb
  BY DEF Start
<1>2. b \in Backends
  BY FoundTypes
<1>3. OutsideOK' /\ SharedOK'
  BY <1>0, <1>1, <1>2, Kept DEF Start, OutsideOK
<1>4. RunOK'
  <2>1. FirstOf(s) \in Calls
    BY FirstCalls, FirstMCType DEF FirstOf, Calls
  <2>2. at' \in Calls /\ verdict' \in {"none", "passed", "failed", "skipped"}
    BY <2>1 DEF Start, Calls
  <2>3. line' \in 1 .. 5 /\ attempt' \in 0 .. MaxAttempts - 1 /\ polls' \in 0 .. MaxPolls - 1
    BY SuiteAssumption DEF Start, SuiteAssumption
  <2>4. started' \in 0 .. MaxSpecs
    BY <1>0, SuiteAssumption DEF Start, RunOK, SuiteAssumption
  <2>5. spec' \in Specs
    BY DEF Start
  <2> QED BY <2>2, <2>3, <2>4, <2>5 DEF RunOK
<1>5. MemoryOK'
  <2>1. rhobs' \in Configs
    BY <1>0, SourceFacts DEF Start, SharedOK, NoConfig, Configs
  <2>2. NoReadings \in [Readings -> Counts \cup {Absent}]
    BY DEF NoReadings
  <2> QED BY <2>1, <2>2 DEF Start, MemoryOK
<1>6. HistoryOK'
  <2>1. FineFor(s, b) \in BOOLEAN
    BY <1>2, FineIsBoolean
  <2>2. b.data \in BOOLEAN /\ b.tsdb \in [Readings -> Counts \cup {Absent}]
    BY <1>2 DEF Backends
  <2> QED BY <1>1, <2>1, <2>2 DEF HistoryOK
<1> QED BY <1>3, <1>4, <1>5, <1>6, GroupsNext

LEMMA BeforeSuiteTypes == ASSUME TypeOK, BeforeSuite PROVE TypeOK'
<1>0. OutsideOK /\ SharedOK /\ RunOK /\ MemoryOK /\ HistoryOK
  BY Groups
<1>1. OutsideOK' /\ RunOK' /\ MemoryOK' /\ HistoryOK'
  BY <1>0, Kept DEF BeforeSuite
<1>2. SharedOK'
  <2>1. CASE LoadFails(settings)
    BY <1>0, <2>1 DEF BeforeSuite, SharedOK
  <2>2. CASE ~LoadFails(settings)
    <3>1. Load(settings) \in Configs
      BY <1>0, LoadTypes DEF OutsideOK
    <3>2. Shares(Load(settings)) /\ suite' = "running"
      BY <2>2 DEF BeforeSuite
    <3> QED BY <1>0, <3>1, <3>2, SharesTypes DEF SharedOK
  <2> QED BY <2>1, <2>2
<1> QED BY <1>1, <1>2, GroupsNext

LEMMA PublishTypes == ASSUME TypeOK, Publish PROVE TypeOK'
<1>0. OutsideOK /\ SharedOK /\ RunOK /\ MemoryOK /\ HistoryOK
  BY Groups
<1>1. SharedOK' /\ RunOK' /\ MemoryOK' /\ HistoryOK'
  BY <1>0, Kept DEF Publish
<1>2. PICK keys \in Offers : configMap' = [version |-> configMap.version + 1, has |-> keys]
  BY DEF Publish
<1>3. keys \in SUBSET Access
  BY SuiteAssumption DEF SuiteAssumption
<1>4. configMap.version + 1 \in Sources \ {Unset}
  BY <1>0, SuiteAssumption DEF Publish, OutsideOK, Sources, Unset, Loaded, SuiteAssumption
<1>5. OutsideOK'
  BY <1>0, <1>2, <1>3, <1>4 DEF Publish, OutsideOK
<1> QED BY <1>1, <1>5, GroupsNext

LEMMA BackendMovesTypes == ASSUME TypeOK, BackendMoves PROVE TypeOK'
<1>0. OutsideOK /\ SharedOK /\ RunOK /\ MemoryOK /\ HistoryOK
  BY Groups
<1>1. SharedOK' /\ RunOK' /\ MemoryOK'
  BY <1>0, Kept DEF BackendMoves
<1>2. backend' \in Backends
  <2>0. backend \in Backends
    BY <1>0 DEF OutsideOK
  <2>1. CASE ProbesChange
    BY <2>0, <2>1 DEF ProbesChange, Backends
  <2>2. CASE DataChanges
    BY <2>0, <2>2 DEF DataChanges, Backends
  <2>3. CASE RuleEvaluates
    BY <2>0, <2>3 DEF RuleEvaluates, Backends
  <2>4. CASE Grows
    <3>1. PICK r \in Readings, n \in Counts : backend' = [backend EXCEPT !.tsdb[r] = n]
      BY <2>4 DEF Grows, Readings
    <3> QED BY <2>0, <3>1 DEF Backends
  <2> QED BY <2>1, <2>2, <2>3, <2>4 DEF BackendMoves
<1>3. OutsideOK'
  BY <1>0, <1>2 DEF BackendMoves, OutsideOK
<1>4. HistoryOK'
  <2>1. backend'.data \in BOOLEAN
    BY <1>2 DEF Backends
  <2>2. FineFor(spec, backend') \in BOOLEAN
    BY <1>2, FineIsBoolean
  <2>3. sawData' \subseteq BOOLEAN
    BY <1>0, <2>1 DEF BackendMoves, HistoryOK
  <2>4. calm' \in BOOLEAN /\ before' = before
    BY <1>0, <2>2 DEF BackendMoves, HistoryOK
  <2> QED BY <1>0, <2>3, <2>4 DEF HistoryOK
<1> QED BY <1>1, <1>3, <1>4, GroupsNext

LEMMA InitTypes == ASSUME Init PROVE TypeOK
<1>1. OutsideOK
  <2>1. Quiet \in Backends
    BY DEF Quiet, Backends
  <2>2. configMap \in [version : Sources \ {Unset}, has : SUBSET Access]
    BY SourceFacts DEF Init
  <2> QED BY <2>1, <2>2 DEF Init, OutsideOK
<1>2. SharedOK
  BY LoadTypes, SourceFacts DEF Init, SharedOK, NoConfig, Configs
<1>3. RunOK
  BY SuiteAssumption DEF Init, RunOK, Calls, SuiteAssumption
<1>4. MemoryOK
  BY SourceFacts DEF Init, MemoryOK, NoConfig, Configs, NoReadings
<1>5. HistoryOK
  BY DEF Init, HistoryOK, NoReadings
<1> QED BY <1>1, <1>2, <1>3, <1>4, <1>5, Groups

LEMMA NextTypes == ASSUME TypeOK, [Next]_vars PROVE TypeOK'
<1>1. CASE UNCHANGED vars
  BY <1>1, Groups, GroupsNext, Kept DEF vars
<1>2. CASE Next
  BY <1>2, BeforeSuiteTypes, StartTypes, SetupTypes, LoadRHOBSTypes, GetTokenTypes, SendQueryTypes,
     PublishTypes, BackendMovesTypes DEF Next, SpecSteps, Environment
<1> QED BY <1>1, <1>2

\* Every variable stays in its type, and the counters within what the code allows, for any
\* surroundings, ConfigMap and counts (rhobs.go:54-108, context.go:327-366).
THEOREM TypesHold == Spec => []TypeOK
<1>1. Init => TypeOK
  BY InitTypes
<1>2. TypeOK /\ [Next]_vars => TypeOK'
  BY NextTypes
<1> QED BY <1>1, <1>2, PTL DEF Spec

-----------------------------------------------------------------------------
(***************************************************************************)
(* The shared configuration.  Only two steps write it, and a body's copy   *)
(* is of what it is then.                                                  *)
(***************************************************************************)
Setup ==
  \/ GetCluster \/ FindMC \/ Credentials \/ DetectTopology \/ ResolveName
  \/ ResolveHCPNamespaces \/ VerifyNamespace

LEMMA RepliesFrame == ASSUME NEW r, Replies(r) PROVE rhobs' = rhobs
BY DEF Replies, ProbeReplies, LabelsReply, MetricsReply, RulesReply, GateReplies, memory

LEMMA SharedFrame ==
  ASSUME [Next]_vars
  PROVE  UNCHANGED shared \/ BeforeSuite \/ LoadRHOBSCredentialsFromMC
<1>1. CASE UNCHANGED vars
  BY <1>1 DEF vars
<1>2. ASSUME NEW s \in Specs, Start(s) PROVE UNCHANGED shared
  BY <1>2 DEF Start
<1>3. CASE Setup
  BY <1>3 DEF Setup, GetCluster, FindMC, Credentials, DetectTopology, ResolveName,
     ResolveHCPNamespaces, VerifyNamespace
<1>4. CASE GetToken \/ SendQuery
  BY <1>4 DEF GetToken, SendQuery
<1>5. CASE Environment
  BY <1>5 DEF Environment, Publish, BackendMoves
<1> QED BY <1>1, <1>2, <1>3, <1>4, <1>5 DEF Next, SpecSteps, Setup

LEMMA CopyFrame ==
  ASSUME [Next]_vars
  PROVE  rhobs' \in {rhobs, NoConfig, cfg, cfg'}
<1>1. CASE UNCHANGED vars
  BY <1>1 DEF vars, memory
<1>2. ASSUME NEW s \in Specs, Start(s) PROVE rhobs' \in {cfg, NoConfig}
  BY <1>2 DEF Start
<1>3. CASE Setup
  BY <1>3 DEF Setup, GetCluster, FindMC, Credentials, DetectTopology, ResolveName,
     ResolveHCPNamespaces, VerifyNamespace, memory, Body
<1>4. CASE LoadRHOBSCredentialsFromMC
  <2>1. CASE Body(cfg)
    BY <2>1 DEF Body
  <2>2. CASE UNCHANGED memory
    BY <2>2 DEF memory
  <2>3. CASE Shares(FromMC) /\ Body(FromMC)
    BY <2>3 DEF Shares, Body
  <2> QED BY <1>4, <2>1, <2>2, <2>3 DEF LoadRHOBSCredentialsFromMC
<1>5. CASE GetToken
  BY <1>5, RepliesFrame DEF GetToken, memory
<1>6. CASE SendQuery
  BY <1>6, RepliesFrame DEF SendQuery
<1>7. CASE BeforeSuite \/ Environment
  BY <1>7 DEF BeforeSuite, Environment, Publish, BackendMoves, memory
<1> QED BY <1>1, <1>2, <1>3, <1>4, <1>5, <1>6, <1>7 DEF Next, SpecSteps, Setup

\* The second write is complete, or leaves the spec that made it skipped.
LEMMA LoadWrites ==
  ASSUME LoadRHOBSCredentialsFromMC
  PROVE  UNCHANGED shared \/ (~HasRHOBSAccess(cfg) /\ Shares(FromMC) /\ UNCHANGED suite)
BY DEF LoadRHOBSCredentialsFromMC

\* A spec runs only in a process whose configuration is loaded; until then it is empty.
StartInv ==
  /\ suite = "starting" => cfg = NoConfig
  /\ at # "over" => suite = "running"

LEMMA StartInvKept == ASSUME StartInv, [Next]_vars PROVE StartInv'
<1>1. CASE UNCHANGED vars
  BY <1>1 DEF vars, StartInv, shared, run
<1>2. CASE BeforeSuite
  BY <1>2 DEF BeforeSuite, StartInv, run
<1>3. ASSUME NEW s \in Specs, Start(s) PROVE StartInv'
  BY <1>3 DEF Start, StartInv, shared
<1>4. CASE SpecSteps
  <2>1. at # "over"
    BY <1>4 DEF SpecSteps, GetCluster, FindMC, Credentials, DetectTopology, ResolveName,
       ResolveHCPNamespaces, VerifyNamespace, LoadRHOBSCredentialsFromMC, GetToken, SendQuery
  <2>2. suite' = suite
    <3>1. CASE UNCHANGED shared
      BY <3>1 DEF shared
    <3>2. CASE LoadRHOBSCredentialsFromMC
      BY <3>2, LoadWrites DEF shared
    <3>3. CASE Setup
      BY <3>3 DEF Setup, GetCluster, FindMC, Credentials, DetectTopology, ResolveName,
         ResolveHCPNamespaces, VerifyNamespace, shared
    <3>4. CASE GetToken \/ SendQuery
      BY <3>4 DEF GetToken, SendQuery, shared
    <3> QED BY <1>4, <3>1, <3>2, <3>3, <3>4 DEF SpecSteps, Setup
  <2> QED BY <2>1, <2>2 DEF StartInv
<1>5. CASE Environment
  BY <1>5 DEF Environment, Publish, BackendMoves, StartInv, shared, run
<1> QED BY <1>1, <1>2, <1>3, <1>4, <1>5 DEF Next

(***************************************************************************)
(* OneSource.                                                              *)
(***************************************************************************)
Alike(c) ==
  \A f, g \in Access : Unset \in {c.access[f], c.access[g]} \/ c.access[f] = c.access[g]

LEMMA LoadsAlike ==
  /\ Alike(NoConfig)
  /\ \A s : Alike(Load(s))
  /\ cfg \in Configs => Alike(FromMC)
<1>1. Alike(NoConfig)
  BY DEF Alike, NoConfig
<1>2. ASSUME NEW s PROVE Alike(Load(s))
  BY DEF Alike, Load
<1>3. ASSUME cfg \in Configs PROVE Alike(FromMC)
  <2>1. \A f \in Access : FromMC.access[f] \in {Unset, configMap.version}
    BY <1>3 DEF FromMC, FromConfigMap, Configs
  <2> QED BY <2>1 DEF Alike
<1> QED BY <1>1, <1>2, <1>3

LEMMA OneSourceKept ==
  ASSUME TypeOK, OneSource, [Next]_vars
  PROVE  OneSource'
<1>0. cfg \in Configs /\ Alike(cfg) /\ Alike(rhobs)
  BY DEF TypeOK, OneSource, Alike
<1>1. Alike(cfg')
  <2>1. CASE BeforeSuite
    BY <1>0, <2>1, LoadsAlike DEF BeforeSuite, Shares
  <2>2. CASE LoadRHOBSCredentialsFromMC
    BY <1>0, <2>2, LoadWrites, LoadsAlike DEF Shares, shared
  <2>3. CASE UNCHANGED shared
    BY <1>0, <2>3 DEF shared
  <2> QED BY <2>1, <2>2, <2>3, SharedFrame
<1>2. Alike(rhobs')
  BY <1>0, <1>1, CopyFrame, LoadsAlike
<1> QED BY <1>1, <1>2 DEF OneSource, Alike

(***************************************************************************)
(* MetricsApartOnly: what the configuration holds of incomplete            *)
(* credentials is in partial by the time it is overwritten.                *)
(***************************************************************************)
PartialInv ==
  ~Complete(cfg.access) => {cfg.access[f] : f \in Access} \ {Unset} \subseteq partial

LEMMA PartialKept == ASSUME PartialInv, [Next]_vars PROVE PartialInv'
<1>1. ASSUME NEW c, Shares(c) PROVE PartialInv'
  BY <1>1 DEF Shares, PartialInv
<1>2. CASE BeforeSuite
  BY <1>1, <1>2 DEF BeforeSuite, PartialInv
<1>3. CASE UNCHANGED shared
  BY <1>3 DEF shared, PartialInv
<1>4. CASE LoadRHOBSCredentialsFromMC
  BY <1>1, <1>3, <1>4, LoadWrites
<1> QED BY <1>2, <1>3, <1>4, SharedFrame

LEMMA MetricsKept ==
  ASSUME TypeOK, PartialInv, MetricsApartOnly, [Next]_vars
  PROVE  MetricsApartOnly'
<1>1. CASE UNCHANGED shared
  BY <1>1 DEF shared, MetricsApartOnly
<1>2. CASE BeforeSuite
  <2>1. CASE LoadFails(settings)
    BY <1>2, <2>1 DEF BeforeSuite, MetricsApartOnly
  <2>2. CASE ~LoadFails(settings)
    <3>1. cfg' = Load(settings)
      BY <1>2, <2>2 DEF BeforeSuite, Shares
    <3>2. Load(settings).metrics \in {Explicit, Load(settings).access["probe"]}
      BY DEF Load, Derive
    <3> QED BY <3>1, <3>2 DEF MetricsApartOnly
  <2> QED BY <2>1, <2>2
<1>3. CASE ~HasRHOBSAccess(cfg) /\ Shares(FromMC)
  <2>1. cfg \in Configs
    BY DEF TypeOK
  <2>2. cfg' = FromMC /\ partial \subseteq partial'
    BY <1>3 DEF Shares
  <2>3. FromMC.metrics = Derive(cfg.metrics, FromMC.access["probe"])
    BY <2>1 DEF FromMC, Configs
  <2>4. CASE cfg.metrics = Unset
    BY <2>2, <2>3, <2>4 DEF Derive, MetricsApartOnly
  <2>5. CASE cfg.metrics # Unset
    <3>1. cfg'.metrics = cfg.metrics
      BY <2>2, <2>3, <2>5 DEF Derive
    <3>2. CASE cfg.metrics = Explicit
      BY <3>1, <3>2 DEF MetricsApartOnly
    <3>3. CASE cfg.metrics = cfg.access["probe"]
      <4>1. ~Complete(cfg.access)
        BY <1>3 DEF HasRHOBSAccess, Complete
      <4>2. cfg.metrics \in partial
        BY <2>5, <3>3, <4>1 DEF PartialInv, Access
      <4> QED BY <2>2, <3>1, <4>2 DEF MetricsApartOnly
    <3>4. CASE cfg.metrics \in partial
      BY <2>2, <3>1, <3>4 DEF MetricsApartOnly
    <3> QED BY <3>2, <3>3, <3>4 DEF MetricsApartOnly
  <2> QED BY <2>4, <2>5
<1> QED BY <1>1, <1>2, <1>3, SharedFrame, LoadWrites

ConfigInv == TypeOK /\ StartInv /\ OneSource /\ PartialInv /\ MetricsApartOnly

LEMMA ConfigInvHolds == Spec => []ConfigInv
<1>1. ASSUME Init PROVE ConfigInv
  <2>1. cfg = NoConfig /\ rhobs = NoConfig /\ at = "over" /\ partial = {}
    BY <1>1 DEF Init
  <2>2. StartInv
    BY <2>1 DEF StartInv
  <2>3. OneSource
    BY <2>1, LoadsAlike DEF OneSource, Alike
  <2>4. PartialInv /\ MetricsApartOnly
    BY <2>1 DEF PartialInv, MetricsApartOnly, NoConfig, Access
  <2> QED BY <1>1, <2>2, <2>3, <2>4, InitTypes DEF ConfigInv
<1>2. ASSUME ConfigInv, [Next]_vars PROVE ConfigInv'
  BY <1>2, NextTypes, StartInvKept, OneSourceKept, PartialKept, MetricsKept DEF ConfigInv
<1> QED BY <1>1, <1>2, PTL DEF Spec

\* The credentials in use come from one place: from what the process was started with or from
\* one version of the ConfigMap, for any number of specs and versions (context.go:327-366).
THEOREM CredentialsOfOneSource == Spec => []OneSource
<1>1. ConfigInv => OneSource
  BY DEF ConfigInv
<1> QED BY <1>1, ConfigInvHolds, PTL

\* Complete credentials are never replaced (context.go:328-331).
THEOREM CompleteCredentialsStay == Spec => CompleteStays
<1>1. ASSUME ConfigInv, [Next]_vars PROVE [Complete(cfg.access) => UNCHANGED cfg]_vars
  <2>1. CASE BeforeSuite
    <3>1. cfg = NoConfig
      BY <1>1, <2>1 DEF BeforeSuite, ConfigInv, StartInv
    <3>2. ~Complete(cfg.access)
      BY <3>1 DEF Complete, NoConfig, Access
    <3> QED BY <3>2
  <2>2. CASE LoadRHOBSCredentialsFromMC
    BY <2>2, LoadWrites DEF HasRHOBSAccess, Complete, shared
  <2>3. CASE UNCHANGED shared
    BY <2>3 DEF shared
  <2> QED BY <1>1, <2>1, <2>2, <2>3, SharedFrame
<1> QED BY <1>1, ConfigInvHolds, PTL DEF Spec, CompleteStays

\* A derived metrics URL belongs to the probe URL in use or to incomplete credentials taken
\* before, for any number of specs and versions (context.go:354-358).
THEOREM MetricsStayTogether == Spec => []MetricsApartOnly
<1>1. ConfigInv => MetricsApartOnly
  BY DEF ConfigInv
<1> QED BY <1>1, ConfigInvHolds, PTL

-----------------------------------------------------------------------------
(***************************************************************************)
(* The queries.  A step at "token" or "query" answers one with Replies(r), *)
(* or moves on without an answer.                                          *)
(***************************************************************************)
Honest(r) ==
  /\ r \in {"yes", "no", "error"}
  /\ r # "error" => r = IF Holds(Query) THEN "yes" ELSE "no"

Waits ==
  /\ Goto("query") \/ Retry
  /\ UNCHANGED <<memory, sawData, calm>>

LEMMA QuerySteps ==
  ASSUME GetToken \/ SendQuery
  PROVE  /\ at \in {"token", "query"} /\ UNCHANGED <<outside, shared, before>>
         /\ Waits \/ \E r : Honest(r) /\ Replies(r)
<1>1. CASE GetToken
  BY <1>1 DEF GetToken, Honest, Waits, Answered
<1>2. CASE SendQuery
  BY <1>2 DEF SendQuery, Honest
<1> QED BY <1>1, <1>2

\* The steps before the first query read nothing.
LEMMA SetupFrame ==
  ASSUME Setup \/ LoadRHOBSCredentialsFromMC
  PROVE  /\ at \notin {"over", "token", "query"}
         /\ UNCHANGED <<outside, spec, line, hasData, seen, diagnosis, sawData, before>>
         /\ verdict' # verdict => at' = "over"
<1>1. CASE Setup
  BY <1>1 DEF Setup, GetCluster, FindMC, Credentials, DetectTopology, ResolveName, ResolveHCPNamespaces,
     VerifyNamespace, Body, Goto, Ends, InitFails, InitDone, memory
<1>2. CASE LoadRHOBSCredentialsFromMC
  BY <1>2 DEF LoadRHOBSCredentialsFromMC, Body, Goto, Ends, memory
<1> QED BY <1>1, <1>2

(***************************************************************************)
(* DiagnosisGrounded.                                                      *)
(***************************************************************************)
DataInv ==
  /\ hasData = "no" => FALSE \in sawData
  /\ hasData = "yes" => TRUE \in sawData

DiagnosisInv == DataInv /\ DiagnosisGrounded

LEMMA DiagnosisReplies ==
  ASSUME TypeOK, DiagnosisInv, NEW r, Honest(r), Replies(r)
  PROVE  DiagnosisInv'
<1>1. CASE ~RulesReply(r)
  BY <1>1 DEF Replies, ProbeReplies, LabelsReply, MetricsReply, GateReplies, memory, DiagnosisInv,
     DataInv, DiagnosisGrounded
<1>2. CASE RulesReply(r) /\ line = 1
  <2>1. hasData' = r /\ diagnosis' = "none" /\ sawData' = {backend.data}
    BY <1>2 DEF RulesReply
  <2>2. Query = "data"
    BY <1>2 DEF RulesReply, Query, Script
  <2>3. Holds(Query) <=> backend.data
    BY <2>2 DEF Holds, Rules
  <2>4. backend.data \in BOOLEAN
    BY DEF TypeOK, Backends
  <2>5. (r = "yes" => backend.data) /\ (r = "no" => ~backend.data)
    BY <2>3 DEF Honest
  <2>6. DataInv'
    BY <2>1, <2>4, <2>5 DEF DataInv
  <2> QED BY <2>1, <2>6 DEF DiagnosisInv, DiagnosisGrounded
<1>3. CASE RulesReply(r) /\ line # 1
  <2>1. hasData' = hasData /\ sawData' = sawData
    BY <1>3 DEF RulesReply
  <2>2. diagnosis' = diagnosis \/ diagnosis' = Diagnose(r)
    BY <1>3 DEF RulesReply
  <2>3. hasData \in {"yes", "no", "error"}
    BY DEF TypeOK
  <2> QED BY <2>1, <2>2, <2>3 DEF DiagnosisInv, DataInv, DiagnosisGrounded, Diagnose
<1> QED BY <1>1, <1>2, <1>3

LEMMA DiagnosisKept ==
  ASSUME TypeOK, DiagnosisInv, [Next]_vars
  PROVE  DiagnosisInv'
<1> USE DEF DiagnosisInv, DataInv, DiagnosisGrounded
<1>1. CASE UNCHANGED vars
  BY <1>1 DEF vars, memory, history
<1>2. CASE BeforeSuite
  BY <1>2 DEF BeforeSuite, memory, history
<1>3. ASSUME NEW s \in Specs, Start(s) PROVE DiagnosisInv'
  BY <1>3 DEF Start
<1>4. CASE Setup \/ LoadRHOBSCredentialsFromMC
  BY <1>4, SetupFrame
<1>5. CASE GetToken \/ SendQuery
  <2>1. CASE Waits
    BY <2>1 DEF Waits, memory
  <2> QED BY <1>5, <2>1, QuerySteps, DiagnosisReplies
<1>6. CASE Publish
  BY <1>6 DEF Publish, memory, history
<1>7. CASE BackendMoves
  BY <1>7 DEF BackendMoves, memory
<1> QED BY <1>1, <1>2, <1>3, <1>4, <1>5, <1>6, <1>7 DEF Next, SpecSteps, Setup, Environment

\* What VerifyRecordingRules blames was there since it asked, whatever comes and goes while
\* it waits (rhobs.go:483-487, 508-511).
THEOREM DiagnosisHolds == Spec => []DiagnosisGrounded
<1>1. Init => DiagnosisInv
  BY DEF Init, DiagnosisInv, DataInv, DiagnosisGrounded
<1>2. TypeOK /\ DiagnosisInv /\ [Next]_vars => DiagnosisInv'
  BY DiagnosisKept
<1>3. DiagnosisInv => DiagnosisGrounded
  BY DEF DiagnosisInv
<1> QED BY <1>1, <1>2, <1>3, TypesHold, PTL DEF Spec

(***************************************************************************)
(* GateSeesGrowth: a count that was read lies between what it was at the   *)
(* start and what it is now, and those of two hours ago do not move.       *)
(***************************************************************************)
Turn == [head |-> 1, head2h |-> 2, rate |-> 3, rate2h |-> 4, top |-> 5]

GateInv ==
  spec = "gate" =>
    /\ at \in {"over", "token", "query"}
    /\ \A r \in Readings : before[r] <= backend.tsdb[r]
    /\ \A r \in {"head2h", "rate2h"} : before[r] = backend.tsdb[r]
    /\ at # "over" =>
         \A r \in Readings : Turn[r] < line => before[r] <= seen[r] /\ seen[r] <= backend.tsdb[r]

LEMMA Numbers ==
  ASSUME TypeOK
  PROVE  /\ \A r \in Readings : backend.tsdb[r] \in Int /\ seen[r] \in Int /\ before[r] \in Int
         /\ \A n \in Counts : n \in Int
<1>1. Counts \cup {Absent} \subseteq Int
  BY RhobsAssumption DEF RhobsAssumption, Absent
<1>2. /\ backend.tsdb \in [Readings -> Counts \cup {Absent}]
      /\ seen \in [Readings -> Counts \cup {Absent}] /\ before \in [Readings -> Counts \cup {Absent}]
  BY DEF TypeOK, Backends
<1> QED BY <1>1, <1>2

LEMMA GateAsks ==
  ASSUME TypeOK, spec = "gate"
  PROVE  Query \in Readings /\ Turn[Query] = line
BY DEF TypeOK, Query, Script, Readings, Turn

\* What has been read when a reply is taken.
LEMMA GateReads ==
  ASSUME TypeOK, GateInv, NEW r, GateReplies(r), r # "error", at # "over"
  PROVE  /\ seen' = [seen EXCEPT ![Query] = backend.tsdb[Query]]
         /\ \A x \in Readings : Turn[x] < line + 1 =>
              before[x] <= seen'[x] /\ seen'[x] <= backend.tsdb[x]
<1>1. spec = "gate" /\ seen' = [seen EXCEPT ![Query] = backend.tsdb[Query]]
  BY DEF GateReplies
<1>2. Query \in Readings /\ Turn[Query] = line /\ line \in 1 .. 5
  BY <1>1, GateAsks DEF TypeOK
<1>3. seen \in [Readings -> Counts \cup {Absent}]
  BY DEF TypeOK
<1>4. ASSUME NEW x \in Readings, Turn[x] < line + 1
      PROVE  before[x] <= seen'[x] /\ seen'[x] <= backend.tsdb[x]
  <2>1. CASE x = Query
    BY <1>1, <1>3, <2>1, Numbers DEF GateInv
  <2>2. CASE x # Query
    <3>1. Turn[x] # Turn[Query]
      BY <1>2, <2>2 DEF Turn, Readings
    <3>2. Turn[x] < line
      BY <1>2, <1>4, <3>1 DEF Turn, Readings
    <3> QED BY <1>1, <1>3, <2>2, <3>2 DEF GateInv
  <2> QED BY <2>1, <2>2
<1> QED BY <1>1, <1>4

LEMMA PassShowsNoGrowth ==
  ASSUME NEW a \in [Readings -> Int], NEW c \in [Readings -> Int], GatePasses(c),
         \A r \in Readings : a[r] <= c[r],
         \A r \in {"head2h", "rate2h"} : a[r] = c[r]
  PROVE  ~Grown(a) /\ Small(a)
<1>1. MaxDeltaPct \in Nat /\ MaxSeriesPerMetric \in Nat
  BY RhobsAssumption DEF RhobsAssumption
<1>2. Small(a)
  BY <1>1 DEF GatePasses, Small, Readings
<1>3. ASSUME NEW x \in Readings, NEW y \in Readings, a[x] <= c[x], a[y] = c[y], a[y] > 0,
             Within(c[x], c[y], MaxDeltaPct)
      PROVE  ~((a[x] - a[y]) * 100 > MaxDeltaPct * a[y])
  <2>1. (c[x] - c[y]) * 100 <= MaxDeltaPct * c[y]
    BY <1>3 DEF Within
  <2>2. MaxDeltaPct * c[y] \in Int /\ MaxDeltaPct * a[y] = MaxDeltaPct * c[y]
    BY <1>1, <1>3
  <2> DEFINE m == MaxDeltaPct * c[y]
  <2>3. m \in Int /\ (c[x] - c[y]) * 100 <= m /\ MaxDeltaPct * a[y] = m
    BY <2>1, <2>2
  <2> HIDE DEF m
  <2> QED BY <1>3, <2>3
<1> QED BY <1>2, <1>3 DEF GatePasses, Grown, Readings

LEMMA GateReplyKept ==
  ASSUME TypeOK, GateInv, NEW r, Honest(r), GateReplies(r), at # "over", verdict = "none",
         UNCHANGED <<outside, before>>
  PROVE  GateInv' /\ (verdict' = "passed" => ~Grown(before) /\ Small(before))
<1>0. spec = "gate" /\ spec' = spec /\ backend' = backend /\ before' = before /\ line \in 1 .. 5
  BY DEF GateReplies, NextQuery, Request, Ends, outside, TypeOK
<1>1. at' \in {"over", "token", "query"}
  BY FirstCalls DEF GateReplies, NextQuery, Request, Ends
<1>2. CASE Ends("failed")
  BY <1>0, <1>1, <1>2 DEF Ends, GateInv
<1>3. CASE NextQuery /\ r # "error"
  <2>1. line' = line + 1
    BY <1>3 DEF NextQuery, Request
  <2>2. verdict' = verdict
    BY <1>3 DEF NextQuery, Request
  <2>3. \A x \in Readings : Turn[x] < line' => before'[x] <= seen'[x] /\ seen'[x] <= backend'.tsdb[x]
    BY <1>0, <1>3, <2>1, GateReads
  <2>4. GateInv'
    BY <1>0, <1>1, <2>3 DEF GateInv
  <2> QED BY <2>2, <2>4
<1>4. CASE /\ r # "error" /\ line = 5
           /\ Ends(IF GatePasses([seen EXCEPT ![Query] = backend.tsdb[Query]]) THEN "passed" ELSE "failed")
  <2>1. GateInv'
    BY <1>0, <1>1, <1>4 DEF Ends, GateInv
  <2>2. ASSUME verdict' = "passed" PROVE ~Grown(before) /\ Small(before)
    <3>1. GatePasses(seen')
      BY <1>4, <2>2, GateReads DEF Ends
    <3>2. \A x \in Readings : before[x] <= seen'[x] /\ seen'[x] <= backend.tsdb[x]
      BY <1>4, GateReads DEF Turn, Readings
    <3>3. before \in [Readings -> Int] /\ seen' \in [Readings -> Int]
      BY <1>4, GateReads, Numbers DEF TypeOK
    <3>4. \A x \in {"head2h", "rate2h"} : before[x] = seen'[x]
      BY <1>0, <3>2, <3>3, Numbers DEF GateInv, Readings
    <3> QED BY <3>1, <3>2, <3>3, <3>4, PassShowsNoGrowth
  <2> QED BY <2>1, <2>2
<1> QED BY <1>0, <1>2, <1>3, <1>4 DEF GateReplies

\* A spec that runs has no verdict yet.
VerdictInv == at # "over" => verdict = "none"

LEMMA RepliesEnd ==
  ASSUME NEW r, Replies(r) PROVE spec' = spec /\ (verdict' # verdict => at' = "over")
BY DEF Replies, ProbeReplies, LabelsReply, MetricsReply, RulesReply, GateReplies, NextQuery, TryAgain,
   Request, Ends

LEMMA VerdictKept == ASSUME VerdictInv, [Next]_vars PROVE VerdictInv'
<1>1. CASE UNCHANGED vars
  BY <1>1 DEF vars, run, VerdictInv
<1>2. ASSUME NEW s \in Specs, Start(s) PROVE VerdictInv'
  BY <1>2 DEF Start, VerdictInv
<1>3. CASE Setup \/ LoadRHOBSCredentialsFromMC
  BY <1>3, SetupFrame DEF VerdictInv
<1>4. CASE GetToken \/ SendQuery
  <2>1. CASE Waits
    BY <1>4, <2>1, QuerySteps DEF Waits, Goto, Retry, VerdictInv
  <2> QED BY <1>4, <2>1, QuerySteps, RepliesEnd DEF VerdictInv
<1>5. CASE BeforeSuite \/ Environment
  BY <1>5 DEF BeforeSuite, Environment, Publish, BackendMoves, run, VerdictInv
<1> QED BY <1>1, <1>2, <1>3, <1>4, <1>5 DEF Next, SpecSteps, Setup

LEMMA GateStart ==
  ASSUME TypeOK, NEW s \in Specs, Start(s)
  PROVE  GateInv' /\ verdict' \in {"none", "skipped"}
<1>1. PICK b \in FoundBy(s) : backend' = b /\ before' = b.tsdb
  BY DEF Start
<1>2. \A r \in Readings : b.tsdb[r] \in Int
  <2>1. b.tsdb \in [Readings -> Counts \cup {Absent}]
    BY FoundTypes DEF Backends
  <2>2. Counts \cup {Absent} \subseteq Int
    BY RhobsAssumption DEF RhobsAssumption, Absent
  <2> QED BY <2>1, <2>2
<1>3. s = "gate" => at' \in {"over", "token", "query"}
  BY FirstCalls DEF Start, FirstOf
<1>4. \A r \in Readings : ~(Turn[r] < line')
  BY DEF Start, Turn, Readings
<1> QED BY <1>1, <1>2, <1>3, <1>4 DEF Start, GateInv

LEMMA GateMoves == ASSUME TypeOK, GateInv, BackendMoves PROVE GateInv'
<1>1. CASE spec # "gate"
  BY <1>1 DEF BackendMoves, run, GateInv
<1>2. CASE spec = "gate"
  <2>1. PICK r \in {"head", "rate", "top"}, n \in Counts :
          n > backend.tsdb[r] /\ backend' = [backend EXCEPT !.tsdb[r] = n]
    BY <1>2 DEF BackendMoves, Grows
  <2>2. backend \in Backends
    BY DEF TypeOK
  <2>3. \A x \in Readings : backend'.tsdb[x] = IF x = r THEN n ELSE backend.tsdb[x]
    BY <2>1, <2>2 DEF Backends
  <2>4. \A x \in Readings : backend.tsdb[x] <= backend'.tsdb[x]
    BY <2>1, <2>3, Numbers DEF Readings
  <2>5. \A x \in Readings : backend'.tsdb[x] \in Int
    BY <2>1, <2>3, Numbers
  <2>6. \A x \in {"head2h", "rate2h"} : backend'.tsdb[x] = backend.tsdb[x]
    BY <2>1, <2>3 DEF Readings
  <2>7. UNCHANGED <<before, seen, spec, at, line>>
    BY DEF BackendMoves, memory, run
  <2> QED BY <1>2, <2>4, <2>5, <2>6, <2>7, Numbers DEF GateInv, Readings
<1> QED BY <1>1, <1>2

LEMMA GateKept ==
  ASSUME TypeOK, VerdictInv, GateInv, GateSeesGrowth, [Next]_vars
  PROVE  GateInv' /\ GateSeesGrowth'
<1>1. CASE UNCHANGED vars
  BY <1>1 DEF vars, outside, run, memory, history, GateInv, GateSeesGrowth
<1>2. ASSUME NEW s \in Specs, Start(s) PROVE GateInv' /\ GateSeesGrowth'
  BY <1>2, GateStart DEF GateSeesGrowth
<1>3. CASE Setup \/ LoadRHOBSCredentialsFromMC
  <2>1. spec # "gate" /\ spec' = spec
    BY <1>3, SetupFrame DEF GateInv
  <2> QED BY <2>1 DEF GateInv, GateSeesGrowth
<1>4. CASE GetToken \/ SendQuery
  <2>0. at \in {"token", "query"} /\ UNCHANGED <<outside, before>>
    BY <1>4, QuerySteps
  <2>1. CASE Waits
    BY <2>0, <2>1 DEF Waits, Goto, Retry, outside, memory, VerdictInv, GateInv, GateSeesGrowth
  <2>2. ASSUME NEW r, Honest(r), Replies(r) PROVE GateInv' /\ GateSeesGrowth'
    <3>1. CASE GateReplies(r)
      BY <2>0, <2>2, <3>1, GateReplyKept DEF VerdictInv, GateSeesGrowth
    <3>2. CASE ~GateReplies(r)
      <4>1. spec # "gate"
        BY <2>2, <3>2 DEF Replies, ProbeReplies, LabelsReply, MetricsReply, RulesReply
      <4> QED BY <2>2, <4>1, RepliesEnd DEF GateInv, GateSeesGrowth
    <3> QED BY <3>1, <3>2
  <2> QED BY <1>4, <2>1, <2>2, QuerySteps
<1>5. CASE BeforeSuite \/ Publish
  BY <1>5 DEF BeforeSuite, Publish, outside, run, memory, history, GateInv, GateSeesGrowth
<1>6. CASE BackendMoves
  BY <1>6, GateMoves DEF BackendMoves, run, VerdictInv, GateSeesGrowth
<1> QED BY <1>1, <1>2, <1>3, <1>4, <1>5, <1>6 DEF Next, SpecSteps, Setup, Environment

\* A gate that passes shows that there was no growth beyond the threshold before it started,
\* for any counts, thresholds and growth while it asks (rhobs.go:342-424).
THEOREM GateHolds == Spec => []GateSeesGrowth
<1>1. Init => VerdictInv /\ GateInv /\ GateSeesGrowth
  BY DEF Init, VerdictInv, GateInv, GateSeesGrowth
<1>2. TypeOK /\ VerdictInv /\ GateInv /\ GateSeesGrowth /\ [Next]_vars
        => (VerdictInv /\ GateInv /\ GateSeesGrowth)'
  BY VerdictKept, GateKept
<1> QED BY <1>1, <1>2, TypesHold, PTL DEF Spec

(***************************************************************************)
(* UndisturbedPasses: while nothing goes wrong, what the spec asks for is  *)
(* there, and credentials the issuer does not take stay refused.           *)
(***************************************************************************)
PublishedInv == \A c \in {cfg, rhobs} : \A f \in Access : c.access[f] <= configMap.version

PlaceInv ==
  /\ at # "over" => spec \in Specs
  /\ at \notin {"over", "token", "query"} => line = 1
  /\ suite = "starting" => verdict = "none"

CalmInv ==
  calm /\ at # "over" =>
    /\ FineFor(spec, backend)
    /\ spec = "probe" => line = 1 \/ (line = 2 /\ (backend.label = "private" \/ ~Valid(rhobs.access)))
    /\ spec \in {"labels", "metrics"} => line = 1
    /\ spec = "rules" => line <= 3
    /\ spec = "gate" => \A r \in Readings \ {"top"} : before[r] # Absent

LEMMA VersionFacts ==
  ASSUME TypeOK
  PROVE  /\ configMap.version \in Nat /\ Loaded <= configMap.version /\ Unset <= configMap.version
         /\ \A f \in Access : cfg.access[f] \in Int /\ rhobs.access[f] \in Int
<1>1. configMap.version \in Sources \ {Unset} /\ cfg \in Configs /\ rhobs \in Configs
  BY DEF TypeOK
<1>2. configMap.version \in Nat /\ configMap.version # 0
  BY <1>1, SourceFacts DEF Unset
<1>3. \A f \in Access : cfg.access[f] \in Nat /\ rhobs.access[f] \in Nat
  BY <1>1, SourceFacts DEF Configs
<1> QED BY <1>2, <1>3 DEF Loaded, Unset

LEMMA PublishedKept == ASSUME TypeOK, PublishedInv, [Next]_vars PROVE PublishedInv'
<1> DEFINE Out(c, v) == \A f \in Access : c.access[f] <= v
<1>0. Out(cfg, configMap.version) /\ Out(rhobs, configMap.version) /\ Out(NoConfig, configMap.version)
  BY VersionFacts DEF PublishedInv, NoConfig
<1>1. configMap' = configMap \/ (Publish /\ configMap'.version = configMap.version + 1)
  <2>1. ASSUME NEW s \in Specs, Start(s) PROVE configMap' = configMap
    BY <2>1 DEF Start
  <2>2. CASE BeforeSuite \/ BackendMoves
    BY <2>2 DEF BeforeSuite, BackendMoves, outside
  <2>3. CASE Setup \/ LoadRHOBSCredentialsFromMC
    BY <2>3, SetupFrame DEF outside
  <2>4. CASE GetToken \/ SendQuery
    BY <2>4, QuerySteps DEF outside
  <2>5. CASE Publish
    BY <2>5 DEF Publish
  <2>6. CASE UNCHANGED vars
    BY <2>6 DEF vars, outside
  <2> QED BY <2>1, <2>2, <2>3, <2>4, <2>5, <2>6 DEF Next, SpecSteps, Setup, Environment
<1>2. configMap.version <= configMap'.version /\ configMap'.version \in Int
  BY <1>1, VersionFacts
<1>3. Out(cfg', configMap.version)
  <2>1. CASE BeforeSuite
    <3>1. \A f \in Access : Load(settings).access[f] \in {Unset, Loaded}
      BY DEF Load
    <3>2. cfg' = cfg \/ cfg' = Load(settings)
      BY <2>1 DEF BeforeSuite, Shares
    <3> QED BY <1>0, <3>1, <3>2, VersionFacts
  <2>2. CASE LoadRHOBSCredentialsFromMC
    <3>1. \A f \in Access : FromMC.access[f] \in {Unset, configMap.version}
      BY DEF FromMC, FromConfigMap, TypeOK, Configs
    <3>2. cfg' = cfg \/ cfg' = FromMC
      BY <2>2, LoadWrites DEF Shares, shared
    <3> QED BY <1>0, <3>1, <3>2, VersionFacts
  <2>3. CASE UNCHANGED shared
    BY <1>0, <2>3 DEF shared
  <2> QED BY <2>1, <2>2, <2>3, SharedFrame
<1>4. Out(rhobs', configMap.version)
  BY <1>0, <1>3, CopyFrame
<1>5. TypeOK'
  BY NextTypes
<1>6. \A f \in Access : cfg'.access[f] \in Int /\ rhobs'.access[f] \in Int
  <2>1. cfg' \in Configs /\ rhobs' \in Configs
    BY <1>5 DEF TypeOK
  <2>2. \A f \in Access : cfg'.access[f] \in Sources /\ rhobs'.access[f] \in Sources
    BY <2>1 DEF Configs
  <2>3. \A x \in Sources : x \in Int
    BY SourceFacts
  <2> QED BY <2>2, <2>3
<1>7. \A f \in Access : cfg'.access[f] <= configMap'.version /\ rhobs'.access[f] <= configMap'.version
  BY <1>2, <1>3, <1>4, <1>6, VersionFacts
<1> QED BY <1>7 DEF PublishedInv

LEMMA PlaceKept ==
  ASSUME StartInv, VerdictInv, PlaceInv, [Next]_vars PROVE PlaceInv'
<1>1. CASE UNCHANGED vars
  BY <1>1 DEF vars, run, shared, PlaceInv
<1>2. ASSUME NEW s \in Specs, Start(s) PROVE PlaceInv'
  BY <1>2 DEF Start, PlaceInv, shared
<1>3. CASE Setup \/ LoadRHOBSCredentialsFromMC
  <2>1. at # "over" /\ spec' = spec /\ line' = line /\ line = 1
    BY <1>3, SetupFrame DEF PlaceInv
  <2>2. suite = "running"
    BY <2>1 DEF StartInv
  <2>3. suite' = suite
    <3>1. CASE LoadRHOBSCredentialsFromMC
      BY <3>1, LoadWrites DEF shared
    <3>2. CASE Setup
      BY <3>2 DEF Setup, GetCluster, FindMC, Credentials, DetectTopology, ResolveName,
         ResolveHCPNamespaces, VerifyNamespace, shared
    <3> QED BY <1>3, <3>1, <3>2
  <2> QED BY <2>1, <2>2, <2>3 DEF PlaceInv
<1>4. CASE GetToken \/ SendQuery
  <2>1. at \in {"token", "query"} /\ UNCHANGED shared
    BY <1>4, QuerySteps
  <2>2. suite' = suite /\ suite = "running"
    BY <2>1 DEF shared, StartInv
  <2>3. CASE Waits
    BY <2>1, <2>2, <2>3 DEF Waits, Goto, Retry, PlaceInv
  <2>4. ASSUME NEW r, Replies(r) PROVE at' \in {"over", "token", "query"} /\ spec' = spec
    BY <2>4, RepliesEnd, FirstCalls DEF Replies, ProbeReplies, LabelsReply, MetricsReply, RulesReply,
       GateReplies, NextQuery, TryAgain, Request, Ends
  <2> QED BY <1>4, <2>1, <2>2, <2>3, <2>4, QuerySteps DEF PlaceInv
<1>5. CASE BeforeSuite
  BY <1>5 DEF BeforeSuite, run, PlaceInv
<1>6. CASE Environment
  BY <1>6 DEF Environment, Publish, BackendMoves, run, shared, PlaceInv
<1> QED BY <1>1, <1>2, <1>3, <1>4, <1>5, <1>6 DEF Next, SpecSteps, Setup

\* A failure before the first query is a fault, or the namespaces cannot be found.
LEMMA SetupFails ==
  ASSUME Setup, PlaceInv, VerdictInv, GateInv
  PROVE  /\ Answered \/ Fault
         /\ verdict' = "failed" =>
              \/ Fault
              \/ spec = "namespaces" /\ (~cfg.cluster \/ cfg.topology \notin {"", "hcp"})
<1>1. spec \in Synthetic \/ spec = "namespaces"
  BY SetupFrame DEF PlaceInv, GateInv, Specs
<1>2. verdict = "none"
  BY SetupFrame DEF VerdictInv
<1>3. CASE DetectTopology
  BY <1>1, <1>2, <1>3 DEF DetectTopology, Goto, Ends, InitDone, Synthetic
<1>4. CASE GetCluster
  BY <1>2, <1>4 DEF GetCluster, Body, Goto, Ends
<1>5. CASE FindMC \/ Credentials \/ VerifyNamespace
  BY <1>2, <1>5 DEF FindMC, Credentials, VerifyNamespace, Goto, Ends, InitFails
<1>6. CASE ResolveName
  BY <1>2, <1>6 DEF ResolveName, Goto
<1>7. CASE ResolveHCPNamespaces
  BY <1>2, <1>7 DEF ResolveHCPNamespaces, Goto, Ends, InitDone
<1> QED BY <1>3, <1>4, <1>5, <1>6, <1>7 DEF Setup

\* An error in calm weather says that the credentials are refused.
LEMMA CalmReplies ==
  ASSUME TypeOK, GetToken \/ SendQuery
  PROVE  \/ Waits
         \/ \E r : /\ Honest(r) /\ Replies(r)
                   /\ calm' => calm /\ (r = "error" => ~Valid(rhobs.access))
<1>1. calm \in BOOLEAN /\ attempt + 1 \in Int
  BY DEF TypeOK
<1>2. CASE GetToken
  <2>1. CASE NoMoreAttempts /\ calm' = (calm /\ attempt + 1 < MaxAttempts) /\ Replies("error")
    <3>0. ~(attempt + 1 < MaxAttempts)
      BY <1>1, <2>1, SuiteAssumption DEF NoMoreAttempts, SuiteAssumption
    <3>1. ~calm'
      BY <2>1, <3>0, Zenon
    <3> QED BY <2>1, <3>1 DEF Honest
  <2>2. CASE ~Valid(rhobs.access) /\ Answered /\ Replies("error")
    BY <2>2 DEF Honest, Answered
  <2>3. CASE Fault /\ Replies("error")
    BY <2>3 DEF Honest, Fault
  <2>4. CASE Answered /\ (Goto("query") \/ Retry) /\ UNCHANGED <<memory, sawData>>
    BY <2>4 DEF Waits, Answered
  <2> QED BY <1>2, <2>1, <2>2, <2>3, <2>4 DEF GetToken
<1>3. CASE SendQuery
  <2>1. CASE Answered /\ Replies(IF Holds(Query) THEN "yes" ELSE "no")
    BY <2>1 DEF Honest, Answered
  <2>2. CASE Fault /\ Replies("error")
    BY <2>2 DEF Honest, Fault
  <2> QED BY <1>3, <2>1, <2>2 DEF SendQuery
<1> QED BY <1>2, <1>3

\* The other way round: counts that are no higher than counts without growth pass.
LEMMA NoGrowthPasses ==
  ASSUME NEW a \in [Readings -> Int], NEW c \in [Readings -> Int], ~Grown(a), Small(a),
         \A r \in Readings : c[r] <= a[r],
         \A r \in {"head2h", "rate2h"} : c[r] = a[r]
  PROVE  GatePasses(c)
<1>1. MaxDeltaPct \in Nat /\ MaxSeriesPerMetric \in Nat
  BY RhobsAssumption DEF RhobsAssumption
<1>2. Small(c)
  BY <1>1 DEF Small, Readings
<1>3. ASSUME NEW x \in Readings, NEW y \in Readings, c[x] <= a[x], c[y] = a[y],
             ~(a[y] > 0 /\ (a[x] - a[y]) * 100 > MaxDeltaPct * a[y])
      PROVE  Within(c[x], c[y], MaxDeltaPct)
  <2> DEFINE m == MaxDeltaPct * a[y]
  <2>1. m \in Int /\ MaxDeltaPct * c[y] = m
    BY <1>1, <1>3
  <2>2. ~(a[y] > 0 /\ (a[x] - a[y]) * 100 > m)
    BY <1>3
  <2> HIDE DEF m
  <2>3. c[y] <= 0 \/ (c[x] - c[y]) * 100 <= m
    BY <1>3, <2>1, <2>2
  <2> QED BY <2>1, <2>3 DEF Within
<1>4. Within(c["head"], c["head2h"], MaxDeltaPct) /\ Within(c["rate"], c["rate2h"], MaxDeltaPct)
  BY <1>3 DEF Grown, Readings
<1> QED BY <1>2, <1>4 DEF GatePasses

LEMMA ProbeFacts ==
  /\ \A q \in {"public", "private"} : Holds(q) => (backend.probes = 1 /\ backend.label = q)
  /\ \A q \in {"public", "private"} : (backend.probes = 1 /\ backend.label = q) => Holds(q)
  /\ \A s \in {"probe", "labels"} : FineFor(s, backend) => backend.probes = 1
<1>1. ASSUME NEW q \in {"public", "private"}
      PROVE  Holds(q) <=> (backend.probes = 1 /\ backend.label = q)
  BY DEF Holds, Rules
<1>2. ASSUME NEW s \in {"probe", "labels"}, FineFor(s, backend)
      PROVE  backend.probes = 1
  BY <1>2 DEF FineFor
<1> QED BY <1>1, <1>2

LEMMA ValidKept ==
  ASSUME TypeOK, PublishedInv, Publish, ~Valid(rhobs.access)
  PROVE  ~Valid(rhobs.access)'
<1>1. rhobs' = rhobs /\ configMap'.version = configMap.version + 1
  BY DEF Publish, memory
<1>2. rhobs.access["probe"] # configMap.version + 1
  BY VersionFacts DEF PublishedInv, Access
<1> QED BY <1>1, <1>2 DEF Valid, Access

\* Nothing but a refusal fails a spec that reads a backend in order.
LEMMA CalmReply ==
  ASSUME TypeOK, VerdictInv, GateInv, CalmInv, at # "over", calm, NEW r, Honest(r), Replies(r),
         r = "error" => ~Valid(rhobs.access), UNCHANGED <<outside, before>>
  PROVE  CalmInv' /\ (verdict' = "failed" => spec # "namespaces" /\ ~Valid(rhobs.access))
<1>0. /\ backend \in Backends /\ line \in 1 .. 5 /\ verdict = "none"
      /\ spec' = spec /\ backend' = backend /\ rhobs' = rhobs /\ configMap' = configMap
      /\ before' = before
  BY RepliesEnd, RepliesFrame DEF TypeOK, VerdictInv, outside
<1>1. Valid(rhobs.access)' <=> Valid(rhobs.access)
  BY <1>0 DEF Valid
<1>2. FineFor(spec, backend) /\ FineFor(spec, backend)'
  BY <1>0 DEF CalmInv
<1>3. CASE ProbeReplies(r)
  <2>1. spec = "probe" /\ line \in {1, 2} /\ backend.probes = 1
    BY <1>2, <1>3 DEF ProbeReplies, CalmInv, FineFor
  <2>2. CASE Ends("passed")
    BY <2>2 DEF Ends, CalmInv
  <2>3. CASE line = 1 /\ r # "yes" /\ NextQuery
    <3>1. line' = 2 /\ verdict' = "none"
      BY <1>0, <2>3 DEF NextQuery, Request
    <3>2. backend.label = "private" \/ ~Valid(rhobs.access)
      <4>1. CASE r = "error"
        BY <4>1
      <4>2. CASE r = "no"
        <5>1. Query = "public"
          BY <2>1, <2>3 DEF Query, Script
        <5>2. ~Holds("public")
          BY <4>2, <5>1 DEF Honest
        <5> QED BY <1>0, <2>1, <5>2, ProbeFacts DEF Backends
      <4> QED BY <2>3, <4>1, <4>2 DEF Honest
    <3> QED BY <1>0, <1>1, <1>2, <2>1, <3>1, <3>2 DEF CalmInv
  <2>4. CASE line = 2 /\ r # "yes" /\ Ends("failed")
    <3>1. ~Valid(rhobs.access)
      <4>1. CASE r = "error"
        BY <4>1
      <4>2. CASE r = "no"
        <5>1. Query = "private"
          BY <2>1, <2>4 DEF Query, Script
        <5>2. ~Holds("private")
          BY <4>2, <5>1 DEF Honest
        <5> QED BY <2>1, <2>4, <5>2, ProbeFacts DEF CalmInv
      <4> QED BY <2>4, <4>1, <4>2 DEF Honest
    <3> QED BY <2>1, <2>4, <3>1 DEF Ends, CalmInv
  <2> QED BY <1>3, <2>1, <2>2, <2>3, <2>4 DEF ProbeReplies
<1>4. CASE LabelsReply(r)
  <2>1. spec = "labels" /\ line = 1 /\ backend.probes = 1
    BY <1>2, <1>4, ProbeFacts DEF LabelsReply, CalmInv
  <2>2. Holds(Query)
    BY <2>1 DEF Query, Script, Holds, Rules
  <2>3. r = "yes" \/ ~Valid(rhobs.access)
    BY <2>2 DEF Honest
  <2> QED BY <1>4, <2>1, <2>3 DEF LabelsReply, Ends, CalmInv
<1>5. CASE MetricsReply(r)
  <2>1. spec = "metrics" /\ line = 1 /\ backend.data
    BY <1>2, <1>5 DEF MetricsReply, CalmInv, FineFor
  <2>2. Holds(Query)
    BY <2>1 DEF Query, Script, Holds, Rules
  <2>3. r = "yes" \/ ~Valid(rhobs.access)
    BY <2>2 DEF Honest
  <2>4. CASE Ends("passed") \/ Ends("failed")
    BY <1>5, <2>1, <2>3, <2>4 DEF MetricsReply, Ends, CalmInv, TryAgain, Request
  <2>5. CASE Request(1) /\ verdict' = "none"
    BY <1>0, <1>2, <2>1, <2>5 DEF Request, CalmInv
  <2> QED BY <1>0, <1>5, <2>4, <2>5 DEF MetricsReply, TryAgain, Request
<1>6. CASE RulesReply(r)
  <2>1. spec = "rules" /\ line \in 1 .. 3 /\ backend.rules = Rules
    BY <1>0, <1>2, <1>6 DEF RulesReply, CalmInv, FineFor
  <2>2. ASSUME line > 1 PROVE r = "yes" \/ ~Valid(rhobs.access)
    <3>1. Query \in Rules
      BY <2>1, <2>2 DEF Query, Script, Rules
    <3>2. Holds(Query)
      BY <2>1, <3>1 DEF Holds, Rules
    <3> QED BY <3>2 DEF Honest
  <2>3. CASE NextQuery /\ line < 3
    BY <1>0, <1>2, <2>1, <2>3 DEF NextQuery, Request, CalmInv
  <2>4. CASE Request(1)
    BY <1>0, <1>2, <2>1, <2>4 DEF Request, CalmInv
  <2>5. CASE Ends("passed") \/ (Ends("failed") /\ ~Valid(rhobs.access))
    BY <2>1, <2>5 DEF Ends, CalmInv
  <2> QED BY <1>6, <2>1, <2>2, <2>3, <2>4, <2>5 DEF RulesReply, TryAgain
<1>7. CASE GateReplies(r)
  <2>1. spec = "gate"
    BY <1>7 DEF GateReplies
  <2>2. CASE r = "error"
    BY <1>7, <2>1, <2>2 DEF GateReplies, Ends, CalmInv
  <2>3. CASE r # "error"
    <3> DEFINE counts == [seen EXCEPT ![Query] = backend.tsdb[Query]]
    <3>1. seen' = counts
      BY <1>7, <2>3, GateReads
    <3>2. \A x \in Readings : Turn[x] < line + 1 => before[x] <= counts[x] /\ counts[x] <= backend.tsdb[x]
      BY <1>7, <2>3, <3>1, GateReads
    <3>3. counts \in [Readings -> Int]
      BY <2>1, Numbers, GateAsks DEF TypeOK
    <3> HIDE DEF counts
    <3>4. \A x \in Readings \ {"top"} : 0 <= before[x]
      <4>1. \A x \in Readings : before[x] \in Counts \cup {Absent}
        BY DEF TypeOK
      <4>2. \A x \in Readings \ {"top"} : before[x] # Absent
        BY <2>1 DEF CalmInv
      <4>3. \A n \in Counts : n \in Nat
        BY RhobsAssumption DEF RhobsAssumption
      <4> QED BY <4>1, <4>2, <4>3
    <3>5. ~(line = 2 /\ Absent \in {counts["head"], counts["head2h"]})
      BY <3>2, <3>3, <3>4, Numbers DEF Turn, Readings, Absent
    <3>6. ~(line = 4 /\ Absent \in {counts["rate"], counts["rate2h"]})
      BY <3>2, <3>3, <3>4, Numbers DEF Turn, Readings, Absent
    <3>7. CASE NextQuery
      BY <1>0, <1>2, <2>1, <3>7 DEF NextQuery, Request, CalmInv
    <3>8. CASE line = 5 /\ Ends(IF GatePasses(counts) THEN "passed" ELSE "failed")
      <4>1. ~Grown(backend.tsdb) /\ Small(backend.tsdb)
        BY <1>2, <2>1 DEF FineFor
      <4>2. \A x \in Readings : counts[x] <= backend.tsdb[x]
        BY <3>2, <3>8 DEF Turn, Readings
      <4>3. \A x \in {"head2h", "rate2h"} : counts[x] = backend.tsdb[x]
        BY <2>1, <3>2, <3>3, <3>8, Numbers DEF GateInv, Turn, Readings
      <4>4. backend.tsdb \in [Readings -> Int]
        BY <1>0, Numbers DEF Backends
      <4>5. GatePasses(counts)
        BY <3>3, <4>1, <4>2, <4>3, <4>4, NoGrowthPasses
      <4> QED BY <2>1, <3>8, <4>5 DEF Ends, CalmInv
    <3> QED BY <1>0, <1>7, <2>3, <3>5, <3>6, <3>7, <3>8 DEF GateReplies, counts
  <2> QED BY <2>2, <2>3
<1> QED BY <1>3, <1>4, <1>5, <1>6, <1>7 DEF Replies

LEMMA CalmStart == ASSUME TypeOK, NEW s \in Specs, Start(s) PROVE CalmInv' /\ verdict' # "failed"
<1>1. PICK b \in FoundBy(s) : backend' = b /\ calm' = FineFor(s, b) /\ before' = b.tsdb
  BY DEF Start
<1>2. spec' = s /\ line' = 1 /\ verdict' \in {"none", "skipped"}
  BY DEF Start
<1>3. calm' => FineFor(s, b)
  BY <1>1, Zenon
<1>4. s = "gate" /\ FineFor(s, b) => \A r \in Readings \ {"top"} : b.tsdb[r] # Absent
  BY DEF FineFor
<1> QED BY <1>1, <1>2, <1>3, <1>4 DEF CalmInv

LEMMA CalmMoves == ASSUME TypeOK, CalmInv, BackendMoves PROVE CalmInv'
<1>1. /\ at # "over" /\ UNCHANGED <<spec, line, before, rhobs, configMap>>
      /\ calm' = (calm /\ FineFor(spec, backend'))
  BY DEF BackendMoves, run, memory
<1>2. calm' => calm /\ FineFor(spec, backend')
  BY <1>1, Zenon
<1>3. spec = "probe" => backend'.label = backend.label
  BY DEF BackendMoves, ProbesChange, TypeOK, Backends
<1>4. Valid(rhobs.access)' <=> Valid(rhobs.access)
  BY <1>1 DEF Valid
<1> QED BY <1>1, <1>2, <1>3, <1>4 DEF CalmInv

\* What excuses the failure of a spec around which nothing has gone wrong.
Excused ==
  \/ spec = "namespaces" /\ (~cfg.cluster \/ cfg.topology \notin {"", "hcp"})
  \/ spec # "namespaces" /\ ~Valid(rhobs.access)

LEMMA CalmKept ==
  ASSUME TypeOK, StartInv, VerdictInv, GateInv, PublishedInv, PlaceInv, CalmInv, UndisturbedPasses,
         [Next]_vars
  PROVE  CalmInv' /\ UndisturbedPasses'
<1>0. UndisturbedPasses <=> (verdict = "failed" /\ calm => Excused)
  BY DEF UndisturbedPasses, Excused
<1>1. CASE UNCHANGED vars
  BY <1>1 DEF vars, outside, shared, run, memory, history, CalmInv, UndisturbedPasses, Valid
<1>2. ASSUME NEW s \in Specs, Start(s) PROVE CalmInv' /\ UndisturbedPasses'
  BY <1>2, CalmStart DEF UndisturbedPasses
<1>3. CASE Setup \/ LoadRHOBSCredentialsFromMC
  <2>1. /\ at # "over" /\ verdict = "none" /\ line = 1
        /\ UNCHANGED <<backend, configMap, spec, line, before>>
    BY <1>3, SetupFrame DEF VerdictInv, PlaceInv, outside
  <2>2. Answered \/ Fault
    BY <1>3, SetupFails DEF LoadRHOBSCredentialsFromMC
  <2>3. calm' => calm
    BY <2>2, Zenon DEF Answered, Fault
  <2>4. CalmInv'
    BY <2>1, <2>3 DEF CalmInv
  <2>5. CASE LoadRHOBSCredentialsFromMC
    <3>1. verdict' # "failed"
      BY <2>1, <2>5 DEF LoadRHOBSCredentialsFromMC, Body, Ends
    <3> QED BY <2>4, <3>1 DEF UndisturbedPasses
  <2>6. CASE Setup
    <3>1. Fault => ~calm'
      BY Zenon DEF Fault
    <3>2. UNCHANGED shared
      BY <2>6 DEF Setup, GetCluster, FindMC, Credentials, DetectTopology, ResolveName,
         ResolveHCPNamespaces, VerifyNamespace
    <3> QED BY <2>1, <2>4, <2>6, <3>1, <3>2, SetupFails DEF shared, UndisturbedPasses
  <2> QED BY <1>3, <2>5, <2>6
<1>4. CASE GetToken \/ SendQuery
  <2>1. at \in {"token", "query"} /\ at # "over" /\ UNCHANGED <<outside, shared, before>>
    BY <1>4, QuerySteps
  <2>2. CASE Waits
    <3>1. /\ UNCHANGED <<spec, line, verdict, rhobs, backend, configMap, before, calm>>
          /\ verdict = "none"
      BY <2>1, <2>2 DEF Waits, Goto, Retry, memory, outside, VerdictInv
    <3> QED BY <2>1, <3>1 DEF CalmInv, UndisturbedPasses, Valid
  <2>3. ASSUME NEW r, Honest(r), Replies(r), calm' => calm /\ (r = "error" => ~Valid(rhobs.access))
        PROVE  CalmInv' /\ UndisturbedPasses'
    <3>1. CASE ~calm'
      BY <3>1 DEF CalmInv, UndisturbedPasses
    <3>2. CASE calm'
      <4>1. CalmInv' /\ (verdict' = "failed" => spec # "namespaces" /\ ~Valid(rhobs.access))
        BY <2>1, <2>3, <3>2, CalmReply
      <4>2. spec' = spec /\ rhobs' = rhobs /\ configMap' = configMap
        BY <2>1, <2>3, RepliesEnd, RepliesFrame DEF outside
      <4> QED BY <4>1, <4>2 DEF UndisturbedPasses, Valid
    <3> QED BY <3>1, <3>2
  <2> QED BY <1>4, <2>2, <2>3, CalmReplies
<1>5. CASE BeforeSuite
  BY <1>5 DEF BeforeSuite, outside, run, memory, history, PlaceInv, CalmInv, UndisturbedPasses, Valid
<1>6. CASE Publish
  <2>1. UNCHANGED <<backend, cfg, spec, at, line, verdict, rhobs, calm, before>>
    BY <1>6 DEF Publish, shared, run, memory, history
  <2> QED BY <1>6, <2>1, ValidKept DEF CalmInv, UndisturbedPasses
<1>7. CASE BackendMoves
  <2>1. verdict' # "failed"
    BY <1>7 DEF BackendMoves, run, VerdictInv
  <2> QED BY <1>7, <2>1, CalmMoves DEF UndisturbedPasses
<1> QED BY <1>1, <1>2, <1>3, <1>4, <1>5, <1>6, <1>7 DEF Next, SpecSteps, Setup, Environment

\* No spec fails for what specs before it did to the configuration, for the ConfigMap's
\* history or for outages its retries are there for: only for credentials the issuer does not
\* take, or namespaces it has no way to find (rhobs.go:54-108, context.go:125-134).
THEOREM UndisturbedSpecsPass == Spec => []UndisturbedPasses
<1> DEFINE Inv == VerdictInv /\ GateInv /\ GateSeesGrowth /\ PublishedInv /\ PlaceInv /\ CalmInv
                    /\ UndisturbedPasses
<1>1. ASSUME Init PROVE Inv
  <2>1. VerdictInv /\ GateInv /\ GateSeesGrowth /\ PlaceInv /\ CalmInv /\ UndisturbedPasses
    BY <1>1 DEF Init, VerdictInv, GateInv, GateSeesGrowth, PlaceInv, CalmInv, UndisturbedPasses
  <2>2. PublishedInv
    <3>1. Unset <= configMap.version
      BY <1>1 DEF Init, Unset, Loaded
    <3>2. cfg = NoConfig /\ rhobs = NoConfig
      BY <1>1 DEF Init
    <3>3. \A f \in Access : NoConfig.access[f] = Unset
      BY DEF NoConfig
    <3> QED BY <3>1, <3>2, <3>3 DEF PublishedInv
  <2> QED BY <2>1, <2>2
<1>2. ConfigInv /\ Inv /\ [Next]_vars => Inv'
  BY VerdictKept, GateKept, PublishedKept, PlaceKept, CalmKept DEF ConfigInv
<1>3. Inv => UndisturbedPasses
  OBVIOUS
<1> HIDE DEF Inv
<1> QED BY <1>1, <1>2, <1>3, ConfigInvHolds, PTL DEF Spec

-----------------------------------------------------------------------------
(***************************************************************************)
(* The way of a spec to its end.  SpecsEnd itself needs fairness; what it  *)
(* rests on is that every call brings the spec nearer to its end: to a     *)
(* later step of its setup, a later attempt of its Eventually, a later     *)
(* query of that attempt, or a later attempt of the token request.         *)
(***************************************************************************)
Rank ==
  [over |-> 0, token |-> 1, query |-> 1, configMap |-> 2, verify |-> 2, hostedClusters |-> 3,
   name |-> 4, topology |-> 5, credentials |-> 6, findMC |-> 7, cluster |-> 8]

\* The attempts of the token request that are left before the query can be sent.
TokenLeft == IF at = "token" THEN MaxAttempts - attempt ELSE 0

Position == <<Rank[at], MaxPolls - polls, 5 - line, TokenLeft>>
Positions == Nat \X Nat \X Nat \X Nat

\* The order of positions.
Below(p, q) ==
  \/ p[1] < q[1]
  \/ p[1] = q[1] /\ p[2] < q[2]
  \/ p[1] = q[1] /\ p[2] = q[2] /\ p[3] < q[3]
  \/ p[1] = q[1] /\ p[2] = q[2] /\ p[3] = q[3] /\ p[4] < q[4]

LEMMA PositionType == TypeOK => Position \in Positions
<1> SUFFICES ASSUME TypeOK PROVE Position \in Positions
  OBVIOUS
<1>1. RunOK /\ MaxAttempts \in Nat /\ MaxPolls \in Nat
  BY Groups, SuiteAssumption DEF SuiteAssumption
<1>2. Rank[at] \in Nat
  BY <1>1 DEF RunOK, Calls, Rank
<1>3. MaxPolls - polls \in Nat /\ 5 - line \in Nat /\ TokenLeft \in Nat
  BY <1>1 DEF RunOK, TokenLeft
<1> QED BY <1>2, <1>3 DEF Position, Positions

LEMMA EndsNear ==
  ASSUME RunOK, at # "over", at' = "over"
  PROVE  Below(Position', Position)
BY DEF RunOK, Calls, Below, Position, Rank

LEMMA NextQueryNear ==
  ASSUME RunOK, at \in {"token", "query"}, NextQuery
  PROVE  Below(Position', Position)
<1>1. at' \in {"token", "query"} /\ polls' = polls /\ line' = line + 1
  BY FirstCalls DEF NextQuery, Request
<1>2. Rank[at'] = Rank[at]
  BY <1>1 DEF Rank
<1>3. 5 - line' < 5 - line
  BY <1>1 DEF RunOK
<1> QED BY <1>1, <1>2, <1>3 DEF Below, Position

LEMMA TryAgainNear ==
  ASSUME RunOK, at \in {"token", "query"}, TryAgain
  PROVE  Below(Position', Position)
<1>1. CASE Ends("failed")
  BY <1>1, EndsNear DEF Ends
<1>2. CASE polls' = polls + 1 /\ Request(1)
  <2>1. at' \in {"token", "query"}
    BY <1>2, FirstCalls DEF Request
  <2>2. Rank[at'] = Rank[at]
    BY <2>1 DEF Rank
  <2>3. MaxPolls - polls' < MaxPolls - polls
    BY <1>2, SuiteAssumption DEF RunOK, SuiteAssumption
  <2> QED BY <2>2, <2>3 DEF Below, Position
<1> QED BY <1>1, <1>2 DEF TryAgain

LEMMA RepliesNear ==
  ASSUME RunOK, at \in {"token", "query"}, NEW r, Replies(r)
  PROVE  Below(Position', Position)
<1>1. NextQuery \/ TryAgain \/ at' = "over"
  BY DEF Replies, ProbeReplies, LabelsReply, MetricsReply, RulesReply, GateReplies, Ends
<1> QED BY <1>1, NextQueryNear, TryAgainNear, EndsNear

\* The token is there, or one more attempt is to be made.
LEMMA TokenNear ==
  ASSUME RunOK, GetToken
  PROVE  Below(Position', Position)
<1>1. at = "token"
  BY DEF GetToken
<1>2. attempt \in Nat /\ MaxAttempts \in Nat /\ attempt < MaxAttempts
  BY SuiteAssumption DEF RunOK, SuiteAssumption
<1>3. CASE Goto("query")
  <2>1. at' = "query" /\ polls' = polls /\ line' = line
    BY <1>3 DEF Goto
  <2>2. Rank[at'] = Rank[at] /\ TokenLeft' = 0 /\ TokenLeft = MaxAttempts - attempt
    BY <1>1, <2>1 DEF Rank, TokenLeft
  <2>3. TokenLeft' < TokenLeft
    BY <1>2, <2>2
  <2> QED BY <2>1, <2>2, <2>3 DEF Below, Position
<1>4. CASE Retry
  <2>1. at' = at /\ polls' = polls /\ line' = line /\ attempt' = attempt + 1
    BY <1>4 DEF Retry
  <2>2. TokenLeft' < TokenLeft
    BY <1>1, <1>2, <2>1 DEF TokenLeft
  <2> QED BY <2>1, <2>2 DEF Below, Position
<1>5. ASSUME NEW r, Replies(r) PROVE Below(Position', Position)
  BY <1>1, <1>5, RepliesNear
<1> QED BY <1>3, <1>4, <1>5 DEF GetToken

\* The calls before the first query.
LEMMA SetupNear ==
  ASSUME RunOK, Setup \/ LoadRHOBSCredentialsFromMC
  PROVE  Below(Position', Position)
<1> SUFFICES Rank[at'] < Rank[at]
  BY DEF Below, Position
<1>1. CASE GetCluster
  <2>1. at = "cluster" /\ at' \in {"token", "query", "findMC", "credentials", "over"}
    BY <1>1, FirstCalls DEF GetCluster, Body, Goto, Ends, FirstMC
  <2> QED BY <2>1 DEF Rank
<1>2. CASE FindMC
  <2>1. at = "findMC" /\ at' \in {"credentials", "over"}
    BY <1>2 DEF FindMC, Goto, InitFails, Ends
  <2> QED BY <2>1 DEF Rank
<1>3. CASE Credentials
  <2>1. at = "credentials" /\ at' \in {"topology", "over"}
    BY <1>3 DEF Credentials, Goto, InitFails, Ends
  <2> QED BY <2>1 DEF Rank
<1>4. CASE DetectTopology
  <2>1. at = "topology" /\ at' \in {"name", "configMap", "verify", "over"}
    BY <1>4 DEF DetectTopology, Goto, InitDone, Ends
  <2> QED BY <2>1 DEF Rank
<1>5. CASE ResolveName
  <2>1. at = "name" /\ at' = "hostedClusters"
    BY <1>5 DEF ResolveName, Goto
  <2> QED BY <2>1 DEF Rank
<1>6. CASE ResolveHCPNamespaces
  <2>1. at = "hostedClusters" /\ at' \in {"configMap", "verify", "over"}
    BY <1>6 DEF ResolveHCPNamespaces, Goto, InitDone, Ends
  <2> QED BY <2>1 DEF Rank
<1>7. CASE VerifyNamespace
  <2>1. at = "verify" /\ at' = "over"
    BY <1>7 DEF VerifyNamespace, Ends
  <2> QED BY <2>1 DEF Rank
<1>8. CASE LoadRHOBSCredentialsFromMC
  <2>1. at = "configMap" /\ at' \in {"token", "query", "over"}
    BY <1>8, FirstCalls DEF LoadRHOBSCredentialsFromMC, Body, Ends
  <2> QED BY <2>1 DEF Rank
<1> QED BY <1>1, <1>2, <1>3, <1>4, <1>5, <1>6, <1>7, <1>8 DEF Setup

LEMMA StepsNear ==
  ASSUME TypeOK, SpecSteps
  PROVE  Below(Position', Position)
<1>1. RunOK
  BY Groups
<1>2. CASE SendQuery
  <2>1. at = "query" /\ \E r : Replies(r)
    BY <1>2 DEF SendQuery
  <2> QED BY <1>1, <2>1, RepliesNear
<1> QED BY <1>1, <1>2, SetupNear, TokenNear DEF SpecSteps, Setup

LEMMA OthersDoNotDelay ==
  ASSUME StartInv, [Next]_vars, at # "over", ~SpecSteps
  PROVE  at' = at /\ Position' = Position
<1>1. UNCHANGED run
  BY DEF StartInv, Next, BeforeSuite, Start, Environment, Publish, BackendMoves, vars
<1> QED BY <1>1 DEF run, Position, TokenLeft

\* No call leaves a spec as far from its end as it was, whatever answer it gets, and neither
\* the ConfigMap nor the backend, which change meanwhile, ever send it back.
THEOREM Approaches ==
  Spec => /\ [](Position \in Positions)
          /\ [][at # "over" => IF SpecSteps THEN Below(Position', Position)
                                            ELSE Position' = Position]_vars
<1>1. ConfigInv => Position \in Positions
  BY PositionType DEF ConfigInv
<1>2. ConfigInv /\ [Next]_vars =>
        [at # "over" => IF SpecSteps THEN Below(Position', Position)
                                     ELSE Position' = Position]_vars
  BY StepsNear, OthersDoNotDelay DEF ConfigInv
<1> QED BY <1>1, <1>2, ConfigInvHolds, PTL DEF Spec

Stands(p) == at # "over" /\ Position = p
Nearer(p) == at = "over" \/ Below(Position, p)

\* If a spec that was started keeps taking steps, then from any position it comes to its end
\* or strictly nearer to it.
THEOREM EndApproaches ==
  ASSUME NEW p \in Positions
  PROVE  Spec /\ [](at # "over" => <><<SpecSteps>>_vars) => [](Stands(p) => <>Nearer(p))
<1>1. ConfigInv /\ Stands(p) /\ [Next]_vars => Stands(p)' \/ Nearer(p)'
  BY StepsNear, OthersDoNotDelay DEF ConfigInv, Stands, Nearer
<1>2. ConfigInv /\ Stands(p) /\ SpecSteps => Nearer(p)'
  BY StepsNear DEF ConfigInv, Stands, Nearer
<1>3. Stands(p) => at # "over"
  BY DEF Stands
<1> QED BY <1>1, <1>2, <1>3, ConfigInvHolds, PTL DEF Spec
=============================================================================
