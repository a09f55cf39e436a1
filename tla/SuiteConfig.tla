---------------------------- MODULE SuiteConfig ----------------------------
(***************************************************************************)
(* What BeforeSuite makes of the process's environment: pkg/config's Load. *)
(* The configuration it returns is the one object every spec of the        *)
(* process shares.  A value is told from another by where it comes from,   *)
(* which is all the later steps can mix up.                                *)
(***************************************************************************)
EXTENDS Integers

Unset == 0       \* the empty string
Explicit == -1   \* a metrics URL that was given, not derived
Loaded == 1      \* given by the environment or the YAML file; the ConfigMap's versions follow

\* The fields HasRHOBSAccess asks for.
Access == {"probe", "id", "secret", "issuer"}

Fields == Access \cup
  {"metrics", "token", "client", "clientSecret", "nodes", "cluster", "mc", "topology"}

\* Tagged yaml:"-", or not a field of the file at all.
EnvOnly == {"token", "client", "clientSecret", "secret"}

Spellings == {"hcp", "HCP", "classic"}
Lower == [hcp |-> "hcp", HCP |-> "hcp", classic |-> "classic"]

(***************************************************************************)
(* The surroundings of a process: the variables that are set, the YAML     *)
(* file (none, one that cannot be read or parsed, or the fields it has),   *)
(* how the topology is spelt, whether COMPUTE_NODES is a number, and       *)
(* whether MC_KUBECONFIG names a file.                                     *)
(***************************************************************************)
Surroundings ==
  [env : SUBSET Fields, file : SUBSET Fields, read : {"none", "bad", "ok"},
   spelling : Spellings, number : BOOLEAN, kubeconfig : BOOLEAN]

Given(s, f) == f \in s.env \/ (s.read = "ok" /\ f \in s.file \ EnvOnly)

LoadFails(s) ==
  \/ s.read = "bad"
  \/ "nodes" \in s.env /\ ~s.number
  \/ ~Given(s, "token") /\ ~(Given(s, "client") /\ Given(s, "clientSecret"))

\* Only the variable is trimmed and put in lower case; the file's value is taken as it is.
ClusterTopology(s) ==
  IF "topology" \in s.env THEN Lower[s.spelling]
  ELSE IF Given(s, "topology") THEN s.spelling ELSE ""

\* "/probes" cut off the probe URL, unless there is a metrics URL already.
Derive(metrics, probe) == IF metrics = Unset THEN probe ELSE metrics

\* Slip: the metrics URL must have been given as well.
MetricsGivenToo(c) == c.metrics = Explicit /\ \A f \in Access : c.access[f] # Unset

HasRHOBSAccess(c) == \A f \in Access : c.access[f] # Unset

Load(s) ==
  LET access == [f \in Access |-> IF Given(s, f) THEN Loaded ELSE Unset] IN
  [access |-> access,
   metrics |-> Derive(IF Given(s, "metrics") THEN Explicit ELSE Unset, access["probe"]),
   topology |-> ClusterTopology(s),
   cluster |-> Given(s, "cluster"),
   mc |-> Given(s, "mc")]
=============================================================================
