------------------------------- MODULE Rhobs -------------------------------
(***************************************************************************)
(* The monitoring backend as pkg/verifiers/rhobs.go sees it: the probes    *)
(* kept for the cluster, the probe_success series they feed, the two       *)
(* recording rules computed from it, and the counts the cardinality gate   *)
(* reads.  External: other systems change it at any time.                  *)
(***************************************************************************)
EXTENDS Integers

CONSTANTS
  Counts,             \* what a count of series or samples may be
  MaxDeltaPct,        \* the gate's threshold of growth, in per cent
  MaxSeriesPerMetric  \* the gate's threshold of series of one metric

ASSUME RhobsAssumption ==
  Counts \subseteq Nat /\ MaxDeltaPct \in Nat /\ MaxSeriesPerMetric \in Nat

VARIABLE backend

Absent == -1  \* an empty result set
Rules == {"active", "blackbox"}
Readings == {"head", "head2h", "rate", "rate2h", "top"}

Backends ==
  [probes : 0 .. 2, label : {"public", "private"}, data : BOOLEAN, rules : SUBSET Rules,
   tsdb : [Readings -> Counts \cup {Absent}]]

\* The state nobody reads.
Quiet ==
  [probes |-> 0, label |-> "public", data |-> FALSE, rules |-> {}, tsdb |-> [r \in Readings |-> Absent]]

(***************************************************************************)
(* What moves.  Rules look back an hour, so they outlive the data.         *)
(***************************************************************************)
ProbesChange == \E n \in 0 .. 2 : backend' = [backend EXCEPT !.probes = n]
DataChanges == backend' = [backend EXCEPT !.data = ~@]
RuleEvaluates ==
  /\ backend.data
  /\ \E r \in Rules \ backend.rules : backend' = [backend EXCEPT !.rules = @ \cup {r}]

\* A deployment drives a present count up; what it was two hours ago stays.
Grows ==
  \E r \in {"head", "rate", "top"} : \E n \in Counts :
    /\ backend.tsdb[r] # Absent
    /\ n > backend.tsdb[r]
    /\ backend' = [backend EXCEPT !.tsdb[r] = n]
=============================================================================
