----------------------------- MODULE CloudTrail -----------------------------
(***************************************************************************)
(* pkg/verifiers/cloudtrail.go: the events of the last hours, newest       *)
(* first, page by page, with a limit on the pages.  The token of a page    *)
(* pins the place, so what is logged later is not seen and not modelled.   *)
(***************************************************************************)
EXTENDS HealthCheck, Integers, Sequences

CONSTANTS
  Logs,      \* what the lookup may find
  MaxPages,  \* maxPages
  PageSize   \* events of a page

ASSUME CloudTrailAssumption == MaxPages \in Nat \ {0} /\ PageSize \in Nat \ {0}

VARIABLES
  log,     \* the events, newest first
  page,    \* pages read
  denied   \* deniedEvents is not empty

trailVars == <<log, page, denied>>

(***************************************************************************)
(* An event: whether the name, the time and a parsable text are there,     *)
(* whether the text holds the filter string, whether the error code or the *)
(* error message is a denial, the API action, and the roles that the       *)
(* identity's ARN and its session issuer's ARN name.                       *)
(***************************************************************************)
Roles == {"none", "installer", "operator"}
Events ==
  [complete : BOOLEAN, mine : BOOLEAN, refused : BOOLEAN, name : {"DeleteListener", "other"},
   arn : Roles, issuer : Roles]

ASSUME LogAssumption == Logs \subseteq Seq(Events)

TrailInit == log = <<>> /\ page = 0 /\ denied = FALSE

callerARNFromEvent(e) == IF e.arn # "none" THEN e.arn ELSE e.issuer

\* Slip: the action or the role is enough.
KnownByEither(e) == e.name = "DeleteListener" \/ callerARNFromEvent(e) = "installer"

isKnownDenial(e) == e.name = "DeleteListener" /\ callerARNFromEvent(e) = "installer"

Counted(e) == e.complete /\ e.mine /\ e.refused /\ ~isKnownDenial(e)

FindLog ==
  /\ check = "cloudTrail" /\ at = "begin"
  /\ log' \in Logs
  /\ Goto("lookup") /\ UNCHANGED <<page, denied>>

\* Slip: the pages are counted from 0 to the limit.
OnePageMore == page < MaxPages

MorePages == page + 1 < MaxPages

\* No token comes with the last page.
LookupEvents ==
  /\ check = "cloudTrail" /\ at = "lookup"
  /\ \/ Ends("error") /\ UNCHANGED <<page, denied>>
     \/ /\ denied' = (denied \/ \E i \in DOMAIN log :
             i > page * PageSize /\ i <= (page + 1) * PageSize /\ Counted(log[i]))
        /\ page' = page + 1
        /\ IF MorePages /\ (page + 1) * PageSize < Len(log) THEN Goto("lookup")
           ELSE Ends(IF denied' THEN "found" ELSE "nil")
  /\ UNCHANGED log

TrailSteps == FindLog \/ LookupEvents

TrailTypeOK == log \in Logs \cup {<<>>} /\ page \in 0 .. MaxPages /\ denied \in BOOLEAN
=============================================================================
