--------------------------- MODULE MCHealthChecks ---------------------------
(***************************************************************************)
(* Instance of HealthChecks: two pages of two events are read, of logs of  *)
(* up to five.                                                             *)
(***************************************************************************)
EXTENDS HealthChecks

Denial ==
  [complete |-> TRUE, mine |-> TRUE, refused |-> TRUE, name |-> "other", arn |-> "installer",
   issuer |-> "none"]

MCEvents ==
  {Denial,
   [Denial EXCEPT !.name = "DeleteListener"],
   [Denial EXCEPT !.name = "DeleteListener", !.arn = "none", !.issuer = "installer"],
   [Denial EXCEPT !.name = "DeleteListener", !.arn = "operator", !.issuer = "installer"],
   [Denial EXCEPT !.mine = FALSE],
   [Denial EXCEPT !.complete = FALSE]}

MCLogs ==
  LET Harmless == {e \in MCEvents : ~Regression(e)} IN
  UNION {[1 .. n -> MCEvents] : n \in 0 .. 3} \cup
  {<<a, b, b, a, c>> : a \in Harmless, b \in MCEvents, c \in MCEvents}
=============================================================================
