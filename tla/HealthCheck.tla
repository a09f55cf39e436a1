---------------------------- MODULE HealthCheck ----------------------------
(***************************************************************************)
(* What the checks of pkg/verifiers have in common: one call after the     *)
(* other, and an error in the end, or none.                                *)
(***************************************************************************)
VARIABLES
  check,    \* which one runs
  at,       \* the call it makes next, or "over"
  verdict   \* "none", "nil", "error" (a call failed, or time is up), "found" (what it looks for), "skipped"

control == <<check, at, verdict>>

Goto(call) == at' = call /\ UNCHANGED <<check, verdict>>
Ends(v) == at' = "over" /\ verdict' = v /\ UNCHANGED check
Elsewhere == at # "over" /\ UNCHANGED control
=============================================================================
