---------------------------- MODULE MCTestSpecs ----------------------------
(***************************************************************************)
(* Two executions of one spec against the same cluster.                    *)
(***************************************************************************)
EXTENDS TestSpecs, TLC

CONSTANTS r1, r2
=============================================================================
