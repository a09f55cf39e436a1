--------------------------- MODULE MCVpcCleanup ---------------------------
(***************************************************************************)
(* A VPC of two ENIs, the default and two more groups and two subnets.     *)
(* EC2 lets the rules of the two groups refer to each other, which is the  *)
(* cycle the revoke pass is for.                                           *)
(***************************************************************************)
EXTENDS VpcCleanup, TLC

CONSTANTS e1, e2, sgDefault, sgA, sgB, n1, n2

MCEniSg == e1 :> sgA @@ e2 :> sgDefault
MCEniSubnet == e1 :> n1 @@ e2 :> n2

CycleRules ==
  {[owner |-> sgA, dir |-> "ingress", peer |-> sgB],
   [owner |-> sgB, dir |-> "egress", peer |-> sgA]}

\* The same cycle, entered from the default group as well.
DefaultRefersRules ==
  CycleRules \cup {[owner |-> sgDefault, dir |-> "ingress", peer |-> sgA]}
=============================================================================
