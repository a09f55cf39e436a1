--------------------------- MODULE CascadeDelete ---------------------------
(***************************************************************************)
(* What CleanupVPCResources promises, whatever calls it makes: the kinds   *)
(* of resources are emptied in a fixed order, a kind is left only when     *)
(* everything that stood there at the call is gone, and nothing protected  *)
(* is touched.  The other actors of the account change the VPC meanwhile,  *)
(* but never bring back what is gone (identifiers are not reused).         *)
(***************************************************************************)
EXTENDS Naturals

CONSTANTS Resources, Protected, NKinds

VARIABLES
  stage,   \* the kind being emptied; NKinds + 1: success; 0: error
  live,    \* the resources of each kind
  goal,    \* those that stood there when the cleanup was called
  others   \* steps of the other actors

cascadeVars == <<stage, live, goal, others>>

Kinds == 1..NKinds

CascadeInit ==
  /\ stage = 1
  /\ live \in [Kinds -> SUBSET Resources]
  /\ goal = [k \in Kinds |-> live[k] \ Protected]
  /\ others = 0

DropOne ==
  \E r \in live[stage] \ Protected : live' = [live EXCEPT ![stage] = @ \ {r}]

Remove == stage \in Kinds /\ DropOne /\ UNCHANGED <<stage, goal, others>>

Advance ==
  /\ stage \in Kinds
  /\ live[stage] \cap goal[stage] = {}
  /\ stage' = stage + 1
  /\ UNCHANGED <<live, goal, others>>

Fail ==
  /\ stage \in Kinds
  /\ stage' = 0
  /\ DropOne \/ UNCHANGED live
  /\ UNCHANGED <<goal, others>>

Others ==
  /\ others' = others + 1
  /\ live' \in [Kinds -> SUBSET Resources]
  /\ \A k \in Kinds : (live'[k] \ live[k]) \cap goal[k] = {}
  /\ UNCHANGED <<stage, goal>>

CascadeNext == Remove \/ Advance \/ Fail \/ Others

CascadeSpec == CascadeInit /\ [][CascadeNext]_cascadeVars

\* When a kind's turn has passed, what stood there at the call is gone and stays gone, while
\* the later kinds are emptied and after success.
EarlierGone == \A k \in Kinds : k < stage => live[k] \cap goal[k] = {}

\* What the cleanup itself deletes is of the kind whose turn it is, and not protected.
OneKindAtATime ==
  others' = others =>
    \A k \in Kinds : live'[k] # live[k] => k = stage /\ live[k] \cap Protected \subseteq live'[k]
=============================================================================
