--------------------------- MODULE KubeNamespace ---------------------------
(***************************************************************************)
(* The API server of the cluster under test, as the data-plane specs of    *)
(* test/e2e use it: one namespace, whose name is fixed by the spec, and    *)
(* the objects the spec creates in it.  Deleting the namespace only marks  *)
(* it; a controller removes its content and then the namespace, and until  *)
(* then its name is taken and nothing can be created in it.                *)
(* External: the repository only calls it through client-go.               *)
(***************************************************************************)
CONSTANTS
  Runs,     \* the executions of the spec
  Objects,  \* the objects it creates, by name
  None      \* no run

VARIABLES
  phase,    \* of the namespace: "absent", "active", "terminating"
  founder,  \* history: the run whose call created it
  maker,    \* history: the run that created each object there is
  status    \* of each object: "none", "pending", "good", "bad"

kubeVars == <<phase, founder, maker, status>>

KubeAssumption == None \notin Runs
ASSUME KubeAssumption

KubeTypeOK ==
  /\ phase \in {"absent", "active", "terminating"}
  /\ founder \in Runs \cup {None}
  /\ maker \in [Objects -> Runs \cup {None}]
  /\ status \in [Objects -> {"none", "pending", "good", "bad"}]

\* A cluster that holds nothing of this spec.
KubeInit ==
  /\ phase = "absent"
  /\ founder = None
  /\ maker = [o \in Objects |-> None]
  /\ status = [o \in Objects |-> "none"]

There(o) == status[o] # "none"

(***************************************************************************)
(* The effect of a call that is accepted.                                  *)
(***************************************************************************)
NamespaceCreated(r) ==
  /\ phase = "absent"
  /\ phase' = "active"
  /\ founder' = r
  /\ UNCHANGED <<maker, status>>

Creatable(o) == phase = "active" /\ ~There(o)

ObjectCreated(o, r) ==
  /\ Creatable(o)
  /\ maker' = [maker EXCEPT ![o] = r]
  /\ status' = [status EXCEPT ![o] = "pending"]
  /\ UNCHANGED <<phase, founder>>

NamespaceDeleted ==
  /\ phase # "absent"
  /\ phase' = "terminating"
  /\ UNCHANGED <<founder, maker, status>>

(***************************************************************************)
(* The controllers.  A deployment becomes available and may lose it again, *)
(* a claim is bound, a pod completes and may have failed; a service or a   *)
(* policy has no status to wait for.                                       *)
(***************************************************************************)
Progresses(o) ==
  /\ status[o] = "pending" /\ o \in {"deployment", "claim", "pod"}
  /\ \/ status' = [status EXCEPT ![o] = "good"]
     \/ o = "pod" /\ status' = [status EXCEPT ![o] = "bad"]
  /\ UNCHANGED <<phase, founder, maker>>

Regresses(o) ==
  /\ o = "deployment" /\ status[o] = "good"
  /\ status' = [status EXCEPT ![o] = "pending"]
  /\ UNCHANGED <<phase, founder, maker>>

ContentRemoved(o) ==
  /\ phase = "terminating" /\ There(o)
  /\ maker' = [maker EXCEPT ![o] = None]
  /\ status' = [status EXCEPT ![o] = "none"]
  /\ UNCHANGED <<phase, founder>>

NamespaceGone ==
  /\ phase = "terminating" /\ \A o \in Objects : ~There(o)
  /\ phase' = "absent"
  /\ founder' = None
  /\ UNCHANGED <<maker, status>>
=============================================================================
