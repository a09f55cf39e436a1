---------------------------- MODULE RunVerifiers ----------------------------
(***************************************************************************)
(* RunVerifiers (pkg/verifiers/verifier.go): a goroutine per verifier, a   *)
(* buffered channel for the errors and a WaitGroup; and the Eventually     *)
(* around it in test/e2e/cluster_lifecycle_test.go, which calls it until   *)
(* it returns nil or the timeout expires.  The cluster changes meanwhile.  *)
(***************************************************************************)
EXTENDS FiniteSets, Naturals

CONSTANTS
  Verifiers,       \* the verifiers passed to the call
  ClusterStates,   \* what the API server can show
  Passes(_, _),    \* Passes(v, state): what v concludes from one look at state
  MaxChanges,      \* bound: changes of the cluster
  MaxCalls         \* Eventually: polls that fit in the timeout

ASSUME VerifiersAssumption ==
  /\ IsFiniteSet(Verifiers)
  /\ \A v \in Verifiers, s \in ClusterStates : Passes(v, s) \in BOOLEAN
  /\ MaxChanges \in Nat
  /\ MaxCalls \in Nat \ {0}

VARIABLES
  cluster, changes,   \* the API server's state
  main,      \* the calling goroutine: "spawn" (its loop, then Wait), "drain", "returned"
  todo,      \* verifiers the loop has not reached
  proc,      \* each goroutine: "idle", "verify", "send", "finish", "exited"
  wg,        \* the WaitGroup's counter
  errCh,     \* errors in the channel, one per verifier at most
  closed,    \* close(errCh) was called
  errs,      \* errors drained from it
  result,    \* "none", "nil" or "error"
  verdict,   \* history: what each verifier of this call concluded
  looked,    \* history: the cluster as each verifier of this call saw it
  calls,     \* calls made by Eventually so far
  outcome    \* of Eventually: "none", "succeeded", "timed out"

callState == <<main, todo, proc, wg, errCh, closed, errs, result, verdict, looked>>
vars == <<cluster, changes, callState, calls, outcome>>

\* make(chan error, len(verifiers)).
OneSlot == 1
Capacity == Cardinality(Verifiers)

Init ==
  /\ cluster \in ClusterStates
  /\ changes = 0
  /\ main = "spawn"
  /\ todo = Verifiers
  /\ proc = [v \in Verifiers |-> "idle"]
  /\ wg = 0
  /\ errCh = {}
  /\ closed = FALSE
  /\ errs = {}
  /\ result = "none"
  /\ verdict = [v \in Verifiers |-> "none"]
  /\ looked = [v \in Verifiers |-> cluster]
  /\ calls = 1
  /\ outcome = "none"

(***************************************************************************)
(* The goroutines.                                                         *)
(***************************************************************************)
Move(v, from, to) == proc[v] = from /\ proc' = [proc EXCEPT ![v] = to]

\* One look at the API server; a List that fails is a failed verifier too.
Verify(v) ==
  /\ \E listed \in BOOLEAN :
       LET ok == listed /\ Passes(v, cluster) IN
       /\ Move(v, "verify", IF ok THEN "finish" ELSE "send")
       /\ verdict' = [verdict EXCEPT ![v] = IF ok THEN "ok" ELSE "failed"]
  /\ looked' = [looked EXCEPT ![v] = cluster]
  /\ UNCHANGED <<cluster, changes, main, todo, wg, errCh, closed, errs, result, calls, outcome>>

Send(v) ==
  /\ Move(v, "send", "finish")
  /\ ~closed
  /\ Cardinality(errCh) < Capacity
  /\ errCh' = errCh \cup {v}
  /\ UNCHANGED <<cluster, changes, main, todo, wg, closed, errs, result, verdict, looked, calls, outcome>>

\* Slip: wg.Done() before the error is sent, in place of the deferred call.
DoneBeforeSend(v) ==
  /\ \/ Move(v, "finish", "exited") /\ wg' = wg - 1
     \/ Move(v, "send", "late") /\ wg' = wg - 1
     \/ Move(v, "late", "exited") /\ ~closed /\ UNCHANGED wg
  /\ UNCHANGED <<cluster, changes, main, todo, errCh, closed, errs, result, verdict, looked, calls, outcome>>

Done(v) ==
  /\ Move(v, "finish", "exited")
  /\ wg' = wg - 1
  /\ UNCHANGED <<cluster, changes, main, todo, errCh, closed, errs, result, verdict, looked, calls, outcome>>

(***************************************************************************)
(* The caller.                                                             *)
(***************************************************************************)
\* Slip: wg.Add(1) left to the goroutine, which has not run yet.
SpawnWithoutAdd(v) ==
  /\ main = "spawn" /\ v \in todo
  /\ todo' = todo \ {v}
  /\ Move(v, "idle", "verify")
  /\ UNCHANGED <<cluster, changes, main, wg, errCh, closed, errs, result, verdict, looked, calls, outcome>>

Spawn(v) ==
  /\ main = "spawn" /\ v \in todo
  /\ todo' = todo \ {v}
  /\ wg' = wg + 1
  /\ Move(v, "idle", "verify")
  /\ UNCHANGED <<cluster, changes, main, errCh, closed, errs, result, verdict, looked, calls, outcome>>

\* wg.Wait() returns, close(errCh).
WaitAndClose ==
  /\ main = "spawn" /\ todo = {} /\ wg = 0
  /\ main' = "drain"
  /\ closed' = TRUE
  /\ UNCHANGED <<cluster, changes, todo, proc, wg, errCh, errs, result, verdict, looked, calls, outcome>>

Drain(v) ==
  /\ main = "drain" /\ v \in errCh
  /\ errCh' = errCh \ {v}
  /\ errs' = errs \cup {v}
  /\ UNCHANGED <<cluster, changes, main, todo, proc, wg, closed, result, verdict, looked, calls, outcome>>

\* Slip: the range over the channel is left after the first error.
JoinEarly ==
  /\ main = "drain" /\ (errCh = {} \/ errs # {})
  /\ main' = "returned"
  /\ result' = IF errs = {} THEN "nil" ELSE "error"
  /\ UNCHANGED <<cluster, changes, todo, proc, wg, errCh, closed, errs, verdict, looked, calls, outcome>>

\* errors.Join: nil for no error.
Join ==
  /\ main = "drain" /\ errCh = {}
  /\ main' = "returned"
  /\ result' = IF errs = {} THEN "nil" ELSE "error"
  /\ UNCHANGED <<cluster, changes, todo, proc, wg, errCh, closed, errs, verdict, looked, calls, outcome>>

(***************************************************************************)
(* Eventually(...).WithTimeout(...).WithPolling(...).Should(Succeed()).    *)
(***************************************************************************)
CallAgain ==
  /\ result = "error" /\ outcome = "none" /\ calls < MaxCalls
  /\ calls' = calls + 1
  /\ main' = "spawn"
  /\ todo' = Verifiers
  /\ proc' = [v \in Verifiers |-> "idle"]
  /\ wg' = 0 /\ errCh' = {} /\ closed' = FALSE /\ errs' = {}
  /\ result' = "none"
  /\ verdict' = [v \in Verifiers |-> "none"]
  /\ looked' = [v \in Verifiers |-> cluster]
  /\ UNCHANGED <<cluster, changes, outcome>>

\* The timeout can also pass before MaxCalls polls: a call takes time.
Settle ==
  /\ result # "none" /\ outcome = "none"
  /\ outcome' = IF result = "nil" THEN "succeeded" ELSE "timed out"
  /\ UNCHANGED <<cluster, changes, callState, calls>>

ClusterChanges ==
  /\ changes < MaxChanges
  /\ changes' = changes + 1
  /\ cluster' \in ClusterStates
  /\ UNCHANGED <<callState, calls, outcome>>

Goroutine(v) == Verify(v) \/ Send(v) \/ Done(v)
Caller ==
  \/ \E v \in Verifiers : Spawn(v) \/ Drain(v)
  \/ WaitAndClose \/ Join \/ CallAgain \/ Settle

Next ==
  \/ \E v \in Verifiers : Goroutine(v)
  \/ Caller
  \/ ClusterChanges

Spec == Init /\ [][Next]_vars

\* Go schedules every goroutine that can run, and a List call returns.
FairSpec ==
  /\ Spec
  /\ \A v \in Verifiers : WF_vars(Goroutine(v))
  /\ WF_vars(Caller)

(***************************************************************************)
(* Properties.                                                             *)
(***************************************************************************)
TypeOK ==
  /\ cluster \in ClusterStates
  /\ changes \in Nat
  /\ main \in {"spawn", "drain", "returned"}
  /\ todo \subseteq Verifiers
  /\ proc \in [Verifiers -> {"idle", "verify", "send", "finish", "exited"}]
  /\ wg \in Nat
  /\ errCh \subseteq Verifiers
  /\ closed \in BOOLEAN
  /\ errs \subseteq Verifiers
  /\ result \in {"none", "nil", "error"}
  /\ verdict \in [Verifiers -> {"none", "ok", "failed"}]
  /\ looked \in [Verifiers -> ClusterStates]
  /\ calls \in Nat
  /\ outcome \in {"none", "succeeded", "timed out"}

\* A goroutine about to send finds the channel open and a free slot, so it neither
\* panics nor keeps the WaitGroup, which is waited for before anything is drained.
SendNeverBlocks ==
  \A v \in Verifiers : proc[v] = "send" => ~closed /\ Cardinality(errCh) < Capacity

\* Eventually succeeds only on a call in which every verifier looked, after that call
\* began, at a cluster it was content with (each at its own moment, see ParallelCheck).
SucceedMeansEachPassed ==
  outcome = "succeeded" =>
    \A v \in Verifiers : verdict[v] = "ok" /\ Passes(v, looked[v])

\* No goroutine of a call outlives it: the next poll never meets one of the last.
NoGoroutineLeaks ==
  main # "spawn" => \A v \in Verifiers : proc[v] = "exited"

\* The expectation settles: no poll hangs on the channel or on the WaitGroup.
Settles == <>(outcome # "none")

Check == INSTANCE ParallelCheck WITH
  answer <- IF main = "returned" THEN <<errs>> ELSE <<>>

\* "executes all verifiers in parallel and returns aggregated errors" (verifier.go:18).
ImplementsParallelCheck == Check!CheckSpec
=============================================================================
