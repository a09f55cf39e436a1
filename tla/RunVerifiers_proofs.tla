------------------------ MODULE RunVerifiers_proofs ------------------------
(***************************************************************************)
(* Proofs about RunVerifiers for any finite set of verifiers, any cluster  *)
(* and any number of polls.                                                *)
(***************************************************************************)
EXTENDS RunVerifiers, FiniteSetTheorems, TLAPS

\* The goroutines the WaitGroup counts, and those that have passed their send.
Active == {v \in Verifiers : proc[v] \in {"verify", "send", "finish"}}
Sent == {v \in Verifiers : proc[v] \in {"finish", "exited"} /\ verdict[v] = "failed"}

\* wg counts exactly the goroutines started and not finished.
CountInv == wg = Cardinality(Active)

\* Where the goroutines can be, by where the caller is.
PhaseInv ==
  /\ todo = {v \in Verifiers : proc[v] = "idle"}
  /\ main = "spawn" => ~closed /\ errs = {}
  /\ main # "spawn" => closed /\ todo = {} /\ Active = {}
  /\ main = "returned" <=> result # "none"

\* What a goroutine concluded, and where its error is.
VerdictInv ==
  /\ \A v \in Verifiers : verdict[v] = "none" <=> proc[v] \in {"idle", "verify"}
  /\ \A v \in Verifiers : proc[v] = "send" => verdict[v] = "failed"
  /\ \A v \in Verifiers : verdict[v] = "ok" => Passes(v, looked[v])
  /\ errCh \cup errs = Sent

ResultInv ==
  /\ main = "returned" => errCh = {}
  /\ result = "nil" => errs = {}
  /\ outcome # "none" => result # "none"
  /\ outcome = "succeeded" => result = "nil"

IInv == TypeOK /\ CountInv /\ PhaseInv /\ VerdictInv /\ ResultInv

-----------------------------------------------------------------------------
\* Any set of goroutines can be counted.
LEMMA Finite ==
  /\ IsFiniteSet(Active)
  /\ IsFiniteSet(Active')
  /\ \A S \in SUBSET Verifiers : IsFiniteSet(S) /\ Cardinality(S) \in Nat
<1>1. \A S \in SUBSET Verifiers : IsFiniteSet(S)
  BY FS_Subset, VerifiersAssumption
<1>2. \A S \in SUBSET Verifiers : Cardinality(S) \in Nat
  BY <1>1, FS_CardinalityType
<1>3. Active \in SUBSET Verifiers /\ Active' \in SUBSET Verifiers
  BY DEF Active
<1> QED BY <1>1, <1>2, <1>3

LEMMA InitInv == Init => IInv
<1> SUFFICES ASSUME Init PROVE IInv
  OBVIOUS
<1> USE DEF Init
<1>1. TypeOK
  BY VerifiersAssumption DEF TypeOK
<1>2. Active = {}
  BY DEF Active
<1>3. CountInv
  BY <1>2, FS_EmptySet DEF CountInv
<1>4. PhaseInv
  BY <1>2 DEF PhaseInv
<1>5. VerdictInv
  BY DEF VerdictInv, Sent
<1>6. ResultInv
  BY DEF ResultInv
<1> QED BY <1>1, <1>3, <1>4, <1>5, <1>6 DEF IInv

\* The steps of a goroutine.
LEMMA VerifyInv ==
  ASSUME IInv, NEW v \in Verifiers, Verify(v)
  PROVE  IInv'
<1>1. PICK listed \in BOOLEAN :
        LET ok == listed /\ Passes(v, cluster) IN
        /\ Move(v, "verify", IF ok THEN "finish" ELSE "send")
        /\ verdict' = [verdict EXCEPT ![v] = IF ok THEN "ok" ELSE "failed"]
  BY DEF Verify
<1> DEFINE ok == listed /\ Passes(v, cluster)
<1>2. /\ proc[v] = "verify"
      /\ proc' = [proc EXCEPT ![v] = IF ok THEN "finish" ELSE "send"]
      /\ verdict' = [verdict EXCEPT ![v] = IF ok THEN "ok" ELSE "failed"]
      /\ looked' = [looked EXCEPT ![v] = cluster]
      /\ UNCHANGED <<cluster, changes, main, todo, wg, errCh, closed, errs, result, calls, outcome>>
  BY <1>1 DEF Verify, Move
<1>3. ok \in BOOLEAN /\ (ok => Passes(v, cluster))
  BY VerifiersAssumption
<1> HIDE DEF ok
<1>4. TypeOK'
  BY <1>2, <1>3 DEF IInv, TypeOK
<1>5. Active' = Active
  BY <1>2, <1>3 DEF Active, IInv, TypeOK
<1>6. CountInv'
  BY <1>2, <1>5 DEF IInv, CountInv
<1>7. PhaseInv'
  BY <1>2, <1>3, <1>5 DEF IInv, PhaseInv, TypeOK
<1>8. verdict[v] = "none"
  BY <1>2 DEF IInv, VerdictInv
<1>9. VerdictInv'
  <2>1. Sent' = Sent
    <3>1. CASE ok
      BY <1>2, <1>8, <3>1 DEF Sent, IInv, TypeOK
    <3>2. CASE ~ok
      BY <1>2, <1>8, <3>2 DEF Sent, IInv, TypeOK
    <3> QED BY <3>1, <3>2
  <2>2. ASSUME NEW u \in Verifiers
        PROVE  /\ (verdict[u] = "none" <=> proc[u] \in {"idle", "verify"})'
               /\ (proc[u] = "send" => verdict[u] = "failed")'
               /\ (verdict[u] = "ok" => Passes(u, looked[u]))'
    <3>1. CASE u = v
      BY <1>2, <1>3, <3>1 DEF IInv, TypeOK
    <3>2. CASE u # v
      BY <1>2, <3>2 DEF IInv, TypeOK, VerdictInv
    <3> QED BY <3>1, <3>2
  <2> QED BY <1>2, <2>1, <2>2 DEF IInv, VerdictInv
<1>10. ResultInv'
  BY <1>2 DEF IInv, ResultInv
<1> QED BY <1>4, <1>6, <1>7, <1>9, <1>10 DEF IInv

LEMMA SendInv ==
  ASSUME IInv, NEW v \in Verifiers, Send(v)
  PROVE  IInv'
<1>1. /\ proc[v] = "send" /\ ~closed
      /\ proc' = [proc EXCEPT ![v] = "finish"]
      /\ errCh' = errCh \cup {v}
      /\ UNCHANGED <<cluster, changes, main, todo, wg, closed, errs, result, verdict, looked, calls, outcome>>
  BY DEF Send, Move
<1>2. TypeOK'
  BY <1>1 DEF IInv, TypeOK
<1>3. Active' = Active
  BY <1>1 DEF Active, IInv, TypeOK
<1>4. CountInv'
  BY <1>1, <1>3 DEF IInv, CountInv
<1>5. PhaseInv'
  BY <1>1, <1>3 DEF IInv, PhaseInv, TypeOK
<1>6. VerdictInv'
  <2>1. Sent' = Sent \cup {v}
    BY <1>1 DEF Sent, IInv, TypeOK, VerdictInv
  <2> QED BY <1>1, <2>1 DEF IInv, TypeOK, VerdictInv
<1>7. main = "spawn"
  BY <1>1 DEF IInv, PhaseInv
<1>8. ResultInv'
  BY <1>1, <1>7 DEF IInv, ResultInv, PhaseInv
<1> QED BY <1>2, <1>4, <1>5, <1>6, <1>8 DEF IInv

LEMMA DoneInv ==
  ASSUME IInv, NEW v \in Verifiers, Done(v)
  PROVE  IInv'
<1>1. /\ proc[v] = "finish"
      /\ proc' = [proc EXCEPT ![v] = "exited"]
      /\ wg' = wg - 1
      /\ UNCHANGED <<cluster, changes, main, todo, errCh, closed, errs, result, verdict, looked, calls, outcome>>
  BY DEF Done, Move
<1>2. Active' = Active \ {v} /\ v \in Active
  BY <1>1 DEF Active, IInv, TypeOK
<1>3. wg' = Cardinality(Active')
  BY <1>1, <1>2, Finite, FS_RemoveElement DEF IInv, CountInv
<1>4. wg' \in Nat
  BY <1>3, Finite, FS_CardinalityType
<1>5. TypeOK'
  BY <1>1, <1>4 DEF IInv, TypeOK
<1>6. PhaseInv'
  BY <1>1, <1>2 DEF IInv, PhaseInv, TypeOK
<1>7. VerdictInv'
  <2>1. Sent' = Sent
    BY <1>1 DEF Sent, IInv, TypeOK
  <2> QED BY <1>1, <2>1 DEF IInv, TypeOK, VerdictInv
<1>8. ResultInv'
  BY <1>1 DEF IInv, ResultInv
<1> QED BY <1>3, <1>5, <1>6, <1>7, <1>8 DEF IInv, CountInv

-----------------------------------------------------------------------------
\* The steps of the caller.
LEMMA SpawnInv ==
  ASSUME IInv, NEW v \in Verifiers, Spawn(v)
  PROVE  IInv'
<1>1. /\ main = "spawn" /\ v \in todo /\ proc[v] = "idle"
      /\ todo' = todo \ {v}
      /\ wg' = wg + 1
      /\ proc' = [proc EXCEPT ![v] = "verify"]
      /\ UNCHANGED <<cluster, changes, main, errCh, closed, errs, result, verdict, looked, calls, outcome>>
  BY DEF Spawn, Move
<1>2. TypeOK'
  <2>1. wg \in Nat
    BY DEF IInv, TypeOK
  <2>2. wg' \in Nat
    BY <1>1, <2>1
  <2> QED BY <1>1, <2>2 DEF IInv, TypeOK
<1>3. Active' = Active \cup {v} /\ v \notin Active
  BY <1>1 DEF Active, IInv, TypeOK
<1>4. CountInv'
  BY <1>1, <1>3, Finite, FS_AddElement DEF IInv, CountInv
<1>5. PhaseInv'
  BY <1>1 DEF IInv, PhaseInv, TypeOK
<1>6. VerdictInv'
  <2>1. Sent' = Sent
    BY <1>1 DEF Sent, IInv, TypeOK, VerdictInv
  <2> QED BY <1>1, <2>1 DEF IInv, TypeOK, VerdictInv
<1>7. ResultInv'
  BY <1>1 DEF IInv, ResultInv
<1> QED BY <1>2, <1>4, <1>5, <1>6, <1>7 DEF IInv

\* The WaitGroup reached zero: every goroutine is through.
LEMMA WaitInv ==
  ASSUME IInv, WaitAndClose
  PROVE  IInv'
<1>1. Active = {}
  BY Finite, FS_EmptySet DEF WaitAndClose, IInv, CountInv
<1>2. Active' = Active /\ Sent' = Sent
  BY DEF WaitAndClose, Active, Sent
<1>3. TypeOK'
  BY DEF WaitAndClose, IInv, TypeOK
<1>4. CountInv'
  BY <1>2 DEF WaitAndClose, IInv, CountInv
<1>5. PhaseInv'
  BY <1>1, <1>2 DEF WaitAndClose, IInv, PhaseInv, TypeOK
<1>6. VerdictInv'
  BY <1>2 DEF WaitAndClose, IInv, VerdictInv
<1>7. ResultInv'
  BY DEF WaitAndClose, IInv, ResultInv
<1> QED BY <1>3, <1>4, <1>5, <1>6, <1>7 DEF IInv

LEMMA DrainInv ==
  ASSUME IInv, NEW v \in Verifiers, Drain(v)
  PROVE  IInv'
<1>1. Active' = Active /\ Sent' = Sent
  BY DEF Drain, Active, Sent
<1>2. TypeOK'
  BY DEF Drain, IInv, TypeOK
<1>3. CountInv'
  BY <1>1 DEF Drain, IInv, CountInv
<1>4. PhaseInv'
  BY <1>1 DEF Drain, IInv, PhaseInv, TypeOK
<1>5. VerdictInv'
  BY <1>1 DEF Drain, IInv, VerdictInv
<1>6. result = "none"
  BY DEF Drain, IInv, PhaseInv
<1>7. ResultInv'
  BY <1>6 DEF Drain, IInv, ResultInv
<1> QED BY <1>2, <1>3, <1>4, <1>5, <1>7 DEF IInv

LEMMA JoinInv ==
  ASSUME IInv, Join
  PROVE  IInv'
<1>1. Active' = Active /\ Sent' = Sent
  BY DEF Join, Active, Sent
<1>2. TypeOK'
  BY DEF Join, IInv, TypeOK
<1>3. CountInv'
  BY <1>1 DEF Join, IInv, CountInv
<1>4. PhaseInv'
  BY <1>1 DEF Join, IInv, PhaseInv, TypeOK
<1>5. VerdictInv'
  BY <1>1 DEF Join, IInv, VerdictInv
<1>6. result = "none"
  BY DEF Join, IInv, PhaseInv
<1>7. ResultInv'
  BY <1>6 DEF Join, IInv, ResultInv
<1> QED BY <1>2, <1>3, <1>4, <1>5, <1>7 DEF IInv

LEMMA CallAgainInv ==
  ASSUME IInv, CallAgain
  PROVE  IInv'
<1>1. Active' = {} /\ Sent' = {}
  BY DEF CallAgain, Active, Sent
<1>2. TypeOK'
  <2>1. calls \in Nat /\ calls' = calls + 1
    BY DEF CallAgain, IInv, TypeOK
  <2>2. calls' \in Nat
    BY <2>1
  <2> QED BY <2>2 DEF CallAgain, IInv, TypeOK
<1>3. CountInv'
  BY <1>1, FS_EmptySet DEF CallAgain, CountInv
<1>4. PhaseInv'
  BY <1>1 DEF CallAgain, PhaseInv
<1>5. VerdictInv'
  BY <1>1 DEF CallAgain, VerdictInv
<1>6. ResultInv'
  BY DEF CallAgain, ResultInv, IInv
<1> QED BY <1>2, <1>3, <1>4, <1>5, <1>6 DEF IInv

\* Steps that leave the call alone.
LEMMA OutsideInv ==
  ASSUME IInv, Settle \/ ClusterChanges \/ UNCHANGED vars
  PROVE  IInv'
<1>1. UNCHANGED callState
  BY DEF Settle, ClusterChanges, vars
<1>2. Active' = Active /\ Sent' = Sent
  BY <1>1 DEF callState, Active, Sent
<1>3. TypeOK'
  <2>1. changes \in Nat /\ (changes' = changes \/ changes' = changes + 1)
    BY DEF Settle, ClusterChanges, vars, IInv, TypeOK
  <2>2. changes' \in Nat
    BY <2>1
  <2> QED BY <1>1, <2>2 DEF callState, Settle, ClusterChanges, vars, IInv, TypeOK
<1>4. CountInv'
  BY <1>1, <1>2 DEF callState, IInv, CountInv
<1>5. PhaseInv'
  BY <1>1, <1>2 DEF callState, IInv, PhaseInv
<1>6. VerdictInv'
  BY <1>1, <1>2 DEF callState, IInv, VerdictInv
<1>7. ResultInv'
  BY <1>1 DEF callState, Settle, ClusterChanges, vars, IInv, ResultInv, PhaseInv, TypeOK
<1> QED BY <1>3, <1>4, <1>5, <1>6, <1>7 DEF IInv

LEMMA NextInv == IInv /\ [Next]_vars => IInv'
<1> SUFFICES ASSUME IInv, [Next]_vars PROVE IInv'
  OBVIOUS
<1>1. CASE \E v \in Verifiers : Goroutine(v)
  BY <1>1, VerifyInv, SendInv, DoneInv DEF Goroutine
<1>2. CASE Caller
  BY <1>2, SpawnInv, DrainInv, WaitInv, JoinInv, CallAgainInv, OutsideInv DEF Caller
<1>3. CASE ClusterChanges \/ UNCHANGED vars
  BY <1>3, OutsideInv
<1> QED BY <1>1, <1>2, <1>3 DEF Next

\* The inductive invariant holds in every behaviour.
THEOREM Invariant == Spec => []IInv
<1> QED BY InitInv, NextInv, PTL DEF Spec

\* Every variable keeps its type; in particular the WaitGroup's counter, which Done
\* lowers, is never negative (Go panics when it is).
THEOREM TypeCorrect == Spec => []TypeOK
<1>1. IInv => TypeOK
  BY DEF IInv
<1> QED BY <1>1, Invariant, PTL

\* A goroutine with an error to send always finds the channel open and a slot free.
THEOREM SendSafe == Spec => []SendNeverBlocks
<1>1. IInv => SendNeverBlocks
  <2> SUFFICES ASSUME IInv, NEW v \in Verifiers, proc[v] = "send"
               PROVE  ~closed /\ Cardinality(errCh) < Capacity
    BY DEF SendNeverBlocks
  <2>1. main = "spawn" /\ ~closed
    BY DEF IInv, PhaseInv, Active, TypeOK
  <2>2. v \notin errCh
    BY DEF IInv, VerdictInv, Sent
  <2>3. errCh \in SUBSET Verifiers
    BY DEF IInv, TypeOK
  <2>4. Cardinality(errCh) <= Cardinality(Verifiers) /\ Cardinality(errCh) # Cardinality(Verifiers)
    BY <2>2, <2>3, FS_Subset, VerifiersAssumption
  <2>5. Cardinality(errCh) \in Nat /\ Cardinality(Verifiers) \in Nat
    BY <2>3, Finite
  <2> QED BY <2>1, <2>4, <2>5 DEF Capacity
<1> QED BY <1>1, Invariant, PTL

\* When the call drains the channel or has returned, all its goroutines are gone.
THEOREM NoLeak == Spec => []NoGoroutineLeaks
<1>1. IInv => NoGoroutineLeaks
  BY DEF IInv, PhaseInv, TypeOK, Active, NoGoroutineLeaks
<1> QED BY <1>1, Invariant, PTL

\* Eventually reports success only for a call every verifier was content with.
THEOREM SucceedSafe == Spec => []SucceedMeansEachPassed
<1>1. IInv => SucceedMeansEachPassed
  <2> SUFFICES ASSUME IInv, outcome = "succeeded", NEW v \in Verifiers
               PROVE  verdict[v] = "ok" /\ Passes(v, looked[v])
    BY DEF SucceedMeansEachPassed
  <2>1. main = "returned" /\ errCh = {} /\ errs = {}
    BY DEF IInv, ResultInv, PhaseInv
  <2>2. proc[v] = "exited"
    BY <2>1 DEF IInv, PhaseInv, TypeOK, Active
  <2>3. Sent = {}
    BY <2>1 DEF IInv, VerdictInv
  <2>4. verdict[v] # "failed" /\ verdict[v] # "none"
    BY <2>2, <2>3 DEF IInv, VerdictInv, Sent
  <2>5. verdict[v] = "ok"
    BY <2>4 DEF IInv, TypeOK
  <2> QED BY <2>5 DEF IInv, VerdictInv
<1> QED BY <1>1, Invariant, PTL

-----------------------------------------------------------------------------
(***************************************************************************)
(* RunVerifiers implements ParallelCheck: a look is a Verify, the answer   *)
(* is the Join, and all the rest stutters.                                 *)
(***************************************************************************)
LEMMA InitMaps == Init => Check!CheckInit
BY DEF Init, Check!CheckInit

\* When the channel is empty and closed, what was drained is what failed.
LEMMA JoinMaps == ASSUME IInv, Join PROVE Check!Answer
<1>1. main = "drain" /\ main' = "returned" /\ errCh = {} /\ UNCHANGED <<errs, verdict>>
  BY DEF Join
<1>2. \A v \in Verifiers : proc[v] = "exited"
  BY <1>1 DEF IInv, PhaseInv, TypeOK, Active
<1>3. \A v \in Verifiers : verdict[v] # "none"
  BY <1>2 DEF IInv, VerdictInv
<1>4. errs = {v \in Verifiers : verdict[v] = "failed"}
  BY <1>1, <1>2 DEF IInv, VerdictInv, Sent
<1> QED BY <1>1, <1>3, <1>4 DEF Check!Answer

LEMMA NextMaps == IInv /\ [Next]_vars => [Check!CheckNext]_Check!checkVars
<1> SUFFICES ASSUME IInv, [Next]_vars PROVE [Check!CheckNext]_Check!checkVars
  OBVIOUS
<1>1. ASSUME NEW v \in Verifiers, Verify(v) PROVE Check!Look(v)
  <2>1. verdict[v] = "none"
    BY <1>1 DEF Verify, Move, IInv, VerdictInv
  <2>2. UNCHANGED <<main, errs>>
    BY <1>1 DEF Verify
  <2>3. \E ok \in {"ok", "failed"} : verdict' = [verdict EXCEPT ![v] = ok]
    BY <1>1 DEF Verify
  <2> QED BY <2>1, <2>2, <2>3 DEF Check!Look
<1>2. CASE CallAgain
  <2>1. main = "returned" /\ main' = "spawn" /\ verdict' = [v \in Verifiers |-> "none"]
    BY <1>2 DEF CallAgain, IInv, PhaseInv
  <2> QED BY <2>1 DEF Check!CallAgain, Check!CheckNext
<1>3. ASSUME NEW v \in Verifiers, Send(v) \/ Done(v) \/ Spawn(v) \/ Drain(v)
      PROVE  UNCHANGED Check!checkVars
  <2>1. UNCHANGED <<main, verdict>> /\ (main = "returned" => UNCHANGED errs)
    BY <1>3 DEF Send, Done, Spawn, Drain
  <2> QED BY <2>1 DEF Check!checkVars
<1>4. CASE WaitAndClose \/ Settle \/ ClusterChanges \/ UNCHANGED vars
  <2>1. UNCHANGED <<errs, verdict>> /\ (main' = "returned" <=> main = "returned")
    BY <1>4 DEF WaitAndClose, Settle, ClusterChanges, vars, callState
  <2> QED BY <2>1 DEF Check!checkVars
<1> QED BY <1>1, <1>2, <1>3, <1>4, JoinMaps DEF Next, Goroutine, Caller, Check!CheckNext

\* Whatever the schedule, a call looks at the cluster once with each verifier and
\* returns exactly the errors of those that failed.
THEOREM Implements == Spec => ImplementsParallelCheck
<1>1. Init => Check!CheckInit
  BY InitMaps
<1>2. IInv /\ [Next]_vars => [Check!CheckNext]_Check!checkVars
  BY NextMaps
<1> QED BY <1>1, <1>2, Invariant, PTL DEF Spec, ImplementsParallelCheck, Check!CheckSpec
-----------------------------------------------------------------------------
(***************************************************************************)
(* The expectation never hangs, and each step brings its end nearer: there *)
(* is a bound on the steps of a call, hence on those of all the polls.     *)
(***************************************************************************)
\* What each process needs to take its next step: somebody always has it.
SomebodyCanMove ==
  \/ \E v \in Verifiers : proc[v] \in {"verify", "finish"}
  \/ \E v \in Verifiers : proc[v] = "send" /\ ~closed /\ Cardinality(errCh) < Capacity
  \/ \E v \in todo : main = "spawn" /\ proc[v] = "idle"
  \/ main = "spawn" /\ todo = {} /\ wg = 0
  \/ \E v \in errCh : main = "drain"
  \/ main = "drain" /\ errCh = {}
  \/ main = "returned" /\ result # "none"

NobodyHangs == outcome = "none" => SomebodyCanMove

\* wg.Wait(), the sends into the channel and the range over it never wait for each other in
\* a circle: until Eventually has its answer some goroutine or the caller can go on.
THEOREM NeverStuck == Spec => []NobodyHangs
<1>1. IInv /\ SendNeverBlocks => NobodyHangs
  <2> SUFFICES ASSUME IInv, SendNeverBlocks PROVE SomebodyCanMove
    BY DEF NobodyHangs
  <2>1. CASE main = "returned"
    BY <2>1 DEF IInv, PhaseInv, SomebodyCanMove
  <2>2. CASE main = "drain"
    BY <2>2 DEF SomebodyCanMove
  <2>3. CASE main = "spawn" /\ todo # {}
    BY <2>3 DEF IInv, PhaseInv, SomebodyCanMove
  <2>4. CASE main = "spawn" /\ todo = {} /\ Active = {}
    <3>1. wg = 0
      BY <2>4, FS_EmptySet DEF IInv, CountInv
    <3> QED BY <2>4, <3>1 DEF SomebodyCanMove
  <2>5. CASE Active # {}
    BY <2>5 DEF Active, SendNeverBlocks, SomebodyCanMove
  <2> QED BY <2>1, <2>2, <2>3, <2>4, <2>5 DEF IInv, TypeOK
<1> QED BY <1>1, Invariant, SendSafe, PTL

\* The goroutines that have not passed the steps of S.
In(S) == {v \in Verifiers : proc[v] \in S}

\* Steps the goroutines of this call have left, at most.
GoroutineSteps ==
  Cardinality(In({"idle"})) + Cardinality(In({"idle", "verify"}))
  + Cardinality(In({"idle", "verify", "send"}))
  + Cardinality(In({"idle", "verify", "send", "finish"}))

\* Steps the caller has left after its loop: it closes the channel, drains it and joins.
CallerSteps ==
  CASE main = "spawn" -> Capacity + 2
    [] main = "drain" -> Cardinality(errCh) + 1
    [] OTHER -> 0

\* A call, with what Eventually does with its result.
CallSteps == 5 * Capacity + 3

Distance ==
  IF outcome # "none" THEN 0
  ELSE 1 + GoroutineSteps + CallerSteps + (MaxCalls - calls) * CallSteps

Moves == (\E v \in Verifiers : Goroutine(v)) \/ Caller

InCalls == calls \in 1..MaxCalls

LEMMA InFinite ==
  ASSUME NEW S
  PROVE  /\ IsFiniteSet(In(S)) /\ Cardinality(In(S)) \in 0..Capacity
         /\ IsFiniteSet(In(S)') /\ Cardinality(In(S)') \in 0..Capacity
<1>1. In(S) \in SUBSET Verifiers /\ In(S)' \in SUBSET Verifiers
  BY DEF In
<1>2. /\ IsFiniteSet(In(S)) /\ Cardinality(In(S)) <= Cardinality(Verifiers)
      /\ IsFiniteSet(In(S)') /\ Cardinality(In(S)') <= Cardinality(Verifiers)
  BY <1>1, FS_Subset, VerifiersAssumption
<1>3. Cardinality(In(S)) \in Nat /\ Cardinality(In(S)') \in Nat /\ Cardinality(Verifiers) \in Nat
  BY <1>2, FS_CardinalityType, VerifiersAssumption
<1> QED BY <1>2, <1>3 DEF Capacity

\* A goroutine that moves leaves S, or S stays as it is.
LEMMA Leaves ==
  ASSUME TypeOK, NEW S, NEW v \in Verifiers, NEW to, proc' = [proc EXCEPT ![v] = to]
  PROVE  /\ proc[v] \in S /\ to \notin S => Cardinality(In(S)') = Cardinality(In(S)) - 1
         /\ (proc[v] \in S <=> to \in S) => Cardinality(In(S)') = Cardinality(In(S))
<1>1. proc \in [Verifiers -> {"idle", "verify", "send", "finish", "exited"}]
  BY DEF TypeOK
<1>2. ASSUME proc[v] \in S, to \notin S PROVE Cardinality(In(S)') = Cardinality(In(S)) - 1
  <2>1. In(S)' = In(S) \ {v} /\ v \in In(S)
    BY <1>1, <1>2 DEF In
  <2> QED BY <2>1, InFinite, FS_RemoveElement
<1>3. ASSUME proc[v] \in S <=> to \in S PROVE Cardinality(In(S)') = Cardinality(In(S))
  <2>1. In(S)' = In(S)
    BY <1>1, <1>3 DEF In
  <2> QED BY <2>1
<1> QED BY <1>2, <1>3

\* Every move of a goroutine is one of its steps.
LEMMA MoveCounts ==
  ASSUME TypeOK, NEW v \in Verifiers, NEW to, proc' = [proc EXCEPT ![v] = to],
         \/ proc[v] = "idle" /\ to = "verify"
         \/ proc[v] = "verify" /\ to \in {"send", "finish"}
         \/ proc[v] = "send" /\ to = "finish"
         \/ proc[v] = "finish" /\ to = "exited"
  PROVE  GoroutineSteps' < GoroutineSteps
<1> DEFINE A == {"idle"}
           B == {"idle", "verify"}
           C == {"idle", "verify", "send"}
           D == {"idle", "verify", "send", "finish"}
           N(S) == Cardinality(In(S))
           M(S) == Cardinality(In(S)')
<1>1. \A S \in {A, B, C, D} : N(S) \in Nat /\ M(S) \in Nat
  BY InFinite DEF Capacity
<1>2. \A S \in {A, B, C, D} :
        /\ proc[v] \in S /\ to \notin S => M(S) = N(S) - 1
        /\ (proc[v] \in S <=> to \in S) => M(S) = N(S)
  BY Leaves
<1>3. GoroutineSteps' = M(A) + M(B) + M(C) + M(D) /\ GoroutineSteps = N(A) + N(B) + N(C) + N(D)
  BY DEF GoroutineSteps
<1>4. /\ M(A) = N(A) \/ M(A) = N(A) - 1
      /\ M(B) = N(B) \/ M(B) = N(B) - 1
      /\ M(C) = N(C) \/ M(C) = N(C) - 1
      /\ M(D) = N(D) \/ M(D) = N(D) - 1
      /\ M(A) = N(A) - 1 \/ M(B) = N(B) - 1 \/ M(C) = N(C) - 1 \/ M(D) = N(D) - 1
  <2>1. CASE proc[v] = "idle" /\ to = "verify"
    BY <1>2, <2>1
  <2>2. CASE proc[v] = "verify" /\ to = "send"
    BY <1>2, <2>2
  <2>3. CASE proc[v] = "verify" /\ to = "finish"
    BY <1>2, <2>3
  <2>4. CASE proc[v] = "send" /\ to = "finish"
    BY <1>2, <2>4
  <2>5. CASE proc[v] = "finish" /\ to = "exited"
    BY <1>2, <2>5
  <2> QED BY <2>1, <2>2, <2>3, <2>4, <2>5
<1>5. /\ N(A) \in Nat /\ N(B) \in Nat /\ N(C) \in Nat /\ N(D) \in Nat
      /\ M(A) \in Nat /\ M(B) \in Nat /\ M(C) \in Nat /\ M(D) \in Nat
  BY <1>1
<1> HIDE DEF A, B, C, D, N, M
<1> QED BY <1>3, <1>4, <1>5

LEMMA StepsType ==
  /\ Capacity \in Nat /\ CallSteps \in Nat /\ MaxCalls \in Nat \ {0}
  /\ GoroutineSteps \in 0..(4 * Capacity) /\ GoroutineSteps' \in 0..(4 * Capacity)
  /\ TypeOK => CallerSteps \in 0..(Capacity + 2)
  /\ TypeOK' => CallerSteps' \in 0..(Capacity + 2)
<1>1. Capacity \in Nat
  BY FS_CardinalityType, VerifiersAssumption DEF Capacity
<1>2. GoroutineSteps \in 0..(4 * Capacity) /\ GoroutineSteps' \in 0..(4 * Capacity)
  BY <1>1, InFinite DEF GoroutineSteps
<1>3. ASSUME NEW S \in SUBSET Verifiers PROVE Cardinality(S) \in 0..Capacity
  BY FS_Subset, Finite, VerifiersAssumption, <1>1 DEF Capacity
<1>4. TypeOK => CallerSteps \in 0..(Capacity + 2)
  <2> SUFFICES ASSUME TypeOK PROVE CallerSteps \in 0..(Capacity + 2)
    OBVIOUS
  <2>1. Cardinality(errCh) \in 0..Capacity
    BY <1>3 DEF TypeOK
  <2> QED BY <1>1, <2>1 DEF CallerSteps
<1>5. TypeOK' => CallerSteps' \in 0..(Capacity + 2)
  <2> SUFFICES ASSUME TypeOK' PROVE CallerSteps' \in 0..(Capacity + 2)
    OBVIOUS
  <2>1. Cardinality(errCh') \in 0..Capacity
    BY <1>3 DEF TypeOK
  <2> QED BY <1>1, <2>1 DEF CallerSteps
<1> QED BY <1>1, <1>2, <1>4, <1>5, VerifiersAssumption DEF VerifiersAssumption, CallSteps

\* Less of the call is left.
LEMMA CallNearer ==
  ASSUME TypeOK, TypeOK', InCalls, outcome = "none", outcome' = outcome, calls' = calls,
         GoroutineSteps' + CallerSteps' < GoroutineSteps + CallerSteps
  PROVE  Distance' < Distance
<1> DEFINE R == (MaxCalls - calls) * CallSteps
<1>1. R \in Int /\ R' = R
  BY StepsType DEF InCalls, CallSteps, Capacity
<1> HIDE DEF R
<1>2. Distance = 1 + GoroutineSteps + CallerSteps + R
      /\ Distance' = 1 + GoroutineSteps' + CallerSteps' + R
  BY <1>1 DEF Distance, R
<1> QED BY <1>1, <1>2, StepsType

LEMMA GoroutineNearer ==
  ASSUME IInv, IInv', InCalls, outcome = "none", NEW v \in Verifiers,
         Goroutine(v) \/ Spawn(v)
  PROVE  Distance' < Distance
<1>1. /\ UNCHANGED <<main, calls, outcome>>
      /\ \E to : /\ proc' = [proc EXCEPT ![v] = to]
                 /\ \/ proc[v] = "idle" /\ to = "verify"
                    \/ proc[v] = "verify" /\ to \in {"send", "finish"}
                    \/ proc[v] = "send" /\ to = "finish"
                    \/ proc[v] = "finish" /\ to = "exited"
  BY DEF Goroutine, Verify, Send, Done, Spawn, Move
<1>2. GoroutineSteps' < GoroutineSteps
  BY <1>1, MoveCounts DEF IInv
<1>3. main = "spawn"
  BY <1>1 DEF IInv, PhaseInv, Active, Goroutine, Verify, Send, Done, Spawn, Move
<1>4. CallerSteps' = CallerSteps
  BY <1>1, <1>3 DEF CallerSteps
<1> QED BY <1>1, <1>2, <1>4, StepsType, CallNearer DEF IInv

\* The caller closes the channel, takes one error out of it, or joins them.
LEMMA CallerNearer ==
  ASSUME IInv, IInv', InCalls, outcome = "none",
         WaitAndClose \/ Join \/ \E v \in Verifiers : Drain(v)
  PROVE  Distance' < Distance
<1>1. UNCHANGED <<proc, calls, outcome>>
  BY DEF WaitAndClose, Join, Drain
<1>2. GoroutineSteps' = GoroutineSteps
  BY <1>1 DEF GoroutineSteps, In
<1>3. CallerSteps' < CallerSteps
  <2>1. errCh \in SUBSET Verifiers /\ IsFiniteSet(errCh) /\ Cardinality(errCh) \in Nat
        /\ Cardinality(errCh) <= Capacity /\ Capacity \in Nat
    BY StepsType, Finite, FS_Subset, VerifiersAssumption DEF IInv, TypeOK, Capacity
  <2>2. CASE WaitAndClose
    BY <2>1, <2>2 DEF WaitAndClose, CallerSteps
  <2>3. CASE Join
    <3>1. CallerSteps' = 0
      BY <2>3 DEF Join, CallerSteps
    <3>2. CallerSteps = Cardinality(errCh) + 1
      BY <2>3 DEF Join, CallerSteps
    <3> QED BY <2>1, <3>1, <3>2
  <2>4. ASSUME NEW v \in Verifiers, Drain(v) PROVE CallerSteps' < CallerSteps
    <3>1. v \in errCh /\ errCh' = errCh \ {v} /\ main = "drain" /\ main' = "drain"
      BY <2>4 DEF Drain
    <3>2. Cardinality(errCh') = Cardinality(errCh) - 1
      BY <2>1, <3>1, FS_RemoveElement
    <3> QED BY <2>1, <3>1, <3>2 DEF CallerSteps
  <2> QED BY <2>2, <2>3, <2>4
<1> QED BY <1>1, <1>2, <1>3, StepsType, CallNearer DEF IInv

\* The arithmetic of a poll more: K of R is given back, less than K is taken.
LEMMA Cheaper ==
  ASSUME NEW g \in Nat, NEW c \in Nat, NEW gNew \in Nat, NEW cNew \in Nat,
         NEW K \in Nat, NEW R \in Nat, NEW Q, Q = R - K, gNew + cNew < K
  PROVE  1 + gNew + cNew + Q < 1 + g + c + R
OBVIOUS

\* One poll more costs less than the poll that is given up for it.
LEMMA CallAgainNearer ==
  ASSUME IInv, IInv', InCalls, CallAgain
  PROVE  InCalls' /\ Distance' < Distance
<1>1. /\ outcome = "none" /\ outcome' = "none" /\ calls < MaxCalls /\ calls' = calls + 1
      /\ calls \in Nat /\ MaxCalls \in Nat
  BY StepsType DEF CallAgain, InCalls
<1> DEFINE K == CallSteps
           n == MaxCalls - calls
           R == n * K
           Q == (n - 1) * K
<1>2. K \in Nat /\ n \in Nat /\ MaxCalls - calls' = n - 1
  BY <1>1, StepsType
<1>3. R \in Nat /\ Q = R - K
  <2> HIDE DEF K, n
  <2> QED BY <1>2
<1>4. Distance = 1 + GoroutineSteps + CallerSteps + R
      /\ Distance' = 1 + GoroutineSteps' + CallerSteps' + Q
  BY <1>1, <1>2 DEF Distance, CallSteps
<1>5. GoroutineSteps' + CallerSteps' < K
  BY StepsType DEF IInv, CallSteps
<1>6. GoroutineSteps \in Nat /\ CallerSteps \in Nat /\ GoroutineSteps' \in Nat /\ CallerSteps' \in Nat
  BY StepsType DEF IInv
<1>7. InCalls'
  BY <1>1 DEF InCalls
<1>8. Distance' < Distance
  BY <1>2, <1>3, <1>4, <1>5, <1>6, Cheaper
<1> QED BY <1>7, <1>8

LEMMA DistanceType ==
  ASSUME IInv, InCalls
  PROVE  Distance \in 0..(MaxCalls * CallSteps) /\ (outcome = "none" => Distance > 0)
<1> DEFINE K == CallSteps
           n == MaxCalls - calls
           R == n * K
           T == MaxCalls * K
<1>1. K \in Nat /\ n \in Nat /\ n + 1 <= MaxCalls /\ MaxCalls \in Nat
  BY StepsType DEF InCalls
<1>2. R \in Nat /\ T \in Nat /\ R + K <= T
  <2> HIDE DEF K, n
  <2>1. R \in Nat /\ T \in Nat /\ (n + 1) * K = R + K
    BY <1>1
  <2>2. (n + 1) * K <= MaxCalls * K
    BY <1>1
  <2> QED BY <2>1, <2>2
<1>3. GoroutineSteps + CallerSteps < K /\ GoroutineSteps \in Nat /\ CallerSteps \in Nat
  BY StepsType DEF IInv, CallSteps
<1>4. Distance = IF outcome # "none" THEN 0 ELSE 1 + GoroutineSteps + CallerSteps + R
  BY DEF Distance
<1> HIDE DEF K, n, R, T
<1>5. Distance \in 0..T /\ (outcome = "none" => Distance > 0)
  BY <1>1, <1>2, <1>3, <1>4
<1> QED BY <1>5 DEF T, K

LEMMA MovesApproach ==
  ASSUME IInv, IInv', InCalls, Moves
  PROVE  InCalls' /\ (outcome = "none" => Distance' < Distance)
<1>1. CASE Settle
  <2>1. outcome' # "none" /\ calls' = calls
    BY <1>1 DEF Settle
  <2>2. Distance' = 0
    BY <2>1 DEF Distance
  <2>3. outcome = "none" => Distance > 0 /\ Distance \in Int
    BY DistanceType, StepsType
  <2> QED BY <2>1, <2>2, <2>3 DEF InCalls
<1>2. CASE CallAgain
  BY <1>2, CallAgainNearer
<1>3. CASE WaitAndClose \/ Join \/ \E v \in Verifiers : Drain(v)
  <2>1. calls' = calls
    BY <1>3 DEF WaitAndClose, Join, Drain
  <2> QED BY <1>3, <2>1, CallerNearer DEF InCalls
<1>4. ASSUME NEW v \in Verifiers, Goroutine(v) \/ Spawn(v)
      PROVE  InCalls' /\ (outcome = "none" => Distance' < Distance)
  <2>1. calls' = calls
    BY <1>4 DEF Goroutine, Verify, Send, Done, Spawn
  <2> QED BY <1>4, <2>1, GoroutineNearer DEF InCalls
<1> QED BY <1>1, <1>2, <1>3, <1>4 DEF Moves, Caller

LEMMA OthersDoNotDelay ==
  ASSUME [Next]_vars, ~Moves
  PROVE  /\ UNCHANGED <<outcome, calls>>
         /\ Distance' = Distance
<1>1. UNCHANGED <<callState, calls, outcome>>
  BY DEF Next, Moves, ClusterChanges, vars
<1> QED BY <1>1 DEF callState, Distance, GoroutineSteps, In, CallerSteps

LEMMA CallsCounted == Spec => [](IInv /\ InCalls)
<1>1. Init => InCalls
  BY StepsType DEF Init, InCalls
<1>2. IInv /\ IInv' /\ InCalls /\ [Next]_vars => InCalls'
  BY MovesApproach, OthersDoNotDelay DEF InCalls
<1> QED BY <1>1, <1>2, Invariant, PTL DEF Spec

\* The Eventually around RunVerifiers takes at most MaxCalls * (5 * N + 3) steps for N
\* verifiers, however they are scheduled: each step of a goroutine or of the caller brings
\* its answer strictly nearer, and the changes of the cluster never send it back.
THEOREM Approaches ==
  Spec => /\ [](Distance \in 0..(MaxCalls * CallSteps))
          /\ [][outcome = "none" => IF Moves THEN Distance' < Distance
                                             ELSE Distance' = Distance]_vars
<1>1. IInv /\ InCalls => Distance \in 0..(MaxCalls * CallSteps)
  BY DistanceType
<1>2. IInv /\ IInv' /\ InCalls /\ [Next]_vars =>
        [outcome = "none" => IF Moves THEN Distance' < Distance ELSE Distance' = Distance]_vars
  BY MovesApproach, OthersDoNotDelay
<1> QED BY <1>1, <1>2, CallsCounted, PTL DEF Spec

At(n) == outcome = "none" /\ Distance = n
Nearer(n) == outcome # "none" \/ Distance < n

\* If some goroutine or the caller keeps taking steps, then from any distance Eventually
\* comes to its answer or strictly nearer to it.
THEOREM EndApproaches ==
  ASSUME NEW n \in Nat
  PROVE  Spec /\ [](outcome = "none" => <><<Moves>>_vars) => [](At(n) => <>Nearer(n))
<1>1. IInv /\ IInv' /\ InCalls /\ At(n) /\ [Next]_vars => At(n)' \/ Nearer(n)'
  BY MovesApproach, OthersDoNotDelay DEF At, Nearer
<1>2. IInv /\ IInv' /\ InCalls /\ At(n) /\ Moves => Nearer(n)'
  BY MovesApproach DEF At, Nearer
<1>3. At(n) => outcome = "none"
  BY DEF At
<1> QED BY <1>1, <1>2, <1>3, CallsCounted, PTL DEF Spec

\* When a call of RunVerifiers has returned, each verifier has looked at the cluster, and the
\* joined error names exactly those that were not content.
THEOREM AnswersExactly == Spec => []Check!AnswerExact
<1>1. Check!CheckInit => Check!AnswerExact
  BY DEF Check!CheckInit, Check!AnswerExact
<1>2. Check!AnswerExact /\ [Check!CheckNext]_Check!checkVars => Check!AnswerExact'
  <2> SUFFICES ASSUME Check!AnswerExact, [Check!CheckNext]_Check!checkVars PROVE Check!AnswerExact'
    OBVIOUS
  <2>1. ASSUME NEW v \in Verifiers, Check!Look(v) PROVE Check!AnswerExact'
    BY <2>1 DEF Check!Look, Check!AnswerExact
  <2>2. CASE Check!Answer
    BY <2>2 DEF Check!Answer, Check!AnswerExact
  <2>3. CASE Check!CallAgain
    BY <2>3 DEF Check!CallAgain, Check!AnswerExact
  <2>4. CASE UNCHANGED Check!checkVars
    BY <2>4 DEF Check!checkVars, Check!AnswerExact
  <2> QED BY <2>1, <2>2, <2>3, <2>4 DEF Check!CheckNext
<1> QED BY <1>1, <1>2, Implements, PTL DEF ImplementsParallelCheck, Check!CheckSpec
=============================================================================
