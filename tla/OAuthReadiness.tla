--------------------------- MODULE OAuthReadiness ---------------------------
(***************************************************************************)
(* pkg/verifiers/oauth_readiness.go: wait for the oauth-apiserver's pods,  *)
(* then for the well-known endpoint, on a clock that starts with the       *)
(* check.  A call takes up to MaxCall.                                     *)
(***************************************************************************)
EXTENDS HealthCheck, Integers

CONSTANTS Pods, Timeout, PodPoll, EndpointPoll, MaxCall

ASSUME OAuthAssumption ==
  Timeout \in Nat /\ PodPoll \in Nat /\ EndpointPoll \in Nat /\ MaxCall \in Nat

VARIABLES
  now,       \* time since the check began
  deadline,  \* of the wait it is in
  pods,      \* a pod's containers, by the Ready they report; or {"absent"}
  answers,   \* the endpoint says 200
  cancelled  \* the context is done

oauthVars == <<now, deadline, pods, answers, cancelled>>

Absentee == {"absent"}
Containers == {Absentee, {}, {"ready"}, {"ready", "notReady"}}

OAuthInit ==
  /\ now = 0 /\ deadline = Timeout
  /\ pods = [p \in Pods |-> Absentee] /\ answers = FALSE
  /\ cancelled = FALSE

\* A pod without container statuses is not ready.
isPodContainersReady(statuses) == statuses = {"ready"}

AllReady ==
  LET listed == {p \in Pods : pods[p] # Absentee} IN
  listed # {} /\ \A p \in listed : isPodContainersReady(pods[p])

TimesOut ==
  /\ check = "oauth" /\ at \in {"pods", "endpoint"} /\ now > deadline
  /\ Ends("error") /\ UNCHANGED oauthVars

\* An error of the list is final; the second wait has a deadline of its own.
ListPods(d) ==
  /\ check = "oauth" /\ at = "pods" /\ now <= deadline
  /\ now' = now + d
  /\ \/ Ends("error") /\ UNCHANGED deadline
     \/ ~cancelled /\ ~AllReady /\ Goto("podPoll") /\ UNCHANGED deadline
     \/ ~cancelled /\ AllReady /\ Goto("endpoint") /\ deadline' = now' + Timeout
  /\ UNCHANGED <<pods, answers, cancelled>>

\* Only a 200 counts; no answer is one more reason to wait.
ProbeEndpoint(d) ==
  /\ check = "oauth" /\ at = "endpoint" /\ now <= deadline
  /\ now' = now + d
  /\ (~cancelled /\ answers /\ Ends("nil")) \/ Goto("endpointPoll")
  /\ UNCHANGED <<deadline, pods, answers, cancelled>>

\* Slip: every poll starts the wait over.
SleepAnew(interval) == now' = now + interval /\ deadline' = now' + Timeout

Sleep(interval) == now' = now + interval /\ UNCHANGED deadline

Poll(call, interval, next) ==
  /\ check = "oauth" /\ at = call
  /\ \/ cancelled /\ Ends("error") /\ UNCHANGED <<now, deadline>>
     \/ ~cancelled /\ Sleep(interval) /\ Goto(next)
  /\ UNCHANGED <<pods, answers, cancelled>>

OAuthSteps ==
  \/ TimesOut
  \/ \E d \in 0 .. MaxCall : ListPods(d) \/ ProbeEndpoint(d)
  \/ Poll("podPoll", PodPoll, "pods")
  \/ Poll("endpointPoll", EndpointPoll, "endpoint")

OAuthWorld ==
  /\ check = "oauth" /\ Elsewhere
  /\ \/ /\ \E p \in Pods, c \in Containers : pods' = [pods EXCEPT ![p] = c]
        /\ UNCHANGED <<answers, cancelled>>
     \/ answers' = ~answers /\ UNCHANGED <<pods, cancelled>>
     \/ cancelled' = TRUE /\ UNCHANGED <<pods, answers>>
  /\ UNCHANGED <<now, deadline>>

OAuthTypeOK ==
  /\ now \in Nat /\ deadline \in Nat
  /\ pods \in [Pods -> Containers] /\ answers \in BOOLEAN /\ cancelled \in BOOLEAN
=============================================================================
