---------------------------- MODULE UpstreamProofs ----------------------------
(***************************************************************************)
(* Theorems about Upstream, for all waits a service may ask for, with and  *)
(* without lockdown.                                                       *)
(***************************************************************************)
EXTENDS Upstream, TLAPS

\* TypeOK without the point after the loop, and with the history bounded: every
\* attempt after the first cost at most one wait.
Types ==
  /\ pc \in {"call", "reading", "refresh", "sleep"} \cup Returned
  /\ attempt \in 1 .. maxAttempts
  /\ answer \in Answer \cup {NoAnswer}
  /\ wait \in 0 .. MaxWait
  /\ ctxDone \in BOOLEAN
  /\ open \subseteq 1 .. maxAttempts
  /\ asked \in QueueWaits \cup {NoQueue}
  /\ refreshes \in 0 .. 1
  /\ slept \in Nat /\ slept <= (attempt - 1) * MaxWait

\* Only the first attempt refreshes, only an earlier one than the last sleeps,
\* and only an answer that is being read has an open body.
Points ==
  /\ pc = "refresh" => attempt = 1
  /\ attempt = 1 /\ pc \in {"call", "reading", "refresh", "sleep"} => refreshes = 0
  /\ pc = "sleep" => attempt < maxAttempts
  /\ pc \notin {"reading", "answered"} => open = {}
  /\ pc = "reading" => answer \in Answer /\ open \subseteq {attempt}
  /\ pc = "reading" /\ answer.status = "ok" => open = {attempt}
  /\ pc = "answered" => open = {attempt} /\ answer.status = "ok"

Inv == Types /\ Points

\* A wait before a retry is never longer than the cap.
LEMMA WaitInRange ==
  ASSUME answer \in Answer, attempt \in 1 .. 3
  PROVE  Wait \in 0 .. MaxWait
<1>1. Backoff \in Nat
  <2>1. <<1, 2, 4>>[attempt] \in Nat
    <3>1. attempt = 1 \/ attempt = 2 \/ attempt = 3
      OBVIOUS
    <3> QED BY <3>1
  <2>2. answer.after # NoHeader => answer.after \in Nat
    BY WaitsAssumption DEF Answer
  <2> QED BY <2>1, <2>2 DEF Backoff
<1>2. answer.queue # NoQueue => answer.queue \in Nat
  BY WaitsAssumption DEF Answer
<1> QED BY <1>1, <1>2 DEF Wait, Capped, MaxWait

\* Lockdown changes nothing but the queue signal.
LEMMA SeenAnswer ==
  ASSUME NEW a \in Answer
  PROVE  Seen(a) \in Answer /\ Seen(a).status = a.status
BY DEF Seen, Answer

LEMMA InvStep == ASSUME Inv, [Next]_vars PROVE Inv'
<1> USE DEF Inv, Types, Points, maxAttempts, MaxWait, Returned, history
<1>1. ASSUME NEW a \in Answer, Respond(a) PROVE Inv'
  <2>1. Seen(a) \in Answer /\ Seen(a).status = a.status /\ a.queue \in QueueWaits \cup {NoQueue}
    BY SeenAnswer DEF Answer
  <2> QED BY <1>1, <2>1 DEF Respond
<1>2. CASE TransportError
  BY <1>2 DEF TransportError
<1>3. CASE Accept
  BY <1>3 DEF Accept
<1>4. CASE Unauthorized
  BY <1>4 DEF Unauthorized, MayRefresh, CloseBody
<1>5. CASE Refreshed \/ RefreshFails
  <2>1. pc = "refresh" /\ attempt = 1 /\ refreshes = 0 /\ refreshes' = 1
    BY <1>5 DEF Refreshed, RefreshFails, CountRefresh
  <2>2. CASE Refreshed
    <3>1. attempt' = 2 /\ pc' = "call"
      BY <2>1, <2>2 DEF Refreshed, NextAttempt
    <3> QED BY <2>1, <2>2, <3>1 DEF Refreshed
  <2>3. CASE RefreshFails
    BY <2>1, <2>3 DEF RefreshFails
  <2> QED BY <1>5, <2>2, <2>3
<1>6. CASE Retry
  <2>1. attempt < maxAttempts => Wait \in 0 .. MaxWait
    BY <1>6, WaitInRange DEF Retry
  <2> QED BY <1>6, <2>1 DEF Retry, CloseBody
<1>7. CASE Reject
  BY <1>7 DEF Reject, CloseBody
<1>8. CASE Wake
  BY <1>8 DEF Wake, NextAttempt
<1>9. CASE Interrupted \/ ClientLeaves
  BY <1>9 DEF Interrupted, ClientLeaves
<1>10. CASE UNCHANGED vars
  BY <1>10 DEF vars
<1> QED BY <1>1, <1>2, <1>3, <1>4, <1>5, <1>6, <1>7, <1>8, <1>9, <1>10
        DEF Next, Call, Step

LEMMA AlwaysInv == Spec => []Inv
<1>1. Init => Inv
  <2> SUFFICES ASSUME Init PROVE Inv
    OBVIOUS
  <2>1. ctxDone \in BOOLEAN
    BY Zenon DEF Init
  <2>2. Types
    BY <2>1 DEF Init, Types, maxAttempts, MaxWait, Returned
  <2>3. Points
    BY DEF Init, Points, maxAttempts, MaxWait
  <2> QED BY <2>2, <2>3 DEF Inv
<1>2. Inv /\ [Next]_vars => Inv'
  BY InvStep
<1> QED BY <1>1, <1>2, PTL DEF Spec

\* The retry loop always ends in a return, with at most one forced refresh, and
\* its waits never add up to more than three times the cap.
THEOREM LoopReturns == Spec => []RetriesBounded
<1>1. Inv => RetriesBounded
  BY DEF Inv, Types, Returned, RetriesBounded, maxAttempts, MaxWait
<1> QED BY <1>1, AlwaysInv, PTL

\* No answer's body is left open by a retry.
THEOREM NoBodyLeaks == Spec => []BodiesClosed
<1>1. Inv => BodiesClosed
  BY DEF Inv, Points, BodiesClosed
<1> QED BY <1>1, AlwaysInv, PTL

\* Without lockdown a queue signal is answered with the wait it asks for.
THEOREM QueueSignalsWork == Spec => QueueWaitUnlocked
<1> DEFINE Asked == ~lockdown /\ pc = "reading" => asked = answer.queue
           Honoured == [~lockdown => HonoursQueue]_vars
<1>1. Init => Asked
  BY DEF Init
<1>2. Asked /\ [Next]_vars => Asked'
  BY DEF Next, Call, Step, Respond, Seen, TransportError, Accept, Unauthorized,
     Refreshed, RefreshFails, NextAttempt, Retry, Reject, Wake, Interrupted,
     ClientLeaves, vars, history
<1>3. Asked /\ [Next]_vars => Honoured
  BY DEF Next, Call, Step, Respond, TransportError, Accept, Unauthorized,
     Refreshed, RefreshFails, Retry, Reject, Wake, Interrupted, ClientLeaves,
     vars, history, Transient, Wait, HonoursQueue
<1> QED BY <1>1, <1>2, <1>3, PTL DEF Spec, QueueWaitUnlocked

=============================================================================
