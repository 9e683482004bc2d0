------------------------------- MODULE Upstream -------------------------------
(***************************************************************************)
(* callUpstream and doUpstream of proxy.go: one call of a handler to the   *)
(* inference service, with its retries.  The handler gets an open 200      *)
(* answer to stream from, the error answer of the last attempt, or an      *)
(* error.                                                                  *)
(*                                                                         *)
(* Times are in seconds.  A queue wait stands for what queueWait makes of  *)
(* the body (waitTime, else retryAfterMs, else two seconds); a header that *)
(* does not parse is no header.                                            *)
(***************************************************************************)
EXTENDS Naturals, FiniteSets

CONSTANTS
  QueueWaits,  \* waits a queue signal in a body may ask for
  RetryAfters, \* values of a Retry-After header
  NoQueue,     \* a body without a queue signal
  NoHeader,    \* no usable Retry-After
  NoAnswer     \* no answer in hand

ASSUME WaitsAssumption == /\ QueueWaits \subseteq Nat /\ RetryAfters \subseteq Nat
                          /\ NoQueue \notin Nat /\ NoHeader \notin Nat

maxAttempts == 4
MaxWait == 30

\* 2xx, 401, a retryableStatus, any other status.
Status == {"ok", "unauthorized", "retryable", "other"}

Answer == [status : Status, queue : QueueWaits \cup {NoQueue},
           after : RetryAfters \cup {NoHeader}]

ASSUME AnswerAssumption == NoAnswer \notin Answer

VARIABLES
  lockdown,  \* nativeLockedDown(), the same for the life of the program
  pc,        \* where the call is
  attempt,   \* its attempt
  answer,    \* the answer in hand, as doUpstream hands it over
  wait,      \* argument of sleepCtx
  ctxDone,   \* the client has gone away
  open,      \* attempts whose response body has not been closed
  asked,     \* history: the queue wait in the service's last answer
  slept,     \* history: seconds asleep so far
  refreshes  \* history: calls of forceRefresh so far, up to 2

vars == <<lockdown, pc, attempt, answer, wait, ctxDone, open, asked, slept,
          refreshes>>
history == <<asked, slept, refreshes>>

Returned == {"answered", "rejected", "failed", "cancelled"}

----------------------------------------------------------------------------

Capped(s) == IF s > MaxWait THEN MaxWait ELSE s

\* 1 << (attempt - 1) seconds unless a header says otherwise.
Backoff == IF answer.after = NoHeader THEN <<1, 2, 4>>[attempt] ELSE answer.after

\* Mutant: the header goes before the queue signal.
HeaderFirst ==
  Capped(IF answer.after # NoHeader \/ answer.queue = NoQueue
           THEN Backoff ELSE answer.queue)

Wait == Capped(IF answer.queue # NoQueue THEN answer.queue ELSE Backoff)

\* Under lockdown the body of every answer but 200 is replaced; headers stay.
Seen(a) == IF lockdown /\ a.status # "ok" THEN [a EXCEPT !.queue = NoQueue] ELSE a

\* Mutant: every attempt may refresh.
AnyAttempt == TRUE
MayRefresh == attempt = 1

NextAttempt ==
  /\ attempt' = attempt + 1
  /\ pc' = IF attempt < maxAttempts THEN "call" ELSE "unreachable"

\* Mutant: a body is only closed when its answer is passed on.
CloseLate == open' = IF pc' = "rejected" THEN open \ {attempt} ELSE open
CloseBody == open' = open \ {attempt}

----------------------------------------------------------------------------

\* doUpstream: PrepareInferRequest and the round trip.
Respond(a) ==
  /\ pc = "call"
  /\ answer' = Seen(a)
  /\ asked' = a.queue
  /\ open' = IF lockdown /\ a.status # "ok" THEN open ELSE open \cup {attempt}
  /\ pc' = "reading"
  /\ UNCHANGED <<lockdown, attempt, wait, ctxDone, slept, refreshes>>

\* PrepareInferRequest or the transport fails, or the client timeout of 180
\* seconds that lockdown sets is over.
TransportError ==
  /\ pc = "call"
  /\ IF attempt < maxAttempts THEN pc' = "sleep" /\ wait' = attempt
                              ELSE pc' = "failed" /\ UNCHANGED wait
  /\ UNCHANGED <<lockdown, attempt, answer, ctxDone, open, history>>

Accept ==
  /\ pc = "reading" /\ answer.status = "ok"
  /\ pc' = "answered"
  /\ UNCHANGED <<lockdown, attempt, answer, wait, ctxDone, open, history>>

Unauthorized ==
  /\ pc = "reading" /\ answer.status = "unauthorized"
  /\ pc' = IF MayRefresh THEN "refresh" ELSE "rejected"
  /\ CloseBody
  /\ UNCHANGED <<lockdown, attempt, answer, wait, ctxDone, history>>

CountRefresh == refreshes' = IF refreshes < 2 THEN refreshes + 1 ELSE refreshes

\* forceRefresh returns nil.  Mutant: the attempt that met the 401 does not count.
RefreshedUncounted ==
  /\ pc = "refresh"
  /\ pc' = "call"
  /\ CountRefresh
  /\ UNCHANGED <<lockdown, attempt, answer, wait, ctxDone, open, asked, slept>>

Refreshed ==
  /\ pc = "refresh"
  /\ NextAttempt
  /\ CountRefresh
  /\ UNCHANGED <<lockdown, answer, wait, ctxDone, open, asked, slept>>

RefreshFails ==
  /\ pc = "refresh"
  /\ pc' = "rejected"
  /\ CountRefresh
  /\ UNCHANGED <<lockdown, attempt, answer, wait, ctxDone, open, asked, slept>>

Transient == answer.status = "retryable" \/ answer.queue # NoQueue

Retry ==
  /\ pc = "reading" /\ answer.status \notin {"ok", "unauthorized"}
  /\ Transient
  /\ IF attempt < maxAttempts THEN pc' = "sleep" /\ wait' = Wait
                              ELSE pc' = "rejected" /\ UNCHANGED wait
  /\ CloseBody
  /\ UNCHANGED <<lockdown, attempt, answer, ctxDone, history>>

Reject ==
  /\ pc = "reading" /\ answer.status \notin {"ok", "unauthorized"}
  /\ ~Transient
  /\ pc' = "rejected"
  /\ CloseBody
  /\ UNCHANGED <<lockdown, attempt, answer, wait, ctxDone, history>>

Wake ==
  /\ pc = "sleep"
  /\ NextAttempt
  /\ slept' = slept + wait
  /\ UNCHANGED <<lockdown, answer, wait, ctxDone, open, asked, refreshes>>

Interrupted ==
  /\ pc = "sleep" /\ ctxDone
  /\ pc' = "cancelled"
  /\ UNCHANGED <<lockdown, attempt, answer, wait, ctxDone, open, history>>

ClientLeaves ==
  /\ ~ctxDone
  /\ pc \notin Returned
  /\ ctxDone' = TRUE
  /\ UNCHANGED <<lockdown, pc, attempt, answer, wait, open, history>>

----------------------------------------------------------------------------

Init ==
  /\ lockdown \in BOOLEAN
  /\ pc = "call" /\ attempt = 1 /\ answer = NoAnswer /\ wait = 0
  /\ ctxDone = FALSE /\ open = {}
  /\ asked = NoQueue /\ slept = 0 /\ refreshes = 0

Call == \/ \E a \in Answer : Respond(a)
        \/ TransportError
Step == \/ Accept \/ Unauthorized \/ Refreshed \/ RefreshFails \/ Retry \/ Reject
        \/ Wake \/ Interrupted

Next == Call \/ Step \/ ClientLeaves

Spec == Init /\ [][Next]_vars

\* Only the timeout of lockdown ends a round trip the service never answers.
Fairness == WF_vars(Step) /\ WF_vars(lockdown /\ Call)

FairSpec == Spec /\ Fairness

----------------------------------------------------------------------------
(* Correctness.                                                            *)

TypeOK ==
  /\ lockdown \in BOOLEAN
  /\ pc \in {"call", "reading", "refresh", "sleep", "unreachable"} \cup Returned
  /\ attempt \in 1 .. maxAttempts
  /\ answer \in Answer \cup {NoAnswer}
  /\ wait \in 0 .. MaxWait
  /\ ctxDone \in BOOLEAN
  /\ open \subseteq 1 .. maxAttempts
  /\ asked \in QueueWaits \cup {NoQueue}
  /\ slept \in Nat /\ refreshes \in 0 .. 2

\* The last attempt always decides: whatever mix of refused signatures, busy
\* answers, queue signals and broken connections came before, the loop never
\* runs out and returns "unreachable", at most one refresh is forced, and the
\* client waits at most half a minute before each of three retries.
RetriesBounded ==
  pc # "unreachable" /\ refreshes <= 1 /\ slept <= (maxAttempts - 1) * MaxWait

\* Across retries no response body is left open; the call hands over the body
\* of its last attempt, and only when that attempt was answered 200.
BodiesClosed ==
  /\ pc \in {"call", "refresh", "sleep", "rejected", "failed", "cancelled"} =>
       open = {}
  /\ pc = "answered" => open = {attempt} /\ answer.status = "ok"

HonoursQueue ==
  /\ pc = "reading" /\ pc' # pc
  /\ asked # NoQueue /\ attempt < maxAttempts
  /\ answer.status \notin {"ok", "unauthorized"}
  => pc' = "sleep" /\ wait' = Capped(asked)

\* A queue signal before the last attempt is followed by a retry after the wait
\* the service asked for, up to the cap ("retries for ... server-side queueing",
\* callUpstream).
QueueWaitHonoured == [][HonoursQueue]_vars

\* Without lockdown it is, with every mix of statuses, headers and attempts.
QueueWaitUnlocked == [][~lockdown => HonoursQueue]_vars

\* Under lockdown the handler gets an answer or an error in the end, even from a
\* service that stays silent.
CallReturns == lockdown => <>(pc \in Returned)

=============================================================================
