------------------------------ MODULE ChunkPipe ------------------------------
(***************************************************************************)
(* upstreamChunks of openai.go: a goroutine reads the upstream body and    *)
(* sends its chunks through a buffered channel to the handler of a Chat    *)
(* Completions or Responses request, which streams or collects them; an    *)
(* error takes a channel of its own.  Both end of their own accord: the    *)
(* handler when the channel is closed, the goroutine when the body ends or *)
(* the request is cancelled.                                               *)
(*                                                                         *)
(* The n-th chunk is the number n.  Frames that do not parse are left out. *)
(***************************************************************************)
EXTENDS Naturals, Sequences

CONSTANTS
  Capacity,  \* of the chunk channel (16)
  Lockdown,  \* nativeLockedDown()
  MaxChunks  \* bound: chunks in one answer

ASSUME PipeAssumption == Capacity \in Nat \ {0} /\ Lockdown \in BOOLEAN

VARIABLES
  producer,  \* where the goroutine of upstreamChunks is
  n,         \* chunks it has parsed
  chunks,    \* the channel out
  isClosed,  \* out is closed
  errc,      \* the error channel, of capacity one
  consumer,  \* where the handler is
  stream,    \* the request asks for a stream
  got,       \* chunks the handler has received
  result,    \* how the answer to the client ends
  told,      \* whose words the client is given for an error
  cancelled, \* the request context
  ending,    \* history: how the upstream answer ended
  left       \* history: the client went away before the answer was complete

pipe == <<chunks, isClosed, errc>>
answer == <<stream, got, result, told>>
vars == <<producer, n, pipe, consumer, answer, cancelled, ending, left>>

Reported == {"service", "broken"}

----------------------------------------------------------------------------
(* The goroutine: readSSE and its callback.                                *)

ReadChunk ==
  /\ producer = "read"
  /\ n < MaxChunks
  /\ n' = n + 1
  /\ producer' = "send"
  /\ UNCHANGED <<pipe, consumer, answer, cancelled, ending, left>>

\* The finish event, or the end of the body.
ReadEnd ==
  /\ producer = "read"
  /\ ending' = "clean"
  /\ producer' = "close"
  /\ UNCHANGED <<n, pipe, consumer, answer, cancelled, left>>

\* An error status or an error chunk.  The channel is empty: this is the only
\* error unless reading fails, and nothing is read after it.
ReadError ==
  /\ producer = "read"
  /\ Len(errc) < 1
  /\ errc' = Append(errc, "service")
  /\ ending' = "service"
  /\ producer' = "close"
  /\ UNCHANGED <<n, chunks, isClosed, consumer, answer, cancelled, left>>

\* Mutant: the channel is closed before the error is in errc.
BreaksClosing ==
  /\ producer = "read"
  /\ ending' = "broken"
  /\ isClosed' = TRUE
  /\ producer' = "report"
  /\ UNCHANGED <<n, chunks, errc, consumer, answer, cancelled, left>>

\* The connection breaks, the client timeout is over, the request is cancelled,
\* or the handler has closed the body.
ReadBreaks ==
  /\ producer = "read"
  /\ ending' = "broken"
  /\ producer' = "report"
  /\ UNCHANGED <<n, pipe, consumer, answer, cancelled, left>>

HasRoom == Len(chunks) < Capacity

\* Mutant: a full channel loses the chunk.
SendOrDrop ==
  /\ producer = "send"
  /\ chunks' = IF HasRoom THEN Append(chunks, n) ELSE chunks
  /\ producer' = "read"
  /\ UNCHANGED <<n, isClosed, errc, consumer, answer, cancelled, ending, left>>

Send ==
  /\ producer = "send"
  /\ HasRoom
  /\ chunks' = Append(chunks, n)
  /\ producer' = "read"
  /\ UNCHANGED <<n, isClosed, errc, consumer, answer, cancelled, ending, left>>

\* The other case of the select.  Mutant: it is only taken when a read fails.
NeverAbandon == producer = "send" /\ FALSE /\ UNCHANGED vars
Abandon ==
  /\ producer = "send"
  /\ cancelled
  /\ ending' = "abandoned"
  /\ producer' = "close"
  /\ UNCHANGED <<n, pipe, consumer, answer, cancelled, left>>

Report ==
  /\ producer = "report"
  /\ errc' = IF Len(errc) < 1 THEN Append(errc, "broken") ELSE errc
  /\ producer' = "close"
  /\ UNCHANGED <<n, chunks, isClosed, consumer, answer, cancelled, ending, left>>

CloseOut ==
  /\ producer = "close"
  /\ isClosed' = TRUE
  /\ producer' = "done"
  /\ UNCHANGED <<n, chunks, errc, consumer, answer, cancelled, ending, left>>

----------------------------------------------------------------------------
(* The handler.                                                            *)

\* A ResponseWriter without Flush: the handler returns at once.
Unsupported ==
  /\ consumer = "start" /\ stream
  /\ result' = "unsupported"
  /\ consumer' = "return"
  /\ UNCHANGED <<producer, n, pipe, stream, got, told, cancelled, ending, left>>

Start ==
  /\ consumer = "start"
  /\ consumer' = "range"
  /\ UNCHANGED <<producer, n, pipe, answer, cancelled, ending, left>>

Receive ==
  /\ consumer = "range"
  /\ chunks # <<>>
  /\ got' = Append(got, Head(chunks))
  /\ chunks' = Tail(chunks)
  /\ UNCHANGED <<producer, n, isClosed, errc, consumer, stream, result, told,
                 cancelled, ending, left>>

RangeEnds ==
  /\ consumer = "range"
  /\ chunks = <<>> /\ isClosed
  /\ consumer' = "check"
  /\ UNCHANGED <<producer, n, pipe, answer, cancelled, ending, left>>

\* A body goes through writeOAIError, which replaces the text of an api_error
\* under lockdown; streamOAI and fail write err.Error() into the stream.
Told == IF stream \/ ~Lockdown THEN Head(errc) ELSE "public"

\* The select with a default: whatever is not in errc by now is no error.
Check ==
  /\ consumer = "check"
  /\ IF errc # <<>>
       THEN /\ result' = "failed"
            /\ told' = Told
            /\ errc' = Tail(errc)
       ELSE /\ result' = "complete"
            /\ UNCHANGED <<told, errc>>
  /\ consumer' = "return"
  /\ UNCHANGED <<producer, n, chunks, isClosed, stream, got, cancelled, ending,
                 left>>

\* The handler returns: the body is closed and net/http cancels the request.
Return ==
  /\ consumer = "return"
  /\ cancelled' = TRUE
  /\ consumer' = "returned"
  /\ UNCHANGED <<producer, n, pipe, answer, ending, left>>

ClientLeaves ==
  /\ ~cancelled
  /\ cancelled' = TRUE
  /\ left' = (left \/ result = "none")
  /\ UNCHANGED <<producer, n, pipe, consumer, answer, ending>>

----------------------------------------------------------------------------

Init ==
  /\ producer = "read" /\ n = 0 /\ chunks = <<>> /\ isClosed = FALSE /\ errc = <<>>
  /\ consumer = "start" /\ stream \in BOOLEAN /\ got = <<>>
  /\ result = "none" /\ told = "nothing"
  /\ cancelled = FALSE /\ ending = "none" /\ left = FALSE

Read == ReadChunk \/ ReadEnd \/ ReadError \/ ReadBreaks
Pass == Send \/ Abandon \/ Report \/ CloseOut
Consume == Start \/ Unsupported \/ Receive \/ RangeEnds \/ Check \/ Return

Next == Read \/ Pass \/ Consume \/ ClientLeaves

Spec == Init /\ [][Next]_vars

\* Once the request is cancelled every read of the body fails, after the chunks
\* readSSE has buffered, and so does every write to the client: neither side
\* waits for the network any more.
Fairness ==
  /\ WF_vars(Pass)
  /\ WF_vars(cancelled /\ Read)
  /\ WF_vars(cancelled /\ Consume)

FairSpec == Spec /\ Fairness

----------------------------------------------------------------------------
(* Correctness.                                                            *)

UpTo(k) == [i \in 1 .. k |-> i]

TypeOK ==
  /\ producer \in {"read", "send", "report", "close", "done"}
  /\ n \in Nat
  /\ chunks \in Seq(Nat) /\ Len(chunks) <= Capacity
  /\ isClosed \in BOOLEAN
  /\ errc \in Seq(Reported) /\ Len(errc) <= 1
  /\ consumer \in {"start", "range", "check", "return", "returned"}
  /\ stream \in BOOLEAN
  /\ got \in Seq(Nat)
  /\ result \in {"none", "unsupported", "failed", "complete"}
  /\ told \in Reported \cup {"nothing", "public"}
  /\ cancelled \in BOOLEAN /\ left \in BOOLEAN
  /\ ending \in {"none", "clean", "abandoned"} \cup Reported

\* While the client is there its answer ends as upstream's did: it is given as
\* complete only when upstream ended cleanly, as failed only when upstream
\* failed, and in both cases after every chunk upstream sent, in order.
AnswerFaithful ==
  result \in {"complete", "failed"} /\ ~left =>
    /\ result = "complete" <=> ending = "clean"
    /\ result = "failed" <=> ending \in Reported
    /\ got = UpTo(n)

\* The pipe is a Delivery: the channel is a queue without loss, overtaking or
\* repetition wherever the answer stops, the producer gives up only when nobody
\* wants the answer, and the answer's end is decided once, as upstream's.
D == INSTANCE Delivery WITH
       sent <- UpTo(n),
       fate <- IF ending \in Reported THEN "failed" ELSE ending,
       received <- got,
       verdict <- result,
       away <- left
Delivers == D!Spec

\* A request that is cancelled, or whose handler has returned, leaves no
\* goroutine behind: the producer does not stay blocked on a channel nobody
\* drains, and the handler not on one nobody closes.
NobodyLeft == cancelled ~> producer = "done" /\ consumer = "returned"

\* Under lockdown a client is never given the service's own words for an error
\* ("sanitizes upstream errors", LOCAL_CHANGES.md).
ErrorsSanitized == Lockdown => told # "service"

=============================================================================
