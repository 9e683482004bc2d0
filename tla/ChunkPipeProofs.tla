--------------------------- MODULE ChunkPipeProofs ---------------------------
(***************************************************************************)
(* Theorems about ChunkPipe, for any capacity of the channel and answers   *)
(* of any length.  The inductive invariant says which numbers are where    *)
(* (Numbering), how far the two sides can be apart (Phases), and what the  *)
(* error channel holds when (Errors).  From it follow what a client is     *)
(* given, and that the pipe implements Delivery.                           *)
(***************************************************************************)
EXTENDS ChunkPipe, TLAPS

\* The chunk in the hands of the goroutine, or lost when it gave up, is the only
\* one that is neither received nor in the channel.
Placed == IF producer = "send" \/ ending = "abandoned" THEN n - 1 ELSE n

Numbering ==
  /\ Placed \in Nat
  /\ Len(got) + Len(chunks) = Placed
  /\ \A i \in DOMAIN got : got[i] = i
  /\ \A j \in DOMAIN chunks : chunks[j] = Len(got) + j

\* The channel is closed last; the handler goes on to errc only after that; a
\* cancelled request has been left or has its answer.
Phases ==
  /\ isClosed <=> producer = "done"
  /\ ending = "none" <=> producer \in {"read", "send"}
  /\ producer = "report" => ending = "broken"
  /\ consumer \in {"start", "range", "check"} <=> result = "none"
  /\ consumer = "check" \/ result \in {"complete", "failed"} =>
       producer = "done" /\ chunks = <<>>
  /\ cancelled => left \/ result # "none"
  /\ ending = "abandoned" => left \/ result = "unsupported"

\* An upstream failure is in errc before the channel is closed, and stays there
\* until the handler takes it.
Errors ==
  /\ producer \in {"read", "send", "report"} => errc = <<>>
  /\ producer \in {"close", "done"} /\ result = "none" =>
       (errc # <<>> <=> ending \in Reported)
  /\ result = "complete" => ending \notin Reported
  /\ result = "failed" => ending \in Reported

\* A handler that has not begun to range over the channel has no chunk.
Untouched == consumer = "start" => got = <<>>

Inv == TypeOK /\ Numbering /\ Phases /\ Errors /\ Untouched

----------------------------------------------------------------------------
(* Types.                                                                  *)

\* TypeOK by parts: flags, queues, where each side is.
Flags ==
  /\ isClosed \in BOOLEAN
  /\ stream \in BOOLEAN
  /\ cancelled \in BOOLEAN
  /\ left \in BOOLEAN

Queues ==
  /\ n \in Nat
  /\ chunks \in Seq(Nat) /\ Len(chunks) <= Capacity
  /\ errc \in Seq(Reported) /\ Len(errc) <= 1
  /\ got \in Seq(Nat)

Places ==
  /\ producer \in {"read", "send", "report", "close", "done"}
  /\ consumer \in {"start", "range", "check", "return", "returned"}
  /\ result \in {"none", "unsupported", "failed", "complete"}
  /\ told \in Reported \cup {"nothing", "public"}
  /\ ending \in {"none", "clean", "abandoned"} \cup Reported

\* The parts are the whole.
LEMMA TypeParts == TypeOK <=> Flags /\ Queues /\ Places
BY Zenon DEF TypeOK, Flags, Queues, Places

LEMMA TypeInit == Init => TypeOK
<1> SUFFICES ASSUME Init PROVE Flags /\ Queues /\ Places
  BY TypeParts
<1>1. Flags
  BY Zenon DEF Init, Flags
<1>2. Queues
  BY PipeAssumption DEF Init, Queues, Reported
<1>3. Places
  BY DEF Init, Places, Reported
<1> QED
  BY <1>1, <1>2, <1>3

LEMMA FlagsStep == Flags /\ [Next]_vars => Flags'
<1> SUFFICES ASSUME Flags, [Next]_vars
             PROVE  Flags'
  OBVIOUS
<1> USE DEF Flags, pipe, answer
<1>1. CASE Read
  BY <1>1, Zenon DEF Read, ReadChunk, ReadEnd, ReadError, ReadBreaks
<1>2. CASE Pass
  BY <1>2, Zenon DEF Pass, Send, Abandon, Report, CloseOut
<1>3. CASE Consume
  <2>1. CASE Start \/ Unsupported \/ Receive
    BY <2>1, Zenon DEF Start, Unsupported, Receive
  <2>2. CASE RangeEnds \/ Check \/ Return
    BY <2>2, Zenon DEF RangeEnds, Check, Return
  <2> QED
    BY <1>3, <2>1, <2>2 DEF Consume
<1>4. CASE ClientLeaves
  BY <1>4, Zenon DEF ClientLeaves
<1>5. CASE UNCHANGED vars
  BY <1>5, Zenon DEF vars
<1> QED
  BY <1>1, <1>2, <1>3, <1>4, <1>5 DEF Next

LEMMA QueuesStep == Queues /\ [Next]_vars => Queues'
<1> SUFFICES ASSUME Queues, [Next]_vars
             PROVE  Queues'
  OBVIOUS
<1> USE PipeAssumption DEF Queues, pipe, answer, Reported
<1>1. CASE Read
  BY <1>1 DEF Read, ReadChunk, ReadEnd, ReadError, ReadBreaks
<1>2. CASE Send
  BY <1>2 DEF Send, HasRoom
<1>3. CASE Abandon \/ Report \/ CloseOut
  BY <1>3 DEF Abandon, Report, CloseOut
<1>4. CASE Receive
  BY <1>4 DEF Receive
<1>5. CASE Start \/ Unsupported \/ RangeEnds \/ Return \/ ClientLeaves
  BY <1>5 DEF Start, Unsupported, RangeEnds, Return, ClientLeaves
<1>6. CASE Check
  BY <1>6 DEF Check
<1>7. CASE UNCHANGED vars
  BY <1>7 DEF vars
<1> QED
  BY <1>1, <1>2, <1>3, <1>4, <1>5, <1>6, <1>7 DEF Next, Pass, Consume

LEMMA PlacesStep == Queues /\ Places /\ [Next]_vars => Places'
<1> SUFFICES ASSUME Queues, Places, [Next]_vars
             PROVE  Places'
  OBVIOUS
<1> USE DEF Places, pipe, answer, Reported
<1>1. CASE Read
  BY <1>1 DEF Read, ReadChunk, ReadEnd, ReadError, ReadBreaks
<1>2. CASE Pass
  BY <1>2 DEF Pass, Send, Abandon, Report, CloseOut
<1>3. CASE Check
  <2>1. errc # <<>> => Head(errc) \in Reported
    BY DEF Queues
  <2> QED
    BY <1>3, <2>1 DEF Check, Told
<1>4. CASE Start \/ Unsupported \/ Receive \/ RangeEnds \/ Return \/ ClientLeaves
  BY <1>4 DEF Start, Unsupported, Receive, RangeEnds, Return, ClientLeaves
<1>5. CASE UNCHANGED vars
  BY <1>5 DEF vars
<1> QED
  BY <1>1, <1>2, <1>3, <1>4, <1>5 DEF Next, Consume

LEMMA TypeStep == TypeOK /\ [Next]_vars => TypeOK'
<1>1. (Flags /\ Queues /\ Places)' => TypeOK'
  BY Zenon DEF TypeOK, Flags, Queues, Places
<1> QED
  BY <1>1, TypeParts, FlagsStep, QueuesStep, PlacesStep

\* TypeOK of the run chunk_pipe: the channel never holds more than its capacity
\* and the error channel never more than one error, so neither send can block
\* where the code does not expect it.
THEOREM TypeCorrect == Spec => []TypeOK
BY TypeInit, TypeStep, PTL DEF Spec

----------------------------------------------------------------------------
(* The inductive invariant.                                                *)

LEMMA InvInit == Init => Inv
<1> SUFFICES ASSUME Init PROVE Inv
  OBVIOUS
<1>1. TypeOK
  BY TypeInit
<1>2. Numbering
  BY DEF Init, Numbering, Placed
<1>3. Phases /\ Errors
  BY DEF Init, Phases, Errors, Reported
<1>4. Untouched
  BY DEF Init, Untouched
<1> QED
  BY <1>1, <1>2, <1>3, <1>4 DEF Inv

LEMMA NumberedAppend ==
  ASSUME NEW s \in Seq(Nat), NEW k \in Nat,
         \A j \in DOMAIN s : s[j] = k + j
  PROVE  \A j \in DOMAIN Append(s, k + Len(s) + 1) :
           Append(s, k + Len(s) + 1)[j] = k + j
OBVIOUS

LEMMA SendNumbers == Inv /\ Send => Numbering'
<1> SUFFICES ASSUME Inv, Send PROVE Numbering'
  OBVIOUS
<1>1. n \in Nat /\ got \in Seq(Nat) /\ chunks \in Seq(Nat)
  BY DEF Inv, TypeOK
<1>2. /\ chunks' = Append(chunks, n) /\ UNCHANGED <<n, got, ending>>
      /\ producer = "send" /\ producer' = "read"
  BY DEF Send, answer
<1>3. ending = "none"
  BY <1>2 DEF Inv, Phases
<1>4. Placed = n - 1 /\ Placed' = n
  BY <1>2, <1>3 DEF Placed
<1>5. n = Len(got) + Len(chunks) + 1
  BY <1>1, <1>4 DEF Inv, Numbering
<1>6. \A j \in DOMAIN chunks' : chunks'[j] = Len(got) + j
  BY <1>1, <1>2, <1>5, NumberedAppend DEF Inv, Numbering
<1>7. Len(chunks') = Len(chunks) + 1
  BY <1>1, <1>2
<1> QED
  BY <1>1, <1>2, <1>4, <1>5, <1>6, <1>7 DEF Inv, Numbering

LEMMA NumberingStep == Inv /\ [Next]_vars => Numbering'
<1> SUFFICES ASSUME Inv, [Next]_vars
             PROVE  Numbering'
  OBVIOUS
<1>0. Queues
  BY TypeParts DEF Inv
<1> USE <1>0 DEF Inv, Queues, Phases, Numbering, Placed, pipe, answer, Reported
<1>1. CASE ReadChunk
  BY <1>1 DEF ReadChunk
<1>2. CASE ReadEnd \/ ReadError \/ ReadBreaks
  BY <1>2 DEF ReadEnd, ReadError, ReadBreaks
<1>3. CASE Send
  BY <1>3, SendNumbers
<1>4. CASE Abandon
  BY <1>4 DEF Abandon
<1>5. CASE Report \/ CloseOut
  BY <1>5 DEF Report, CloseOut
<1>6. CASE Receive
  <2>1. chunks # <<>> /\ got' = Append(got, Head(chunks)) /\ chunks' = Tail(chunks)
        /\ Placed' = Placed
    BY <1>6 DEF Receive
  <2>2. Len(got') = Len(got) + 1 /\ Len(chunks') = Len(chunks) - 1
    BY <2>1
  <2>3. Head(chunks) = Len(got) + 1
    BY <2>1
  <2>4. \A i \in DOMAIN got' : got'[i] = i
    BY <2>1, <2>3
  <2>5. \A j \in DOMAIN chunks' : /\ j \in Nat /\ j + 1 \in DOMAIN chunks
                                 /\ chunks'[j] = chunks[j + 1]
    BY <2>1
  <2>6. \A j \in DOMAIN chunks' : chunks'[j] = Len(got') + j
    BY <2>2, <2>5
  <2> QED
    BY <2>1, <2>2, <2>4, <2>6
<1>7. CASE Start \/ Unsupported \/ RangeEnds \/ Check \/ Return \/ ClientLeaves
  BY <1>7 DEF Start, Unsupported, RangeEnds, Check, Return, ClientLeaves
<1>8. CASE UNCHANGED vars
  BY <1>8 DEF vars
<1> QED
  BY <1>1, <1>2, <1>3, <1>4, <1>5, <1>6, <1>7, <1>8 DEF Next, Read, Pass, Consume

LEMMA PhasesStep == Inv /\ [Next]_vars => Phases'
<1> SUFFICES ASSUME Inv, [Next]_vars
             PROVE  Phases'
  OBVIOUS
<1>0. Queues /\ Places
  BY TypeParts DEF Inv
<1> USE <1>0 DEF Inv, Queues, Places, Phases, pipe, answer, Reported
<1>1. CASE ReadChunk \/ ReadEnd \/ ReadError \/ ReadBreaks
  BY <1>1 DEF ReadChunk, ReadEnd, ReadError, ReadBreaks
<1>2. CASE Send \/ Abandon
  BY <1>2 DEF Send, Abandon
<1>3. CASE Report \/ CloseOut
  BY <1>3 DEF Report, CloseOut
<1>4. CASE Receive
  BY <1>4 DEF Receive
<1>5. CASE Start \/ Unsupported \/ RangeEnds
  BY <1>5 DEF Start, Unsupported, RangeEnds
<1>6. CASE Check
  BY <1>6 DEF Check
<1>7. CASE Return \/ ClientLeaves
  <2>1. /\ UNCHANGED <<producer, chunks, isClosed, result, ending>>
        /\ consumer' \in {"start", "range", "check"} <=>
             consumer \in {"start", "range", "check"}
        /\ consumer' = "check" => consumer = "check"
    BY <1>7 DEF Return, ClientLeaves
  <2>2. left => left'
    BY <1>7 DEF Return, ClientLeaves
  <2>3. left' \/ result # "none"
    BY <1>7 DEF Return, ClientLeaves
  <2> QED
    BY <2>1, <2>2, <2>3
<1>8. CASE UNCHANGED vars
  BY <1>8 DEF vars
<1> QED
  BY <1>1, <1>2, <1>3, <1>4, <1>5, <1>6, <1>7, <1>8 DEF Next, Read, Pass, Consume

LEMMA ErrorsStep == Inv /\ [Next]_vars => Errors'
<1> SUFFICES ASSUME Inv, [Next]_vars
             PROVE  Errors'
  OBVIOUS
<1>0. Queues /\ Places
  BY TypeParts DEF Inv
<1> USE <1>0 DEF Inv, Queues, Places, Phases, Errors, pipe, answer, Reported
<1>1. CASE ReadChunk \/ ReadEnd \/ ReadBreaks
  BY <1>1 DEF ReadChunk, ReadEnd, ReadBreaks
<1>2. CASE ReadError
  BY <1>2 DEF ReadError
<1>3. CASE Send \/ Abandon \/ CloseOut
  BY <1>3 DEF Send, Abandon, CloseOut
<1>4. CASE Report
  <2>1. producer = "report" /\ errc' = <<"broken">> /\ producer' = "close" 
        /\ ending' = "broken" /\ result' = result
    BY <1>4 DEF Report
  <2> QED
    BY <2>1
<1>5. CASE Check
  BY <1>5 DEF Check
<1>6. CASE Start \/ Unsupported \/ Receive \/ RangeEnds \/ Return \/ ClientLeaves
  BY <1>6 DEF Start, Unsupported, Receive, RangeEnds, Return, ClientLeaves
<1>7. CASE UNCHANGED vars
  BY <1>7 DEF vars
<1> QED
  BY <1>1, <1>2, <1>3, <1>4, <1>5, <1>6, <1>7 DEF Next, Read, Pass, Consume

LEMMA UntouchedStep == Untouched /\ [Next]_vars => Untouched'
BY DEF Untouched, Next, Read, Pass, Consume, pipe, answer, vars, ReadChunk,
       ReadEnd, ReadError, ReadBreaks, Send, Abandon, Report, CloseOut, Start,
       Unsupported, Receive, RangeEnds, Check, Return, ClientLeaves

LEMMA InvStep == Inv /\ [Next]_vars => Inv'
BY TypeStep, NumberingStep, PhasesStep, ErrorsStep, UntouchedStep DEF Inv

LEMMA Counting ==
  ASSUME NEW s \in Seq(Nat), \A i \in 1 .. Len(s) : s[i] = i
  PROVE  s = UpTo(Len(s))
BY DEF UpTo

THEOREM Invariance == Spec => []Inv
BY InvInit, InvStep, PTL DEF Spec

----------------------------------------------------------------------------
(* What a client is given.                                                 *)

\* AnswerFaithful of the run chunk_pipe: whatever the two sides' timing, a client
\* that stays is given every chunk, and an end of the answer that is upstream's.
THEOREM AnswersAreFaithful == Spec => []AnswerFaithful
<1>1. Inv => AnswerFaithful
  <2> SUFFICES ASSUME Inv, result \in {"complete", "failed"}, ~left
               PROVE  /\ result = "complete" <=> ending = "clean"
                      /\ result = "failed" <=> ending \in Reported
                      /\ got = UpTo(n)
    BY DEF AnswerFaithful
  <2>1. producer = "done" /\ chunks = <<>> /\ ending \notin {"none", "abandoned"}
    BY DEF Inv, Phases
  <2>2. got = UpTo(n)
    <3>1. Len(got) = n /\ got \in Seq(Nat)
      BY <2>1 DEF Inv, Numbering, Placed, TypeOK
    <3> QED
      BY <3>1, Counting DEF Inv, Numbering
  <2> QED
    BY <2>1, <2>2 DEF Inv, Errors, TypeOK, Reported
<1> QED
  BY <1>1, Invariance, PTL

----------------------------------------------------------------------------
(* The refinement: every step of the pipe is a step of Delivery or none.   *)

LEMMA UpToGrows ==
  ASSUME NEW k \in Nat
  PROVE  /\ UpTo(k) \in Seq(Nat) /\ Len(UpTo(k)) = k
         /\ Append(UpTo(k), k + 1) = UpTo(k + 1)
BY DEF UpTo

LEMMA DeliveryInit == Init => D!Init
<1> SUFFICES ASSUME Init PROVE D!Init
  OBVIOUS
<1>1. UpTo(n) = <<>>
  BY DEF Init, UpTo
<1> QED
  BY <1>1 DEF Init, D!Init, Reported

LEMMA DeliveryStep == Inv /\ [Next]_vars => [D!Next]_(D!vars)
<1> SUFFICES ASSUME Inv, [Next]_vars
             PROVE  D!Next \/ UNCHANGED D!vars
  OBVIOUS
<1>0. Queues /\ Places
  BY TypeParts DEF Inv
<1> USE <1>0 DEF Queues, Places, pipe, answer
<1>1. CASE ReadChunk
  <2>1. ending = "none"
    BY <1>1 DEF ReadChunk, Inv, Phases
  <2>2. UpTo(n') = Append(UpTo(n), Len(UpTo(n)) + 1)
    BY <1>1, UpToGrows DEF ReadChunk
  <2> QED
    BY <1>1, <2>1, <2>2 DEF ReadChunk, D!Next, D!Produce, Reported
<1>2. CASE ReadEnd \/ ReadError \/ ReadBreaks
  <2>1. ending = "none"
    BY <1>2 DEF ReadEnd, ReadError, ReadBreaks, Inv, Phases
  <2> QED
    BY <1>2, <2>1 DEF ReadEnd, ReadError, ReadBreaks, D!Next, D!End, Reported
<1>3. CASE Abandon
  <2>1. ending = "none" /\ (left \/ result # "none")
    BY <1>3 DEF Abandon, Inv, Phases
  <2> QED
    BY <1>3, <2>1 DEF Abandon, D!Next, D!End, Reported
<1>4. CASE Receive
  <2>1. result = "none"
    BY <1>4 DEF Receive, Inv, Phases
  <2>2. Len(got) < n /\ Head(chunks) = Len(got) + 1
    BY <1>4 DEF Receive, Inv, Numbering, Placed
  <2>3. Len(got) < Len(UpTo(n)) /\ UpTo(n)[Len(got) + 1] = Len(got) + 1
    BY <2>2, UpToGrows DEF UpTo
  <2> QED
    BY <1>4, <2>1, <2>2, <2>3 DEF Receive, D!Next, D!Deliver
<1>5. CASE Check
  <2>1. /\ result = "none" /\ producer = "done" /\ chunks = <<>>
        /\ ending # "none"
        /\ result' \in {"complete", "failed"}
        /\ result' = "failed" <=> ending \in Reported
        /\ ~left => ending # "abandoned"
    BY <1>5 DEF Check, Inv, Phases, Errors
  <2>2. ~left => got = UpTo(n)
    <3> SUFFICES ASSUME ~left PROVE got = UpTo(n)
      OBVIOUS
    <3>1. Len(got) = n /\ \A i \in 1 .. Len(got) : got[i] = i
      BY <2>1 DEF Inv, Numbering, Placed
    <3> QED
      BY <3>1, Counting
  <2>3. UNCHANGED <<n, ending, got, left>>
    BY <1>5 DEF Check
  <2> QED
    BY <2>1, <2>2, <2>3 DEF D!Next, D!Conclude, Reported
<1>6. CASE Unsupported
  <2>1. result = "none"
    BY <1>6 DEF Unsupported, Inv, Phases
  <2>2. got = <<>>
    BY <1>6 DEF Unsupported, Inv, Untouched
  <2> QED
    BY <1>6, <2>1, <2>2 DEF Unsupported, D!Next, D!Refuse
<1>7. CASE ClientLeaves
  <2>1. CASE result = "none" /\ ~left
    BY <1>7, <2>1 DEF ClientLeaves, D!Next, D!Leave
  <2>2. CASE ~(result = "none" /\ ~left)
    <3>1. left' = left
      BY <1>7, <2>2 DEF ClientLeaves, Inv, TypeOK
    <3> QED
      BY <1>7, <3>1 DEF ClientLeaves, D!vars
  <2> QED
    BY <2>1, <2>2
<1>8. CASE Send \/ Report \/ CloseOut \/ Start \/ RangeEnds \/ Return
  BY <1>8 DEF Send, Report, CloseOut, Start, RangeEnds, Return, D!vars
<1>9. CASE UNCHANGED vars
  BY <1>9 DEF vars, D!vars
<1> QED
  BY <1>1, <1>2, <1>3, <1>4, <1>5, <1>6, <1>7, <1>8, <1>9
     DEF Next, Read, Pass, Consume

\* Delivers of the run chunk_pipe: for any capacity and length, the goroutine,
\* its two channels and the handler implement Delivery.
THEOREM ImplementsDelivery == Spec => Delivers
BY Invariance, DeliveryInit, DeliveryStep, PTL DEF Spec, Delivers, D!Spec

=============================================================================
