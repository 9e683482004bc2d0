------------------------------ MODULE Answers ------------------------------
(***************************************************************************)
(* One upstream answer in the three protocols.  The same chunks go through *)
(* AnthropicStream, which reads the body itself, and through OpenAIStream  *)
(* and ResponsesStream, which are handed the chunks by upstreamChunks and  *)
(* learn at their end whether it failed; the pipe between them is          *)
(* ChunkPipe's subject.  The body ends by an error, a finish event, its    *)
(* end or a break after any chunk.                                         *)
(***************************************************************************)
EXTENDS UpChunk, SequencesExt

CONSTANTS
  Lengths,    \* the chunks whose stop reason, if they have one, is "length"
  MaxChunks   \* bound: chunks in one answer

VARIABLES
  ast, aacc, streaming, gathering,  \* AnthropicStream
  sent, idx, oacc, answer,          \* OpenAIStream
  rst, racc, ended,                 \* ResponsesStream
  n,                                \* chunks sent
  calls,   \* history: the calls upstream made, told apart by their ids
  open,    \* history: the last thing upstream sent belongs to a call
  regular  \* history: all chunks so far are as UpChunk!Documented says

A == INSTANCE AnthropicStream WITH st <- ast, acc <- aacc
O == INSTANCE OpenAIStream WITH acc <- oacc
R == INSTANCE ResponsesStream WITH st <- rst, acc <- racc

vars == <<ast, aacc, streaming, gathering, sent, idx, oacc, answer,
          rst, racc, ended, n, calls, open, regular>>
upstream == <<n, calls, open, regular>>

----------------------------------------------------------------------------

\* A fragment with an id begins a call, one without belongs to the last.
Made(cs, tc, part) ==
  LET b == IF tc.id # None
             THEN Append(cs, [id |-> tc.id, name |-> tc.name, args |-> <<>>])
             ELSE cs
  IN IF tc.args /\ b # <<>> THEN [b EXCEPT ![Len(b)].args = Append(@, part)] ELSE b
CallsMade(cs, tools, part) == FoldLeft(LAMBDA x, tc : Made(x, tc, part), cs, tools)

Chunk(c) ==
  /\ n < MaxChunks
  /\ n' = n + 1
  /\ A!Chunk(c, n') /\ O!Chunk(c, n') /\ R!Chunk(c, n')
  /\ calls' = CallsMade(calls, c.tools, n')
  /\ open' = (~c.stop /\ (c.tools # <<>> \/ (open /\ ~c.think /\ ~c.text)))
  /\ regular' = (regular /\ Documented(c, {calls[i].id : i \in DOMAIN calls}, open))

UpstreamError ==
  /\ A!UpstreamError /\ O!End(TRUE) /\ R!End(TRUE)
  /\ UNCHANGED upstream

FinishEvent(data) ==
  /\ A!FinishEvent(data) /\ O!End(FALSE) /\ R!End(FALSE)
  /\ UNCHANGED upstream

\* A body that breaks off is an error for upstreamChunks and an end for the
\* readers of the Anthropic protocol; after a finish event only collectAnthropic
\* may still wait for it.
BodyEnds(broken) ==
  /\ A!End
  /\ \/ O!End(broken) /\ R!End(broken)
     \/ ended /\ UNCHANGED <<sent, idx, oacc, answer, rst, racc, ended>>
  /\ UNCHANGED upstream

Init ==
  /\ A!Init /\ O!Init /\ R!Init
  /\ n = 0 /\ calls = <<>> /\ open = FALSE /\ regular = TRUE

Next ==
  \/ \E c \in Chunks : Chunk(c)
  \/ UpstreamError
  \/ \E data \in BOOLEAN : FinishEvent(data)
  \/ \E broken \in BOOLEAN : BodyEnds(broken)

Spec == Init /\ [][Next]_vars

----------------------------------------------------------------------------
(* Correctness.                                                            *)

\* Whatever upstream sends and however it ends, the events of both protocols that
\* have events keep to them: see AnthropicStream and ResponsesStream.
WellFormed == A!WellFormed /\ R!WellFormed

\* In each protocol the stream and the single body carry the same content,
\* whatever upstream sends; in the Responses API so do the deltas, the items and
\* the completed response.
SameAnswer == A!SameContent /\ O!SameAnswer /\ R!OutputIsStream /\ R!SameContent

\* The calls among the blocks or items of a body.
CallsOf(body) ==
  FlattenSeq([i \in DOMAIN body |->
    IF body[i].kind \in {"tool_use", "function_call"} THEN <<body[i].call>> ELSE <<>>])

\* When upstream keeps to its documented tool calls, a client is given exactly the
\* calls upstream made, none merged with another, split in two or robbed of a
\* fragment, parallel ones included: by the blocks and the body of the Anthropic
\* protocol, by accumulating OpenAI chunks by index ("clients that accumulate by
\* index would merge distinct calls into one", toolIndexer), and by the items and
\* the body of the Responses API.
CallsKept ==
  regular =>
    /\ A!ToolBlocks = calls /\ CallsOf(A!Body) = calls
    /\ O!ClientCalls = calls
    /\ CallsOf(R!Body) = calls
    /\ Last(rst.out).e = "completed" => R!CallItems = calls

=============================================================================
