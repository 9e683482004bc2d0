--------------------------- MODULE AnthropicStream ---------------------------
(***************************************************************************)
(* How one upstream answer becomes an Anthropic message: the event stream  *)
(* of streamState and streamAnthropic (proxy.go), beside the single body   *)
(* collectAnthropic makes of the same input.                               *)
(*                                                                         *)
(* The text, stop reason or usage of a chunk is its number, part.  Frames  *)
(* that do not parse change nothing and are left out.  Answers sends the   *)
(* chunks.                                                                 *)
(***************************************************************************)
EXTENDS UpChunk, SequencesExt

VARIABLES
  st,        \* streamState, with the events written so far
  acc,       \* what collectAnthropic has gathered
  streaming, \* streamAnthropic still reads
  gathering  \* collectAnthropic still reads

----------------------------------------------------------------------------
(* streamState.                                                            *)

Emit(s, ev) == IF s.stopped THEN s ELSE [s EXCEPT !.out = Append(@, ev)]

MessageStart(s) ==
  IF s.started THEN s
  ELSE Emit([s EXCEPT !.started = TRUE], [e |-> "message_start"])

\* Mutant: the index is not advanced.
CloseSameIndex(s) ==
  IF s.kind = None THEN s
  ELSE [Emit(s, [e |-> "block_stop", index |-> s.index]) EXCEPT !.kind = None]
CloseBlock(s) ==
  IF s.kind = None THEN s
  ELSE [Emit(s, [e |-> "block_stop", index |-> s.index])
          EXCEPT !.kind = None, !.index = @ + 1]

StartBlock(s, kind) ==
  LET c == CloseBlock(MessageStart(s))
  IN Emit([c EXCEPT !.kind = kind],
          [e |-> "block_start", index |-> c.index, kind |-> kind,
           id |-> IF kind = "tool_use" THEN s.toolID ELSE None,
           name |-> IF kind = "tool_use" THEN s.toolName ELSE None])

OpenBlock(s, kind) ==
  LET m == MessageStart(s)
  IN IF m.kind = kind THEN m ELSE StartBlock(m, kind)

Delta(s, part) ==
  Emit(s, [e |-> "block_delta", index |-> s.index, kind |-> s.kind, part |-> part])

\* A tool block for a new call.  Mutant: an open tool block is used again, the
\* fault the comment on startBlock describes.
ReuseToolBlock(s) == OpenBlock(s, "tool_use")
NewToolBlock(s) == StartBlock(s, "tool_use")

Begins(s, tc) == tc.id # None \/ (tc.name # None /\ s.kind # "tool_use")

ToolCall(s, tc, part) ==
  LET noted == [s EXCEPT !.toolID = IF tc.id # None THEN tc.id ELSE @,
                         !.toolName = IF tc.name # None THEN tc.name ELSE @]
      begun == IF Begins(s, tc) THEN NewToolBlock(noted) ELSE s
  IN IF tc.args THEN Delta(OpenBlock(begun, "tool_use"), part) ELSE begun

ToolCalls(s, tools, part) ==
  FoldLeft(LAMBDA x, tc : ToolCall(x, tc, part), s, tools)

Finish(s) ==
  IF s.stopped THEN s
  ELSE LET c == CloseBlock(s)
           d == Emit(c, [e |-> "message_delta", stop |-> c.stop, usage |-> c.usage])
       IN [Emit(d, [e |-> "message_stop"]) EXCEPT !.stopped = TRUE]

Stop(s, c, part) ==
  IF ~c.stop THEN s
  ELSE [s EXCEPT !.stop = part, !.usage = IF c.usage THEN part ELSE @]

\* A stop reason ends the block, and not yet the message.
EndChoice(s, c) == IF c.stop THEN CloseBlock(s) ELSE s

\* handleChunk.
HandleChunk(s, c, part) ==
  IF ~c.choice THEN [s EXCEPT !.usage = IF c.usage THEN part ELSE @]
  ELSE LET s1 == IF c.think THEN Delta(OpenBlock(s, "thinking"), part) ELSE s
           s2 == IF c.text THEN Delta(OpenBlock(s1, "text"), part) ELSE s1
           s3 == ToolCalls(s2, c.tools, part)
       IN EndChoice(Stop(s3, c, part), c)

----------------------------------------------------------------------------
(* collectAnthropic.  curTool is the last element of tools.                *)

CollectTool(a, tc, part) ==
  LET b == IF tc.id # None \/ tc.name # None
             THEN [a EXCEPT !.tools = Append(@, [id |-> tc.id, name |-> tc.name,
                                                 args |-> <<>>])]
             ELSE a
  IN IF tc.args /\ b.tools # <<>>
       THEN [b EXCEPT !.tools[Len(b.tools)].args = Append(@, part)]
       ELSE b

CollectTools(a, tools, part) ==
  FoldLeft(LAMBDA x, tc : CollectTool(x, tc, part), a, tools)

Collect(a, c, part) ==
  IF ~c.choice THEN [a EXCEPT !.usage = IF c.usage THEN part ELSE @]
  ELSE LET a1 == IF c.think THEN [a EXCEPT !.think = Append(@, part)] ELSE a
           a2 == IF c.text THEN [a1 EXCEPT !.text = Append(@, part)] ELSE a1
           a3 == CollectTools(a2, c.tools, part)
       IN Stop(a3, c, part)

\* The content blocks of the body.
Block(kind, full) == IF full = <<>> THEN <<>> ELSE <<[kind |-> kind, full |-> full]>>
Texts == Block("thinking", acc.think) \o Block("text", acc.text)
Body == Texts \o [i \in DOMAIN acc.tools |-> [kind |-> "tool_use", call |-> acc.tools[i]]]

----------------------------------------------------------------------------
(* Upstream.                                                               *)

Chunk(c, part) ==
  /\ streaming /\ gathering
  /\ st' = HandleChunk(st, c, part)
  /\ acc' = Collect(acc, c, part)
  /\ UNCHANGED <<streaming, gathering>>

\* An error status or an error chunk ends both.
UpstreamError ==
  /\ streaming /\ gathering
  /\ st' = [Emit(st, [e |-> "error"]) EXCEPT !.failed = TRUE]
  /\ acc' = [acc EXCEPT !.failed = TRUE]
  /\ streaming' = FALSE /\ gathering' = FALSE

\* The finish event, after which upstream sends nothing.  collectAnthropic
\* overlooks one without data, and reads on to the end.
FinishEvent(data) ==
  /\ streaming /\ gathering
  /\ st' = Finish(st)
  /\ streaming' = FALSE /\ gathering' = ~data
  /\ UNCHANGED acc

FinishAtEnd(s) == IF s.started THEN Finish(s) ELSE s

\* The end of the body, or a read error: both are treated alike.
End ==
  /\ streaming \/ gathering
  /\ st' = IF streaming THEN FinishAtEnd(st) ELSE st
  /\ streaming' = FALSE /\ gathering' = FALSE
  /\ UNCHANGED acc

Init ==
  /\ st = [started |-> FALSE, stopped |-> FALSE, failed |-> FALSE, kind |-> None,
           index |-> 0, toolID |-> None, toolName |-> None,
           stop |-> None, usage |-> None, out |-> <<>>]
  /\ acc = [think |-> <<>>, text |-> <<>>, tools |-> <<>>,
            stop |-> None, usage |-> None, failed |-> FALSE]
  /\ streaming = TRUE /\ gathering = TRUE

----------------------------------------------------------------------------
(* What a client makes of the events.                                      *)

out == st.out

\* The deltas of one kind, whatever blocks they arrived in.
PartsOf(kind) ==
  FlattenSeq([i \in DOMAIN out |->
    IF out[i].e = "block_delta" /\ out[i].kind = kind THEN <<out[i].part>> ELSE <<>>])

\* The deltas of the block with index i.
PartsAt(i) ==
  FlattenSeq([k \in DOMAIN out |->
    IF out[k].e = "block_delta" /\ out[k].index = i THEN <<out[k].part>> ELSE <<>>])

ToolBlocks ==
  FlattenSeq([k \in DOMAIN out |->
    IF out[k].e = "block_start" /\ out[k].kind = "tool_use"
      THEN <<[id |-> out[k].id, name |-> out[k].name, args |-> PartsAt(out[k].index)]>>
      ELSE <<>>])

\* What may follow what.
Follows(p, q) ==
  CASE q.e = "message_start" -> FALSE
    [] q.e = "block_start"   -> \/ p.e = "message_start" /\ q.index = 0
                                \/ p.e = "block_stop" /\ q.index = p.index + 1
    [] q.e = "block_delta"   -> /\ p.e \in {"block_start", "block_delta"}
                                /\ p.index = q.index /\ p.kind = q.kind
    [] q.e = "block_stop"    -> /\ p.e \in {"block_start", "block_delta"}
                                /\ p.index = q.index
    [] q.e = "message_delta" -> p.e \in {"message_start", "block_stop"}
    [] q.e = "message_stop"  -> p.e = "message_delta"
    [] q.e = "error"         -> p.e \notin {"message_delta", "message_stop", "error"}

----------------------------------------------------------------------------
(* Correctness.                                                            *)

\* Whatever upstream sends, the events follow the Anthropic protocol: one
\* message_start, before every block; blocks one after the other, numbered from
\* zero, each delta inside the open block of its kind; nothing after the end.
\* Only an answer without any content, possibly with a stop reason, may lack its
\* message_start.  Once upstream is done, a message that was started ends with
\* message_stop or an error, also when the body breaks off.
WellFormed ==
  /\ out # <<>> => out[1].e \in {"message_start", "message_delta", "error"}
  /\ \A i \in 2 .. Len(out) : Follows(out[i-1], out[i])
  /\ ~streaming /\ st.started => Last(out).e \in {"message_stop", "error"}

\* Both ways of answering deliver the same thinking, text, stop reason and usage,
\* whatever upstream sends: nothing is dropped or doubled as blocks alternate, or
\* after a stop reason.
SameContent ==
  /\ Texts = Block("thinking", PartsOf("thinking")) \o Block("text", PartsOf("text"))
  /\ \A i \in DOMAIN out : out[i].e = "message_delta" =>
                              out[i].stop = acc.stop /\ out[i].usage = acc.usage

=============================================================================
