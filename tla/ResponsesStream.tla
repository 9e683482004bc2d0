--------------------------- MODULE ResponsesStream ---------------------------
(***************************************************************************)
(* How one upstream answer becomes a response of the Responses API: the    *)
(* event stream of respStreamState and streamResponses (responses.go),     *)
(* beside the single body of collectResponses.  Both receive the chunks of *)
(* ChunkPipe, and learn at their end whether upstream failed.              *)
(*                                                                         *)
(* The text, arguments, stop reason or usage of a chunk is its number,     *)
(* part.  Every item has a fresh id; its output index stands for it.  The  *)
(* sequence number of an event is its place in the stream.  Answers sends  *)
(* the chunks.                                                             *)
(***************************************************************************)
EXTENDS UpChunk, SequencesExt

CONSTANTS
  Lengths     \* the chunks whose stop reason, if they have one, is "length"

Kinds == {"reasoning", "message", "function_call"}

VARIABLES
  st,     \* respStreamState, with the events written so far
  acc,    \* what collectResponses has gathered, and its answer
  ended   \* the channel is closed

----------------------------------------------------------------------------
(* respStreamState.                                                        *)

Emit(s, ev) == [s EXCEPT !.out = Append(@, ev)]

\* The item of the open block, as item_done carries it and complete lists it.
Item(s) ==
  [kind |-> s.kind, full |-> s.buf[s.kind],
   call |-> IF s.kind = "function_call" THEN s.call ELSE None,
   name |-> IF s.kind = "function_call" THEN s.name ELSE None]

CloseItem(s) ==
  IF s.kind = None THEN s
  ELSE LET full == s.buf[s.kind]
           t == Emit(s, [e |-> "text_done", index |-> s.index, full |-> full])
           p == IF s.kind = "function_call" THEN t
                ELSE Emit(t, [e |-> "part_done", index |-> s.index, full |-> full])
           d == Emit(p, [e |-> "item_done", index |-> s.index, item |-> Item(s)])
       IN [d EXCEPT !.items = Append(@, Item(s)), !.index = @ + 1, !.kind = None]

\* Mutant: the text of the item before stays in the buffer.
BeginAppending(s, kind) ==
  Emit([s EXCEPT !.kind = kind], [e |-> "item_added", index |-> s.index, kind |-> kind])
BeginItem(s, kind) ==
  Emit([s EXCEPT !.kind = kind, !.buf[kind] = <<>>],
       [e |-> "item_added", index |-> s.index, kind |-> kind])

\* openReasoning, openMessage.
OpenText(s, kind) ==
  IF s.kind = kind THEN s
  ELSE LET b == BeginItem(CloseItem(s), kind)
       IN Emit(b, [e |-> "part_added", index |-> b.index])

\* openFunctionCall begins a new item even when one is open.  Mutant: an open
\* one is kept.
KeepFunctionCall(s, id, nm) ==
  IF s.kind = "function_call" THEN s
  ELSE BeginItem([CloseItem(s) EXCEPT !.call = id, !.name = nm], "function_call")
OpenFunctionCall(s, id, nm) ==
  BeginItem([CloseItem(s) EXCEPT !.call = id, !.name = nm], "function_call")

Delta(s, part) ==
  Emit([s EXCEPT !.buf[s.kind] = Append(@, part)],
       [e |-> "delta", index |-> s.index, kind |-> s.kind, part |-> part])

Or(x, y) == IF x # None THEN x ELSE y

ToolCall(s, tc, part) ==
  LET begun == IF tc.id # None \/ tc.name # None
                 THEN OpenFunctionCall(s, Or(tc.id, s.call), Or(tc.name, s.name))
                 ELSE s
      ready == IF begun.kind = "function_call" THEN begun
               ELSE OpenFunctionCall(begun, begun.call, begun.name)
  IN IF tc.args THEN Delta(ready, part) ELSE begun

ToolCalls(s, tools, part) ==
  FoldLeft(LAMBDA x, tc : ToolCall(x, tc, part), s, tools)

UsageOf(s, c, part) == IF c.usage THEN [s EXCEPT !.usage = part] ELSE s

\* handleChunk: usage beside a delta is overlooked unless upstream stops there.
HandleChunk(s, c, part) ==
  IF ~c.choice THEN UsageOf(s, c, part)
  ELSE LET s1 == IF c.think THEN Delta(OpenText(s, "reasoning"), part) ELSE s
           s2 == IF c.text THEN Delta(OpenText(s1, "message"), part) ELSE s1
           s3 == ToolCalls(s2, c.tools, part)
       IN IF c.stop THEN UsageOf([s3 EXCEPT !.stop = part], c, part) ELSE s3

Status(stop) == IF stop \in Lengths THEN "incomplete" ELSE "completed"

\* Mutant: an item that is still open is left out.
CompleteAtOnce(s) ==
  Emit(s, [e |-> "completed", output |-> s.items, status |-> Status(s.stop),
           usage |-> s.usage])
Complete(s) ==
  LET c == CloseItem(s)
  IN Emit(c, [e |-> "completed", output |-> c.items, status |-> Status(c.stop),
              usage |-> c.usage])

Fail(s) == Emit(s, [e |-> "failed"])

----------------------------------------------------------------------------
(* collectResponses.  The current call is the last element of fcs.         *)

CollectTool(a, tc, part) ==
  LET b == IF tc.id # None \/ tc.name # None
             THEN [a EXCEPT !.fcs = Append(@, [id |-> tc.id, name |-> tc.name,
                                               args |-> <<>>])]
             ELSE a
  IN IF tc.args /\ b.fcs # <<>>
       THEN [b EXCEPT !.fcs[Len(b.fcs)].args = Append(@, part)]
       ELSE b

CollectTools(a, tools, part) ==
  FoldLeft(LAMBDA x, tc : CollectTool(x, tc, part), a, tools)

Collect(a, c, part) ==
  LET u == UsageOf(a, c, part)
  IN IF ~c.choice THEN u
     ELSE LET a1 == IF c.think THEN [u EXCEPT !.reasoning = Append(@, part)] ELSE u
              a2 == IF c.text THEN [a1 EXCEPT !.text = Append(@, part)] ELSE a1
              a3 == CollectTools(a2, c.tools, part)
          IN IF c.stop THEN [a3 EXCEPT !.stop = part] ELSE a3

\* The output of the body.
Block(kind, full) == IF full = <<>> THEN <<>> ELSE <<[kind |-> kind, full |-> full]>>
Texts == Block("reasoning", acc.reasoning) \o Block("message", acc.text)
Body == Texts \o [i \in DOMAIN acc.fcs |-> [kind |-> "function_call", call |-> acc.fcs[i]]]

----------------------------------------------------------------------------

Chunk(c, part) ==
  /\ ~ended
  /\ st' = HandleChunk(st, c, part)
  /\ acc' = Collect(acc, c, part)
  /\ UNCHANGED ended

\* The range over the channel ends, and the error channel is empty or not.
End(failed) ==
  /\ ~ended
  /\ st' = IF failed THEN Fail(st) ELSE Complete(st)
  /\ acc' = [acc EXCEPT !.status = IF failed THEN "failed" ELSE Status(acc.stop)]
  /\ ended' = TRUE

Init ==
  /\ st = [kind |-> None, index |-> 0, call |-> None, name |-> None,
           buf |-> [k \in Kinds |-> <<>>], items |-> <<>>, stop |-> None,
           usage |-> None,
           out |-> <<[e |-> "created"], [e |-> "in_progress"]>>]
  /\ acc = [reasoning |-> <<>>, text |-> <<>>, fcs |-> <<>>, stop |-> None,
            usage |-> None, status |-> None]
  /\ ended = FALSE

----------------------------------------------------------------------------
(* What a client makes of the events.                                      *)

out == st.out

\* The deltas of the item with index i.
Streamed(i) ==
  FlattenSeq([k \in DOMAIN out |->
    IF out[k].e = "delta" /\ out[k].index = i THEN <<out[k].part>> ELSE <<>>])

\* The items as they are done.
Done ==
  FlattenSeq([k \in DOMAIN out |->
    IF out[k].e = "item_done" THEN <<out[k].item>> ELSE <<>>])

\* What may follow what.
Follows(p, q) ==
  CASE q.e = "item_added" -> \/ p.e = "in_progress" /\ q.index = 0
                             \/ p.e = "item_done" /\ q.index = p.index + 1
    [] q.e = "part_added" -> p.e = "item_added" /\ p.index = q.index
                             /\ p.kind # "function_call"
    [] q.e = "delta"      -> /\ \/ p.e \in {"part_added", "delta"}
                                \/ p.e = "item_added" /\ p.kind = "function_call"
                             /\ p.index = q.index
    [] q.e = "text_done"  -> /\ p.e \in {"item_added", "part_added", "delta"}
                             /\ p.index = q.index
    [] q.e = "part_done"  -> p.e = "text_done" /\ p.index = q.index
    [] q.e = "item_done"  -> /\ p.e = IF q.item.kind = "function_call"
                                        THEN "text_done" ELSE "part_done"
                             /\ p.index = q.index
    [] q.e = "completed"  -> p.e \in {"in_progress", "item_done"}
    [] q.e = "failed"     -> p.e \notin {"completed", "failed"}

----------------------------------------------------------------------------
(* Correctness.                                                            *)

\* Whatever upstream sends, the events follow the protocol of the Responses API:
\* items one after the other with consecutive indices, the parts of each opened
\* before and closed after its deltas, and exactly one completed or failed event,
\* the last.
WellFormed ==
  /\ \A i \in 3 .. Len(out) : Follows(out[i-1], out[i])
  /\ ended <=> Last(out).e \in {"completed", "failed"}

\* A client that reads deltas, one that reads the items as they are done, and one
\* that reads the completed response see the same: each item holds the deltas
\* streamed for it, and the output lists the items in the order they were done.
OutputIsStream ==
  /\ \A k \in DOMAIN out :
        out[k].e = "item_done" => out[k].item.full = Streamed(out[k].index)
  /\ Last(out).e = "completed" => Last(out).output = Done

\* Collected, the response has the same reasoning, text and status, however
\* deltas of different kinds alternate.
FullOf(kind) ==
  FlattenSeq([k \in DOMAIN out |->
    IF out[k].e = "item_done" /\ out[k].item.kind = kind THEN out[k].item.full ELSE <<>>])
SameContent ==
  Last(out).e = "completed" =>
    /\ Texts = Block("reasoning", FullOf("reasoning")) \o Block("message", FullOf("message"))
    /\ Last(out).status = acc.status

\* The calls among the items.
CallItems ==
  LET is == Done
  IN FlattenSeq([k \in DOMAIN is |->
       IF is[k].kind = "function_call"
         THEN <<[id |-> is[k].call, name |-> is[k].name, args |-> is[k].full]>>
         ELSE <<>>])

=============================================================================
