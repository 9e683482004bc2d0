---------------------------- MODULE OpenAIStream ----------------------------
(***************************************************************************)
(* How one upstream answer becomes a chat completion: the chunks streamOAI *)
(* passes on (openai.go) with the tool calls renumbered by toolIndexer,    *)
(* beside the single message collectOAI makes of the same chunks.  Both    *)
(* receive them from ChunkPipe, and learn at their end whether upstream    *)
(* failed.                                                                 *)
(*                                                                         *)
(* The text, arguments, stop reason or usage of a chunk is its number,     *)
(* part.  Answers sends the chunks.                                        *)
(***************************************************************************)
EXTENDS UpChunk, SequencesExt

VARIABLES
  sent,    \* what streamOAI has written: its chunks, error and DONE
  idx,     \* its toolIndexer
  acc,     \* what collectOAI has gathered, with a toolIndexer of its own
  answer   \* how collectOAI answers

----------------------------------------------------------------------------
(* toolIndexer.  Upstream's own index, always 0, is not in a chunk.        *)

\* Mutant: every fragment counts as the first.
NextUnseen(t, tc) == IF tc.id # None THEN [t EXCEPT !.seen = TRUE] ELSE t
NextIndex(t, tc) ==
  IF tc.id = None THEN t
  ELSE IF t.seen THEN [t EXCEPT !.cur = @ + 1]
  ELSE [t EXCEPT !.seen = TRUE]

\* remap: [t |-> the indexer after, tools |-> the fragments with their index].
Remapped(r, tc) ==
  LET t == NextIndex(r.t, tc)
  IN [t |-> t, tools |-> Append(r.tools, [call |-> tc, index |-> t.cur])]
Remap(t, tools) ==
  FoldLeft(Remapped, [t |-> t, tools |-> <<>>], tools)

----------------------------------------------------------------------------
(* streamOAI: every chunk is written, those without a choice included.     *)

Written(c, r, part) ==
  [e |-> "chunk", part |-> part, tools |-> r.tools, think |-> c.think,
   text |-> c.text, stop |-> c.stop, usage |-> c.usage]

----------------------------------------------------------------------------
(* collectOAI.  order holds the keys of toolMap, and map its values, in    *)
(* the order in which they were added.                                     *)

Or(x, y) == IF x # None THEN x ELSE y

\* Mutant: the name of the call is taken once.
AddNamedOnce(a, f, part) ==
  LET b == IF f.index \in ToSet(a.order) THEN a
           ELSE [a EXCEPT !.order = Append(@, f.index),
                          !.map = Append(@, [id |-> None, name |-> None, args |-> <<>>])]
      k == CHOOSE i \in DOMAIN b.order : b.order[i] = f.index
  IN [b EXCEPT !.map[k] =
        [id |-> Or(f.call.id, @.id), name |-> Or(@.name, f.call.name),
         args |-> IF f.call.args THEN Append(@.args, part) ELSE @.args]]

Add(a, f, part) ==
  LET b == IF f.index \in ToSet(a.order) THEN a
           ELSE [a EXCEPT !.order = Append(@, f.index),
                          !.map = Append(@, [id |-> None, name |-> None, args |-> <<>>])]
      k == CHOOSE i \in DOMAIN b.order : b.order[i] = f.index
  IN [b EXCEPT !.map[k] =
        [id |-> Or(f.call.id, @.id), name |-> Or(f.call.name, @.name),
         args |-> IF f.call.args THEN Append(@.args, part) ELSE @.args]]

AddAll(a, fs, part) == FoldLeft(LAMBDA x, f : Add(x, f, part), a, fs)

Collect(a, c, part) ==
  LET u == IF c.usage THEN [a EXCEPT !.usage = part] ELSE a
      r == Remap(u.idx, c.tools)
      a1 == IF c.text THEN [u EXCEPT !.content = Append(@, part)] ELSE u
      a2 == IF c.think THEN [a1 EXCEPT !.reasoning = Append(@, part)] ELSE a1
      a3 == AddAll([a2 EXCEPT !.idx = r.t], r.tools, part)
  IN IF ~c.choice THEN u
     ELSE IF c.stop THEN [a3 EXCEPT !.finish = part] ELSE a3

----------------------------------------------------------------------------

Chunk(c, part) ==
  /\ answer = "none"
  /\ LET r == Remap(idx, c.tools)
     IN sent' = Append(sent, Written(c, r, part)) /\ idx' = r.t
  /\ acc' = Collect(acc, c, part)
  /\ UNCHANGED answer

\* The range over the channel ends, and the error channel is empty or not.
End(failed) ==
  /\ answer = "none"
  /\ sent' = sent \o (IF failed THEN <<[e |-> "error"]>> ELSE <<>>) \o <<[e |-> "done"]>>
  /\ answer' = IF failed THEN "error" ELSE "message"
  /\ UNCHANGED <<idx, acc>>

Init ==
  /\ sent = <<>>
  /\ idx = [cur |-> 0, seen |-> FALSE]
  /\ acc = [content |-> <<>>, reasoning |-> <<>>, order |-> <<>>, map |-> <<>>,
            finish |-> None, usage |-> None, idx |-> idx]
  /\ answer = "none"

----------------------------------------------------------------------------
(* What a client that accumulates the streamed chunks has.                 *)

\* The numbers of the chunks with a property, and the last of them.
Parts(Has(_)) ==
  FlattenSeq([k \in DOMAIN sent |->
    IF sent[k].e = "chunk" /\ Has(sent[k]) THEN <<sent[k].part>> ELSE <<>>])
LastOf(s) == IF s = <<>> THEN None ELSE Last(s)

\* The fragments of tool calls in the order they came.
Fragments ==
  FlattenSeq([k \in DOMAIN sent |->
    IF sent[k].e = "chunk"
      THEN [j \in DOMAIN sent[k].tools |->
              [call |-> sent[k].tools[j].call, index |-> sent[k].tools[j].index,
               part |-> sent[k].part]]
      ELSE <<>>])

\* The call that fragments make at an index: the id and name given last, and all
\* the arguments.
At(fs, i, Given(_)) ==
  FlattenSeq([k \in DOMAIN fs |-> IF fs[k].index = i THEN Given(fs[k]) ELSE <<>>])
GivenId(f) == IF f.call.id # None THEN <<f.call.id>> ELSE <<>>
GivenName(f) == IF f.call.name # None THEN <<f.call.name>> ELSE <<>>
GivenArgs(f) == IF f.call.args THEN <<f.part>> ELSE <<>>
CallAt(fs, i) ==
  [id |-> LastOf(At(fs, i, GivenId)), name |-> LastOf(At(fs, i, GivenName)),
   args |-> At(fs, i, GivenArgs)]

ClientCalls ==
  LET fs == Fragments
      indices == {fs[k].index : k \in DOMAIN fs}
  IN [i \in 1 .. Cardinality(indices) |-> CallAt(fs, i - 1)]

----------------------------------------------------------------------------
(* Correctness.                                                            *)

\* Streamed and collected, the same chunks give the same chat completion,
\* whatever upstream sends: the tool calls a client accumulates by index, at the
\* indices 0, 1, 2 and so on, and the texts, the stop reason and the usage.
SameAnswer ==
  /\ acc.map = ClientCalls
  /\ acc.content = Parts(LAMBDA f : f.text)
  /\ acc.reasoning = Parts(LAMBDA f : f.think)
  /\ acc.finish = LastOf(Parts(LAMBDA f : f.stop))
  /\ acc.usage = LastOf(Parts(LAMBDA f : f.usage))

=============================================================================
