------------------------------- MODULE UpChunk -------------------------------
(***************************************************************************)
(* upChunk of convert.go, the unit in which the inference service streams, *)
(* abstracted to what the three protocols tell apart: which deltas a chunk *)
(* carries, whether it names a stop reason and carries usage.  Texts,      *)
(* arguments and stop reasons stand for the number of their chunk.         *)
(***************************************************************************)
EXTENDS Naturals, Sequences

CONSTANTS
  Chunks,     \* the chunks upstream sends
  Ids,        \* tool call ids, and tool names with them
  None        \* an empty id or name; no stop reason, no usage, no block

Tool == [id : Ids \cup {None}, name : Ids \cup {None}, args : BOOLEAN]

\* The delta and the stop reason are those of the first choice; usage is not.
ASSUME ChunksAssumption ==
  \A c \in Chunks :
    /\ c.choice \in BOOLEAN /\ c.think \in BOOLEAN /\ c.text \in BOOLEAN
    /\ c.tools \in Seq(Tool) /\ c.stop \in BOOLEAN /\ c.usage \in BOOLEAN
    /\ ~c.choice => ~c.think /\ ~c.text /\ c.tools = <<>> /\ ~c.stop

ASSUME NoneAssumption ==
  None \notin Nat \cup Ids \cup
           {"thinking", "text", "tool_use", "reasoning", "message", "function_call"}

\* Tool calls as the comments on startBlock and toolIndexer describe them: each
\* call comes with an id none of the calls so far has, and with its name;
\* fragments of its arguments follow without either, and nothing comes between
\* them (ids: those of the calls so far; open: the last thing upstream sent
\* belongs to a call).
Documented(c, ids, open) ==
  \A i \in DOMAIN c.tools :
    LET tc == c.tools[i]
    IN IF tc.id # None
         THEN /\ tc.name # None
              /\ tc.id \notin ids
              /\ \A j \in 1 .. i - 1 : c.tools[j].id # tc.id
         ELSE /\ tc.name = None
              /\ i > 1 \/ (open /\ ~c.think /\ ~c.text)

=============================================================================
