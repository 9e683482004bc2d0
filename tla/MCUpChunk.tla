------------------------------ MODULE MCUpChunk ------------------------------
(* The chunks for the runs of the three stream modules.                      *)
EXTENDS UpChunk

CONSTANTS id1, id2

Blank == [choice |-> TRUE, think |-> FALSE, text |-> FALSE, tools |-> <<>>,
          stop |-> FALSE, usage |-> FALSE]
T(id, name, args) == [id |-> id, name |-> name, args |-> args]
Calls(ts) == [Blank EXCEPT !.tools = ts]

\* Thinking, text, both; a stop reason with and without usage; usage.
Plain ==
  {[Blank EXCEPT !.think = TRUE], [Blank EXCEPT !.text = TRUE],
   [Blank EXCEPT !.think = TRUE, !.text = TRUE],
   [Blank EXCEPT !.stop = TRUE], [Blank EXCEPT !.stop = TRUE, !.usage = TRUE],
   [Blank EXCEPT !.choice = FALSE, !.usage = TRUE]}

\* Calls begun with and without arguments, fragments, two calls in one chunk.
Regular ==
  {Calls(<<T(x, x, args)>>) : x \in {id1, id2}, args \in BOOLEAN}
  \cup {Calls(<<T(None, None, TRUE)>>),
        Calls(<<T(id1, id1, TRUE), T(id2, id2, TRUE)>>),
        Calls(<<T(id1, id1, FALSE), T(None, None, TRUE)>>)}

\* A name or an id alone, usage beside text, and everything at once.
Irregular ==
  {Calls(<<T(None, id1, FALSE)>>), Calls(<<T(None, id2, TRUE)>>),
   Calls(<<T(id1, None, TRUE)>>),
   [Blank EXCEPT !.text = TRUE, !.usage = TRUE],
   [Calls(<<T(None, None, TRUE), T(id2, id2, TRUE)>>)
      EXCEPT !.think = TRUE, !.text = TRUE, !.stop = TRUE]}

AllChunks == Plain \cup Regular \cup Irregular

=============================================================================
