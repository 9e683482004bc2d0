------------------------------ MODULE MCAnswers ------------------------------
(* Answers on the chunks of MCUpChunk.                                       *)
EXTENDS Answers, MCUpChunk

=============================================================================
