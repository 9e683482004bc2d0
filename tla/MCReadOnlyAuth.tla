--------------------------- MODULE MCReadOnlyAuth ---------------------------
(* ReadOnlyAuth on a small instance.                                       *)
EXTENDS ReadOnlyAuth, TLC

Symmetry == Permutations(Workers) \cup Permutations(CtxId)

=============================================================================
