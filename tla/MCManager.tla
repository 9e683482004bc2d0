----------------------------- MODULE MCManager -----------------------------
(* Commands and instances are alike, so TLC may take any for any other.      *)
EXTENDS Manager, TLC

Symmetry == Permutations(Commands) \cup Permutations(Instances)

=============================================================================
