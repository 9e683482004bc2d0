------------------------------ MODULE MCUpstream ------------------------------
(* Upstream on a small instance.                                             *)
EXTENDS Upstream

=============================================================================
