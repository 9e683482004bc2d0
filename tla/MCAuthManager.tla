---------------------------- MODULE MCAuthManager ----------------------------
(* AuthManager on small instances, where any three of the requests and logins *)
(* take part and the others never begin.  Goroutines and contexts are         *)
(* symmetric.                                                                 *)
EXTENDS AuthManager, FiniteSets, TLC

VARIABLE team  \* the goroutines that take part

Teams == {t \in SUBSET (Workers \cup Logins) : Cardinality(t) = 3}

OthersWait == \A p \in (Workers \cup Logins) \ team : pc'[p] = pc[p]

MCInit == Init /\ team \in Teams
MCNext == Next /\ OthersWait /\ UNCHANGED team
MCSpec == MCInit /\ [][MCNext]_<<vars, team>>

Symmetry == Permutations(Workers) \cup Permutations(Logins)
            \cup Permutations(CtxId)

=============================================================================
