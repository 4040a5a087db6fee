----------------------- MODULE MCRequestTransactions -----------------------
(* Small instances of RequestTransactions for TLC. *)
EXTENDS RequestTransactions, TLC

\* An owner's ledger must hold 1 exactly when both of its fact rows are set:
\* neither writer's delta can be computed from its own row alone.
BothSet(f) == IF \A w \in Rows : f[w] = 1 THEN 1 ELSE 0

\* User 1 owns data, user 2 is a companion who acts on user 1's.
WithCompanion == 1 :> 1 @@ 2 :> 1

\* Two owners.
TwoOwners == 1 :> 1 @@ 2 :> 2

\* Threads are interchangeable, and so are the fact rows.
Symmetry == Permutations(Threads) \cup Permutations(Rows)
=============================================================================
