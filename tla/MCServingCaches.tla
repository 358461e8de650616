-------------------------- MODULE MCServingCaches --------------------------
(* Two searches for two queries; either limit of a store evicts.           *)
EXTENDS ServingCaches, TLC

CONSTANTS r1, r2, q1, q2

MCRequests == {r1, r2}
MCQueries == {q1, q2}
MCBytes == [q \in MCQueries |-> IF q = q1 THEN 1 ELSE 2]
Symmetry == Permutations(MCRequests)

=============================================================================
