---------------------------- MODULE MCCostBudget ----------------------------
(* Two call slots and two requests at one or two replicas.                 *)
EXTENDS CostBudget, TLC

CONSTANTS c1, c2, r1, r2, p1, p2

MCCalls == {c1, c2}
MCRequests == {r1, r2}
MCReplicas == {p1, p2}

Symmetry ==
    Permutations(MCCalls) \cup Permutations(MCRequests) \cup Permutations(MCReplicas)

=============================================================================
