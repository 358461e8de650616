--------------------------- MODULE MCIndexFreshness ---------------------------
(* Two listings; windows shorter and longer than a catch-up.               *)
EXTENDS IndexFreshness, FiniteSets

CONSTANTS d1, d2, MaxRows

MCDocs == {d1, d2}
MCAudited == {d1}

(* Of all that the two drivers can go through the product is too large:    *)
(* either events come in or time passes, and only so many rows are there.  *)
MCNext ==
    /\ Next
    /\ clock' <= 1 \/ version' = 0
    /\ Cardinality({t \in Times : table'[t] # NoDoc}) <= MaxRows

MCSpec == Init /\ [][MCNext]_vars /\ Fairness

=============================================================================
