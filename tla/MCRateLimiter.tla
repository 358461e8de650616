----------------------------- MODULE MCRateLimiter -----------------------------
(* Three clients in stores for two; a window of two seconds, bursts of one. *)
EXTENDS RateLimiter, TLC

CONSTANTS c1, c2, c3

MCClients == {c1, c2, c3}
Symmetry == Permutations(MCClients)

=============================================================================
