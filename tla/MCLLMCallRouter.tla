-------------------------- MODULE MCLLMCallRouter ---------------------------
(* Two concurrent calls over a chain of two models; the cfg files give the *)
(* breaker and the registry thresholds two outcomes can cross.             *)
EXTENDS LLMCallRouter

CONSTANTS c1, c2

MCCalls == {c1, c2}

=============================================================================
