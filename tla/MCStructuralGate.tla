-------------------------- MODULE MCStructuralGate --------------------------
(* Four lookups: one probes, one is first in the queue, two behind it.     *)
EXTENDS StructuralGate

CONSTANTS c1, c2, c3, c4

MCCalls == {c1, c2, c3, c4}

=============================================================================
