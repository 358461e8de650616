-------------------------- MODULE BreakerContract ---------------------------
(***************************************************************************)
(* What resilience/circuit_breaker.py promises of every breaker (lines     *)
(* 12-17): traffic is cut when the breaker opens, stays cut for a cooldown *)
(* and returns through a probing phase that only an unbroken run of        *)
(* successes ends well and any failure ends badly.  It says nothing of the *)
(* rolling window: when to trip is the implementation's choice.            *)
(***************************************************************************)
EXTENDS Integers

CONSTANTS Cooldown, Required

VARIABLES
    mode,     \* "closed", "open" or "half_open"
    cut,      \* time since traffic was last cut, at most Cooldown
    streak    \* successes since the probing phase began

vars == <<mode, cut, streak>>

Init == mode = "closed" /\ cut = 0 /\ streak = 0

Wait == mode # "closed" /\ cut < Cooldown /\ cut' = cut + 1
        /\ UNCHANGED <<mode, streak>>

Trip == mode = "closed" /\ mode' = "open" /\ cut' = 0 /\ streak' = 0

StartProbing ==
    /\ mode = "open"
    /\ cut = Cooldown
    /\ mode' = "half_open"
    /\ UNCHANGED <<cut, streak>>

ProbeSucceeds ==
    /\ mode = "half_open"
    /\ \/ /\ streak + 1 < Required
          /\ streak' = streak + 1
          /\ UNCHANGED <<mode, cut>>
       \/ /\ streak + 1 = Required
          /\ mode' = "closed"
          /\ cut' = 0
          /\ streak' = 0

ProbeFails == mode = "half_open" /\ mode' = "open" /\ cut' = 0 /\ streak' = 0

Next == Wait \/ Trip \/ StartProbing \/ ProbeSucceeds \/ ProbeFails

Spec == Init /\ [][Next]_vars

=============================================================================
