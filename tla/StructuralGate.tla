--------------------------- MODULE StructuralGate ---------------------------
(***************************************************************************)
(* ModelStructuralCapabilityRegistry of core/structural_gate.py for one    *)
(* model and one schema; nothing in the code relates two such keys.        *)
(* Concurrent LLM calls look the capability up, and on a miss queue for    *)
(* the key's asyncio.Lock, whose holder probes the model over the network  *)
(* and records the verdict for a time to live.                             *)
(*                                                                         *)
(* A record past its time to live reads as absent and is not told apart    *)
(* from one.  A lookup that finds a fresh record changes nothing.          *)
(***************************************************************************)
EXTENDS Integers, Sequences

CONSTANTS
    Calls,    \* LLM calls that look the model up
    Nobody,   \* the holder of a free lock
    Ttl       \* ttl_seconds, in ticks; 0 means "never cache"

ASSUME GateConfig == Nobody \notin Calls /\ Ttl \in Nat

VARIABLES
    verdict,  \* the fresh record of the key, "unknown" when there is none
    age,      \* time since probed_at
    pc,       \* where each lookup is
    holder,   \* holder of the key's lock
    queue     \* lookups waiting for it, in order

recordVars == <<verdict, age>>
lockVars == <<holder, queue>>
vars == <<recordVars, pc, lockVars>>

Verdicts == {"capable", "incapable"}
Known == verdict # "unknown"

-----------------------------------------------------------------------------

TypeOK ==
    /\ verdict \in Verdicts \cup {"unknown"}
    /\ age \in 0 .. Ttl
    /\ pc \in [Calls -> {"idle", "waiting", "probing"}]
    /\ holder \in Calls \cup {Nobody}
    /\ queue \in Seq(Calls)

Init ==
    /\ verdict = "unknown"
    /\ age = 0
    /\ pc = [c \in Calls |-> "idle"]
    /\ holder = Nobody
    /\ queue = <<>>

Goto(c, place) == pc' = [pc EXCEPT ![c] = place]

(* A miss with the lock free and nobody waiting for it: acquired and       *)
(* checked again without giving up control.                                *)
ProbeAtOnce(c) ==
    /\ pc[c] = "idle"
    /\ ~Known
    /\ holder = Nobody
    /\ queue = <<>>
    /\ Goto(c, "probing")
    /\ holder' = c
    /\ UNCHANGED <<recordVars, queue>>

(* A miss while the key is being probed.                                   *)
Wait(c) ==
    /\ pc[c] = "idle"
    /\ ~Known
    /\ holder # Nobody \/ queue # <<>>
    /\ Goto(c, "waiting")
    /\ queue' = Append(queue, c)
    /\ UNCHANGED <<recordVars, holder>>

(* Fault: the record is not looked up again under the lock.                *)
WakeUnchecked(c) ==
    /\ queue # <<>>
    /\ c = Head(queue)
    /\ holder = Nobody
    /\ queue' = Tail(queue)
    /\ Goto(c, "probing")
    /\ holder' = c
    /\ UNCHANGED recordVars

(* The first in the queue gets the lock, and looks again: another call may *)
(* have recorded the verdict meanwhile.                                    *)
Wake(c) ==
    /\ queue # <<>>
    /\ c = Head(queue)
    /\ holder = Nobody
    /\ queue' = Tail(queue)
    /\ \/ Known /\ Goto(c, "idle") /\ UNCHANGED holder
       \/ ~Known /\ Goto(c, "probing") /\ holder' = c
    /\ UNCHANGED recordVars

(* The probe answers, or fails with anything but a time-out: recorded.     *)
ProbeEnds(c) ==
    /\ pc[c] = "probing"
    /\ verdict' \in (IF Ttl = 0 THEN {"unknown"} ELSE Verdicts)
    /\ age' = 0
    /\ Goto(c, "idle")
    /\ holder' = Nobody
    /\ UNCHANGED queue

(* Fault: the early return of a timed-out probe keeps the lock.            *)
ProbeTimesOutLocked(c) ==
    /\ pc[c] = "probing"
    /\ Goto(c, "idle")
    /\ UNCHANGED <<recordVars, lockVars>>

(* A time-out answers the caller and is not recorded.                      *)
ProbeTimesOut(c) ==
    /\ pc[c] = "probing"
    /\ Goto(c, "idle")
    /\ holder' = Nobody
    /\ UNCHANGED <<recordVars, queue>>

(* CancelledError in the queue: the waiter leaves it.                      *)
CancelWait(c) ==
    /\ pc[c] = "waiting"
    /\ Goto(c, "idle")
    /\ \E i \in 1 .. Len(queue) :
          /\ queue[i] = c
          /\ queue' = SubSeq(queue, 1, i - 1) \o SubSeq(queue, i + 1, Len(queue))
    /\ UNCHANGED <<recordVars, holder>>

(* Fault: only an ordinary exception in the probe releases the lock.       *)
CancelProbeLocked(c) ==
    /\ pc[c] = "probing"
    /\ Goto(c, "idle")
    /\ UNCHANGED <<recordVars, lockVars>>

(* CancelledError in the probe: `async with' releases the lock.            *)
CancelProbe(c) ==
    /\ pc[c] = "probing"
    /\ Goto(c, "idle")
    /\ holder' = Nobody
    /\ UNCHANGED <<recordVars, queue>>

(* invalidate(): the record is dropped, also while a probe is under way.   *)
Invalidate ==
    /\ Known
    /\ verdict' = "unknown"
    /\ age' = 0
    /\ UNCHANGED <<pc, lockVars>>

(* Fault: the age of a record is not bounded by its time to live.          *)
TickForever ==
    /\ Known
    /\ age' = age + 1
    /\ UNCHANGED <<verdict, pc, lockVars>>

(* A record is fresh up to and including its time to live.                 *)
Tick ==
    /\ Known
    /\ \/ age < Ttl /\ age' = age + 1 /\ UNCHANGED verdict
       \/ age = Ttl /\ age' = 0 /\ verdict' = "unknown"
    /\ UNCHANGED <<pc, lockVars>>

Lookup(c) ==
    \/ ProbeAtOnce(c)
    \/ Wait(c)
    \/ Wake(c)
    \/ ProbeEnds(c)
    \/ ProbeTimesOut(c)
    \/ CancelWait(c)
    \/ CancelProbe(c)

Next ==
    \/ \E c \in Calls : Lookup(c)
    \/ Invalidate
    \/ Tick

Spec == Init /\ [][Next]_vars

(* The event loop runs a lookup that has been woken, and wait_for ends     *)
(* every probe.                                                            *)
Fairness ==
    \A c \in Calls :
        /\ WF_vars(Wake(c))
        /\ WF_vars(ProbeEnds(c) \/ ProbeTimesOut(c))

FairSpec == Spec /\ Fairness

-----------------------------------------------------------------------------

(* Concurrent callers share one probe (ensure_probed): never is a model    *)
(* being probed whose verdict is known, and never by two calls, whatever   *)
(* time-outs, cancellations and expiries come between a miss and the lock. *)
ProbesAreShared ==
    /\ \A c, d \in Calls : pc[c] = "probing" /\ pc[d] = "probing" => c = d
    /\ \A c \in Calls : pc[c] = "probing" => ~Known

(* Whoever waits stands in the queue and nobody else does, and behind a    *)
(* probe that is under way or a lock that is free: no time-out, cancelled  *)
(* probe or cancelled wait leaves the lock to a lookup that has gone, or a *)
(* lookup that has gone in the queue.                                      *)
NobodyIsStranded ==
    /\ \A c \in Calls : pc[c] = "waiting" <=> \E i \in 1 .. Len(queue) : queue[i] = c
    /\ holder # Nobody => pc[holder] = "probing"

(* No lookup waits for ever: no time-out, cancelled probe or cancelled     *)
(* wait leaves the lock held or loses the queue behind it.                 *)
LookupsEnd == \A c \in Calls : pc[c] = "waiting" ~> pc[c] = "idle"

=============================================================================
