--------------------------- MODULE CircuitBreaker ---------------------------
(***************************************************************************)
(* The LLM circuit breaker of resilience/circuit_breaker.py: its state and *)
(* its methods, each one the body of a critical section under `_lock'.     *)
(* This module lets any caller invoke any method at any time; the module   *)
(* LLMCallRouter composes it with the calls the router really makes.       *)
(*                                                                         *)
(* Time is discrete and relative to the present: `_events' is kept as the  *)
(* number of successes and of failures of each age (the code never reads   *)
(* the order of two events of one instant), and `_opened_at' as the time   *)
(* since it was set, which no method compares with anything beyond the     *)
(* cooldown.  An event is forgotten as soon as its age exceeds the window: *)
(* `_evict_old' runs before every decision that reads the events.          *)
(***************************************************************************)
EXTENDS Integers, Functions

CONSTANTS
    Window,      \* rolling_window_seconds, in ticks
    Cooldown,    \* open_cooldown_seconds, in ticks
    MinCalls,    \* min_calls_before_trip
    RateNum,     \* failure_rate_threshold = RateNum / RateDen
    RateDen,
    Required,    \* half_open_required_successes
    MaxPerTick   \* bound of the model: outcomes recorded in one tick

ASSUME BreakerConfig ==
    /\ Window \in Nat \ {0}
    /\ Cooldown \in Nat
    /\ MinCalls \in Nat \ {0}
    /\ RateNum \in Nat \ {0}
    /\ RateDen \in Nat \ {0}
    /\ RateNum <= RateDen
    /\ Required \in Nat \ {0}
    /\ MaxPerTick \in Nat \ {0}

VARIABLES
    state,       \* _state
    openFor,     \* time since _opened_at, NotOpened when _opened_at is None
    probes,      \* _consecutive_half_open_successes
    succeeded,   \* _events: number of successes of each age
    failed       \* _events: number of failures of each age

breakerVars == <<state, openFor, probes, succeeded, failed>>

States == {"closed", "open", "half_open"}
Ages == 0 .. Window
NotOpened == -1

NoEvents == [a \in Ages |-> 0]

(* One tick later every event is one tick older; _evict_old drops those    *)
(* strictly older than the window (`t < now - window').                    *)
Aged(events) == [a \in Ages |-> IF a = 0 THEN 0 ELSE events[a - 1]]

Recorded(events) == [events EXCEPT ![0] = @ + 1]

-----------------------------------------------------------------------------

BreakerTypeOK ==
    /\ state \in States
    /\ openFor \in {NotOpened} \cup 0 .. Cooldown
    /\ probes \in Nat
    /\ succeeded \in [Ages -> Nat]
    /\ failed \in [Ages -> Nat]

BreakerInit ==
    /\ state = "closed"
    /\ openFor = NotOpened
    /\ probes = 0
    /\ succeeded = NoEvents
    /\ failed = NoEvents

(* Fault: the time since opening is not capped.                            *)
TickUncapped ==
    /\ openFor' = IF openFor = NotOpened THEN openFor ELSE openFor + 1
    /\ succeeded' = Aged(succeeded)
    /\ failed' = Aged(failed)
    /\ UNCHANGED <<state, probes>>

Tick ==
    /\ openFor' = IF openFor \in 0 .. Cooldown - 1 THEN openFor + 1 ELSE openFor
    /\ succeeded' = Aged(succeeded)
    /\ failed' = Aged(failed)
    /\ UNCHANGED <<state, probes>>

(* Fault: the comparison with the cooldown is strict.                      *)
CooledDownStrictly == state = "open" /\ openFor > Cooldown

CooledDown == state = "open" /\ openFor >= Cooldown

(* allow_request() returns `admitted'.  An open breaker whose cooldown has *)
(* elapsed turns half-open first; a half-open one admits at random.        *)
AllowRequest(admitted) ==
    /\ state' = IF CooledDown THEN "half_open" ELSE state
    /\ state' = "closed" => admitted
    /\ state' = "open" => ~admitted
    /\ UNCHANGED <<openFor, probes, succeeded, failed>>

(* Fault: `_opened_at' survives the closing of the breaker.                *)
RecordSuccessKeepsOpenedAt ==
    /\ succeeded' = Recorded(succeeded)
    /\ UNCHANGED <<failed, openFor>>
    /\ \/ /\ state = "half_open" /\ probes + 1 >= Required
          /\ state' = "closed"
          /\ probes' = 0
       \/ /\ ~(state = "half_open" /\ probes + 1 >= Required)
          /\ probes' = IF state = "half_open" THEN probes + 1 ELSE probes
          /\ UNCHANGED state

RecordSuccess ==
    /\ succeeded' = Recorded(succeeded)
    /\ UNCHANGED failed
    /\ \/ /\ state # "half_open"
          /\ UNCHANGED <<state, openFor, probes>>
       \/ /\ state = "half_open"
          /\ probes + 1 < Required
          /\ probes' = probes + 1
          /\ UNCHANGED <<state, openFor>>
       \/ /\ state = "half_open"
          /\ probes + 1 >= Required
          /\ state' = "closed"
          /\ probes' = 0
          /\ openFor' = NotOpened

(* Enough calls in the window, and enough of them failed.                  *)
Trips(ok, bad) ==
    LET total == SumFunction(ok) + SumFunction(bad)
    IN  /\ total >= MinCalls
        /\ SumFunction(bad) * RateDen >= RateNum * total

(* Fault: a failed probe leaves the streak of successes standing.          *)
RecordFailureKeepsStreak ==
    /\ failed' = Recorded(failed)
    /\ UNCHANGED <<succeeded, probes>>
    /\ \/ /\ state = "half_open" \/ (state = "closed" /\ Trips(succeeded, failed'))
          /\ state' = "open"
          /\ openFor' = 0
       \/ /\ state = "open" \/ (state = "closed" /\ ~Trips(succeeded, failed'))
          /\ UNCHANGED <<state, openFor>>

RecordFailure ==
    /\ failed' = Recorded(failed)
    /\ UNCHANGED succeeded
    /\ \/ /\ state = "half_open"
          /\ state' = "open"
          /\ openFor' = 0
          /\ probes' = 0
       \/ /\ state = "closed"
          /\ Trips(succeeded, failed')
          /\ state' = "open"
          /\ openFor' = 0
          /\ UNCHANGED probes
       \/ /\ \/ state = "open"
             \/ state = "closed" /\ ~Trips(succeeded, failed')
          /\ UNCHANGED <<state, openFor, probes>>

(* The operator's escape hatch; nothing in the repository calls it.        *)
Reset ==
    /\ state' = "closed"
    /\ openFor' = NotOpened
    /\ probes' = 0
    /\ succeeded' = NoEvents
    /\ failed' = NoEvents

(* Bound of the model: at most MaxPerTick outcomes in one tick.            *)
RoomThisTick == succeeded[0] + failed[0] < MaxPerTick

Operate ==
    \/ Tick
    \/ \E admitted \in BOOLEAN : AllowRequest(admitted)
    \/ RoomThisTick /\ RecordSuccess
    \/ RoomThisTick /\ RecordFailure

BreakerNext == Operate \/ Reset

BreakerSpec == BreakerInit /\ [][BreakerNext]_breakerVars

(* The breaker as its callers drive it, without the escape hatch.          *)
OperateSpec == BreakerInit /\ [][Operate]_breakerVars

-----------------------------------------------------------------------------

(* `_opened_at' is set exactly while the breaker is not closed, and a      *)
(* probe streak exists only while it is half-open and is shorter than what *)
(* closes it.  Five assignments in three methods keep this together; a     *)
(* None in `_opened_at' of an open breaker would wedge it open for ever    *)
(* (allow_request tests `_opened_at is not None').                         *)
BreakerConsistent ==
    /\ openFor = NotOpened <=> state = "closed"
    /\ state # "half_open" => probes = 0
    /\ probes < Required

Contract == INSTANCE BreakerContract
    WITH mode   <- state,
         cut    <- IF state = "closed" THEN 0 ELSE openFor,
         streak <- probes

(* The breaker keeps what the head of circuit_breaker.py promises of every *)
(* breaker: a full cooldown after each opening, an unbroken run of         *)
(* Required successes before it closes, open again at the first failure.   *)
KeepsContract == Contract!Spec

=============================================================================
