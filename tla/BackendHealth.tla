--------------------------- MODULE BackendHealth ----------------------------
(***************************************************************************)
(* BackendHealthRegistry of resilience/health.py: for each backend the     *)
(* outcomes of a rolling window and a verdict that the planner and the     *)
(* retrievers read.  Every method is one critical section under `_lock'.   *)
(*                                                                         *)
(* As in CircuitBreaker, events are counted by age and `_unhealthy_since'  *)
(* is kept as the time elapsed, which is compared with nothing beyond      *)
(* recovery_probe_seconds.  reset(), which nothing calls, is left out.     *)
(***************************************************************************)
EXTENDS Integers, Functions

CONSTANTS
    Backends,         \* BACKEND_HEALTH_BACKENDS
    HealthWindow,     \* rolling_window_seconds, in ticks
    Recovery,         \* recovery_probe_seconds, in ticks
    MinObservations,  \* min_observations
    HealthRateNum,    \* failure_rate_threshold = HealthRateNum / HealthRateDen
    HealthRateDen,
    MaxObsPerTick     \* bound of the model: outcomes of a backend in one tick

ASSUME HealthConfig ==
    /\ HealthWindow \in Nat \ {0}
    /\ Recovery \in Nat
    /\ MinObservations \in Nat \ {0}
    /\ HealthRateNum \in Nat \ {0}
    /\ HealthRateDen \in Nat \ {0}
    /\ HealthRateNum <= HealthRateDen
    /\ MaxObsPerTick \in Nat \ {0}

VARIABLES
    status,    \* _states
    downFor,   \* time since _unhealthy_since, NotSet when the key is absent
    good,      \* _events: number of successes of each age, per backend
    bad        \* _events: number of failures of each age, per backend

healthVars == <<status, downFor, good, bad>>

Statuses == {"healthy", "degraded", "unhealthy"}
HealthAges == 0 .. HealthWindow
NotSet == -1

NoObservations == [a \in HealthAges |-> 0]

OneTickOlder(events) ==
    [b \in Backends |->
        [a \in HealthAges |-> IF a = 0 THEN 0 ELSE events[b][a - 1]]]

Observed(events, b) == [events EXCEPT ![b][0] = @ + 1]

Observations(b, ok, ko) == SumFunction(ok[b]) + SumFunction(ko[b])

-----------------------------------------------------------------------------

HealthTypeOK ==
    /\ status \in [Backends -> Statuses]
    /\ downFor \in [Backends -> {NotSet} \cup 0 .. Recovery]
    /\ good \in [Backends -> [HealthAges -> Nat]]
    /\ bad \in [Backends -> [HealthAges -> Nat]]

HealthInit ==
    /\ status = [b \in Backends |-> "healthy"]
    /\ downFor = [b \in Backends |-> NotSet]
    /\ good = [b \in Backends |-> NoObservations]
    /\ bad = [b \in Backends |-> NoObservations]

(* Fault: the time since a backend went unhealthy is not capped.           *)
HealthTickUncapped ==
    /\ downFor' = [b \in Backends |->
                      IF downFor[b] = NotSet THEN NotSet ELSE downFor[b] + 1]
    /\ good' = OneTickOlder(good)
    /\ bad' = OneTickOlder(bad)
    /\ UNCHANGED status

HealthTick ==
    /\ downFor' = [b \in Backends |->
                      IF downFor[b] \in 0 .. Recovery - 1
                          THEN downFor[b] + 1 ELSE downFor[b]]
    /\ good' = OneTickOlder(good)
    /\ bad' = OneTickOlder(bad)
    /\ UNCHANGED status

(* recovery_probe_seconds have passed since the backend went unhealthy; an *)
(* absent key counts as time 0, that is as long ago as can be.             *)
RecoveryElapsed(b) == downFor[b] \in {NotSet, Recovery}

TooFewObservations(b) == Observations(b, good', bad') < MinObservations

RateExceeded(b) ==
    SumFunction(bad'[b]) * HealthRateDen
        >= HealthRateNum * Observations(b, good', bad')

(* Fault: a window that looks good again ends the state at once.           *)
VerdictForgives(b) ==
    CASE TooFewObservations(b) ->
           IF status[b] = "unhealthy" /\ RecoveryElapsed(b)
               THEN "healthy" ELSE status[b]
      [] ~TooFewObservations(b) /\ RateExceeded(b) -> "unhealthy"
      [] ~TooFewObservations(b) /\ ~RateExceeded(b) ->
           IF SumFunction(bad'[b]) > 0 THEN "degraded" ELSE "healthy"

(* The state _reassess(b) computes from the window as it now is.           *)
Verdict(b) ==
    CASE TooFewObservations(b) ->
           IF status[b] = "unhealthy" /\ RecoveryElapsed(b)
               THEN "healthy" ELSE status[b]
      [] ~TooFewObservations(b) /\ RateExceeded(b) -> "unhealthy"
      [] ~TooFewObservations(b) /\ ~RateExceeded(b) ->
           IF status[b] = "unhealthy" /\ ~RecoveryElapsed(b) THEN "unhealthy"
           ELSE IF SumFunction(bad'[b]) > 0 THEN "degraded" ELSE "healthy"

(* Fault: the way from `degraded' into `unhealthy' is forgotten.           *)
SinceFromHealthyOnly(b) ==
    CASE status[b] = "healthy" /\ Verdict(b) = "unhealthy" -> 0
      [] ~TooFewObservations(b) /\ Verdict(b) = "healthy" -> NotSet
      [] OTHER -> downFor[b]

(* `_unhealthy_since' is set on the way into `unhealthy' and dropped only  *)
(* by a verdict of `healthy' over a window with enough observations.       *)
Since(b) ==
    CASE status[b] # "unhealthy" /\ Verdict(b) = "unhealthy" -> 0
      [] ~TooFewObservations(b) /\ Verdict(b) = "healthy" -> NotSet
      [] OTHER -> downFor[b]

(* record(b, success): append, _evict_old and _reassess under the lock.    *)
RecordOutcome(b, success) ==
    /\ good' = IF success THEN Observed(good, b) ELSE good
    /\ bad' = IF success THEN bad ELSE Observed(bad, b)
    /\ status' = [status EXCEPT ![b] = Verdict(b)]
    /\ downFor' = [downFor EXCEPT ![b] = Since(b)]

IsHealthy(b) == status[b] # "unhealthy"

IsProbeEligible(b) == status[b] = "unhealthy" /\ RecoveryElapsed(b)

RoomForObservation(b) == good[b][0] + bad[b][0] < MaxObsPerTick

=============================================================================
