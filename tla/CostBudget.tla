----------------------------- MODULE CostBudget -----------------------------
(***************************************************************************)
(* The LLM cost budgets of cost/ around the calls of LLMCallRouter: each   *)
(* request has a QueryCostBudget, all requests share a FleetCostBudget     *)
(* over hour and day buckets, and RequestCostGate binds the two.  A call   *)
(* is admitted before its provider is awaited and charged after it has     *)
(* answered, so concurrent calls are admitted against totals that do not   *)
(* contain each other's cost.                                              *)
(*                                                                         *)
(* The fleet's store is a process's memory, or a Redis shared by replicas  *)
(* each of which falls back to its own memory: for good when Redis does    *)
(* not answer at its boot, for one operation when that fails later.  Costs *)
(* are whole numbers of some unit; the breach counters, which nothing      *)
(* reads back, are left out.                                               *)
(***************************************************************************)
EXTENDS Integers, FiniteSets

CONSTANTS
    Calls,      \* LLM calls that may be in progress at once
    Requests,   \* requests that may be in progress at once
    Replicas,   \* processes of the service
    NoRequest,  \* the owner of a call slot not in use
    MaxQuery,   \* max_cost_usd_per_query
    MaxHour,    \* max_cost_usd_per_hour
    MaxDay,     \* max_cost_usd_per_day
    MaxCost,    \* the most one call costs
    Backend,    \* cost backend: "memory" or "redis"
    Failures,   \* how Redis may fail: "read", "write", "reply"
    MaxLedger   \* bound of the model: no bucket grows past it

ASSUME CallsFinite == IsFiniteSet(Calls)

ASSUME CostConfig ==
    /\ NoRequest \notin Requests
    /\ MaxQuery \in Nat \ {0}
    /\ MaxHour \in Nat \ {0}
    /\ MaxDay \in Nat \ {0}
    /\ MaxCost \in Nat
    /\ Backend \in {"memory", "redis"}
    /\ Failures \subseteq {"read", "write", "reply"}
    /\ MaxLedger \in Nat

VARIABLES
    owner,   \* owner[c]: the request whose call occupies slot c
    spent,   \* _total_usd of each request's QueryCostBudget
    home,    \* the replica that serves each request
    store,   \* what build_fleet_cost_store gave each replica
    local,   \* in-memory hour and day buckets of each replica
    redis,   \* the buckets in Redis
    intact   \* whether no operation on Redis has failed so far

bucketVars == <<local, redis, intact>>
vars == <<owner, spent, home, store, bucketVars>>

Buckets == [hour : Nat, day : Nat]
Empty == [hour |-> 0, day |-> 0]

Plus(bucket, cost) == [hour |-> bucket.hour + cost, day |-> bucket.day + cost]

InFlight == {c \in Calls : owner[c] # NoRequest}

-----------------------------------------------------------------------------

TypeOK ==
    /\ owner \in [Calls -> Requests \cup {NoRequest}]
    /\ spent \in [Requests -> Nat]
    /\ home \in [Requests -> Replicas]
    /\ store \in [Replicas -> {"memory", "redis"}]
    /\ local \in [Replicas -> Buckets]
    /\ redis \in Buckets
    /\ intact \in BOOLEAN

(* A replica whose Redis is not configured or not reachable at boot gets   *)
(* the in-memory store.                                                    *)
Init ==
    /\ owner = [c \in Calls |-> NoRequest]
    /\ spent = [r \in Requests |-> 0]
    /\ home \in [Requests -> Replicas]
    /\ store \in [Replicas -> {"memory", Backend}]
    /\ local = [p \in Replicas |-> Empty]
    /\ redis = Empty
    /\ intact = TRUE

(* get_totals(): what replica p may read, and whether Redis answered.      *)
Readings(p) ==
    (IF store[p] = "memory" THEN {[totals |-> local[p], answered |-> TRUE]}
     ELSE {[totals |-> redis, answered |-> TRUE]})
    \cup (IF store[p] = "redis" /\ "read" \in Failures
          THEN {[totals |-> local[p], answered |-> FALSE]} ELSE {})

(* Fault: a failed write to Redis is logged and forgotten.                 *)
AddNoFallback(p, cost) ==
    \/ /\ store[p] = "memory"
       /\ local' = [local EXCEPT ![p] = Plus(@, cost)]
       /\ UNCHANGED <<redis, intact>>
    \/ /\ store[p] = "redis"
       /\ redis' = Plus(redis, cost)
       /\ UNCHANGED <<local, intact>>
    \/ /\ store[p] = "redis"
       /\ "write" \in Failures
       /\ intact' = FALSE
       /\ UNCHANGED <<local, redis>>

(* add(): a write that fails is added to the replica's own memory, also    *)
(* when the transaction was executed and only its reply was lost.          *)
Add(p, cost) ==
    \/ /\ store[p] = "memory"
       /\ local' = [local EXCEPT ![p] = Plus(@, cost)]
       /\ UNCHANGED <<redis, intact>>
    \/ /\ store[p] = "redis"
       /\ redis' = Plus(redis, cost)
       /\ UNCHANGED <<local, intact>>
    \/ /\ store[p] = "redis"
       /\ local' = [local EXCEPT ![p] = Plus(@, cost)]
       /\ intact' = FALSE
       /\ \/ "write" \in Failures /\ UNCHANGED redis
          \/ "reply" \in Failures /\ redis' = Plus(redis, cost)

(* Fault: check_admit admits a window that is exactly at its cap.          *)
AdmitAtCap(c, r) ==
    /\ owner[c] = NoRequest
    /\ spent[r] <= MaxQuery
    /\ \E reading \in Readings(home[r]) :
          /\ reading.totals.hour <= MaxHour
          /\ reading.totals.day <= MaxDay
          /\ intact' = (intact /\ reading.answered)
    /\ owner' = [owner EXCEPT ![c] = r]
    /\ UNCHANGED <<spent, home, store, local, redis>>

(* Fault: check_admit looks at the hour alone.                             *)
AdmitByHourAlone(c, r) ==
    /\ owner[c] = NoRequest
    /\ spent[r] < MaxQuery
    /\ \E reading \in Readings(home[r]) :
          /\ reading.totals.hour < MaxHour
          /\ intact' = (intact /\ reading.answered)
    /\ owner' = [owner EXCEPT ![c] = r]
    /\ UNCHANGED <<spent, home, store, local, redis>>

(* check_admit() of both budgets passes and the provider is awaited.       *)
Admit(c, r) ==
    /\ owner[c] = NoRequest
    /\ spent[r] < MaxQuery
    /\ \E reading \in Readings(home[r]) :
          /\ reading.totals.hour < MaxHour
          /\ reading.totals.day < MaxDay
          /\ intact' = (intact /\ reading.answered)
    /\ owner' = [owner EXCEPT ![c] = r]
    /\ UNCHANGED <<spent, home, store, local, redis>>

(* A validated answer is charged to the query and then to the fleet; a     *)
(* query pushed over its cap raises before the fleet is told.              *)
Answer(c, cost) ==
    LET r == owner[c]
        total == spent[r] + cost
    IN  /\ c \in InFlight
        /\ spent' = [spent EXCEPT ![r] = total]
        /\ \/ total > MaxQuery /\ UNCHANGED bucketVars
           \/ total <= MaxQuery /\ Add(home[r], cost)
        /\ owner' = [owner EXCEPT ![c] = NoRequest]
        /\ UNCHANGED <<home, store>>

(* Fault: a failed call gives back a cost that was never charged.          *)
FailRefunds(c) ==
    /\ c \in InFlight
    /\ owner' = [owner EXCEPT ![c] = NoRequest]
    /\ spent' = [spent EXCEPT ![owner[c]] = @ - MaxCost]
    /\ UNCHANGED <<home, store, bucketVars>>

(* The call fails, is cancelled or meets an open circuit: nothing charged. *)
Fail(c) ==
    /\ c \in InFlight
    /\ owner' = [owner EXCEPT ![c] = NoRequest]
    /\ UNCHANGED <<spent, home, store, bucketVars>>

(* _bind_request_cost_budget of the next request, at any replica: a new    *)
(* QueryCostBudget.                                                        *)
NewRequest(r, p) ==
    /\ spent[r] > 0
    /\ \A c \in Calls : owner[c] # r
    /\ spent' = [spent EXCEPT ![r] = 0]
    /\ home' = [home EXCEPT ![r] = p]
    /\ UNCHANGED <<owner, store, bucketVars>>

(* The UTC hour changes: buckets of another key, hence empty.              *)
HourTurns ==
    /\ local' = [p \in Replicas |-> [local[p] EXCEPT !.hour = 0]]
    /\ redis' = [redis EXCEPT !.hour = 0]
    /\ UNCHANGED <<owner, spent, home, store, intact>>

DayTurns ==
    /\ local' = [p \in Replicas |-> Empty]
    /\ redis' = Empty
    /\ UNCHANGED <<owner, spent, home, store, intact>>

Room(c, cost) ==
    \A p \in Replicas :
        /\ local[p].day + cost <= MaxLedger
        /\ redis.day + cost <= MaxLedger

Next ==
    \/ \E c \in Calls, r \in Requests : Admit(c, r)
    \/ \E c \in Calls, cost \in 0 .. MaxCost : Room(c, cost) /\ Answer(c, cost)
    \/ \E c \in Calls : Fail(c)
    \/ \E r \in Requests, p \in Replicas : NewRequest(r, p)
    \/ HourTurns
    \/ DayTurns

Spec == Init /\ [][Next]_vars

-----------------------------------------------------------------------------

(* A total exceeds its cap by less than all call slots could cost, even    *)
(* when the calls admitted against it and still in progress are charged.   *)
WithinAllowance(total, cap, pending) ==
    total + MaxCost * Cardinality(pending) < cap + MaxCost * Cardinality(Calls)

CallsOf(r) == {c \in Calls : owner[c] = r}
CallsAt(p) == {c \in InFlight : home[owner[c]] = p}
RedisCalls == {c \in InFlight : store[home[owner[c]]] = "redis"}

(* A request overspends its cap at most by the calls that were admitted    *)
(* together.  Any path that charges without check_admit, or admits at the  *)
(* cap, lets one request spend without limit one call at a time.           *)
QueryOvershootBounded ==
    \A r \in Requests : WithinAllowance(spent[r], MaxQuery, CallsOf(r))

(* The hour and the day buckets overshoot their caps at most by the calls  *)
(* in progress, also when the hour turns between admission and charge: at  *)
(* each replica that keeps them in memory, and, until an operation on it   *)
(* fails, in Redis for all replicas that keep them there.                  *)
FleetOvershootBounded ==
    /\ \A p \in Replicas :
          store[p] = "memory" =>
              /\ WithinAllowance(local[p].hour, MaxHour, CallsAt(p))
              /\ WithinAllowance(local[p].day, MaxDay, CallsAt(p))
    /\ intact =>
          /\ WithinAllowance(redis.hour, MaxHour, RedisCalls)
          /\ WithinAllowance(redis.day, MaxDay, RedisCalls)

(* What the buckets a replica may charge hold.                             *)
HourLedger(p) == redis.hour + local[p].hour
DayLedger(p) == redis.day + local[p].day

Grows(p, amount) ==
    /\ HourLedger(p)' = HourLedger(p) + amount
    /\ DayLedger(p)' = DayLedger(p) + amount

(* Where the cost of an answered call goes, in the hour and in the day.    *)
(* The one that breaks its query's cap reaches the fleet nowhere: the      *)
(* query budget raises first.  Any other is counted once, in Redis or in   *)
(* the memory of the replica that serves the request, however Redis fails, *)
(* and twice only when the reply to a transaction was lost.                *)
SpendCounted ==
    [][\A r \in Requests, p \in Replicas :
          home[r] = p /\ spent'[r] > spent[r] =>
             LET cost == spent'[r] - spent[r]
             IN  \/ spent'[r] > MaxQuery /\ Grows(p, 0)
                 \/ spent'[r] <= MaxQuery /\ Grows(p, cost)
                 \/ /\ spent'[r] <= MaxQuery
                    /\ Grows(p, 2 * cost)
                    /\ store[p] = "redis" /\ "reply" \in Failures /\ ~intact']_vars

=============================================================================
