------------------------- MODULE CostBudget_proofs --------------------------
(***************************************************************************)
(* How far LLM budgets can be overspent, for any number of calls, requests *)
(* and replicas and any caps.  The allowances of CostBudget count what the *)
(* calls in progress may still cost: that makes them inductive.  Admission *)
(* moves one call from the slack to the pending cost, a charge moves it    *)
(* from there to the total.                                                *)
(***************************************************************************)
EXTENDS CostBudget, FiniteSetTheorems, TLAPS

LEMMA InitTypeOK == Init => TypeOK
  BY CostConfig DEF Init, TypeOK, Buckets, Empty

LEMMA PlusType ==
  ASSUME NEW bucket \in Buckets, NEW cost \in Nat
  PROVE  Plus(bucket, cost) \in Buckets
  BY DEF Plus, Buckets

LEMMA AddType ==
  ASSUME TypeOK, NEW p \in Replicas, NEW cost \in Nat, Add(p, cost)
  PROVE  local' \in [Replicas -> Buckets] /\ redis' \in Buckets /\ intact' \in BOOLEAN
  <1>1. Plus(local[p], cost) \in Buckets /\ Plus(redis, cost) \in Buckets
    BY PlusType DEF TypeOK
  <1>2. local' \in [Replicas -> Buckets] /\ redis' \in Buckets
    BY <1>1 DEF Add, TypeOK
  <1>3. intact' \in BOOLEAN
    <2>1. UNCHANGED intact \/ intact' = FALSE
      BY DEF Add
    <2>2. QED
      BY <2>1, Zenon DEF TypeOK
  <1>4. QED
    BY <1>2, <1>3

LEMMA NextTypeOK == TypeOK /\ [Next]_vars => TypeOK'
  <1> SUFFICES ASSUME TypeOK, [Next]_vars PROVE TypeOK'
    OBVIOUS
  <1> USE CostConfig
  <1>1. ASSUME NEW c \in Calls, NEW r \in Requests, Admit(c, r)
        PROVE  TypeOK'
    BY <1>1 DEF Admit, TypeOK, Readings
  <1>2. ASSUME NEW c \in Calls, NEW cost \in 0 .. MaxCost, Answer(c, cost)
        PROVE  TypeOK'
    <2>1. owner[c] \in Requests /\ home[owner[c]] \in Replicas
      BY <1>2 DEF Answer, InFlight, TypeOK
    <2>2. local' \in [Replicas -> Buckets] /\ redis' \in Buckets /\ intact' \in BOOLEAN
      BY <1>2, <2>1, AddType DEF Answer, TypeOK, bucketVars
    <2>3. QED
      BY <1>2, <2>1, <2>2 DEF Answer, TypeOK
  <1>3. ASSUME NEW c \in Calls, Fail(c)
        PROVE  TypeOK'
    BY <1>3 DEF Fail, TypeOK, bucketVars
  <1>4. ASSUME NEW r \in Requests, NEW p \in Replicas, NewRequest(r, p)
        PROVE  TypeOK'
    BY <1>4 DEF NewRequest, TypeOK, bucketVars
  <1>5. CASE HourTurns
    BY <1>5 DEF HourTurns, TypeOK, Buckets
  <1>6. CASE DayTurns
    BY <1>6 DEF DayTurns, TypeOK, Buckets, Empty
  <1>7. CASE UNCHANGED vars
    BY <1>7 DEF vars, bucketVars, TypeOK
  <1>8. QED
    BY <1>1, <1>2, <1>3, <1>4, <1>5, <1>6, <1>7 DEF Next

(* Owners, totals and buckets keep their types.                            *)
THEOREM TypeCorrect == Spec => []TypeOK
  BY InitTypeOK, NextTypeOK, PTL DEF Spec

-----------------------------------------------------------------------------

(* How an allowance follows the set of pending calls.                      *)

LEMMA PendingIsNat ==
  ASSUME NEW S \in SUBSET Calls
  PROVE  /\ IsFiniteSet(S)
         /\ Cardinality(S) \in Nat
         /\ Cardinality(S) <= Cardinality(Calls)
         /\ Cardinality(Calls) \in Nat
  BY CallsFinite, FS_Subset, FS_CardinalityType

LEMMA Times ==
  ASSUME NEW m \in Nat, NEW n \in Nat
  PROVE  /\ m * n \in Nat
         /\ m * (n + 1) = m * n + m
  OBVIOUS

LEMMA TimesMonotone ==
  ASSUME NEW m \in Nat, NEW k \in Nat, NEW n \in Nat, k <= n
  PROVE  m * k <= m * n
  <1>1. PICK d \in Nat : n = k + d
    BY n = k + (n - k)
  <1>2. m * n = m * k + m * d
    BY <1>1
  <1>3. m * d \in Nat /\ m * k \in Nat
    OBVIOUS
  <1>4. QED
    BY <1>2, <1>3

(* Fewer pending calls and no new cost, or one pending call less for its   *)
(* cost.                                                                   *)
LEMMA AllowanceShrinks ==
  ASSUME NEW total \in Nat, NEW newTotal \in Nat, NEW cap \in Nat,
         NEW S \in SUBSET Calls, NEW T \in SUBSET S,
         newTotal <= total,
         WithinAllowance(total, cap, S)
  PROVE  WithinAllowance(newTotal, cap, T)
  <1>1. T \in SUBSET Calls /\ IsFiniteSet(S)
    BY PendingIsNat
  <1>2. Cardinality(T) <= Cardinality(S)
    BY <1>1, FS_Subset
  <1>3. /\ Cardinality(S) \in Nat
        /\ Cardinality(T) \in Nat
        /\ Cardinality(Calls) \in Nat
    BY <1>1, PendingIsNat
  <1>4. MaxCost * Cardinality(T) <= MaxCost * Cardinality(S)
    BY <1>2, <1>3, TimesMonotone, CostConfig
  <1>5. /\ MaxCost * Cardinality(T) \in Nat
        /\ MaxCost * Cardinality(S) \in Nat
        /\ MaxCost * Cardinality(Calls) \in Nat
    BY <1>3, Times, CostConfig
  <1>6. QED
    BY <1>4, <1>5 DEF WithinAllowance

LEMMA AllowanceCharged ==
  ASSUME NEW total \in Nat, NEW cost \in 0 .. MaxCost, NEW cap \in Nat,
         NEW S \in SUBSET Calls, NEW c \in S,
         WithinAllowance(total, cap, S)
  PROVE  WithinAllowance(total + cost, cap, S \ {c})
  <1>1. /\ IsFiniteSet(S)
        /\ Cardinality(S) \in Nat
        /\ Cardinality(Calls) \in Nat
    BY PendingIsNat
  <1>2. /\ IsFiniteSet(S \ {c})
        /\ Cardinality(S \ {c}) = Cardinality(S) - 1
    BY <1>1, FS_RemoveElement
  <1>3. Cardinality(S \ {c}) \in Nat
    BY <1>2, FS_CardinalityType
  <1>4. MaxCost * Cardinality(S) = MaxCost * Cardinality(S \ {c}) + MaxCost
    BY <1>1, <1>2, <1>3, Times, CostConfig
  <1>5. /\ MaxCost * Cardinality(S \ {c}) \in Nat
        /\ MaxCost * Cardinality(Calls) \in Nat
    BY <1>1, <1>3, Times, CostConfig
  <1>6. QED
    BY <1>4, <1>5, CostConfig DEF WithinAllowance

(* An idle slot becomes pending while the total is below its cap: at least *)
(* the call itself was part of the slack.                                  *)
LEMMA AllowanceAdmitted ==
  ASSUME NEW total \in Nat, NEW cap \in Nat, total < cap,
         NEW T \in SUBSET Calls
  PROVE  WithinAllowance(total, cap, T)
  <1>1. /\ Cardinality(T) \in Nat
        /\ Cardinality(Calls) \in Nat
        /\ Cardinality(T) <= Cardinality(Calls)
    BY PendingIsNat
  <1>2. MaxCost * Cardinality(T) <= MaxCost * Cardinality(Calls)
    BY <1>1, TimesMonotone, CostConfig
  <1>3. /\ MaxCost * Cardinality(T) \in Nat
        /\ MaxCost * Cardinality(Calls) \in Nat
    BY <1>1, Times, CostConfig
  <1>4. QED
    BY <1>2, <1>3 DEF WithinAllowance

(* What a step may do to a total and to the calls pending against it:      *)
(* lower both, admit calls below the cap, or charge one of the calls.      *)
Moves(total, newTotal, cap, S, T) ==
    \/ newTotal <= total /\ T \subseteq S
    \/ newTotal = total /\ total < cap
    \/ \E c \in S, cost \in 0 .. MaxCost :
          newTotal = total + cost /\ T = S \ {c}

LEMMA AllowanceKept ==
  ASSUME NEW total \in Nat, NEW newTotal \in Nat, NEW cap \in Nat,
         NEW S \in SUBSET Calls, NEW T \in SUBSET Calls,
         WithinAllowance(total, cap, S),
         Moves(total, newTotal, cap, S, T)
  PROVE  WithinAllowance(newTotal, cap, T)
  <1>1. CASE newTotal <= total /\ T \subseteq S
    BY <1>1, AllowanceShrinks
  <1>2. CASE newTotal = total /\ total < cap
    BY <1>2, AllowanceAdmitted
  <1>3. ASSUME NEW c \in S, NEW cost \in 0 .. MaxCost,
               newTotal = total + cost, T = S \ {c}
        PROVE  WithinAllowance(newTotal, cap, T)
    BY <1>3, AllowanceCharged
  <1>4. QED
    BY <1>1, <1>2, <1>3 DEF Moves

-----------------------------------------------------------------------------

LEMMA InitQuery == Init => QueryOvershootBounded
  <1> SUFFICES ASSUME Init, NEW r \in Requests
               PROVE  WithinAllowance(spent[r], MaxQuery, CallsOf(r))
    BY DEF QueryOvershootBounded
  <1>1. spent[r] = 0 /\ CallsOf(r) \in SUBSET Calls
    BY DEF Init, CallsOf
  <1>2. QED
    BY <1>1, AllowanceAdmitted, CostConfig

LEMMA QueryMoves ==
  ASSUME TypeOK, [Next]_vars, NEW r \in Requests
  PROVE  Moves(spent[r], spent'[r], MaxQuery, CallsOf(r), CallsOf(r)')
  <1> USE CostConfig DEF TypeOK, CallsOf
  <1> DEFINE goal == Moves(spent[r], spent'[r], MaxQuery, CallsOf(r), CallsOf(r)')
  <1>1. ASSUME NEW c \in Calls, NEW q \in Requests, Admit(c, q)
        PROVE  goal
    BY <1>1 DEF Admit, Moves
  <1>2. ASSUME NEW c \in Calls, NEW cost \in 0 .. MaxCost, Answer(c, cost)
        PROVE  goal
    <2>1. CASE owner[c] = r
      <3>1. /\ c \in CallsOf(r)
            /\ CallsOf(r)' = CallsOf(r) \ {c}
            /\ spent'[r] = spent[r] + cost
        BY <1>2, <2>1 DEF Answer
      <3>2. QED
        BY <3>1 DEF Moves
    <2>2. CASE owner[c] # r
      BY <1>2, <2>2 DEF Answer, Moves
    <2>3. QED
      BY <2>1, <2>2
  <1>3. ASSUME NEW c \in Calls, Fail(c)
        PROVE  goal
    BY <1>3 DEF Fail, Moves
  <1>4. ASSUME NEW q \in Requests, NEW p \in Replicas, NewRequest(q, p)
        PROVE  goal
    BY <1>4 DEF NewRequest, Moves
  <1>5. CASE HourTurns \/ DayTurns \/ UNCHANGED vars
    BY <1>5 DEF HourTurns, DayTurns, vars, Moves
  <1>6. QED
    BY <1>1, <1>2, <1>3, <1>4, <1>5 DEF Next

LEMMA NextQuery ==
  TypeOK /\ QueryOvershootBounded /\ [Next]_vars => QueryOvershootBounded'
  <1> SUFFICES ASSUME TypeOK, QueryOvershootBounded, [Next]_vars,
                      NEW r \in Requests
               PROVE  WithinAllowance(spent[r], MaxQuery, CallsOf(r))'
    BY DEF QueryOvershootBounded
  <1>1. /\ Moves(spent[r], spent'[r], MaxQuery, CallsOf(r), CallsOf(r)')
        /\ WithinAllowance(spent[r], MaxQuery, CallsOf(r))
    BY QueryMoves DEF QueryOvershootBounded
  <1>2. TypeOK'
    BY NextTypeOK
  <1>3. /\ spent[r] \in Nat /\ spent'[r] \in Nat /\ MaxQuery \in Nat
        /\ CallsOf(r) \in SUBSET Calls /\ CallsOf(r)' \in SUBSET Calls
    BY <1>2, CostConfig DEF TypeOK, CallsOf
  <1>4. WithinAllowance(spent'[r], MaxQuery, CallsOf(r)')
    BY <1>1, <1>3, AllowanceKept
  <1>5. QED
    BY <1>4 DEF WithinAllowance

(* A request overspends its cap by less than the cost of all call slots.   *)
THEOREM QueryOvershoot == Spec => []QueryOvershootBounded
  BY InitTypeOK, NextTypeOK, InitQuery, NextQuery, PTL DEF Spec

-----------------------------------------------------------------------------

LEMMA InitFleet == Init => FleetOvershootBounded
  <1> SUFFICES ASSUME Init PROVE FleetOvershootBounded
    OBVIOUS
  <1>1. RedisCalls \in SUBSET Calls
    BY DEF RedisCalls, InFlight
  <1>2. redis.hour = 0 /\ redis.day = 0
    BY DEF Init, Empty
  <1>3. ASSUME NEW p \in Replicas
        PROVE  /\ local[p].hour = 0 /\ local[p].day = 0
               /\ CallsAt(p) \in SUBSET Calls
    BY DEF Init, Empty, CallsAt, InFlight
  <1>4. QED
    BY <1>1, <1>2, <1>3, AllowanceAdmitted, CostConfig
       DEF FleetOvershootBounded

(* A replica in memory: its buckets and the calls it serves.               *)
LEMMA MemoryMoves ==
  ASSUME TypeOK, [Next]_vars, NEW p \in Replicas, store[p] = "memory"
  PROVE  /\ Moves(local[p].hour, local'[p].hour, MaxHour, CallsAt(p), CallsAt(p)')
         /\ Moves(local[p].day, local'[p].day, MaxDay, CallsAt(p), CallsAt(p)')
  <1> USE CostConfig DEF TypeOK, CallsAt, InFlight, Buckets
  <1> DEFINE goal ==
        /\ Moves(local[p].hour, local'[p].hour, MaxHour, CallsAt(p), CallsAt(p)')
        /\ Moves(local[p].day, local'[p].day, MaxDay, CallsAt(p), CallsAt(p)')
  <1>1. ASSUME NEW c \in Calls, NEW r \in Requests, Admit(c, r)
        PROVE  goal
    <2>1. CASE home[r] = p
      BY <1>1, <2>1 DEF Admit, Readings, Moves
    <2>2. CASE home[r] # p
      <3>1. CallsAt(p)' \subseteq CallsAt(p)
        BY <1>1, <2>2 DEF Admit
      <3>2. QED
        BY <1>1, <3>1 DEF Admit, Moves
    <2>3. QED
      BY <2>1, <2>2
  <1>2. ASSUME NEW c \in Calls, NEW cost \in 0 .. MaxCost, Answer(c, cost)
        PROVE  goal
    <2>1. owner[c] \in Requests /\ home[owner[c]] \in Replicas
      BY <1>2 DEF Answer
    <2>2. CallsAt(p)' = CallsAt(p) \ {c}
      BY <1>2 DEF Answer
    <2>3. CASE local' = local
      BY <2>2, <2>3 DEF Moves
    <2>4. CASE home[owner[c]] = p /\ Add(p, cost)
      <3>1. /\ local'[p].hour = local[p].hour + cost
            /\ local'[p].day = local[p].day + cost
        BY <2>4 DEF Add, Plus
      <3>2. c \in CallsAt(p)
        BY <1>2, <2>1, <2>4 DEF Answer
      <3>3. QED
        BY <2>2, <3>1, <3>2 DEF Moves
    <2>5. CASE home[owner[c]] # p /\ Add(home[owner[c]], cost)
      <3>1. local'[p] = local[p]
        BY <2>1, <2>5 DEF Add
      <3>2. QED
        BY <2>2, <3>1 DEF Moves
    <2>6. QED
      BY <1>2, <2>3, <2>4, <2>5 DEF Answer, bucketVars
  <1>3. ASSUME NEW c \in Calls, Fail(c)
        PROVE  goal
    BY <1>3 DEF Fail, bucketVars, Moves
  <1>4. ASSUME NEW r \in Requests, NEW q \in Replicas, NewRequest(r, q)
        PROVE  goal
    <2>1. CallsAt(p)' = CallsAt(p)
      BY <1>4 DEF NewRequest
    <2>2. QED
      BY <1>4, <2>1 DEF NewRequest, bucketVars, Moves
  <1>5. CASE HourTurns
    BY <1>5 DEF HourTurns, Moves
  <1>6. CASE DayTurns
    BY <1>6 DEF DayTurns, Moves, Empty
  <1>7. CASE UNCHANGED vars
    BY <1>7 DEF vars, bucketVars, Moves
  <1>8. QED
    BY <1>1, <1>2, <1>3, <1>4, <1>5, <1>6, <1>7 DEF Next

(* Redis, as long as no operation on it fails: its buckets and the calls   *)
(* of all replicas that keep them there.                                   *)
LEMMA RedisMoves ==
  ASSUME TypeOK, [Next]_vars, intact'
  PROVE  /\ Moves(redis.hour, redis'.hour, MaxHour, RedisCalls, RedisCalls')
         /\ Moves(redis.day, redis'.day, MaxDay, RedisCalls, RedisCalls')
  <1> USE CostConfig DEF TypeOK, RedisCalls, InFlight, Buckets
  <1> DEFINE goal ==
        /\ Moves(redis.hour, redis'.hour, MaxHour, RedisCalls, RedisCalls')
        /\ Moves(redis.day, redis'.day, MaxDay, RedisCalls, RedisCalls')
  <1>1. ASSUME NEW c \in Calls, NEW r \in Requests, Admit(c, r)
        PROVE  goal
    <2>1. CASE store[home[r]] = "redis"
      <3>1. PICK reading \in Readings(home[r]) :
               /\ reading.totals.hour < MaxHour
               /\ reading.totals.day < MaxDay
               /\ intact' = (intact /\ reading.answered)
        BY <1>1, Zenon DEF Admit
      <3>2. reading.answered
        BY <3>1, Zenon
      <3>3. \/ reading = [totals |-> redis, answered |-> TRUE]
            \/ reading = [totals |-> local[home[r]], answered |-> FALSE]
        BY <2>1, Zenon DEF Readings
      <3>4. reading.totals = redis
        BY <3>2, <3>3
      <3>5. redis' = redis
        BY <1>1 DEF Admit
      <3>6. QED
        BY <3>1, <3>4, <3>5 DEF Moves
    <2>2. CASE store[home[r]] # "redis"
      <3>1. RedisCalls' \subseteq RedisCalls /\ redis' = redis
        BY <1>1, <2>2 DEF Admit
      <3>2. QED
        BY <3>1 DEF Moves
    <2>3. QED
      BY <2>1, <2>2
  <1>2. ASSUME NEW c \in Calls, NEW cost \in 0 .. MaxCost, Answer(c, cost)
        PROVE  goal
    <2>1. owner[c] \in Requests /\ home[owner[c]] \in Replicas
      BY <1>2 DEF Answer
    <2>2. RedisCalls' = RedisCalls \ {c}
      BY <1>2 DEF Answer
    <2>3. CASE redis' = redis
      BY <2>2, <2>3 DEF Moves
    <2>4. CASE store[home[owner[c]]] = "redis" /\ Add(home[owner[c]], cost)
      <3>1. redis'.hour = redis.hour + cost /\ redis'.day = redis.day + cost
        BY <2>4 DEF Add, Plus
      <3>2. c \in RedisCalls
        BY <1>2, <2>1, <2>4 DEF Answer
      <3>3. QED
        BY <2>2, <3>1, <3>2 DEF Moves
    <2>5. CASE store[home[owner[c]]] = "memory" /\ Add(home[owner[c]], cost)
      BY <2>2, <2>5 DEF Add, Moves
    <2>6. QED
      BY <1>2, <2>1, <2>3, <2>4, <2>5 DEF Answer, bucketVars
  <1>3. ASSUME NEW c \in Calls, Fail(c)
        PROVE  goal
    BY <1>3 DEF Fail, bucketVars, Moves
  <1>4. ASSUME NEW r \in Requests, NEW q \in Replicas, NewRequest(r, q)
        PROVE  goal
    <2>1. RedisCalls' = RedisCalls
      BY <1>4 DEF NewRequest
    <2>2. QED
      BY <1>4, <2>1 DEF NewRequest, bucketVars, Moves
  <1>5. CASE HourTurns
    BY <1>5 DEF HourTurns, Moves
  <1>6. CASE DayTurns
    BY <1>6 DEF DayTurns, Moves, Empty
  <1>7. CASE UNCHANGED vars
    BY <1>7 DEF vars, bucketVars, Moves
  <1>8. QED
    BY <1>1, <1>2, <1>3, <1>4, <1>5, <1>6, <1>7 DEF Next

(* What a replica keeps its buckets in is settled at boot, and an          *)
(* operation that has failed stays so.                                     *)
LEMMA BootChoiceStands ==
  ASSUME TypeOK, [Next]_vars
  PROVE  store' = store /\ (intact' => intact)
  <1>1. ASSUME NEW c \in Calls, NEW cost \in 0 .. MaxCost, Answer(c, cost)
        PROVE  store' = store /\ (intact' => intact)
    BY <1>1 DEF Answer, Add, bucketVars
  <1>2. QED
    BY <1>1 DEF TypeOK, Next, Admit, Fail, NewRequest, HourTurns, DayTurns, vars, bucketVars

LEMMA NextFleet ==
  TypeOK /\ FleetOvershootBounded /\ [Next]_vars => FleetOvershootBounded'
  <1> SUFFICES ASSUME TypeOK, FleetOvershootBounded, [Next]_vars
               PROVE  FleetOvershootBounded'
    OBVIOUS
  <1>1. TypeOK' /\ store' = store /\ (intact' => intact)
    BY NextTypeOK, BootChoiceStands
  <1>2. MaxHour \in Nat /\ MaxDay \in Nat
    BY CostConfig
  <1>3. ASSUME NEW p \in Replicas, store[p] = "memory"
        PROVE  /\ WithinAllowance(local'[p].hour, MaxHour, CallsAt(p)')
               /\ WithinAllowance(local'[p].day, MaxDay, CallsAt(p)')
    <2>1. /\ CallsAt(p) \in SUBSET Calls /\ CallsAt(p)' \in SUBSET Calls
          /\ local[p].hour \in Nat /\ local'[p].hour \in Nat
          /\ local[p].day \in Nat /\ local'[p].day \in Nat
      BY <1>1 DEF TypeOK, Buckets, CallsAt, InFlight
    <2>2. /\ WithinAllowance(local[p].hour, MaxHour, CallsAt(p))
          /\ WithinAllowance(local[p].day, MaxDay, CallsAt(p))
      BY <1>3 DEF FleetOvershootBounded
    <2>3. /\ Moves(local[p].hour, local'[p].hour, MaxHour, CallsAt(p), CallsAt(p)')
          /\ Moves(local[p].day, local'[p].day, MaxDay, CallsAt(p), CallsAt(p)')
      BY <1>3, MemoryMoves
    <2>4. QED
      BY <1>2, <2>1, <2>2, <2>3, AllowanceKept
  <1>4. ASSUME intact'
        PROVE  /\ WithinAllowance(redis'.hour, MaxHour, RedisCalls')
               /\ WithinAllowance(redis'.day, MaxDay, RedisCalls')
    <2>1. /\ RedisCalls \in SUBSET Calls /\ RedisCalls' \in SUBSET Calls
          /\ redis.hour \in Nat /\ redis'.hour \in Nat
          /\ redis.day \in Nat /\ redis'.day \in Nat
      BY <1>1 DEF TypeOK, Buckets, RedisCalls, InFlight
    <2>2. /\ WithinAllowance(redis.hour, MaxHour, RedisCalls)
          /\ WithinAllowance(redis.day, MaxDay, RedisCalls)
      BY <1>1, <1>4 DEF FleetOvershootBounded
    <2>3. QED
      BY <1>2, <1>4, <2>1, <2>2, RedisMoves, AllowanceKept
  <1>5. QED
    BY <1>1, <1>3, <1>4 DEF FleetOvershootBounded, WithinAllowance

(* So does the fleet, per replica with the in-memory store and for the     *)
(* others together with a Redis that answers.                              *)
THEOREM FleetOvershoot == Spec => []FleetOvershootBounded
  BY InitTypeOK, NextTypeOK, InitFleet, NextFleet, PTL DEF Spec

-----------------------------------------------------------------------------

(* Both buckets of Redis, of the replica's memory, or of the two when the  *)
(* reply is lost, grow by the cost.                                        *)
LEMMA AddCounts ==
  ASSUME TypeOK, NEW p \in Replicas, NEW cost \in Nat, Add(p, cost)
  PROVE  \/ Grows(p, cost)
         \/ /\ Grows(p, 2 * cost)
            /\ store[p] = "redis" /\ "reply" \in Failures /\ ~intact'
  <1>1. /\ redis.hour \in Nat /\ redis.day \in Nat
        /\ local[p].hour \in Nat /\ local[p].day \in Nat
    BY DEF TypeOK, Buckets
  <1>2. CASE redis' = Plus(redis, cost) /\ local'[p] = local[p]
    <2>1. /\ redis'.hour = redis.hour + cost /\ local'[p].hour = local[p].hour
          /\ redis'.day = redis.day + cost /\ local'[p].day = local[p].day
      BY <1>2 DEF Plus
    <2> QED
      BY <1>1, <2>1 DEF Grows, HourLedger, DayLedger
  <1>3. CASE redis' = redis /\ local'[p] = Plus(local[p], cost)
    <2>1. /\ redis'.hour = redis.hour /\ local'[p].hour = local[p].hour + cost
          /\ redis'.day = redis.day /\ local'[p].day = local[p].day + cost
      BY <1>3 DEF Plus
    <2> QED
      BY <1>1, <2>1 DEF Grows, HourLedger, DayLedger
  <1>4. CASE /\ redis' = Plus(redis, cost) /\ local'[p] = Plus(local[p], cost)
             /\ store[p] = "redis" /\ "reply" \in Failures /\ ~intact'
    <2>1. /\ redis'.hour = redis.hour + cost /\ local'[p].hour = local[p].hour + cost
          /\ redis'.day = redis.day + cost /\ local'[p].day = local[p].day + cost
      BY <1>4 DEF Plus
    <2> QED
      BY <1>1, <1>4, <2>1 DEF Grows, HourLedger, DayLedger
  <1>5. QED
    BY <1>2, <1>3, <1>4 DEF Add, TypeOK

LEMMA ChargesCount ==
  ASSUME TypeOK, [Next]_vars, NEW r \in Requests, NEW p \in Replicas,
         home[r] = p, spent'[r] > spent[r], NEW cost, cost = spent'[r] - spent[r]
  PROVE  \/ spent'[r] > MaxQuery /\ Grows(p, 0)
         \/ spent'[r] <= MaxQuery /\ Grows(p, cost)
         \/ /\ spent'[r] <= MaxQuery
            /\ Grows(p, 2 * cost)
            /\ store[p] = "redis" /\ "reply" \in Failures /\ ~intact'
  <1>1. spent \in [Requests -> Nat] /\ spent[r] \in Nat /\ MaxCost \in Nat /\ MaxQuery \in Nat
    BY CostConfig DEF TypeOK
  <1>2. CASE UNCHANGED spent
    BY <1>1, <1>2
  <1>3. ASSUME NEW c \in Calls, NEW amount \in 0 .. MaxCost, Answer(c, amount)
        PROVE  \/ spent'[r] > MaxQuery /\ Grows(p, 0)
               \/ spent'[r] <= MaxQuery /\ Grows(p, cost)
               \/ /\ spent'[r] <= MaxQuery
                  /\ Grows(p, 2 * cost)
                  /\ store[p] = "redis" /\ "reply" \in Failures /\ ~intact'
    <2>1. spent' = [spent EXCEPT ![owner[c]] = spent[owner[c]] + amount]
      BY <1>3 DEF Answer
    <2>2. owner[c] = r
      BY <1>1, <2>1
    <2>3. spent'[r] = spent[r] + amount
      BY <1>1, <2>1, <2>2
    <2>4. cost = amount /\ cost \in Nat /\ spent'[r] \in Nat
      BY <1>1, <2>3
    <2>5. CASE spent[r] + amount > MaxQuery
      <3>1. redis' = redis /\ local' = local
        BY <1>1, <1>3, <2>2, <2>5 DEF Answer, bucketVars
      <3>2. Grows(p, 0)
        BY <3>1 DEF Grows, HourLedger, DayLedger, TypeOK, Buckets
      <3> QED
        BY <2>3, <2>5, <3>2
    <2>6. CASE ~(spent[r] + amount > MaxQuery)
      <3>1. Add(p, cost)
        BY <1>3, <2>2, <2>4, <2>6 DEF Answer
      <3>2. spent'[r] <= MaxQuery
        BY <1>1, <2>3, <2>4, <2>6
      <3> QED
        BY <2>4, <3>1, <3>2, AddCounts
    <2>7. QED
      BY <2>5, <2>6
  <1>4. ASSUME NEW q \in Requests, NEW o \in Replicas, NewRequest(q, o)
        PROVE  FALSE
    BY <1>1, <1>4 DEF NewRequest
  <1>5. QED
    BY <1>2, <1>3, <1>4
       DEF Next, Admit, Fail, HourTurns, DayTurns, vars

(* A cost that breaks its query's cap reaches no bucket of the fleet; any  *)
(* other is counted once, wherever its replica keeps its books and however *)
(* its Redis fails, or twice when a reply is lost.                         *)
THEOREM SpendReachesFleet == Spec => SpendCounted
  <1>1. ASSUME TypeOK, [Next]_vars, NEW r \in Requests, NEW p \in Replicas
        PROVE  home[r] = p /\ spent'[r] > spent[r] =>
                  LET cost == spent'[r] - spent[r]
                  IN  \/ spent'[r] > MaxQuery /\ Grows(p, 0)
                      \/ spent'[r] <= MaxQuery /\ Grows(p, cost)
                      \/ /\ spent'[r] <= MaxQuery
                         /\ Grows(p, 2 * cost)
                         /\ store[p] = "redis" /\ "reply" \in Failures /\ ~intact'
    BY <1>1, ChargesCount
  <1>2. TypeOK /\ [Next]_vars
          => [\A r \in Requests, p \in Replicas :
                 home[r] = p /\ spent'[r] > spent[r] =>
                    LET cost == spent'[r] - spent[r]
                    IN  \/ spent'[r] > MaxQuery /\ Grows(p, 0)
                        \/ spent'[r] <= MaxQuery /\ Grows(p, cost)
                        \/ /\ spent'[r] <= MaxQuery
                           /\ Grows(p, 2 * cost)
                           /\ store[p] = "redis" /\ "reply" \in Failures /\ ~intact']_vars
    BY <1>1
  <1>3. QED
    BY <1>2, InitTypeOK, NextTypeOK, PTL DEF Spec, SpendCounted

=============================================================================
