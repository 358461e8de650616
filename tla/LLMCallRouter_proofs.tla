------------------------- MODULE LLMCallRouter_proofs -------------------------
(***************************************************************************)
(* For every configuration of the breaker: its fields have their types and *)
(* agree with one another, and driven by its callers it implements         *)
(* BreakerContract.  For any calls, chains and thresholds: the router      *)
(* drives the breaker through its methods only, so the breaker keeps its   *)
(* contract; only a call that meets a failing provider cuts traffic; and   *)
(* both observers hold the same outcomes.                                  *)
(***************************************************************************)
EXTENDS LLMCallRouter, TLAPS

(* The breaker alone.  Nothing here depends on when it trips, so Trips     *)
(* stays unexpanded.                                                       *)
BreakerInv == BreakerTypeOK /\ BreakerConsistent

LEMMA InitBreakerInv == BreakerInit => BreakerInv
  BY BreakerConfig DEF BreakerInit, BreakerInv, BreakerTypeOK, BreakerConsistent, States,
     NotOpened, NoEvents, Ages

LEMMA RecordedType ==
  ASSUME NEW events \in [Ages -> Nat]
  PROVE  Recorded(events) \in [Ages -> Nat]
  BY BreakerConfig DEF Recorded, Ages

LEMMA AgedType ==
  ASSUME NEW events \in [Ages -> Nat]
  PROVE  Aged(events) \in [Ages -> Nat]
  <1>1. ASSUME NEW a \in Ages, a # 0
        PROVE  a - 1 \in Ages
    BY <1>1, BreakerConfig DEF Ages
  <1>2. QED
    BY <1>1 DEF Aged

LEMMA NextBreakerInv == BreakerInv /\ [BreakerNext]_breakerVars => BreakerInv'
  <1> SUFFICES ASSUME BreakerInv, [BreakerNext]_breakerVars PROVE BreakerInv'
    OBVIOUS
  <1> USE BreakerConfig DEF BreakerInv, BreakerTypeOK, BreakerConsistent, States, NotOpened
  <1>1. CASE Tick
    <2>1. succeeded' \in [Ages -> Nat] /\ failed' \in [Ages -> Nat]
      BY <1>1, AgedType DEF Tick
    <2>2. /\ openFor' \in {NotOpened} \cup 0 .. Cooldown
          /\ openFor' = NotOpened <=> openFor = NotOpened
      BY <1>1 DEF Tick
    <2>3. QED
      BY <1>1, <2>1, <2>2 DEF Tick
  <1>2. ASSUME NEW admitted \in BOOLEAN, AllowRequest(admitted)
        PROVE  BreakerInv'
    BY <1>2 DEF AllowRequest, CooledDown
  <1>3. CASE RecordSuccess
    <2>1. succeeded' \in [Ages -> Nat] /\ failed' \in [Ages -> Nat]
      BY <1>3, RecordedType DEF RecordSuccess
    <2>2. QED
      BY <1>3, <2>1 DEF RecordSuccess
  <1>4. CASE RecordFailure
    <2>1. succeeded' \in [Ages -> Nat] /\ failed' \in [Ages -> Nat]
      BY <1>4, RecordedType DEF RecordFailure
    <2>2. QED
      BY <1>4, <2>1 DEF RecordFailure
  <1>5. CASE Reset
    BY <1>5 DEF Reset, NoEvents
  <1>6. CASE UNCHANGED breakerVars
    BY <1>6 DEF breakerVars
  <1>7. QED
    BY <1>1, <1>2, <1>3, <1>4, <1>5, <1>6 DEF BreakerNext, Operate

(* The fields keep their types.                                            *)
THEOREM BreakerTypeCorrect == BreakerSpec => []BreakerTypeOK
  <1>1. BreakerInv => BreakerTypeOK
    BY DEF BreakerInv
  <1>2. QED
    BY <1>1, InitBreakerInv, NextBreakerInv, PTL DEF BreakerSpec

(* _opened_at, the probe streak and the state agree after any sequence of  *)
(* calls of the breaker's methods, reset() included.                       *)
THEOREM BreakerConsistency == BreakerSpec => []BreakerConsistent
  <1>1. BreakerInv => BreakerConsistent
    BY DEF BreakerInv
  <1>2. QED
    BY <1>1, InitBreakerInv, NextBreakerInv, PTL DEF BreakerSpec

-----------------------------------------------------------------------------

LEMMA StepKeepsContract == BreakerInv /\ [Operate]_breakerVars => [Contract!Next]_Contract!vars
  <1> SUFFICES ASSUME BreakerInv, [Operate]_breakerVars
               PROVE  [Contract!Next]_Contract!vars
    OBVIOUS
  <1> USE BreakerConfig DEF BreakerInv, BreakerTypeOK, BreakerConsistent, States, NotOpened,
          Contract!vars
  <1>1. CASE Tick
    <2>1. CASE state # "closed" /\ openFor < Cooldown
      BY <1>1, <2>1 DEF Tick, Contract!Next, Contract!Wait
    <2>2. CASE ~(state # "closed" /\ openFor < Cooldown)
      BY <1>1, <2>2 DEF Tick
    <2>3. QED
      BY <2>1, <2>2
  <1>2. ASSUME NEW admitted \in BOOLEAN, AllowRequest(admitted)
        PROVE  [Contract!Next]_Contract!vars
    <2>1. CASE CooledDown
      BY <1>2, <2>1 DEF AllowRequest, CooledDown, Contract!Next,
         Contract!StartProbing
    <2>2. CASE ~CooledDown
      BY <1>2, <2>2 DEF AllowRequest
    <2>3. QED
      BY <2>1, <2>2
  <1>3. CASE RecordSuccess
    <2>1. CASE state = "half_open"
      BY <1>3, <2>1 DEF RecordSuccess, Contract!Next, Contract!ProbeSucceeds
    <2>2. CASE state # "half_open"
      BY <1>3, <2>2 DEF RecordSuccess
    <2>3. QED
      BY <2>1, <2>2
  <1>4. CASE RecordFailure
    <2>1. CASE state = "half_open"
      BY <1>4, <2>1 DEF RecordFailure, Contract!Next, Contract!ProbeFails
    <2>2. CASE state = "closed"
      BY <1>4, <2>2 DEF RecordFailure, Contract!Next, Contract!Trip
    <2>3. CASE state = "open"
      BY <1>4, <2>3 DEF RecordFailure
    <2>4. QED
      BY <2>1, <2>2, <2>3
  <1>5. CASE UNCHANGED breakerVars
    BY <1>5 DEF breakerVars
  <1>6. QED
    BY <1>1, <1>2, <1>3, <1>4, <1>5 DEF Operate

(* The breaker implements its contract: traffic stays cut for the whole    *)
(* cooldown, Required successes in a row end the probing, one failure      *)
(* restarts the cooldown.                                                  *)
THEOREM ImplementsContract == OperateSpec => KeepsContract
  <1>1. BreakerInit => Contract!Init
    BY DEF BreakerInit, Contract!Init
  <1>2. Operate => BreakerNext
    BY DEF BreakerNext
  <1>3. QED
    BY <1>1, <1>2, InitBreakerInv, NextBreakerInv, StepKeepsContract, PTL
       DEF OperateSpec, KeepsContract, Contract!Spec

-----------------------------------------------------------------------------
(* The breaker driven by the router                                        *)

(* Every step of the router is a method of the breaker, the passing of     *)
(* time, or leaves the breaker alone.                                      *)
LEMMA StepOperatesBreaker == [Next]_vars => [Operate]_breakerVars
  <1> SUFFICES ASSUME [Next]_vars PROVE [Operate]_breakerVars
    OBVIOUS
  <1>1. ASSUME NEW c \in Calls, Call(c)
        PROVE  [Operate]_breakerVars
    <2>1. CASE ShortCircuit(c)
      BY <2>1 DEF ShortCircuit, Operate
    <2>2. CASE Admit(c)
      BY <2>2 DEF Admit, Operate
    <2>3. CASE Succeed(c)
      BY <2>3 DEF Succeed, Operate
    <2>4. CASE Exhaust(c)
      BY <2>4 DEF Exhaust, Operate
    <2>5. CASE GateFilters(c) \/ GateRejects(c) \/ TryNextModel(c)
               \/ Escape(c) \/ Cancel(c)
      BY <2>5 DEF GateFilters, GateRejects, TryNextModel, Escape, Cancel
    <2>6. QED
      BY <1>1, <2>1, <2>2, <2>3, <2>4, <2>5 DEF Call
  <1>2. CASE EnsembleConsults
    BY <1>2 DEF EnsembleConsults, Operate
  <1>3. CASE Clock
    BY <1>3 DEF Clock, Operate
  <1>4. CASE ProviderChanges
    BY <1>4 DEF ProviderChanges
  <1>5. CASE UNCHANGED vars
    BY <1>5 DEF vars
  <1>6. QED
    BY <1>1, <1>2, <1>3, <1>4, <1>5 DEF Next

(* Under concurrent calls, late answers, cancelled probes and the          *)
(* ensemble's consultations the breaker keeps the contract of its header.  *)
THEOREM RouterKeepsContract == Spec => KeepsContract
  <1>1. Init => BreakerInit
    BY DEF Init
  <1>2. Spec => OperateSpec
    BY <1>1, StepOperatesBreaker, PTL DEF Spec, OperateSpec
  <1>3. QED
    BY <1>2, ImplementsContract, PTL

(* While every answer is valid nothing takes the LLM tier away: what opens *)
(* the breaker is a call that fails at a provider that is down.            *)
THEOREM RouterCutsOnFailure == Spec => OnlyFailuresCutTraffic
  <1> DEFINE cut == state = "closed" /\ state' # "closed" =>
                      \E c \in Calls : pc[c] = "calling" /\ pc'[c] = "idle"
                                       /\ provider = "down"
             Placed == pc \in [Calls -> {"idle", "gating", "calling"}]
  <1>1. Init => Placed
    BY DEF Init
  <1>2. ASSUME Placed, [Next]_vars
        PROVE  Placed' /\ [cut]_vars
    <2>1. ASSUME NEW c \in Calls, Call(c)
          PROVE  Placed' /\ cut
      <3>1. CASE ShortCircuit(c)
        BY <1>2, <3>1 DEF ShortCircuit, callVars, AllowRequest, CooledDown
      <3>2. CASE Admit(c)
        BY <1>2, <3>2 DEF Admit, AllowRequest, CooledDown
      <3>3. CASE Succeed(c)
        BY <1>2, <3>3 DEF Succeed, RecordSuccess, Finish
      <3>4. CASE Exhaust(c)
        BY <1>2, <3>4 DEF Exhaust, Finish
      <3>5. CASE GateFilters(c) \/ GateRejects(c) \/ TryNextModel(c)
                 \/ Escape(c) \/ Cancel(c)
        BY <1>2, <3>5
           DEF GateFilters, GateRejects, TryNextModel, Escape, Cancel, Finish,
               breakerVars
      <3>6. QED
        BY <2>1, <3>1, <3>2, <3>3, <3>4, <3>5 DEF Call
    <2>2. CASE EnsembleConsults \/ Clock \/ ProviderChanges
      BY <1>2, <2>2
         DEF EnsembleConsults, AllowRequest, CooledDown, Clock, Tick,
             ProviderChanges, breakerVars, callVars
    <2>3. CASE UNCHANGED vars
      BY <1>2, <2>3 DEF vars, callVars
    <2>4. QED
      BY <1>2, <2>1, <2>2, <2>3 DEF Next
  <1>3. QED
    BY <1>1, <1>2, PTL DEF Spec, OnlyFailuresCutTraffic

-----------------------------------------------------------------------------

(* The registry keeps the types of its fields, outcome by outcome.         *)
LEMMA RegistryRecords ==
  ASSUME Health!HealthTypeOK, NEW ok \in BOOLEAN, Health!RecordOutcome(LLM, ok)
  PROVE  Health!HealthTypeOK'
  <1> USE RegistryConfig DEF Health!HealthTypeOK
  <1>1. ASSUME NEW counts \in [{LLM} -> [Health!HealthAges -> Nat]]
        PROVE  Health!Observed(counts, LLM) \in [{LLM} -> [Health!HealthAges -> Nat]]
    BY DEF Health!Observed, Health!HealthAges
  <1>2. /\ good' \in [{LLM} -> [Health!HealthAges -> Nat]]
        /\ bad' \in [{LLM} -> [Health!HealthAges -> Nat]]
    BY <1>1 DEF Health!RecordOutcome
  <1>3. Health!Verdict(LLM) \in Health!Statuses
    BY DEF Health!Verdict, Health!Statuses
  <1>4. Health!Since(LLM) \in {Health!NotSet} \cup 0 .. Recovery
    BY DEF Health!Since
  <1>5. QED
    BY <1>2, <1>3, <1>4 DEF Health!RecordOutcome

LEMMA RegistryAges ==
  ASSUME Health!HealthTypeOK, Health!HealthTick
  PROVE  Health!HealthTypeOK'
  <1> USE RegistryConfig DEF Health!HealthTypeOK
  <1>1. ASSUME NEW counts \in [{LLM} -> [Health!HealthAges -> Nat]]
        PROVE  Health!OneTickOlder(counts) \in [{LLM} -> [Health!HealthAges -> Nat]]
    <2>1. ASSUME NEW a \in Health!HealthAges, a # 0
          PROVE  a - 1 \in Health!HealthAges
      BY <2>1 DEF Health!HealthAges
    <2>2. QED
      BY <2>1 DEF Health!OneTickOlder
  <1>2. downFor' \in [{LLM} -> {Health!NotSet} \cup 0 .. Recovery]
    BY DEF Health!HealthTick
  <1>3. QED
    BY <1>1, <1>2 DEF Health!HealthTick

(* Where the calls are, and how much of its chain each has left.           *)
CallsPlaced ==
    /\ pc \in [Calls -> {"idle", "gating", "calling"}]
    /\ left \in [Calls -> 0 .. ChainLen]
    /\ provider \in {"up", "down"}

LEMMA NextCallsPlaced == CallsPlaced /\ [Next]_vars => CallsPlaced'
  <1> SUFFICES ASSUME CallsPlaced, [Next]_vars PROVE CallsPlaced'
    OBVIOUS
  <1> USE ChainConfig DEF CallsPlaced, Finish
  <1>1. ASSUME NEW c \in Calls, Call(c)
        PROVE  CallsPlaced'
    <2>1. CASE ShortCircuit(c)
      BY <2>1 DEF ShortCircuit, callVars
    <2>2. CASE Admit(c)
      <3>1. PICK first \in {"gating", "calling"}, n \in 1 .. ChainLen :
               /\ pc' = [pc EXCEPT ![c] = first]
               /\ left' = [left EXCEPT ![c] = n]
               /\ UNCHANGED provider
        BY <2>2 DEF Admit
      <3>2. n \in 0 .. ChainLen
        OBVIOUS
      <3>3. QED
        BY <3>1, <3>2
    <2>3. CASE GateFilters(c)
      <3>1. PICK n \in 1 .. left[c] : left' = [left EXCEPT ![c] = n]
        BY <2>3 DEF GateFilters
      <3>2. left[c] \in 0 .. ChainLen
        OBVIOUS
      <3>3. n \in 0 .. ChainLen
        BY <3>2
      <3>4. left' \in [Calls -> 0 .. ChainLen]
        BY <3>1, <3>3
      <3>5. pc' = [pc EXCEPT ![c] = "calling"] /\ provider' = provider
        BY <2>3 DEF GateFilters
      <3>6. QED
        BY <3>4, <3>5
    <2>4. CASE GateRejects(c)
      BY <2>4 DEF GateRejects
    <2>5. CASE Succeed(c) \/ Exhaust(c)
      <3>1. Finish(c) /\ provider' = provider
        BY <2>5, Zenon DEF Succeed, Exhaust
      <3>2. QED
        BY <3>1
    <2>6. CASE TryNextModel(c)
      BY <2>6 DEF TryNextModel
    <2>7. CASE Escape(c) \/ Cancel(c)
      BY <2>7 DEF Escape, Cancel
    <2>8. QED
      BY <1>1, <2>1, <2>2, <2>3, <2>4, <2>5, <2>6, <2>7 DEF Call
  <1>2. CASE EnsembleConsults \/ Clock \/ ProviderChanges
    BY <1>2 DEF EnsembleConsults, Clock, ProviderChanges, callVars
  <1>3. CASE UNCHANGED vars
    BY <1>3 DEF vars, callVars
  <1>4. QED
    BY <1>1, <1>2, <1>3 DEF Next

LEMMA NextRegistryTyped ==
  Health!HealthTypeOK /\ [Next]_vars => Health!HealthTypeOK'
  <1> SUFFICES ASSUME Health!HealthTypeOK, [Next]_vars PROVE Health!HealthTypeOK'
    OBVIOUS
  <1>a. ASSUME UNCHANGED registryVars
        PROVE  Health!HealthTypeOK'
    BY <1>a DEF registryVars, Health!HealthTypeOK
  <1>1. ASSUME NEW c \in Calls, Call(c)
        PROVE  Health!HealthTypeOK'
    <2>1. CASE Succeed(c)
      BY <2>1, RegistryRecords DEF Succeed
    <2>2. CASE Exhaust(c)
      BY <2>2, RegistryRecords DEF Exhaust
    <2>3. QED
      BY <1>1, <1>a, <2>1, <2>2
         DEF Call, ShortCircuit, Admit, GateFilters, GateRejects, TryNextModel,
             Escape, Cancel
  <1>2. CASE Clock
    BY <1>2, RegistryAges DEF Clock
  <1>3. CASE EnsembleConsults \/ ProviderChanges
    BY <1>3, <1>a DEF EnsembleConsults, ProviderChanges
  <1>4. CASE UNCHANGED vars
    BY <1>4, <1>a DEF vars
  <1>5. QED
    BY <1>1, <1>2, <1>3, <1>4 DEF Next

(* Breaker, registry and calls keep their types; a call never walks past   *)
(* the end of its chain.                                                   *)
THEOREM RouterTypeCorrect == Spec => []TypeOK
  <1>1. Init => BreakerInit /\ Health!HealthTypeOK /\ CallsPlaced
    BY RegistryConfig, ChainConfig
       DEF Init, CallsPlaced, Health!HealthInit, Health!HealthTypeOK,
           Health!Statuses, Health!NoObservations
  <1>2. BreakerInv /\ [Next]_vars => BreakerInv'
    BY StepOperatesBreaker, NextBreakerInv DEF BreakerNext
  <1>3. BreakerInv /\ Health!HealthTypeOK /\ CallsPlaced => TypeOK
    BY DEF BreakerInv, CallsPlaced, TypeOK
  <1>4. QED
    BY <1>1, <1>2, <1>3, InitBreakerInv, NextCallsPlaced, NextRegistryTyped, PTL
       DEF Spec

(* So do the state, the date and the streak of the breaker agree under the *)
(* router as under any sequence of calls.                                  *)
THEOREM RouterKeepsBreakerConsistent == Spec => []BreakerConsistent
  <1>1. Init => BreakerInit
    BY DEF Init
  <1>2. BreakerInv /\ [Next]_vars => BreakerInv'
    BY StepOperatesBreaker, NextBreakerInv DEF BreakerNext
  <1>3. BreakerInv => BreakerConsistent
    BY DEF BreakerInv
  <1>4. QED
    BY <1>1, <1>2, <1>3, InitBreakerInv, PTL DEF Spec

-----------------------------------------------------------------------------

(* Both windows count the outcomes of the LLM alike.                       *)
SameOutcomes ==
    /\ succeeded \in [Ages -> Nat]
    /\ failed \in [Ages -> Nat]
    /\ good \in [{LLM} -> [Ages -> Nat]]
    /\ bad \in [{LLM} -> [Ages -> Nat]]
    /\ succeeded = good[LLM]
    /\ failed = bad[LLM]

LEMMA InitSameOutcomes ==
  ASSUME Window = HealthWindow, Init
  PROVE  SameOutcomes
  BY DEF Init, BreakerInit, NoEvents, Ages, SameOutcomes, Health!HealthInit,
     Health!NoObservations, Health!HealthAges

(* One outcome recorded by both.                                           *)
LEMMA ObservedAlike ==
  ASSUME NEW counts \in [{LLM} -> [Ages -> Nat]]
  PROVE  /\ Health!Observed(counts, LLM) \in [{LLM} -> [Ages -> Nat]]
         /\ Health!Observed(counts, LLM)[LLM] = Recorded(counts[LLM])
  <1>1. Recorded(counts[LLM]) \in [Ages -> Nat]
    BY RecordedType
  <1>2. Health!Observed(counts, LLM)
          = [counts EXCEPT ![LLM] = Recorded(counts[LLM])]
    BY DEF Health!Observed, Recorded
  <1>3. QED
    BY <1>1, <1>2

(* Both windows age alike.                                                 *)
LEMMA AgedAlike ==
  ASSUME Window = HealthWindow, NEW counts \in [{LLM} -> [Ages -> Nat]]
  PROVE  /\ Health!OneTickOlder(counts) \in [{LLM} -> [Ages -> Nat]]
         /\ Health!OneTickOlder(counts)[LLM] = Aged(counts[LLM])
  <1>1. Health!OneTickOlder(counts) = [b \in {LLM} |-> Aged(counts[b])]
    BY DEF Health!OneTickOlder, Aged, Ages, Health!HealthAges
  <1>2. Aged(counts[LLM]) \in [Ages -> Nat]
    BY AgedType
  <1>3. QED
    BY <1>1, <1>2

LEMMA NextSameOutcomes ==
  ASSUME Window = HealthWindow, SameOutcomes, [Next]_vars
  PROVE  SameOutcomes'
  <1>a. ASSUME UNCHANGED <<succeeded, failed, good, bad>>
        PROVE  SameOutcomes'
    BY <1>a DEF SameOutcomes
  <1>1. ASSUME NEW c \in Calls, Call(c)
        PROVE  SameOutcomes'
    <2>1. CASE Succeed(c)
      <3>1. succeeded' = Recorded(succeeded) /\ failed' = failed
        BY <2>1 DEF Succeed, RecordSuccess
      <3>2. good' = Health!Observed(good, LLM) /\ bad' = bad
        BY <2>1 DEF Succeed, Health!RecordOutcome
      <3>3. QED
        BY <3>1, <3>2, ObservedAlike DEF SameOutcomes
    <2>2. CASE Exhaust(c)
      <3>1. failed' = Recorded(failed) /\ succeeded' = succeeded
        BY <2>2 DEF Exhaust, RecordFailure
      <3>2. bad' = Health!Observed(bad, LLM) /\ good' = good
        BY <2>2 DEF Exhaust, Health!RecordOutcome
      <3>3. QED
        BY <3>1, <3>2, ObservedAlike DEF SameOutcomes
    <2>3. CASE ~Succeed(c) /\ ~Exhaust(c)
      BY <1>1, <1>a, <2>3
         DEF Call, ShortCircuit, Admit, GateFilters, GateRejects, TryNextModel,
             Escape, Cancel, AllowRequest, breakerVars, registryVars
    <2>4. QED
      BY <2>1, <2>2, <2>3
  <1>2. CASE Clock
    <2>1. /\ succeeded' = Aged(succeeded) /\ failed' = Aged(failed)
          /\ good' = Health!OneTickOlder(good)
          /\ bad' = Health!OneTickOlder(bad)
      BY <1>2 DEF Clock, Tick, Health!HealthTick
    <2>2. QED
      BY <2>1, AgedAlike DEF SameOutcomes
  <1>3. CASE EnsembleConsults \/ ProviderChanges
    BY <1>3, <1>a DEF EnsembleConsults, AllowRequest, ProviderChanges,
       breakerVars, registryVars
  <1>4. CASE UNCHANGED vars
    BY <1>4, <1>a DEF vars, breakerVars, registryVars
  <1>5. QED
    BY <1>1, <1>2, <1>3, <1>4 DEF Next

(* However calls end, each outcome that is recorded reaches both observers.*)
THEOREM ObserversAgree == Spec => []BothObserversAgree
  <1>1. CASE Window = HealthWindow
    <2>1. Init => SameOutcomes
      BY <1>1, InitSameOutcomes
    <2>2. SameOutcomes /\ [Next]_vars => SameOutcomes'
      BY <1>1, NextSameOutcomes
    <2>3. SameOutcomes => BothObserversAgree
      BY DEF SameOutcomes, BothObserversAgree
    <2>4. QED
      BY <2>1, <2>2, <2>3, PTL DEF Spec
  <1>2. CASE Window # HealthWindow
    <2>1. BothObserversAgree
      BY <1>2 DEF BothObserversAgree
    <2>2. QED
      BY <2>1, PTL
  <1>3. QED
    BY <1>1, <1>2

=============================================================================
