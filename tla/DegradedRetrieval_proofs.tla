---------------------- MODULE DegradedRetrieval_proofs ----------------------
(***************************************************************************)
(* For any backends, thresholds and requests: an unhealthy backend is      *)
(* dated and stays unhealthy until recovery_probe_seconds have passed.     *)
(* Both rest on the date alone, so what the window holds stays abstract.   *)
(* Then type correctness: the windows count, requests that are over await  *)
(* nothing.                                                                *)
(***************************************************************************)
EXTENDS DegradedRetrieval, TLAPS

(* The part of the registry the proofs are about.                          *)
Dated ==
    /\ status \in [Backends -> Statuses]
    /\ downFor \in [Backends -> {NotSet} \cup 0 .. Recovery]
    /\ UnhealthyIsDated

LEMMA InitDated == Init => Dated
  BY HealthConfig DEF Init, HealthInit, Dated, UnhealthyIsDated, Statuses, NotSet

LEMMA VerdictSound ==
  ASSUME Dated, NEW b \in Backends
  PROVE  /\ Verdict(b) \in Statuses
         /\ status[b] = "unhealthy" /\ Verdict(b) # "unhealthy"
               => RecoveryElapsed(b)
  BY DEF Verdict, Dated, Statuses

LEMMA SinceSound ==
  ASSUME Dated, NEW b \in Backends
  PROVE  /\ Since(b) \in {NotSet} \cup 0 .. Recovery
         /\ Verdict(b) = "unhealthy" => Since(b) # NotSet
  <1>1. CASE status[b] # "unhealthy" /\ Verdict(b) = "unhealthy"
    BY <1>1, HealthConfig DEF Since, NotSet
  <1>2. CASE ~TooFewObservations(b) /\ Verdict(b) = "healthy"
    BY <1>2 DEF Since
  <1>3. CASE /\ ~(status[b] # "unhealthy" /\ Verdict(b) = "unhealthy")
             /\ ~(~TooFewObservations(b) /\ Verdict(b) = "healthy")
    <2>1. Since(b) = downFor[b]
      BY <1>3 DEF Since
    <2>2. QED
      BY <1>3, <2>1 DEF Dated, UnhealthyIsDated
  <1>4. QED
    BY <1>1, <1>2, <1>3

LEMMA RecordSound ==
  ASSUME Dated, NEW b \in Backends, NEW ok \in BOOLEAN, RecordOutcome(b, ok)
  PROVE  /\ Dated'
         /\ \A a \in Backends :
               status[a] = "unhealthy" /\ status'[a] # "unhealthy"
               => downFor[a] = Recovery
  <1>1. /\ status' = [status EXCEPT ![b] = Verdict(b)]
        /\ downFor' = [downFor EXCEPT ![b] = Since(b)]
    BY DEF RecordOutcome
  <1>2. Dated'
    BY <1>1, VerdictSound, SinceSound DEF Dated, UnhealthyIsDated
  <1>3. ASSUME NEW a \in Backends, status[a] = "unhealthy",
               status'[a] # "unhealthy"
        PROVE  downFor[a] = Recovery
    <2>1. a = b
      BY <1>1, <1>3 DEF Dated
    <2>2. status'[b] = Verdict(b)
      BY <1>1 DEF Dated
    <2>3. RecoveryElapsed(a)
      BY <1>3, <2>1, <2>2, VerdictSound
    <2>4. QED
      BY <1>3, <2>3 DEF RecoveryElapsed, Dated, UnhealthyIsDated
  <1>4. QED
    BY <1>2, <1>3

(* Only a request at the eRanker records its outcome, and it is there only *)
(* when the eRanker is one of the backends.                                *)
ERankerWired ==
    /\ up \in [Backends -> BOOLEAN]
    /\ pc \in [Requests -> {"idle", "fetching", "rescuing", "failed", "ranking"}]
    /\ \A r \in Requests : pc[r] = "ranking" => ERanker \in Backends

LEMMA InitWired == Init => ERankerWired
  BY DEF Init, ERankerWired

LEMMA NextWired == ERankerWired /\ [Next]_vars => ERankerWired'
  <1> SUFFICES ASSUME ERankerWired, [Next]_vars PROVE ERankerWired'
    OBVIOUS
  <1> USE DEF ERankerWired
  <1>1. ASSUME NEW r \in Requests, Request(r)
        PROVE  ERankerWired'
    <2>1. ASSUME NEW requested \in SUBSET Retrievers \ {{}}, Plan(r, requested)
          PROVE  ERankerWired'
      BY <2>1 DEF Plan
    <2>2. ASSUME NEW b \in Retrievers,
                 Retrieved(r, b) \/ RetrieveFails(r, b) \/ RetrieveRaises(r, b)
          PROVE  ERankerWired'
      BY <2>2 DEF Retrieved, RetrieveFails, RetrieveRaises
    <2>3. CASE Rescue(r)
      BY <2>3 DEF Rescue
    <2>4. CASE CallERanker(r)
      BY <2>4 DEF CallERanker
    <2>5. CASE ERankerReturns(r)
      BY <2>5 DEF ERankerReturns
    <2>6. CASE SkipERanker(r) \/ Failed(r) \/ Cancel(r)
      BY <2>6 DEF SkipERanker, Failed, Cancel
    <2>7. QED
      BY <1>1, <2>1, <2>2, <2>3, <2>4, <2>5, <2>6 DEF Request
  <1>2. CASE Clock
    BY <1>2 DEF Clock, requestVars
  <1>3. ASSUME NEW b \in Backends, BackendChanges(b)
        PROVE  ERankerWired'
    BY <1>3 DEF BackendChanges, requestVars
  <1>4. CASE UNCHANGED vars
    BY <1>4 DEF vars, requestVars
  <1>5. QED
    BY <1>1, <1>2, <1>3, <1>4 DEF Next

LEMMA NextSound ==
  ASSUME Dated, ERankerWired, [Next]_vars
  PROVE  /\ Dated'
         /\ \A a \in Backends :
               status[a] = "unhealthy" /\ status'[a] # "unhealthy"
               => downFor[a] = Recovery
  <1> DEFINE goal == /\ Dated'
                     /\ \A a \in Backends :
                           status[a] = "unhealthy" /\ status'[a] # "unhealthy"
                           => downFor[a] = Recovery
  <1>a. ASSUME UNCHANGED healthVars
        PROVE  goal
    BY <1>a DEF healthVars, Dated, UnhealthyIsDated
  <1>1. ASSUME NEW r \in Requests, Request(r)
        PROVE  goal
    <2>1. ASSUME NEW b \in Retrievers, Retrieved(r, b)
          PROVE  goal
      BY <2>1, RecordSound, RetrievalConfig DEF Retrieved
    <2>2. ASSUME NEW b \in Retrievers, RetrieveFails(r, b)
          PROVE  goal
      BY <2>2, RecordSound, RetrievalConfig DEF RetrieveFails
    <2>3. CASE ERankerReturns(r)
      <3>1. ERanker \in Backends /\ up[ERanker] \in BOOLEAN
        BY <2>3 DEF ERankerReturns, ERankerWired
      <3>2. QED
        BY <2>3, <3>1, RecordSound DEF ERankerReturns
    <2>4. QED
      BY <1>1, <1>a, <2>1, <2>2, <2>3
         DEF Request, Plan, RetrieveRaises, Rescue, CallERanker, SkipERanker,
             Failed, Cancel
  <1>2. CASE Clock
    BY <1>2, HealthConfig DEF Clock, HealthTick, Dated, UnhealthyIsDated, NotSet
  <1>3. ASSUME NEW b \in Backends, BackendChanges(b)
        PROVE  goal
    BY <1>3, <1>a DEF BackendChanges
  <1>4. CASE UNCHANGED vars
    BY <1>4, <1>a DEF vars
  <1>5. QED
    BY <1>1, <1>2, <1>3, <1>4 DEF Next

(* An unhealthy backend always has the time since which it is.             *)
THEOREM Dates == Spec => []UnhealthyIsDated
  <1>1. Dated => UnhealthyIsDated
    BY DEF Dated
  <1>2. Dated /\ ERankerWired /\ [Next]_vars => Dated'
    BY NextSound
  <1>3. QED
    BY <1>1, <1>2, InitDated, InitWired, NextWired, PTL DEF Spec

(* No outcome, however late, ends the unhealthy state before its time.     *)
THEOREM QuietPeriod == Spec => UnhealthyUntilRecovery
  <1> DEFINE leaves ==
        \A b \in Backends :
            status[b] = "unhealthy" /\ status'[b] # "unhealthy"
            => downFor[b] = Recovery
  <1>1. Dated /\ ERankerWired /\ [Next]_vars => Dated' /\ [leaves]_vars
    BY NextSound
  <1>2. QED
    BY <1>1, InitDated, InitWired, NextWired, PTL
       DEF Spec, UnhealthyUntilRecovery

-----------------------------------------------------------------------------

(* The windows hold counts, whichever outcome is recorded.                 *)
Counted ==
    /\ good \in [Backends -> [HealthAges -> Nat]]
    /\ bad \in [Backends -> [HealthAges -> Nat]]

LEMMA RecordCounts ==
  ASSUME Counted, NEW b \in Backends, NEW ok \in BOOLEAN, RecordOutcome(b, ok)
  PROVE  Counted'
  <1>1. ASSUME NEW counts \in [Backends -> [HealthAges -> Nat]]
        PROVE  Observed(counts, b) \in [Backends -> [HealthAges -> Nat]]
    BY HealthConfig DEF Observed, HealthAges
  <1>2. QED
    BY <1>1 DEF Counted, RecordOutcome

LEMMA TickCounts ==
  ASSUME Counted, HealthTick
  PROVE  Counted'
  <1>1. ASSUME NEW counts \in [Backends -> [HealthAges -> Nat]]
        PROVE  OneTickOlder(counts) \in [Backends -> [HealthAges -> Nat]]
    <2>1. ASSUME NEW a \in HealthAges, a # 0
          PROVE  a - 1 \in HealthAges
      BY <2>1, HealthConfig DEF HealthAges
    <2>2. QED
      BY <2>1 DEF OneTickOlder
  <1>2. QED
    BY <1>1 DEF Counted, HealthTick

LEMMA NextCounted ==
  Counted /\ ERankerWired /\ [Next]_vars => Counted'
  <1> SUFFICES ASSUME Counted, ERankerWired, [Next]_vars PROVE Counted'
    OBVIOUS
  <1>a. ASSUME UNCHANGED healthVars
        PROVE  Counted'
    BY <1>a DEF healthVars, Counted
  <1>1. ASSUME NEW r \in Requests, Request(r)
        PROVE  Counted'
    <2>1. ASSUME NEW b \in Retrievers, Retrieved(r, b) \/ RetrieveFails(r, b)
          PROVE  Counted'
      BY <2>1, RecordCounts, RetrievalConfig DEF Retrieved, RetrieveFails
    <2>2. CASE ERankerReturns(r)
      <3>1. ERanker \in Backends /\ up[ERanker] \in BOOLEAN
        BY <2>2 DEF ERankerReturns, ERankerWired
      <3>2. QED
        BY <2>2, <3>1, RecordCounts DEF ERankerReturns
    <2>3. QED
      BY <1>1, <1>a, <2>1, <2>2
         DEF Request, Plan, RetrieveRaises, Rescue, CallERanker, SkipERanker,
             Failed, Cancel
  <1>2. CASE Clock
    BY <1>2, TickCounts DEF Clock
  <1>3. ASSUME NEW b \in Backends, BackendChanges(b)
        PROVE  Counted'
    BY <1>3, <1>a DEF BackendChanges
  <1>4. CASE UNCHANGED vars
    BY <1>4, <1>a DEF vars
  <1>5. QED
    BY <1>1, <1>2, <1>3, <1>4 DEF Next

(* Only backends are planned: a fallback chain names retrievers.           *)
LEMMA ActiveAreBackends ==
  ASSUME NEW requested \in SUBSET Retrievers
  PROVE  Active(requested) \subseteq Backends
  <1>1. ASSUME NEW b \in Retrievers
        PROVE  FirstHealthyFallback(b) \subseteq Backends
    BY RetrievalConfig DEF FirstHealthyFallback
  <1>2. QED
    BY <1>1, RetrievalConfig DEF Active, Probes

(* An idle request has nothing pending.                                    *)
RequestsPlaced ==
    /\ pc \in [Requests -> {"idle", "fetching", "rescuing", "failed", "ranking"}]
    /\ awaiting \in [Requests -> SUBSET Backends]
    /\ \A r \in Requests : pc[r] = "idle" => awaiting[r] = {}
    /\ \A r \in Requests : pc[r] = "ranking" => awaiting[r] \subseteq {ERanker}

LEMMA NextRequestsPlaced == RequestsPlaced /\ [Next]_vars => RequestsPlaced'
  <1> SUFFICES ASSUME RequestsPlaced, [Next]_vars PROVE RequestsPlaced'
    OBVIOUS
  <1> USE DEF RequestsPlaced, NoLongerAwaits
  <1>1. ASSUME NEW r \in Requests, Request(r)
        PROVE  RequestsPlaced'
    <2>1. ASSUME NEW requested \in SUBSET Retrievers \ {{}}, Plan(r, requested)
          PROVE  RequestsPlaced'
      BY <2>1, ActiveAreBackends DEF Plan
    <2>2. ASSUME NEW b \in Retrievers, Retrieved(r, b) \/ RetrieveFails(r, b)
          PROVE  RequestsPlaced'
      <3>1. /\ awaiting' = [awaiting EXCEPT ![r] = @ \ {b}]
            /\ pc' = pc
        BY <2>2, Zenon DEF Retrieved, RetrieveFails
      <3>2. QED
        BY <3>1
    <2>3. ASSUME NEW b \in Retrievers, RetrieveRaises(r, b)
          PROVE  RequestsPlaced'
      BY <2>3 DEF RetrieveRaises
    <2>4. CASE Rescue(r)
      BY <2>4, RetrievalConfig DEF Rescue
    <2>5. CASE CallERanker(r)
      BY <2>5 DEF CallERanker
    <2>6. CASE ERankerReturns(r)
      <3>1. /\ pc[r] = "ranking"
            /\ awaiting' = [awaiting EXCEPT ![r] = @ \ {ERanker}]
            /\ pc' = [pc EXCEPT ![r] = "idle"]
        BY <2>6, Zenon DEF ERankerReturns
      <3>2. QED
        BY <3>1
    <2>7. CASE SkipERanker(r) \/ Failed(r)
      BY <2>7 DEF SkipERanker, Failed
    <2>8. CASE Cancel(r)
      BY <2>8 DEF Cancel
    <2>9. QED
      BY <1>1, <2>1, <2>2, <2>3, <2>4, <2>5, <2>6, <2>7, <2>8 DEF Request
  <1>2. CASE Clock
    BY <1>2 DEF Clock, requestVars
  <1>3. ASSUME NEW b \in Backends, BackendChanges(b)
        PROVE  RequestsPlaced'
    BY <1>3 DEF BackendChanges, requestVars
  <1>4. CASE UNCHANGED vars
    BY <1>4 DEF vars, requestVars
  <1>5. QED
    BY <1>1, <1>2, <1>3, <1>4 DEF Next

(* Registry and requests keep their types, and a request that is over has  *)
(* no call pending.                                                        *)
THEOREM RetrievalTypeCorrect == Spec => []TypeOK
  <1>1. Init => Counted /\ RequestsPlaced
    BY HealthConfig
       DEF Init, HealthInit, NoObservations, HealthAges, Counted, RequestsPlaced
  <1>2. Dated /\ ERankerWired /\ [Next]_vars => Dated'
    BY NextSound
  <1>3. Dated /\ ERankerWired /\ Counted /\ RequestsPlaced => TypeOK
    BY DEF Dated, ERankerWired, Counted, RequestsPlaced, TypeOK, HealthTypeOK
  <1>4. QED
    BY <1>1, <1>2, <1>3, InitDated, InitWired, NextWired, NextCounted,
       NextRequestsPlaced, PTL DEF Spec

=============================================================================
