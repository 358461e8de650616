------------------------- MODULE DegradedRetrieval --------------------------
(***************************************************************************)
(* Retrieval under the health registry (orchestrator.py with               *)
(* resilience/degradation.py): each request asks DegradationPlanner which  *)
(* retrievers to use, awaits them together, may rescue an empty result     *)
(* with one retriever the planner is not asked about, and hands what it    *)
(* has to the external eRanker unless that is unhealthy.  Each outcome is  *)
(* recorded in the registry when it arrives.                               *)
(***************************************************************************)
EXTENDS BackendHealth, Sequences

CONSTANTS
    Requests,    \* requests in progress at once
    Retrievers,  \* retrieval backends
    Fallbacks,   \* fallback_chains up to a terminal marker, per retriever
    Rescuers,    \* retrievers called outside the plan
    ERanker      \* "eranker", one of Backends when the HTTP client is wired

ASSUME RetrievalConfig ==
    /\ Retrievers \subseteq Backends
    /\ ERanker \notin Retrievers
    /\ Rescuers \subseteq Retrievers
    /\ Fallbacks \in [Retrievers -> Seq(Retrievers)]

VARIABLES
    pc,         \* where each request is
    awaiting,   \* backends each request has calls pending at
    up          \* whether each backend serves at present

requestVars == <<pc, awaiting>>
vars == <<healthVars, requestVars, up>>

-----------------------------------------------------------------------------

TypeOK ==
    /\ HealthTypeOK
    /\ pc \in [Requests -> {"idle", "fetching", "rescuing", "failed", "ranking"}]
    /\ awaiting \in [Requests -> SUBSET Backends]
    /\ up \in [Backends -> BOOLEAN]
    /\ \A r \in Requests : pc[r] = "idle" => awaiting[r] = {}

Init ==
    /\ HealthInit
    /\ pc = [r \in Requests |-> "idle"]
    /\ awaiting = [r \in Requests |-> {}]
    /\ up \in [Backends -> BOOLEAN]

(* _first_healthy_fallback: nothing when a terminal marker comes first.    *)
FirstHealthyFallback(b) ==
    LET chain == Fallbacks[b]
        first == {i \in DOMAIN chain : /\ IsHealthy(chain[i])
                                       /\ \A j \in 1 .. i - 1 : ~IsHealthy(chain[j])}
    IN  {chain[i] : i \in first}

Probes(requested) == {b \in requested : IsProbeEligible(b)}

(* Fault: the planner knows no half-open probes.                           *)
ActiveWithoutProbes(requested) ==
    LET usable == {b \in requested : IsHealthy(b)}
    IN  usable \cup UNION {FirstHealthyFallback(b) : b \in requested \ usable}

(* The active backends of DegradationPlanner.plan(requested).              *)
Active(requested) ==
    LET usable == {b \in requested : IsHealthy(b)} \cup Probes(requested)
    IN  usable \cup UNION {FirstHealthyFallback(b) : b \in requested \ usable}

(* A call of the request to b is over.                                     *)
NoLongerAwaits(r, b) == awaiting' = [awaiting EXCEPT ![r] = @ \ {b}]

Plan(r, requested) ==
    /\ pc[r] = "idle"
    /\ pc' = [pc EXCEPT ![r] = "fetching"]
    /\ awaiting' = [awaiting EXCEPT ![r] = Active(requested)]
    /\ UNCHANGED <<healthVars, up>>

(* _safe_retrieve: a result, or RetrievalError turned into None.           *)
Retrieved(r, b) ==
    /\ b \in awaiting[r] \ {ERanker}
    /\ up[b]
    /\ RoomForObservation(b)
    /\ RecordOutcome(b, TRUE)
    /\ NoLongerAwaits(r, b)
    /\ UNCHANGED <<pc, up>>

RetrieveFails(r, b) ==
    /\ b \in awaiting[r] \ {ERanker}
    /\ ~up[b]
    /\ RoomForObservation(b)
    /\ RecordOutcome(b, FALSE)
    /\ NoLongerAwaits(r, b)
    /\ UNCHANGED <<pc, up>>

(* Any other exception leaves gather and the request with it; the calls    *)
(* gathered with it go on and still record their outcomes.                 *)
RetrieveRaises(r, b) ==
    /\ b \in awaiting[r] \ {ERanker}
    /\ ~up[b]
    /\ NoLongerAwaits(r, b)
    /\ pc' = [pc EXCEPT ![r] = "failed"]
    /\ UNCHANGED <<healthVars, up>>

(* Nothing was found: the SQL rescue, or the vector search of the zero-    *)
(* result fallback.                                                        *)
Rescue(r) ==
    /\ pc[r] = "fetching"
    /\ awaiting[r] = {}
    /\ \E b \in Rescuers : awaiting' = [awaiting EXCEPT ![r] = {b}]
    /\ pc' = [pc EXCEPT ![r] = "rescuing"]
    /\ UNCHANGED <<healthVars, up>>

(* _apply_eranker with a healthy backend and something to rank.            *)
CallERanker(r) ==
    /\ pc[r] \in {"fetching", "rescuing"}
    /\ awaiting[r] = {}
    /\ ERanker \in Backends
    /\ IsHealthy(ERanker)
    /\ pc' = [pc EXCEPT ![r] = "ranking"]
    /\ awaiting' = [awaiting EXCEPT ![r] = {ERanker}]
    /\ UNCHANGED <<healthVars, up>>

(* The eRanker answers in its budget, or times out or raises.              *)
ERankerReturns(r) ==
    /\ pc[r] = "ranking"
    /\ RoomForObservation(ERanker)
    /\ RecordOutcome(ERanker, up[ERanker])
    /\ NoLongerAwaits(r, ERanker)
    /\ pc' = [pc EXCEPT ![r] = "idle"]
    /\ UNCHANGED up

(* The response is built: nothing to rank, no eRanker, or an unhealthy one *)
(* (skipped_reason='backend_unhealthy').                                   *)
SkipERanker(r) ==
    /\ pc[r] \in {"fetching", "rescuing"}
    /\ awaiting[r] = {}
    /\ pc' = [pc EXCEPT ![r] = "idle"]
    /\ UNCHANGED <<healthVars, awaiting, up>>

(* The last call of a request that has failed is over.                     *)
Failed(r) ==
    /\ pc[r] = "failed"
    /\ awaiting[r] = {}
    /\ pc' = [pc EXCEPT ![r] = "idle"]
    /\ UNCHANGED <<healthVars, awaiting, up>>

(* The request is cancelled, and its calls with it.                        *)
Cancel(r) ==
    /\ pc[r] \in {"fetching", "rescuing", "ranking"}
    /\ pc' = [pc EXCEPT ![r] = "idle"]
    /\ awaiting' = [awaiting EXCEPT ![r] = {}]
    /\ UNCHANGED <<healthVars, up>>

Clock == HealthTick /\ UNCHANGED <<requestVars, up>>

BackendChanges(b) ==
    /\ up' = [up EXCEPT ![b] = ~@]
    /\ UNCHANGED <<healthVars, requestVars>>

Request(r) ==
    \/ \E requested \in SUBSET Retrievers \ {{}} : Plan(r, requested)
    \/ \E b \in Retrievers :
          Retrieved(r, b) \/ RetrieveFails(r, b) \/ RetrieveRaises(r, b)
    \/ Rescue(r)
    \/ CallERanker(r)
    \/ ERankerReturns(r)
    \/ SkipERanker(r)
    \/ Failed(r)
    \/ Cancel(r)

Next ==
    \/ \E r \in Requests : Request(r)
    \/ Clock
    \/ \E b \in Backends : BackendChanges(b)

Spec == Init /\ [][Next]_vars

(* Time passes, requests for every retriever keep coming and get that far, *)
(* and a call to a backend that serves is not cancelled every time.        *)
Fairness ==
    /\ WF_vars(Clock)
    /\ \A r \in Requests :
          /\ SF_vars(Plan(r, Retrievers))
          /\ WF_vars(Request(r))
          /\ \A b \in Retrievers : SF_vars(Retrieved(r, b))
          /\ SF_vars(CallERanker(r))
          /\ SF_vars(ERankerReturns(r))

FairSpec == Spec /\ Fairness

-----------------------------------------------------------------------------

(* An unhealthy backend always has a time since which it is.  Without one  *)
(* is_probe_eligible falls back to 0.0 and the backend is probed at once,  *)
(* as if it had been down since boot.                                      *)
UnhealthyIsDated ==
    \A b \in Backends : status[b] = "unhealthy" => downFor[b] # NotSet

(* A backend stays unhealthy for the whole of recovery_probe_seconds,      *)
(* whatever outcomes of calls planned before, of other requests or of      *)
(* rescues arrive meanwhile, and whatever leaves its window.               *)
UnhealthyUntilRecovery ==
    [][\A b \in Backends :
          status[b] = "unhealthy" /\ status'[b] # "unhealthy"
          => downFor[b] = Recovery]_vars

(* Every retriever that serves for good stops being unhealthy for good.    *)
RetrieversRecover ==
    \A b \in Retrievers : (<>[]up[b]) => <>[](status[b] # "unhealthy")

(* base.yaml, recovery_probe_seconds: "Cooldown before health-tracker      *)
(* probes the backend again".  So an eRanker that serves for good is found *)
(* to do so.                                                               *)
ERankerRecovers == (<>[]up[ERanker]) => <>[](status[ERanker] # "unhealthy")

=============================================================================
