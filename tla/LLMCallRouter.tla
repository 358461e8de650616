--------------------------- MODULE LLMCallRouter ----------------------------
(***************************************************************************)
(* LLMCallRouter.call_structured of core/llm_client.py: concurrent LLM     *)
(* calls, interleaved at their awaits, that consult the circuit breaker,   *)
(* pass the structural gate, walk the fallback chain model by model and    *)
(* report one outcome to the breaker and to the health registry.  The QI   *)
(* ensemble, which consults the breaker on its own, is here too.           *)
(*                                                                         *)
(* A call turned away before it consults the breaker (sanitizer, cost      *)
(* admission, empty chain) changes nothing and is not represented.  What   *)
(* the cost observer decides after a success discards the result of that   *)
(* call only: module CostBudget is about it.                               *)
(***************************************************************************)
EXTENDS CircuitBreaker

CONSTANTS
    Calls,      \* calls that may be in progress at once
    ChainLen,   \* longest fallback chain of a task type
    HealthWindow, Recovery, MinObservations, HealthRateNum, HealthRateDen

ASSUME ChainConfig == ChainLen \in Nat \ {0}

ASSUME RegistryConfig == HealthWindow \in Nat \ {0} /\ Recovery \in Nat

VARIABLES
    status, downFor, good, bad,                  \* the health registry
    pc,          \* where each call is
    left,        \* models of its chain the call has not finished with
    provider     \* whether the providers answer calls validly at present

registryVars == <<status, downFor, good, bad>>
callVars == <<pc, left>>
vars == <<breakerVars, registryVars, callVars, provider>>

LLM == "llm"

Health == INSTANCE BackendHealth
              WITH Backends <- {LLM}, MaxObsPerTick <- MaxPerTick

-----------------------------------------------------------------------------

TypeOK ==
    /\ BreakerTypeOK
    /\ Health!HealthTypeOK
    /\ pc \in [Calls -> {"idle", "gating", "calling"}]
    /\ left \in [Calls -> 0 .. ChainLen]
    /\ provider \in {"up", "down"}

Init ==
    /\ BreakerInit
    /\ Health!HealthInit
    /\ pc = [c \in Calls |-> "idle"]
    /\ left = [c \in Calls |-> 0]
    /\ provider \in {"up", "down"}

Finish(c) ==
    /\ pc' = [pc EXCEPT ![c] = "idle"]
    /\ left' = [left EXCEPT ![c] = 0]

(* allow_request() is false: CircuitOpenError, no provider call.           *)
ShortCircuit(c) ==
    /\ pc[c] = "idle"
    /\ AllowRequest(FALSE)
    /\ UNCHANGED <<registryVars, callVars, provider>>

(* allow_request() is true.  Only a response schema that requires oneOf    *)
(* passes through the structural gate.                                     *)
Admit(c) ==
    /\ pc[c] = "idle"
    /\ AllowRequest(TRUE)
    /\ \E first \in {"gating", "calling"}, n \in 1 .. ChainLen :
          /\ pc' = [pc EXCEPT ![c] = first]
          /\ left' = [left EXCEPT ![c] = n]
    /\ UNCHANGED <<registryVars, provider>>

(* filter_capable_chain: an awaited probe of every model of the chain.     *)
GateFilters(c) ==
    /\ pc[c] = "gating"
    /\ \E n \in 1 .. left[c] : left' = [left EXCEPT ![c] = n]
    /\ pc' = [pc EXCEPT ![c] = "calling"]
    /\ UNCHANGED <<breakerVars, registryVars, provider>>

(* No capable model: llm_no_oneof_capable_models.                          *)
GateRejects(c) ==
    /\ pc[c] = "gating"
    /\ Finish(c)
    /\ UNCHANGED <<breakerVars, registryVars, provider>>

(* A validated answer.                                                     *)
Succeed(c) ==
    /\ pc[c] = "calling"
    /\ provider = "up"
    /\ RoomThisTick
    /\ RecordSuccess
    /\ Health!RecordOutcome(LLM, TRUE)
    /\ Finish(c)
    /\ UNCHANGED provider

(* Fault: the loop does not stop at the end of the chain.                  *)
TryNextModelForever(c) ==
    /\ pc[c] = "calling"
    /\ provider = "down"
    /\ left' = [left EXCEPT ![c] = @ - 1]
    /\ UNCHANGED <<breakerVars, registryVars, pc, provider>>

(* A transport error, an empty or an invalid answer, with models left.     *)
TryNextModel(c) ==
    /\ pc[c] = "calling"
    /\ provider = "down"
    /\ left[c] > 1
    /\ left' = [left EXCEPT ![c] = @ - 1]
    /\ UNCHANGED <<breakerVars, registryVars, pc, provider>>

(* Fault: the failure is reported to the breaker alone.                    *)
ExhaustUnseenByHealth(c) ==
    /\ pc[c] = "calling"
    /\ provider = "down"
    /\ left[c] = 1
    /\ RoomThisTick
    /\ RecordFailure
    /\ Finish(c)
    /\ UNCHANGED <<registryVars, provider>>

(* The same of the last model: llm_call_exhausted.                         *)
Exhaust(c) ==
    /\ pc[c] = "calling"
    /\ provider = "down"
    /\ left[c] = 1
    /\ RoomThisTick
    /\ RecordFailure
    /\ Health!RecordOutcome(LLM, FALSE)
    /\ Finish(c)
    /\ UNCHANGED provider

(* An exception that _RETRYABLE_TRANSPORT_ERRORS does not list (an SDK     *)
(* error, ConfigurationError of get_client_for_model) leaves the call.     *)
Escape(c) ==
    /\ pc[c] = "calling"
    /\ provider = "down"
    /\ Finish(c)
    /\ UNCHANGED <<breakerVars, registryVars, provider>>

(* Fault: a cancelled call counts as a failed one.                         *)
CancelAsFailure(c) ==
    /\ pc[c] \in {"gating", "calling"}
    /\ RoomThisTick
    /\ RecordFailure
    /\ Health!RecordOutcome(LLM, FALSE)
    /\ Finish(c)
    /\ UNCHANGED provider

(* CancelledError at an await: the caller's asyncio.wait_for timed out, or *)
(* the request was abandoned.                                              *)
Cancel(c) ==
    /\ pc[c] \in {"gating", "calling"}
    /\ Finish(c)
    /\ UNCHANGED <<breakerVars, registryVars, provider>>

(* QIEngine._classify_ensemble asks the breaker whether an L2 call would   *)
(* be allowed; the call, if any, asks again.                               *)
EnsembleConsults ==
    /\ \E admitted \in BOOLEAN : AllowRequest(admitted)
    /\ UNCHANGED <<registryVars, callVars, provider>>

Clock ==
    /\ Tick
    /\ Health!HealthTick
    /\ UNCHANGED <<callVars, provider>>

ProviderChanges ==
    /\ provider' \in {"up", "down"} \ {provider}
    /\ UNCHANGED <<breakerVars, registryVars, callVars>>

Call(c) ==
    \/ ShortCircuit(c)
    \/ Admit(c)
    \/ GateFilters(c)
    \/ GateRejects(c)
    \/ Succeed(c)
    \/ TryNextModel(c)
    \/ Exhaust(c)
    \/ Escape(c)
    \/ Cancel(c)

Next ==
    \/ \E c \in Calls : Call(c)
    \/ EnsembleConsults
    \/ Clock
    \/ ProviderChanges

Spec == Init /\ [][Next]_vars

(* Time passes and requests keep asking for LLM calls; the dice of         *)
(* half_open_probe_ratio > 0 do not refuse them for ever, and a call under *)
(* way is not cancelled every single time.                                 *)
Fairness ==
    /\ WF_vars(Clock)
    /\ \A c \in Calls :
          /\ WF_vars(ShortCircuit(c) \/ Admit(c))
          /\ SF_vars(Admit(c))
          /\ WF_vars(GateFilters(c) \/ GateRejects(c))
          /\ SF_vars(GateFilters(c))
          /\ SF_vars(Succeed(c))

FairSpec == Spec /\ Fairness

-----------------------------------------------------------------------------

(* Both observers of the LLM see the same history: the outcomes in the     *)
(* breaker's window and in the registry's are the same (for windows of     *)
(* equal length).  The header of llm_client.py promises that the router    *)
(* "records the outcome on both"; a path that tells only one of them lets  *)
(* an LLM outage trip the breaker while the planner still calls it         *)
(* healthy.                                                                *)
BothObserversAgree ==
    Window = HealthWindow => succeeded = good[LLM] /\ failed = bad[LLM]

(* A breaker that is not closed has seen the provider fail: while every    *)
(* answer is valid nothing (no cancelled probe, no consultation, no gate   *)
(* rejection) may take the LLM tier away.                                  *)
OnlyFailuresCutTraffic ==
    [][state = "closed" /\ state' # "closed" =>
          \E c \in Calls : pc[c] = "calling" /\ pc'[c] = "idle"
                           /\ provider = "down"]_vars

(* Recovery: once the providers answer validly for good, the breaker comes *)
(* back to closed and stays there.  No cancelled probe, no late answer of  *)
(* a call admitted before the outage and no consultation of the ensemble   *)
(* may wedge it open or half-open.                                         *)
RecoversWithProvider ==
    (<>[](provider = "up")) => <>[](state = "closed")

=============================================================================
