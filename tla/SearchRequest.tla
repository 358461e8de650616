---------------------------- MODULE SearchRequest ----------------------------
(***************************************************************************)
(* One POST /search request: the handler of app.py, the tasks it starts    *)
(* and the LLM cost accounts of the orchestrator that all of them share    *)
(* under the request's id.                                                 *)
(*                                                                         *)
(* search, spec and inline are cost phases.  Each binds a gate of its own  *)
(* as the active gate of the id, is charged for LLM calls, and merges its  *)
(* spend into the id's rollup when it ends, however it ends.  explore and  *)
(* scoped are runs of get_timeout_fallback, which calls no LLM.            *)
(*                                                                         *)
(* A handler step runs from one await to the next.  wait_for ends what it  *)
(* waits for when its time is up and goes on when that has unwound.  What  *)
(* a query is and what the backends hold is an arbitrary choice where the  *)
(* handler looks at it.                                                    *)
(***************************************************************************)
EXTENDS Integers

CONSTANT MaxSpend    \* bound on the LLM calls charged to one phase

ASSUME SpendBounded == MaxSpend \in Nat

VARIABLES
    at,      \* where the handler is
    task,    \* state of each task
    use,     \* analytics phase whose result the handler takes (_use_spec)
    spent,   \* running_total_usd of each phase's gate
    gate,    \* phase in _active_cost_gate_by_rid
    rollup,  \* entry of _accumulated_llm_cost_usd
    stamped, \* whether the intent answered is the one search() stamped
    cost,    \* decision_cost_usd of the response
    answer   \* kind of response

accountVars == <<spent, gate, rollup>>
vars == <<at, task, use, accountVars, stamped, cost, answer>>

Phases == {"search", "spec", "inline"}
Rails == {"explore", "scoped"}
Tasks == Phases \cup Rails

(* A task has returned, returned an AnalyticsResult without success,       *)
(* raised an error its caller lists or one it does not, or was cancelled.  *)
Over == {"ok", "failed", "raised", "crashed", "cancelled"}
Live == {"running", "cancelling"}
Places == {"idle", "searching", "fallback", "classify", "route", "analytics",
           "detour", "dropping", "joining", "closing", "reaping", "grace",
           "refill", "cross", "forcing", "done"}
Absent == -1

Total == spent["search"] + spent["spec"] + spent["inline"]

(* request_llm_cost_usd                                                    *)
RequestCost == (IF rollup = Absent THEN 0 ELSE rollup)
               + (IF gate = "none" THEN 0 ELSE spent[gate])

-----------------------------------------------------------------------------

TypeOK ==
    /\ at \in Places
    /\ task \in [Tasks -> {"none", "created"} \cup Live \cup Over]
    /\ use \in {"none", "spec", "inline"}
    /\ spent \in [Phases -> 0 .. MaxSpend]
    /\ gate \in Phases \cup {"none"}
    /\ rollup \in {Absent} \cup 0 .. 3 * MaxSpend
    /\ stamped \in BOOLEAN
    /\ cost \in 0 .. 3 * MaxSpend
    /\ answer \in {"none", "ok", "timeout", "unavailable", "rejected", "error"}

Init ==
    /\ at = "idle"
    /\ task = [t \in Tasks |-> "none"]
    /\ use = "none"
    /\ spent = [p \in Phases |-> 0]
    /\ gate = "none"
    /\ rollup = Absent
    /\ stamped = FALSE
    /\ cost = 0
    /\ answer = "none"

-----------------------------------------------------------------------------
(* The tasks                                                               *)

(* Fault: whatever gate is active is popped, not only the phase's own.     *)
FinalizePopsAny(p) ==
    /\ rollup' = (IF rollup = Absent THEN 0 ELSE rollup) + spent[p]
    /\ gate' = "none"

(* Fault: the gate stays active when its phase is over.                    *)
FinalizeKeepsGate(p) ==
    /\ rollup' = (IF rollup = Absent THEN 0 ELSE rollup) + spent[p]
    /\ UNCHANGED gate

(* _finalize_request_cost_phase                                            *)
Finalize(p) ==
    /\ rollup' = (IF rollup = Absent THEN 0 ELSE rollup) + spent[p]
    /\ gate' = IF gate = p THEN "none" ELSE gate

(* The speculative analytics task starts: it is refused, by its rate limit *)
(* or because analytics went away, or it binds its gate.                   *)
SpecStarts ==
    /\ task["spec"] = "created"
    /\ \/ /\ task' = [task EXCEPT !["spec"] = "running"]
          /\ gate' = "spec"
       \/ /\ \E r \in {"failed", "raised"} : task' = [task EXCEPT !["spec"] = r]
          /\ UNCHANGED gate
    /\ UNCHANGED <<at, use, spent, rollup, stamped, cost, answer>>

(* Fault: nothing keeps the calls of a phase within their bound.           *)
ChargeUnbounded(p) ==
    /\ task[p] = "running"
    /\ spent[p] <= MaxSpend
    /\ spent' = [spent EXCEPT ![p] = @ + 1]
    /\ UNCHANGED <<at, task, use, gate, rollup, stamped, cost, answer>>

(* A call of the phase is answered and its cost recorded at its gate.      *)
Charge(p) ==
    /\ task[p] = "running"
    /\ spent[p] < MaxSpend
    /\ spent' = [spent EXCEPT ![p] = @ + 1]
    /\ UNCHANGED <<at, task, use, gate, rollup, stamped, cost, answer>>

PhaseEnds(p) ==
    /\ \/ /\ task[p] = "running"
          /\ \E r \in Over \ {"cancelled"} :
                /\ r = "failed" => p # "search"
                /\ task' = [task EXCEPT ![p] = r]
       \/ /\ task[p] = "cancelling"
          /\ task' = [task EXCEPT ![p] = "cancelled"]
    /\ Finalize(p)
    /\ UNCHANGED <<at, use, spent, stamped, cost, answer>>

RailEnds(r) ==
    /\ \/ /\ task[r] = "running"
          /\ \E e \in {"ok", "crashed"} : task' = [task EXCEPT ![r] = e]
       \/ /\ task[r] = "cancelling"
          /\ task' = [task EXCEPT ![r] = "cancelled"]
    /\ UNCHANGED <<at, use, accountVars, stamped, cost, answer>>

(* cancel() of tasks not done; one that never ran does not begin.          *)
Cancelled(ts) ==
    [t \in Tasks |-> IF t \notin ts THEN task[t]
                     ELSE CASE task[t] = "created" -> "cancelled"
                            [] task[t] = "running" -> "cancelling"
                            [] OTHER -> task[t]]

-----------------------------------------------------------------------------
(* The handler                                                             *)

(* clear_request_llm_cost                                                  *)
Clear == rollup' = Absent /\ gate' = "none" /\ UNCHANGED spent

Respond(kind, c) ==
    /\ at' = "done"
    /\ answer' = kind
    /\ cost' = c
    /\ UNCHANGED <<use, stamped>>

Proceed(place) == at' = place /\ UNCHANGED <<answer, stamped>>

(* The L1 preview may start analytics ahead of the classification; search  *)
(* runs in the handler's task and binds its gate at once.                  *)
Begin ==
    /\ at = "idle"
    /\ Proceed("searching")
    /\ \E early \in {"none", "created"} :
          task' = [task EXCEPT !["search"] = "running", !["spec"] = early]
    /\ gate' = "search"
    /\ UNCHANGED <<use, spent, rollup, cost>>

(* What a wait_for of the handler is waiting for.                          *)
Awaited ==
    CASE at = "searching" -> "search"
      [] at = "fallback" -> "explore"
      [] at \in {"detour", "grace"} -> "scoped"
      [] at \in {"joining", "cross"} -> use
      [] OTHER -> "none"

TimerFires ==
    /\ Awaited # "none"
    /\ task[Awaited] = "running"
    /\ task' = Cancelled({Awaited})
    /\ UNCHANGED <<at, use, accountVars, stamped, cost, answer>>

SearchTimedOut ==
    /\ at = "searching"
    /\ task["search"] = "cancelled"
    /\ Proceed("fallback")
    /\ task' = [Cancelled({"spec"}) EXCEPT !["explore"] = "running"]
    /\ UNCHANGED <<use, accountVars, cost>>

FallbackEnds ==
    /\ at = "fallback"
    /\ task["explore"] \in Over
    /\ IF task["explore"] = "crashed"
       THEN Respond("error", 0) /\ UNCHANGED accountVars
       ELSE Respond("timeout", RequestCost) /\ Clear
    /\ UNCHANGED task

(* Search raised: the query was invalid, the query's primary store failed, *)
(* or nothing listed.  The other store's failure leaves an empty result.   *)
SearchRaised ==
    /\ at = "searching"
    /\ \/ /\ task["search"] = "raised"
          /\ \/ Respond("rejected", 0) /\ UNCHANGED accountVars
             \/ Respond("unavailable", RequestCost) /\ Clear
          /\ task' = Cancelled({"spec"})
       \/ /\ task["search"] = "raised"
          /\ Proceed("classify")
          /\ UNCHANGED <<task, use, accountVars, cost>>
       \/ /\ task["search"] = "crashed"
          /\ Respond("error", 0)
          /\ UNCHANGED <<task, accountVars>>

(* Search returned: the store behind it was down, the intent has to be     *)
(* classified again, or the intent stamped with search's spend stands.     *)
SearchReturned ==
    /\ at = "searching"
    /\ task["search"] = "ok"
    /\ \/ /\ Respond("unavailable", RequestCost)
          /\ task' = Cancelled({"spec"})
          /\ Clear
       \/ /\ Proceed("classify")
          /\ UNCHANGED <<task, use, accountVars, cost>>
       \/ /\ at' = "route"
          /\ stamped' = TRUE
          /\ cost' = spent["search"]
          /\ UNCHANGED <<task, use, accountVars, answer>>

(* The second classification replaces the intent and its cost, or fails or *)
(* is worse and the first, if there was one, is kept.                      *)
Reclassified ==
    /\ at = "classify"
    /\ at' = "route"
    /\ \/ UNCHANGED <<stamped, cost>>
       \/ /\ task["search"] # "raised"
          /\ stamped' = TRUE
          /\ cost' = spent["search"]
    /\ UNCHANGED <<task, use, accountVars, answer>>

Listing ==
    /\ at = "route"
    /\ task' = Cancelled({"spec"})
    /\ Respond("ok", cost)
    /\ Clear

(* An analytics phase of the handler's own, dropping ts: it binds its gate *)
(* at once, or is refused before.                                          *)
StartInline(place, ts) ==
    /\ Proceed(place)
    /\ use' = "inline"
    /\ \E s \in {"running", "failed", "raised"} :
          /\ task' = [Cancelled(ts) EXCEPT !["inline"] = s]
          /\ gate' = IF s = "running" THEN "inline" ELSE gate
    /\ UNCHANGED <<spent, rollup, cost>>

(* Guidance: a query that also aggregates gets analytics of its own, one   *)
(* without results a semantic retrieval.                                   *)
Guidance ==
    /\ at = "route"
    /\ \/ StartInline("cross", {"spec"})
       \/ /\ Proceed("forcing")
          /\ task' = Cancelled({"spec"})
          /\ UNCHANGED <<use, accountVars, cost>>
       \/ /\ Respond("ok", cost)
          /\ task' = Cancelled({"spec"})
          /\ Clear

(* A success is answered; otherwise the guidance goes on, an empty result  *)
(* with a semantic retrieval.                                              *)
CrossEnds ==
    /\ at = "cross"
    /\ task["inline"] \in Over
    /\ LET known == IF task["inline"] \in {"ok", "failed"}
                    THEN cost + spent["inline"] ELSE RequestCost
       IN  \/ Respond("ok", known) /\ Clear
           \/ /\ task["inline"] # "ok"
              /\ Proceed("forcing")
              /\ cost' = known
              /\ UNCHANGED <<use, accountVars>>
    /\ UNCHANGED task

ForcingEnds == at = "forcing" /\ Respond("ok", cost) /\ Clear /\ UNCHANGED task

AnalyticsUnavailable ==
    /\ at = "route"
    /\ task' = [Cancelled({"spec"}) EXCEPT !["explore"] = "cancelled"]
    /\ Respond("unavailable", RequestCost)
    /\ Clear

(* explore is created only to be superseded by scoped, and is awaited.     *)
Analytics ==
    /\ at = "route"
    /\ Proceed("analytics")
    /\ task' = [task EXCEPT !["explore"] = "cancelled", !["scoped"] = "running"]
    /\ UNCHANGED <<use, accountVars, cost>>

(* Nothing but a cheap rule says analytics: the scoped rails are served.   *)
Detour ==
    /\ at = "analytics"
    /\ use = "none"
    /\ Proceed("detour")
    /\ UNCHANGED <<task, use, accountVars, cost>>

DetourEnds ==
    /\ at = "detour"
    /\ task["scoped"] \in Over
    /\ task' = Cancelled({"spec"})
    /\ Respond("ok", cost)
    /\ Clear

(* Fault: the early analytics is awaited without having been cancelled.    *)
DropSpecPatiently ==
    /\ at = "analytics"
    /\ task["spec"] \in {"created", "running"}
    /\ Proceed("dropping")
    /\ UNCHANGED <<task, use, accountVars, cost>>

(* A hint has become known, and the early analytics runs without it.       *)
DropSpec ==
    /\ at = "analytics"
    /\ task["spec"] \in {"created", "running"}
    /\ Proceed("dropping")
    /\ task' = Cancelled({"spec"})
    /\ UNCHANGED <<use, accountVars, cost>>

(* The early analytics is used: without a hint, or a success with one.     *)
JoinSpec ==
    /\ at = "analytics"
    /\ task["spec"] # "none"
    /\ Proceed("joining")
    /\ use' = "spec"
    /\ UNCHANGED <<task, accountVars, cost>>

CallAnalytics ==
    /\ \/ at = "analytics" /\ task["spec"] \in {"none", "failed", "raised", "crashed"}
       \/ at = "dropping" /\ task["spec"] \in Over
    /\ StartInline("joining", {})

(* except asyncio.TimeoutError: hybrid results are served once the scoped  *)
(* rails have been cancelled, or these get a grace period.                 *)
TimedOut ==
    /\ cost' = RequestCost
    /\ \/ Proceed("reaping") /\ task' = Cancelled({"scoped"})
       \/ Proceed("grace") /\ UNCHANGED task
    /\ UNCHANGED <<use, accountVars>>

(* The time is used up before analytics is called at all.                  *)
BudgetExhausted == at = "analytics" /\ TimedOut

(* Fault: the spend of a failed analytics phase is not added.              *)
JoinEndsFreeOfCharge ==
    /\ at = "joining"
    /\ CASE task[use] = "cancelled" -> TimedOut
         [] task[use] = "crashed" ->
              Respond("error", 0) /\ UNCHANGED <<task, accountVars>>
         [] task[use] \in {"ok", "failed", "raised"} ->
              /\ Proceed("closing")
              /\ cost' = cost + (IF task[use] = "ok" THEN spent[use] ELSE 0)
              /\ task' = Cancelled({"scoped"})
              /\ UNCHANGED <<use, accountVars>>
         [] OTHER -> FALSE

(* The awaited analytics timed out, failed beyond the listed errors, or    *)
(* has a result or a listed error.                                         *)
JoinEnds ==
    /\ at = "joining"
    /\ CASE task[use] = "cancelled" -> TimedOut
         [] task[use] = "crashed" ->
              Respond("error", 0) /\ UNCHANGED <<task, accountVars>>
         [] task[use] \in {"ok", "failed", "raised"} ->
              /\ Proceed("closing")
              /\ cost' = cost + (IF task[use] = "raised" THEN 0 ELSE spent[use])
              /\ task' = Cancelled({"scoped"})
              /\ UNCHANGED <<use, accountVars>>
         [] OTHER -> FALSE

(* The scoped rails have unwound.  After a failure with no hybrid results  *)
(* the rails are run afresh.                                               *)
CloseEnds ==
    /\ at = "closing"
    /\ task["scoped"] \in Over
    /\ task' = Cancelled({"spec"})
    /\ \/ Respond("ok", cost) /\ Clear
       \/ /\ task[use] = "failed"
          /\ Proceed("refill")
          /\ UNCHANGED <<use, accountVars, cost>>

(* Fault: the rails are cancelled and not awaited.                         *)
ReapUnawaited == at = "reaping" /\ Respond("ok", cost) /\ Clear /\ UNCHANGED task

ReapEnds ==
    /\ at = "reaping"
    /\ task["scoped"] \in Over
    /\ Respond("ok", cost)
    /\ Clear
    /\ UNCHANGED task

(* Rails that failed, timed out or are empty are run afresh.               *)
GraceEnds ==
    /\ at = "grace"
    /\ task["scoped"] \in Over
    /\ \/ task["scoped"] = "ok" /\ Respond("ok", cost) /\ Clear
       \/ Proceed("refill") /\ UNCHANGED <<use, accountVars, cost>>
    /\ UNCHANGED task

(* Fault: the accounts are not released after a time-out.                  *)
RefillEndsUncleared ==
    at = "refill" /\ Respond("ok", cost) /\ UNCHANGED <<task, accountVars>>

RefillEnds == at = "refill" /\ Respond("ok", cost) /\ Clear /\ UNCHANGED task

-----------------------------------------------------------------------------

HandlerStep ==
    \/ Begin
    \/ TimerFires
    \/ SearchTimedOut
    \/ FallbackEnds
    \/ SearchRaised
    \/ SearchReturned
    \/ Reclassified
    \/ Listing
    \/ Guidance
    \/ CrossEnds
    \/ ForcingEnds
    \/ AnalyticsUnavailable
    \/ Analytics
    \/ Detour
    \/ DetourEnds
    \/ DropSpec
    \/ JoinSpec
    \/ CallAnalytics
    \/ BudgetExhausted
    \/ JoinEnds
    \/ CloseEnds
    \/ ReapEnds
    \/ GraceEnds
    \/ RefillEnds

Next ==
    \/ HandlerStep
    \/ SpecStarts
    \/ \E p \in Phases : Charge(p) \/ PhaseEnds(p)
    \/ \E r \in Rails : RailEnds(r)

Spec == Init /\ [][Next]_vars

(* The event loop runs the handler, and starts and unwinds tasks.  That a  *)
(* task left alone ever returns is not assumed: its timer ends it.         *)
Fairness ==
    /\ WF_vars(HandlerStep)
    /\ WF_vars(SpecStarts)
    /\ \A p \in Phases : WF_vars(task[p] = "cancelling" /\ PhaseEnds(p))
    /\ \A r \in Rails : WF_vars(task[r] = "cancelling" /\ RailEnds(r))

FairSpec == Spec /\ Fairness

-----------------------------------------------------------------------------

Answered == answer \in {"ok", "timeout", "unavailable"}

(* The active gate is that of a phase in progress: request_llm_cost_usd    *)
(* counts no phase twice, in the rollup and as active, though phases hide  *)
(* each other's gates and end in any order.                                *)
NoPhaseCountedTwice ==
    /\ gate # "none" => task[gate] \in Live
    /\ RequestCost <= Total

(* decision_cost_usd of a response: after a time-out or with a store       *)
(* unavailable it is all that was spent, early analytics included.  Any    *)
(* other answer reports at most that; if the intent is the one search      *)
(* stamped and analytics did not raise, at least what search and the       *)
(* analytics it used have spent.                                           *)
SpendReported ==
    /\ answer \in {"timeout", "unavailable"} => cost = Total
    /\ answer = "ok" => cost <= Total
    /\ answer = "ok" /\ stamped /\ (use # "none" => task[use] # "raised") =>
          cost >= spent["search"] + (IF use = "none" THEN 0 ELSE spent[use])

(* What phases that are over have spent.                                   *)
Settled(p) == IF task[p] \in Over THEN spent[p] ELSE 0
AllSettled == Settled("search") + Settled("spec") + Settled("inline")

(* What every kind of response leaves in the accounts of its id: a gate    *)
(* only while early analytics runs, and in the rollup nothing but what     *)
(* early analytics that unwound after an answer has spent.  A 422 and a    *)
(* 500 release nothing: they leave the spend of all phases that are over.  *)
AccountsClosed ==
    at = "done" =>
        /\ gate # "none" => gate = "spec" /\ task["spec"] \in Live
        /\ IF Answered
           THEN rollup # Absent => task["spec"] \in Over /\ rollup = spent["spec"]
           ELSE (IF rollup = Absent THEN 0 ELSE rollup) = AllSettled

(* Of the tasks of a request only the early analytics may still be running *)
(* when it has been answered.                                              *)
OnlyEarlyAnalyticsOutlives ==
    Answered => \A t \in Tasks \ {"spec"} : task[t] \notin {"created", "running", "cancelling"}

(* clear_request_llm_cost (orchestrator.py:1831): rollup entries of the id *)
(* are released after the /search response is built.                       *)
RollupReleased == Answered /\ (\A t \in Tasks : task[t] \in {"none"} \cup Over) => rollup = Absent

(* Every request is answered, whatever hangs, fails, or ignores its caller *)
(* until it is cancelled.                                                  *)
AlwaysAnswers == at = "searching" ~> at = "done"

=============================================================================
