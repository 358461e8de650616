------------------------- MODULE SearchRequest_proofs -------------------------
(***************************************************************************)
(* For any number of LLM calls in a phase: a request's accounts count no   *)
(* phase twice and hold, once it is over, no more than its way out leaves  *)
(* there, its tasks are over when it has been answered, early analytics    *)
(* excepted, and what the answer reports as spent lies between what it     *)
(* used and all that was spent.                                            *)
(*                                                                         *)
(* The argument is about places: at each of its awaits the handler knows   *)
(* which of its tasks may still run.  A gate is active only while its task *)
(* runs, and the rollup holds only what tasks that are over have spent, so *)
(* what is active and what is in the rollup never overlap.                 *)
(***************************************************************************)
EXTENDS SearchRequest, TLAPS

States == {"none", "created"} \cup Live \cup Over

Typed ==
    /\ at \in Places
    /\ task \in [Tasks -> States]
    /\ use \in {"none", "spec", "inline"}
    /\ spent \in [Phases -> 0 .. MaxSpend]
    /\ gate \in Phases \cup {"none"}
    /\ rollup \in Nat \cup {Absent}
    /\ stamped \in BOOLEAN
    /\ cost \in Nat
    /\ answer \in {"none", "ok", "timeout", "unavailable", "rejected", "error"}

Quiet(t) == task[t] \notin {"created", "running", "cancelling"}

(* Which tasks may be under way where.                                     *)
Placed ==
    /\ at = "idle" => \A t \in Tasks : task[t] = "none"
    /\ at # "searching" => Quiet("search")
    /\ at # "fallback" => Quiet("explore")
    /\ at \notin {"joining", "cross"} => Quiet("inline")
    /\ at \in {"analytics", "detour", "dropping", "joining", "closing",
               "reaping", "grace"}
       \/ (at = "done" /\ answer = "error")
       \/ Quiet("scoped")
    /\ task["search"] # "created" /\ task["inline"] # "created"
    /\ use # "inline" => task["inline"] = "none"
    /\ at = "joining" => use # "none"
    /\ at = "cross" => use = "inline"
    /\ at \in {"idle", "searching", "fallback", "classify", "route", "analytics",
               "detour", "dropping"} => use = "none"
    /\ answer # "none" => at = "done"

GateActive == gate # "none" => task[gate] \in Live

RollupSettled == rollup # Absent => rollup <= AllSettled

(* The cost so far is search's until analytics has been awaited.           *)
CostKnown ==
    /\ cost <= Total
    /\ at \in {"idle", "searching", "fallback", "classify", "route", "analytics",
               "detour", "dropping", "joining", "cross"} => cost <= spent["search"]

(* Early analytics alone can end after the accounts have been released.    *)
OnlySpecRefills ==
    Answered /\ rollup # Absent => task["spec"] \in Over /\ rollup = spent["spec"]

RequestInv ==
    Typed /\ Placed /\ GateActive /\ RollupSettled /\ CostKnown /\ OnlySpecRefills

-----------------------------------------------------------------------------

LEMMA InitRequestInv == Init => RequestInv
<1> SUFFICES ASSUME Init PROVE RequestInv
  OBVIOUS
<1>1. \A t \in Tasks : task[t] = "none"
  BY DEF Init
<1>2. Typed
  <2>1. spent \in [Phases -> 0 .. MaxSpend] /\ rollup \in Nat \cup {Absent} /\ cost \in Nat
    BY SpendBounded DEF Init
  <2>2. task \in [Tasks -> States]
    BY DEF Init, States
  <2>3. stamped \in BOOLEAN
    BY DEF Init
  <2> QED
    BY <2>1, <2>2, <2>3 DEF Init, Typed, Places
<1>3. Placed
  BY <1>1 DEF Init, Placed, Quiet, Tasks, Phases, Rails
<1>4. CostKnown
  BY SpendBounded DEF Init, CostKnown, Total, Phases
<1>5. GateActive /\ RollupSettled /\ OnlySpecRefills
  BY DEF Init, GateActive, RollupSettled, OnlySpecRefills, Answered, Absent
<1> QED
  BY <1>2, <1>3, <1>4, <1>5 DEF RequestInv

(* Cancelling starts nothing: what was over or never begun stays so, and   *)
(* what runs goes on unwinding.                                            *)
LEMMA CancelledTasks ==
  ASSUME Typed, NEW ts \in SUBSET Tasks
  PROVE  /\ Cancelled(ts) \in [Tasks -> States]
         /\ \A t \in Tasks :
               /\ t \notin ts => Cancelled(ts)[t] = task[t]
               /\ task[t] = "none" => Cancelled(ts)[t] = "none"
               /\ task[t] \in Over => Cancelled(ts)[t] = task[t]
               /\ task[t] \in Live => Cancelled(ts)[t] \in Live
               /\ Quiet(t) => Cancelled(ts)[t] = task[t]
               /\ Cancelled(ts)[t] = "none" => task[t] = "none"
               /\ Cancelled(ts)[t] = "created" => task[t] = "created"
  BY DEF Cancelled, Typed, Quiet, States, Live, Over, Tasks, Phases, Rails

LEMMA CostBelowTotal ==
  ASSUME Typed, GateActive, RollupSettled
  PROVE  RequestCost \in Nat /\ RequestCost <= Total
  BY SpendBounded
     DEF RequestCost, Total, Typed, GateActive, RollupSettled, AllSettled, Settled,
         Live, Over, Phases, Absent

(* The accounts are left alone, and tasks at most begin, are cancelled     *)
(* while they run, or stay as they were.                                   *)
LEMMA AccountsStand ==
  ASSUME Typed, Typed', GateActive, RollupSettled, UNCHANGED accountVars,
         \A t \in Tasks :
            /\ task[t] \in Live => task'[t] \in Live
            /\ task[t] \in Over => task'[t] = task[t]
  PROVE  GateActive' /\ RollupSettled'
<1>1. spent' = spent /\ gate' = gate /\ rollup' = rollup
  BY DEF accountVars
<1>2. Phases \subseteq Tasks
  BY DEF Tasks
<1>3. GateActive'
  BY <1>1, <1>2 DEF GateActive, Typed, Phases, Live
<1>4. ASSUME NEW p \in Phases
      PROVE  Settled(p) \in Nat /\ Settled(p)' \in Nat /\ Settled(p) <= Settled(p)'
  <2>1. spent[p] \in Nat
    BY SpendBounded DEF Typed
  <2> QED
    BY <1>1, <1>2, <2>1 DEF Settled, Over
<1>5. RollupSettled'
  BY <1>1, <1>4 DEF RollupSettled, AllSettled, Typed, Phases, Absent
<1> QED
  BY <1>3, <1>5

LEMMA AccountsCleared ==
  ASSUME Clear
  PROVE  GateActive' /\ RollupSettled' /\ OnlySpecRefills'
  BY DEF Clear, GateActive, RollupSettled, OnlySpecRefills, Absent

LEMMA CancelNothing ==
  ASSUME Typed
  PROVE  Cancelled({}) = task
  BY DEF Cancelled, Typed

(* A step that leaves the accounts alone and answers nothing.              *)
LEMMA Standing ==
  ASSUME RequestInv, Typed', UNCHANGED accountVars,
         \A t \in Tasks :
            /\ task[t] \in Live => task'[t] \in Live
            /\ task[t] \in Over => task'[t] = task[t]
            /\ task'[t] = "none" => task[t] = "none",
         Answered' => Answered
  PROVE  GateActive' /\ RollupSettled' /\ OnlySpecRefills'
<1>1. GateActive' /\ RollupSettled'
  BY AccountsStand DEF RequestInv
<1>2. OnlySpecRefills'
  BY DEF RequestInv, OnlySpecRefills, accountVars, Tasks, Phases
<1> QED
  BY <1>1, <1>2

(* A response: the handler's own tasks are over and the accounts released. *)
LEMMA Answering ==
  ASSUME RequestInv, NEW kind \in {"ok", "timeout", "unavailable"},
         NEW c \in Nat, c <= Total, Respond(kind, c), Clear,
         task' \in [Tasks -> States],
         \A t \in {"search", "explore", "inline", "scoped"} : Quiet(t)',
         task'["inline"] = task["inline"]
  PROVE  RequestInv'
<1>1. Typed'
  BY DEF RequestInv, Typed, Respond, Clear, Places, Absent
<1>2. Placed'
  BY DEF RequestInv, Placed, Respond, Quiet
<1>3. CostKnown'
  BY DEF CostKnown, Total, Respond, Clear
<1> QED
  BY <1>1, <1>2, <1>3, AccountsCleared DEF RequestInv

LEMMA AnsweringCancelled ==
  ASSUME RequestInv, NEW kind \in {"ok", "timeout", "unavailable"},
         NEW c \in Nat, c <= Total, Respond(kind, c), Clear,
         NEW ts \in SUBSET Tasks, task' = Cancelled(ts),
         \A t \in {"search", "explore", "inline", "scoped"} : Quiet(t)
  PROVE  RequestInv'
<1>1. task' \in [Tasks -> States]
  BY CancelledTasks DEF RequestInv
<1>2. \A t \in {"search", "explore", "inline", "scoped"} : task'[t] = task[t]
  BY CancelledTasks DEF RequestInv, Tasks, Phases, Rails
<1>3. \A t \in {"search", "explore", "inline", "scoped"} : Quiet(t)'
  BY <1>2 DEF Quiet
<1> QED
  BY <1>1, <1>2, <1>3, Answering

(* A step that goes on to a place with nothing but tasks cancelled.        *)
LEMMA Proceeding ==
  ASSUME RequestInv, NEW ts \in SUBSET Tasks, task' = Cancelled(ts),
         NEW place \in Places, at' = place, UNCHANGED accountVars,
         use' \in {"none", "spec", "inline"}, use' = "inline" => use = "inline",
         stamped' \in BOOLEAN, cost' \in Nat,
         UNCHANGED answer, Placed', CostKnown'
  PROVE  RequestInv'
<1>1. Typed'
  <2>1. task' \in [Tasks -> States]
    BY CancelledTasks DEF RequestInv
  <2>2. answer' = answer /\ spent' = spent /\ gate' = gate /\ rollup' = rollup
    BY DEF accountVars
  <2> QED
    BY <2>1, <2>2 DEF RequestInv, Typed
<1>2. \A t \in Tasks :
         /\ task[t] \in Live => task'[t] \in Live
         /\ task[t] \in Over => task'[t] = task[t]
         /\ task'[t] = "none" => task[t] = "none"
  BY CancelledTasks DEF RequestInv
<1>3. Answered' => Answered
  BY DEF Answered
<1> QED
  BY <1>1, <1>2, <1>3, Standing DEF RequestInv

LEMMA Moving ==
  ASSUME RequestInv, NEW ts \in SUBSET Tasks, task' = Cancelled(ts),
         NEW place \in Places, Proceed(place), UNCHANGED accountVars,
         use' \in {use, "spec"}, cost' \in Nat, Placed', CostKnown'
  PROVE  RequestInv'
<1>1. at' = place /\ UNCHANGED answer /\ stamped' = stamped
  BY DEF Proceed
<1>2. stamped' \in BOOLEAN
  BY <1>1 DEF RequestInv, Typed
<1>3. use' \in {"none", "spec", "inline"} /\ (use' = "inline" => use = "inline")
  BY DEF RequestInv, Typed
<1> QED
  BY <1>1, <1>2, <1>3, Proceeding

(* A response that leaves the accounts alone: the request was rejected, or *)
(* failed.                                                                 *)
LEMMA Erring ==
  ASSUME RequestInv, NEW kind \in {"rejected", "error"}, Respond(kind, 0),
         UNCHANGED accountVars, NEW ts \in SUBSET Tasks, task' = Cancelled(ts),
         Quiet("search"), Quiet("explore"), Quiet("inline"),
         kind = "error" \/ Quiet("scoped")
  PROVE  RequestInv'
<1>1. spent' = spent /\ gate' = gate /\ rollup' = rollup
  BY DEF accountVars
<1>2. \A t \in Tasks :
         /\ task[t] \in Live => task'[t] \in Live
         /\ task[t] \in Over => task'[t] = task[t]
         /\ task'[t] = "none" => task[t] = "none"
         /\ Quiet(t) => task'[t] = task[t]
         /\ task'[t] = "created" => task[t] = "created"
  BY CancelledTasks DEF RequestInv
<1>3. Typed'
  <2>1. task' \in [Tasks -> States]
    BY CancelledTasks DEF RequestInv
  <2> QED
    BY <1>1, <2>1 DEF RequestInv, Typed, Respond, Places
<1>4. Placed'
  <2>1. \A t \in {"search", "explore", "inline"} : Quiet(t)'
    BY <1>2 DEF Quiet, Tasks, Phases, Rails
  <2>2. kind = "error" \/ Quiet("scoped")'
    BY <1>2 DEF Quiet, Tasks, Rails
  <2>3. task'["inline"] = task["inline"]
    BY <1>2 DEF Tasks, Phases
  <2> QED
    BY <2>1, <2>2, <2>3 DEF RequestInv, Placed, Respond, Quiet
<1>5. CostKnown'
  BY <1>1, SpendBounded DEF RequestInv, CostKnown, Typed, Total, Respond, Phases
<1>6. Answered' => Answered
  BY DEF Respond, Answered
<1> QED
  BY <1>2, <1>3, <1>4, <1>5, <1>6, Standing DEF RequestInv

-----------------------------------------------------------------------------
(* The handler's responses                                                 *)

LEMMA Known ==
  ASSUME RequestInv
  PROVE  /\ cost \in Nat /\ cost <= Total
         /\ RequestCost \in Nat /\ RequestCost <= Total
         /\ Cancelled({}) = task
  BY CostBelowTotal, CancelNothing DEF RequestInv, CostKnown, Typed

LEMMA PlainAnswers ==
  ASSUME RequestInv,
         Listing \/ ForcingEnds \/ DetourEnds \/ ReapEnds \/ RefillEnds
  PROVE  RequestInv'
<1>1. \A t \in {"search", "explore", "inline", "scoped"} : Quiet(t)
  BY DEF RequestInv, Placed, Quiet, Over, Listing, ForcingEnds, DetourEnds,
         ReapEnds, RefillEnds
<1>2. Respond("ok", cost) /\ Clear
  BY DEF Listing, ForcingEnds, DetourEnds, ReapEnds, RefillEnds
<1>3. task' = Cancelled({"spec"}) \/ task' = Cancelled({})
  BY Known DEF Listing, ForcingEnds, DetourEnds, ReapEnds, RefillEnds
<1>4. {} \in SUBSET Tasks /\ {"spec"} \in SUBSET Tasks
  BY DEF Tasks, Phases
<1> QED
  BY <1>1, <1>2, <1>3, <1>4, Known, AnsweringCancelled

LEMMA FallbackEndsPreserves ==
  ASSUME RequestInv, FallbackEnds
  PROVE  RequestInv'
<1>1. \A t \in {"search", "explore", "inline", "scoped"} : Quiet(t)
  BY DEF RequestInv, Placed, Quiet, Over, FallbackEnds
<1>2. CASE Respond("error", 0) /\ UNCHANGED accountVars
  <2>1. task' = Cancelled({}) /\ {} \in SUBSET Tasks
    BY Known DEF FallbackEnds
  <2> QED
    BY <1>1, <1>2, <2>1, Erring
<1>3. CASE Respond("timeout", RequestCost) /\ Clear
  BY <1>1, <1>3, Known, AnsweringCancelled DEF FallbackEnds
<1> QED
  BY <1>2, <1>3 DEF FallbackEnds

LEMMA SearchRaisedPreserves ==
  ASSUME RequestInv, SearchRaised
  PROVE  RequestInv'
<1>1. \A t \in {"search", "explore", "inline", "scoped"} : Quiet(t)
  BY DEF RequestInv, Placed, Quiet, SearchRaised
<1>2. {} \in SUBSET Tasks /\ {"spec"} \in SUBSET Tasks
  BY DEF Tasks, Phases
<1>3. CASE task' = Cancelled({"spec"}) /\ Respond("rejected", 0) /\ UNCHANGED accountVars
  BY <1>1, <1>2, <1>3, Erring
<1>4. CASE task' = Cancelled({"spec"}) /\ Respond("unavailable", RequestCost) /\ Clear
  BY <1>1, <1>2, <1>4, Known, AnsweringCancelled
<1>5. CASE /\ at = "searching" /\ Proceed("classify")
           /\ UNCHANGED <<task, use, accountVars, cost>>
  <2>1. Placed' /\ CostKnown'
    BY <1>1, <1>5 DEF RequestInv, Placed, CostKnown, Total, Proceed, Quiet, accountVars
  <2>2. task' = Cancelled({}) /\ "classify" \in Places /\ cost' \in Nat /\ use' \in {use, "spec"}
    BY <1>5, Known DEF Places
  <2> QED
    BY <1>2, <1>5, <2>1, <2>2, Moving
<1>6. CASE Respond("error", 0) /\ UNCHANGED <<task, accountVars>>
  BY <1>1, <1>2, <1>6, Known, Erring
<1> QED
  BY <1>3, <1>4, <1>5, <1>6 DEF SearchRaised

LEMMA SearchReturnedPreserves ==
  ASSUME RequestInv, SearchReturned
  PROVE  RequestInv'
<1>1. \A t \in {"search", "explore", "inline", "scoped"} : Quiet(t)
  BY DEF RequestInv, Placed, Quiet, SearchReturned
<1>2. {} \in SUBSET Tasks /\ {"spec"} \in SUBSET Tasks
  BY DEF Tasks, Phases
<1>3. CASE task' = Cancelled({"spec"}) /\ Respond("unavailable", RequestCost) /\ Clear
  BY <1>1, <1>2, <1>3, Known, AnsweringCancelled
<1>4. CASE /\ at = "searching"
           /\ at' \in {"classify", "route"} /\ UNCHANGED <<task, use, accountVars, answer>>
           /\ stamped' \in BOOLEAN /\ cost' \in {cost, spent["search"]}
  <2>1. cost' \in Nat /\ CostKnown'
    BY <1>4, SpendBounded
       DEF RequestInv, Typed, CostKnown, Total, Phases, accountVars
  <2>2. Placed'
    BY <1>1, <1>4 DEF RequestInv, Placed, Quiet
  <2>3. task' = Cancelled({}) /\ at' \in Places
    BY <1>4, Known DEF Places
  <2> QED
    BY <1>2, <1>4, <2>1, <2>2, <2>3, Proceeding DEF RequestInv, Typed
<1>5. CASE Proceed("classify") /\ UNCHANGED <<task, use, accountVars, cost>>
  <2>1. stamped' \in BOOLEAN
    BY <1>5 DEF Proceed, RequestInv, Typed
  <2> QED
    BY <1>4, <1>5, <2>1 DEF Proceed, SearchReturned
<1>6. CASE /\ at' = "route" /\ stamped' = TRUE /\ cost' = spent["search"]
           /\ UNCHANGED <<task, use, accountVars, answer>>
  <2>1. stamped' \in BOOLEAN
    BY <1>6
  <2> QED
    BY <1>4, <1>6, <2>1 DEF SearchReturned
<1> QED
  BY <1>3, <1>5, <1>6 DEF SearchReturned

LEMMA CrossEndsPreserves ==
  ASSUME RequestInv, CrossEnds
  PROVE  RequestInv'
<1>1. \A t \in {"search", "explore", "inline", "scoped"} : Quiet(t)
  BY DEF RequestInv, Placed, Quiet, Over, CrossEnds
<1>2. {} \in SUBSET Tasks
  OBVIOUS
<1> DEFINE known == IF task["inline"] \in {"ok", "failed"}
                    THEN cost + spent["inline"] ELSE RequestCost
<1>3. known \in Nat /\ known <= Total
  <2>1. cost <= spent["search"] /\ spent["search"] \in Nat /\ spent["inline"] \in Nat
        /\ spent["spec"] \in Nat /\ cost \in Nat
    BY SpendBounded DEF RequestInv, CostKnown, CrossEnds, Typed, Phases
  <2> QED
    BY <2>1, Known DEF Total
<1>4. CASE Respond("ok", known) /\ Clear
  BY <1>1, <1>2, <1>3, <1>4, Known, AnsweringCancelled DEF CrossEnds
<1>5. CASE Proceed("forcing") /\ cost' = known /\ UNCHANGED <<use, accountVars>>
  <2>1. task' = Cancelled({})
    BY Known DEF CrossEnds
  <2>2. CostKnown'
    <3>1. at' = "forcing" /\ cost' <= Total /\ Total' = Total
      BY <1>3, <1>5 DEF Proceed, Total, accountVars
    <3> QED
      BY <3>1 DEF CostKnown
  <2>3. Placed'
    BY <1>1, <1>5 DEF RequestInv, Placed, Proceed, Quiet, CrossEnds
  <2>4. "forcing" \in Places /\ cost' \in Nat /\ UNCHANGED accountVars /\ use' \in {use, "spec"}
    BY <1>3, <1>5 DEF Places
  <2> QED
    BY <1>2, <1>5, <2>1, <2>2, <2>3, <2>4, Moving
<1> QED
  BY <1>4, <1>5 DEF CrossEnds

-----------------------------------------------------------------------------
(* The handler's other steps                                               *)

LEMMA BeginPreserves ==
  ASSUME RequestInv, Begin
  PROVE  RequestInv'
<1>1. PICK early \in {"none", "created"} :
         task' = [task EXCEPT !["search"] = "running", !["spec"] = early]
  BY DEF Begin
<1>2. at' = "searching" /\ answer' = answer /\ stamped' = stamped /\ gate' = "search"
      /\ UNCHANGED <<use, spent, rollup, cost>>
  BY DEF Begin, Proceed
<1>3. \A t \in Tasks : task[t] = "none"
  BY DEF RequestInv, Placed, Begin
<1>4. task' \in [Tasks -> States]
  BY <1>1 DEF RequestInv, Typed, States, Live
<1>5. task'["search"] = "running" /\ \A t \in Tasks \ {"search", "spec"} : task'[t] = "none"
  BY <1>1, <1>3 DEF RequestInv, Typed, Tasks, Phases, Rails
<1>6. Typed'
  BY <1>2, <1>4 DEF RequestInv, Typed, Places, Phases
<1>7. Placed'
  BY <1>2, <1>5 DEF RequestInv, Placed, Begin, Quiet, Tasks, Phases, Rails
<1>8. GateActive'
  BY <1>2, <1>5 DEF GateActive, Live
<1>9. RollupSettled'
  <2>1. \A p \in Phases : Settled(p) = 0 /\ Settled(p)' \in Nat
    BY <1>2, <1>3, <1>6, SpendBounded DEF Settled, Over, Tasks, Typed
  <2> QED
    BY <1>2, <2>1 DEF RequestInv, RollupSettled, AllSettled, Phases, Typed, Absent
<1>10. CostKnown'
  BY <1>2 DEF RequestInv, CostKnown, Total, Begin
<1>11. OnlySpecRefills'
  BY <1>2 DEF RequestInv, Placed, OnlySpecRefills, Answered, Begin
<1> QED
  BY <1>6, <1>7, <1>8, <1>9, <1>10, <1>11 DEF RequestInv

LEMMA TimerFiresPreserves ==
  ASSUME RequestInv, TimerFires
  PROVE  RequestInv'
<1>1. {Awaited} \in SUBSET Tasks
  BY DEF RequestInv, Typed, Awaited, TimerFires, Tasks, Phases, Rails
<1>2. task' = Cancelled({Awaited}) /\ UNCHANGED <<at, use, accountVars, stamped, cost, answer>>
  BY DEF TimerFires
<1>3. \A t \in Tasks :
         /\ Quiet(t) => task'[t] = task[t]
         /\ task'[t] = "created" => task[t] = "created"
         /\ task[t] = "none" => task'[t] = "none"
  BY <1>1, <1>2, CancelledTasks DEF RequestInv
<1>4. Placed'
  BY <1>2, <1>3 DEF RequestInv, Placed, Quiet, Tasks, Phases, Rails
<1>5. CostKnown'
  BY <1>2 DEF RequestInv, CostKnown, Total, accountVars
<1> QED
  BY <1>1, <1>2, <1>4, <1>5, Proceeding DEF RequestInv, Typed

LEMMA SearchTimedOutPreserves ==
  ASSUME RequestInv, SearchTimedOut
  PROVE  RequestInv'
<1> DEFINE ts == {"spec"}
<1>1. ts \in SUBSET Tasks /\ "explore" \in Tasks /\ "explore" \notin ts
  BY DEF Tasks, Phases, Rails
<1>2. /\ at' = "fallback" /\ answer' = answer /\ stamped' = stamped
      /\ spent' = spent /\ gate' = gate /\ rollup' = rollup /\ use' = use /\ cost' = cost
      /\ task' = [Cancelled(ts) EXCEPT !["explore"] = "running"]
  BY DEF SearchTimedOut, Proceed, accountVars
<1>3. task' \in [Tasks -> States]
      /\ \A t \in Tasks : task'[t] = IF t = "explore" THEN "running" ELSE Cancelled(ts)[t]
  BY <1>1, <1>2, CancelledTasks DEF RequestInv, States, Live
<1>4. Quiet("explore")
  BY DEF RequestInv, Placed, SearchTimedOut
<1>5. Typed'
  BY <1>2, <1>3 DEF RequestInv, Typed, Places
<1>6. \A t \in Tasks \ {"explore"} : Quiet(t) => task'[t] = task[t]
  BY <1>1, <1>3, CancelledTasks DEF RequestInv
<1>7. Placed'
  BY <1>2, <1>6 DEF RequestInv, Placed, SearchTimedOut, Quiet, Tasks, Phases, Rails
<1>8. CostKnown'
  BY <1>2 DEF RequestInv, CostKnown, Total, SearchTimedOut
<1>9. GateActive' /\ RollupSettled' /\ OnlySpecRefills'
  <2>1. GateActive'
    BY <1>1, <1>2, <1>3, CancelledTasks
       DEF RequestInv, GateActive, Typed, Tasks, Phases, Live
  <2>2. \A p \in Phases : Settled(p)' \in Nat /\ Settled(p) \in Nat /\ Settled(p) <= Settled(p)'
    BY <1>1, <1>2, <1>3, <1>5, CancelledTasks, SpendBounded
       DEF RequestInv, Settled, Typed, Tasks, Phases, Over
  <2>3. RollupSettled'
    BY <1>2, <2>2 DEF RequestInv, RollupSettled, AllSettled, Phases, Typed, Absent
  <2>4. OnlySpecRefills'
    BY <1>2 DEF RequestInv, Placed, OnlySpecRefills, Answered, SearchTimedOut
  <2> QED
    BY <2>1, <2>3, <2>4
<1> QED
  BY <1>5, <1>7, <1>8, <1>9 DEF RequestInv

LEMMA ReclassifiedPreserves ==
  ASSUME RequestInv, Reclassified
  PROVE  RequestInv'
<1>1. at' = "route" /\ UNCHANGED <<task, use, accountVars, answer>>
      /\ cost' \in {cost, spent["search"]}
  BY DEF Reclassified
<1>2. stamped' \in BOOLEAN
  BY DEF Reclassified, RequestInv, Typed
<1>3. cost' \in Nat /\ CostKnown'
  BY <1>1, SpendBounded
     DEF RequestInv, Typed, CostKnown, Total, Phases, accountVars, Reclassified
<1>4. Placed'
  BY <1>1 DEF RequestInv, Placed, Quiet, Reclassified
<1>5. task' = Cancelled({}) /\ {} \in SUBSET Tasks /\ "route" \in Places
  BY <1>1, Known DEF Places
<1> QED
  BY <1>1, <1>2, <1>3, <1>4, <1>5, Proceeding DEF RequestInv, Typed

(* Analytics of the handler's own: its gate is bound while it runs.        *)
LEMMA StartingInline ==
  ASSUME RequestInv, NEW place \in {"joining", "cross"}, NEW ts \in SUBSET {"spec"},
         StartInline(place, ts), use = "none", cost <= spent["search"],
         Quiet("search"), Quiet("explore"), place = "joining" \/ Quiet("scoped"),
         answer = "none"
  PROVE  RequestInv'
<1>1. PICK s \in {"running", "failed", "raised"} :
         /\ task' = [Cancelled(ts) EXCEPT !["inline"] = s]
         /\ gate' = IF s = "running" THEN "inline" ELSE gate
  BY DEF StartInline
<1>2. /\ at' = place /\ answer' = answer /\ stamped' = stamped
      /\ use' = "inline" /\ spent' = spent /\ rollup' = rollup /\ cost' = cost
  BY DEF StartInline, Proceed
<1>3. ts \in SUBSET Tasks /\ "inline" \in Tasks /\ "inline" \notin ts
  BY DEF Tasks, Phases
<1>4. task' \in [Tasks -> States]
      /\ \A t \in Tasks : task'[t] = IF t = "inline" THEN s ELSE Cancelled(ts)[t]
  BY <1>1, <1>3, CancelledTasks DEF RequestInv, States, Live, Over
<1>5. task["inline"] = "none"
  BY DEF RequestInv, Placed
<1>6. Typed'
  BY <1>1, <1>2, <1>4 DEF RequestInv, Typed, Places, Phases
<1>7. \A t \in Tasks \ {"inline"} : Quiet(t) => task'[t] = task[t]
  BY <1>3, <1>4, CancelledTasks DEF RequestInv
<1>8. Placed'
  BY <1>1, <1>2, <1>4, <1>7, CancelledTasks
     DEF RequestInv, Placed, Quiet, Tasks, Phases, Rails
<1>9. GateActive'
  BY <1>1, <1>3, <1>4, <1>5, CancelledTasks
     DEF RequestInv, GateActive, Typed, Tasks, Phases, Live
<1>10. RollupSettled'
  <2>1. \A p \in Phases : Settled(p)' \in Nat /\ Settled(p) \in Nat /\ Settled(p) <= Settled(p)'
    BY <1>2, <1>3, <1>4, <1>5, CancelledTasks, SpendBounded
       DEF RequestInv, Settled, Typed, Tasks, Phases, Over
  <2> QED
    BY <1>2, <2>1 DEF RequestInv, RollupSettled, AllSettled, Phases, Typed, Absent
<1>11. CostKnown'
  BY <1>2 DEF RequestInv, CostKnown, Total
<1>12. OnlySpecRefills'
  BY <1>2 DEF OnlySpecRefills, Answered
<1> QED
  BY <1>6, <1>8, <1>9, <1>10, <1>11, <1>12 DEF RequestInv

LEMMA GuidancePreserves ==
  ASSUME RequestInv, Guidance
  PROVE  RequestInv'
<1>1. \A t \in {"search", "explore", "inline", "scoped"} : Quiet(t)
  BY DEF RequestInv, Placed, Quiet, Guidance
<1>2. {"spec"} \in SUBSET Tasks
  BY DEF Tasks, Phases
<1>3. CASE StartInline("cross", {"spec"})
  <2>1. use = "none" /\ cost <= spent["search"] /\ answer = "none"
    BY DEF RequestInv, Typed, Placed, CostKnown, Guidance
  <2> QED
    BY <1>1, <1>3, <2>1, StartingInline
<1>4. CASE Proceed("forcing") /\ task' = Cancelled({"spec"})
           /\ UNCHANGED <<use, accountVars, cost>>
  <2>1. \A t \in {"search", "explore", "inline", "scoped"} : task'[t] = task[t]
    BY <1>1, <1>2, <1>4, CancelledTasks DEF RequestInv, Tasks, Phases, Rails
  <2>2. Placed' /\ CostKnown'
    BY <1>1, <1>4, <2>1
       DEF RequestInv, Placed, CostKnown, Total, Quiet, Proceed, Guidance, accountVars
  <2>3. "forcing" \in Places /\ cost' \in Nat /\ use' \in {use, "spec"}
    BY <1>4, Known DEF Places
  <2> QED
    BY <1>2, <1>4, <2>2, <2>3, Moving
<1>5. CASE Respond("ok", cost) /\ task' = Cancelled({"spec"}) /\ Clear
  BY <1>1, <1>2, <1>5, Known, AnsweringCancelled
<1> QED
  BY <1>3, <1>4, <1>5 DEF Guidance

LEMMA AnalyticsUnavailablePreserves ==
  ASSUME RequestInv, AnalyticsUnavailable
  PROVE  RequestInv'
<1>1. \A t \in {"search", "inline", "scoped"} : Quiet(t)
  BY DEF RequestInv, Placed, Quiet, AnalyticsUnavailable
<1>2. {"spec"} \in SUBSET Tasks
  BY DEF Tasks, Phases
<1>3. task' = [Cancelled({"spec"}) EXCEPT !["explore"] = "cancelled"]
  BY DEF AnalyticsUnavailable
<1>4. task' \in [Tasks -> States]
  BY <1>2, <1>3, CancelledTasks DEF RequestInv, States, Over
<1>5. task'["explore"] = "cancelled" /\ \A t \in {"search", "inline", "scoped"} : task'[t] = task[t]
  BY <1>1, <1>2, <1>3, CancelledTasks DEF RequestInv, Tasks, Phases, Rails
<1>6. \A t \in {"search", "explore", "inline", "scoped"} : Quiet(t)'
  BY <1>1, <1>5 DEF Quiet
<1> QED
  BY <1>4, <1>5, <1>6, Known, Answering DEF AnalyticsUnavailable

LEMMA AnalyticsPreserves ==
  ASSUME RequestInv, Analytics
  PROVE  RequestInv'
<1>1. /\ at' = "analytics" /\ answer' = answer /\ stamped' = stamped
      /\ spent' = spent /\ gate' = gate /\ rollup' = rollup /\ use' = use /\ cost' = cost
      /\ task' = [task EXCEPT !["explore"] = "cancelled", !["scoped"] = "running"]
  BY DEF Analytics, Proceed, accountVars
<1>2. task' \in [Tasks -> States]
      /\ task'["explore"] = "cancelled" /\ \A p \in Phases : task'[p] = task[p]
  BY <1>1 DEF RequestInv, Typed, States, Live, Over, Tasks, Phases, Rails
<1>3. Typed'
  BY <1>1, <1>2 DEF RequestInv, Typed, Places
<1>4. Placed'
  BY <1>1, <1>2 DEF RequestInv, Placed, Quiet, Analytics, Phases
<1>5. GateActive'
  BY <1>1, <1>2 DEF RequestInv, GateActive, Typed, Phases, Live
<1>6. RollupSettled'
  BY <1>1, <1>2 DEF RequestInv, RollupSettled, AllSettled, Settled, Phases, Over
<1>7. CostKnown'
  BY <1>1 DEF RequestInv, CostKnown, Total, Analytics
<1>8. OnlySpecRefills'
  BY <1>1 DEF RequestInv, Placed, OnlySpecRefills, Answered, Analytics
<1> QED
  BY <1>3, <1>4, <1>5, <1>6, <1>7, <1>8 DEF RequestInv

LEMMA ChoicesPreserve ==
  ASSUME RequestInv, Detour \/ DropSpec \/ JoinSpec
  PROVE  RequestInv'
<1>1. PICK place \in {"detour", "dropping", "joining"}, ts \in SUBSET {"spec"} :
         Proceed(place) /\ task' = Cancelled(ts) /\ use' \in {use, "spec"}
         /\ (place # "joining" => use' = use) /\ (place = "joining" => use' = "spec")
         /\ UNCHANGED <<accountVars, cost>>
  BY Known DEF Detour, DropSpec, JoinSpec
<1>2. ts \in SUBSET Tasks /\ place \in Places /\ cost' \in Nat
  BY <1>1, Known DEF Tasks, Phases, Places
<1>3. \A t \in Tasks : Quiet(t) => task'[t] = task[t]
  BY <1>1, <1>2, CancelledTasks DEF RequestInv
<1>4. at = "analytics"
  BY DEF Detour, DropSpec, JoinSpec
<1>5. Placed'
  BY <1>1, <1>3, <1>4
     DEF RequestInv, Placed, Quiet, Proceed, Tasks, Phases, Rails
<1>6. CostKnown'
  BY <1>1, <1>4 DEF RequestInv, CostKnown, Total, Proceed, accountVars
<1> QED
  BY <1>1, <1>2, <1>5, <1>6, Moving

LEMMA CallAnalyticsPreserves ==
  ASSUME RequestInv, CallAnalytics
  PROVE  RequestInv'
<1>1. at \in {"analytics", "dropping"} /\ StartInline("joining", {})
  BY DEF CallAnalytics
<1>2. use = "none" /\ cost <= spent["search"] /\ answer = "none"
  BY <1>1 DEF RequestInv, Typed, Placed, CostKnown
<1>3. Quiet("search") /\ Quiet("explore")
  BY <1>1 DEF RequestInv, Placed
<1> QED
  BY <1>1, <1>2, <1>3, StartingInline

(* The time-out of analytics, wherever it is noticed.                      *)
LEMMA TimingOut ==
  ASSUME RequestInv, TimedOut, at \in {"analytics", "joining"}, Quiet("inline")
  PROVE  RequestInv'
<1>1. PICK place \in {"reaping", "grace"}, ts \in SUBSET {"scoped"} :
         Proceed(place) /\ task' = Cancelled(ts)
  BY Known DEF TimedOut
<1>2. cost' = RequestCost /\ UNCHANGED <<use, accountVars>>
  BY DEF TimedOut
<1>3. ts \in SUBSET Tasks /\ place \in Places /\ cost' \in Nat
  BY <1>2, Known DEF Tasks, Rails, Places
<1>4. \A t \in Tasks : Quiet(t) => task'[t] = task[t]
  BY <1>1, <1>3, CancelledTasks DEF RequestInv
<1>5. Placed'
  BY <1>1, <1>2, <1>4
     DEF RequestInv, Placed, Quiet, Proceed, Tasks, Phases, Rails
<1>6. CostKnown'
  <2>1. cost' <= Total /\ Total' = Total
    BY <1>2, Known DEF Total, accountVars
  <2> QED
    BY <1>1, <2>1 DEF CostKnown, Proceed
<1> QED
  BY <1>1, <1>2, <1>3, <1>5, <1>6, Moving

LEMMA BudgetExhaustedPreserves ==
  ASSUME RequestInv, BudgetExhausted
  PROVE  RequestInv'
<1>1. at = "analytics" /\ TimedOut
  BY DEF BudgetExhausted
<1>2. Quiet("inline")
  BY <1>1 DEF RequestInv, Placed
<1> QED
  BY <1>1, <1>2, TimingOut

LEMMA JoinEndsPreserves ==
  ASSUME RequestInv, JoinEnds
  PROVE  RequestInv'
<1>1. at = "joining" /\ use \in {"spec", "inline"}
  BY DEF RequestInv, Typed, Placed, JoinEnds
<1>2. task[use] \in Over
  BY <1>1 DEF JoinEnds, Over
<1>3. Quiet("search") /\ Quiet("explore") /\ Quiet("inline")
  BY <1>1, <1>2 DEF RequestInv, Placed, Quiet, Over
<1>4. CASE task[use] = "cancelled"
  BY <1>1, <1>3, <1>4, TimingOut DEF JoinEnds
<1>5. CASE task[use] = "crashed"
  <2>1. Respond("error", 0) /\ UNCHANGED <<task, accountVars>>
    BY <1>5 DEF JoinEnds
  <2>2. task' = Cancelled({}) /\ {} \in SUBSET Tasks
    BY <2>1, Known
  <2> QED
    BY <1>3, <2>1, <2>2, Erring
<1>6. CASE task[use] \in {"ok", "failed", "raised"}
  <2>1. /\ Proceed("closing")
        /\ cost' = cost + (IF task[use] = "raised" THEN 0 ELSE spent[use])
        /\ task' = Cancelled({"scoped"})
        /\ UNCHANGED <<use, accountVars>>
    BY <1>6 DEF JoinEnds
  <2>2. {"scoped"} \in SUBSET Tasks /\ "closing" \in Places
    BY DEF Tasks, Rails, Places
  <2>3. cost' \in Nat /\ cost' <= Total
    <3>1. cost <= spent["search"] /\ cost \in Nat
      BY <1>1 DEF RequestInv, CostKnown, Typed
    <3>2. spent["search"] \in Nat /\ spent["spec"] \in Nat /\ spent["inline"] \in Nat
      BY SpendBounded DEF RequestInv, Typed, Phases
    <3> QED
      BY <1>1, <2>1, <3>1, <3>2 DEF Total
  <2>4. \A t \in {"search", "explore", "inline"} : task'[t] = task[t]
    BY <1>3, <2>1, <2>2, CancelledTasks DEF RequestInv, Tasks, Phases, Rails
  <2>5. Placed'
    BY <1>1, <1>3, <2>1, <2>4 DEF RequestInv, Placed, Quiet, Proceed
  <2>6. CostKnown'
    BY <2>1, <2>3 DEF CostKnown, Total, Proceed, accountVars
  <2> QED
    BY <2>1, <2>2, <2>3, <2>5, <2>6, Moving
<1> QED
  BY <1>2, <1>4, <1>5, <1>6 DEF Over

LEMMA CloseEndsPreserves ==
  ASSUME RequestInv, CloseEnds
  PROVE  RequestInv'
<1>1. \A t \in {"search", "explore", "inline", "scoped"} : Quiet(t)
  BY DEF RequestInv, Placed, Quiet, Over, CloseEnds
<1>2. {"spec"} \in SUBSET Tasks /\ task' = Cancelled({"spec"})
  BY DEF Tasks, Phases, CloseEnds
<1>3. CASE Respond("ok", cost) /\ Clear
  BY <1>1, <1>2, <1>3, Known, AnsweringCancelled
<1>4. CASE Proceed("refill") /\ UNCHANGED <<use, accountVars, cost>>
  <2>1. \A t \in {"search", "explore", "inline", "scoped"} : task'[t] = task[t]
    BY <1>1, <1>2, CancelledTasks DEF RequestInv, Tasks, Phases, Rails
  <2>2. Placed' /\ CostKnown'
    BY <1>1, <1>4, <2>1
       DEF RequestInv, Placed, CostKnown, Total, Quiet, Proceed, CloseEnds, accountVars
  <2>3. "refill" \in Places /\ cost' \in Nat /\ use' \in {use, "spec"}
    BY <1>4, Known DEF Places
  <2> QED
    BY <1>2, <1>4, <2>2, <2>3, Moving
<1> QED
  BY <1>3, <1>4 DEF CloseEnds

LEMMA GraceEndsPreserves ==
  ASSUME RequestInv, GraceEnds
  PROVE  RequestInv'
<1>1. \A t \in {"search", "explore", "inline", "scoped"} : Quiet(t)
  BY DEF RequestInv, Placed, Quiet, Over, GraceEnds
<1>2. {} \in SUBSET Tasks /\ task' = Cancelled({})
  BY Known DEF GraceEnds
<1>3. CASE Respond("ok", cost) /\ Clear
  BY <1>1, <1>2, <1>3, Known, AnsweringCancelled
<1>4. CASE Proceed("refill") /\ UNCHANGED <<use, accountVars, cost>>
  <2>1. Placed' /\ CostKnown'
    BY <1>1, <1>4
       DEF RequestInv, Placed, CostKnown, Total, Quiet, Proceed, GraceEnds, accountVars
  <2>2. "refill" \in Places /\ cost' \in Nat /\ use' \in {use, "spec"}
    BY <1>4, Known DEF Places
  <2> QED
    BY <1>2, <1>4, <2>1, <2>2, Moving
<1> QED
  BY <1>3, <1>4 DEF GraceEnds

LEMMA HandlerPreserves ==
  ASSUME RequestInv, HandlerStep
  PROVE  RequestInv'
  BY PlainAnswers, FallbackEndsPreserves, SearchRaisedPreserves,
     SearchReturnedPreserves, CrossEndsPreserves, BeginPreserves,
     TimerFiresPreserves, SearchTimedOutPreserves, ReclassifiedPreserves,
     GuidancePreserves, AnalyticsUnavailablePreserves, AnalyticsPreserves,
     ChoicesPreserve, CallAnalyticsPreserves, BudgetExhaustedPreserves,
     JoinEndsPreserves, CloseEndsPreserves, GraceEndsPreserves
     DEF HandlerStep

-----------------------------------------------------------------------------
(* The tasks' steps                                                        *)

LEMMA SpecStartsPreserves ==
  ASSUME RequestInv, SpecStarts
  PROVE  RequestInv'
<1>1. PICK s \in {"running", "failed", "raised"} :
         /\ task' = [task EXCEPT !["spec"] = s]
         /\ gate' = IF s = "running" THEN "spec" ELSE gate
  BY DEF SpecStarts
<1>2. UNCHANGED <<at, use, spent, rollup, stamped, cost, answer>> /\ task["spec"] = "created"
  BY DEF SpecStarts
<1>3. task' \in [Tasks -> States]
      /\ \A t \in Tasks : task'[t] = IF t = "spec" THEN s ELSE task[t]
  BY <1>1 DEF RequestInv, Typed, States, Live, Over, Tasks, Phases
<1>4. Typed'
  BY <1>1, <1>2, <1>3 DEF RequestInv, Typed, Phases
<1>5. Placed'
  <2>1. at # "idle"
    BY <1>2 DEF RequestInv, Placed, Tasks, Phases
  <2> QED
    BY <1>2, <1>3, <2>1 DEF RequestInv, Placed, Quiet, Tasks, Phases, Rails
<1>6. GateActive'
  BY <1>1, <1>2, <1>3 DEF RequestInv, GateActive, Typed, Tasks, Phases, Live
<1>7. RollupSettled'
  <2>1. \A p \in Phases : Settled(p)' \in Nat /\ Settled(p) \in Nat /\ Settled(p) <= Settled(p)'
    BY <1>2, <1>3, SpendBounded DEF RequestInv, Settled, Typed, Tasks, Phases, Over
  <2> QED
    BY <1>2, <2>1 DEF RequestInv, RollupSettled, AllSettled, Phases, Typed, Absent
<1>8. CostKnown'
  BY <1>2 DEF RequestInv, CostKnown, Total
<1>9. OnlySpecRefills'
  BY <1>2, <1>3 DEF RequestInv, OnlySpecRefills, Answered, Absent, Over, Tasks, Phases
<1> QED
  BY <1>4, <1>5, <1>6, <1>7, <1>8, <1>9 DEF RequestInv

LEMMA ChargePreserves ==
  ASSUME RequestInv, NEW p \in Phases, Charge(p)
  PROVE  RequestInv'
<1>1. /\ task[p] = "running" /\ spent[p] < MaxSpend
      /\ spent' = [spent EXCEPT ![p] = @ + 1]
      /\ UNCHANGED <<at, task, use, gate, rollup, stamped, cost, answer>>
  BY DEF Charge
<1>2. \A q \in Phases : spent[q] \in Nat /\ spent'[q] \in Nat /\ spent[q] <= spent'[q]
  BY <1>1, SpendBounded DEF RequestInv, Typed
<1>3. Typed'
  <2>1. spent' \in [Phases -> 0 .. MaxSpend]
    BY <1>1, SpendBounded DEF RequestInv, Typed
  <2> QED
    BY <1>1, <2>1 DEF RequestInv, Typed
<1>4. Placed' /\ GateActive'
  BY <1>1 DEF RequestInv, Placed, Quiet, GateActive
<1>7. OnlySpecRefills'
  <2>1. CASE p = "spec"
    BY <1>1, <2>1 DEF RequestInv, OnlySpecRefills, Answered, Absent, Over
  <2>2. CASE p # "spec"
    <3>1. spent'["spec"] = spent["spec"]
      BY <1>1, <2>2 DEF RequestInv, Typed, Phases
    <3> QED
      BY <1>1, <3>1 DEF RequestInv, OnlySpecRefills, Answered, Absent
  <2> QED
    BY <2>1, <2>2
<1>5. RollupSettled'
  <2>1. \A q \in Phases : Settled(q)' = Settled(q)
    BY <1>1 DEF RequestInv, Typed, Settled, Over
  <2> QED
    BY <1>1, <2>1 DEF RequestInv, RollupSettled, AllSettled, Phases
<1>6. CostKnown'
  BY <1>1, <1>2 DEF RequestInv, Typed, CostKnown, Total, Phases
<1> QED
  BY <1>3, <1>4, <1>5, <1>6, <1>7 DEF RequestInv

(* What a phase merges into the rollup was not settled before.             *)
LEMMA PhaseEndsPreserves ==
  ASSUME RequestInv, NEW p \in Phases, PhaseEnds(p)
  PROVE  RequestInv'
<1>1. PICK s \in Over : task' = [task EXCEPT ![p] = s]
  BY DEF PhaseEnds, Over
<1>2. task[p] \in Live /\ UNCHANGED <<at, use, spent, stamped, cost, answer>>
  BY DEF PhaseEnds, Live
<1>3. /\ rollup' = (IF rollup = Absent THEN 0 ELSE rollup) + spent[p]
      /\ gate' = IF gate = p THEN "none" ELSE gate
  BY DEF PhaseEnds, Finalize
<1>4. p \in Tasks /\ Phases \subseteq Tasks
  BY DEF Tasks
<1>5. task' \in [Tasks -> States]
      /\ \A t \in Tasks : task'[t] = IF t = p THEN s ELSE task[t]
  BY <1>1, <1>4 DEF RequestInv, Typed, States
<1>6. spent[p] \in Nat /\ \A q \in Phases : spent[q] \in Nat
  BY SpendBounded DEF RequestInv, Typed
<1>7. Typed'
  <2>1. rollup' \in Nat
    BY <1>3, <1>6 DEF RequestInv, Typed
  <2> QED
    BY <1>2, <1>3, <1>5, <2>1 DEF RequestInv, Typed
<1>8. Placed'
  <2>1. at # "idle" /\ (p = "inline" => use = "inline")
    BY <1>2, <1>4 DEF RequestInv, Placed, Live
  <2> QED
    BY <1>2, <1>5, <2>1 DEF RequestInv, Placed, Quiet, Over, Tasks, Phases, Rails
<1>9. GateActive'
  BY <1>2, <1>3, <1>4, <1>5 DEF RequestInv, GateActive, Typed, Live
<1>10. RollupSettled'
  <2>1. Settled(p) = 0 /\ Settled(p)' = spent[p]
    BY <1>2, <1>4, <1>5 DEF Settled, Live, Over
  <2>2. \A q \in Phases \ {p} : Settled(q)' = Settled(q) /\ Settled(q) \in Nat
    BY <1>2, <1>4, <1>5, <1>6 DEF Settled, Over
  <2> QED
    BY <1>3, <1>6, <2>1, <2>2
       DEF RequestInv, RollupSettled, AllSettled, Typed, Phases, Absent
<1>11. CostKnown'
  BY <1>2 DEF RequestInv, CostKnown, Total
<1>12. OnlySpecRefills'
  <2> SUFFICES ASSUME Answered PROVE OnlySpecRefills'
    BY <1>2 DEF OnlySpecRefills, Answered
  <2>1. p = "spec"
    BY <1>2 DEF RequestInv, Placed, Answered, Quiet, Live, Phases
  <2>2. rollup = Absent
    BY <1>2, <2>1 DEF RequestInv, OnlySpecRefills, Live, Over
  <2>3. rollup' = spent["spec"] /\ spent' = spent /\ task'["spec"] \in Over
    BY <1>2, <1>3, <1>4, <1>5, <1>6, <2>1, <2>2
  <2> QED
    BY <2>3 DEF OnlySpecRefills
<1> QED
  BY <1>7, <1>8, <1>9, <1>10, <1>11, <1>12 DEF RequestInv

LEMMA RailEndsPreserves ==
  ASSUME RequestInv, NEW r \in Rails, RailEnds(r)
  PROVE  RequestInv'
<1>1. PICK s \in Over : task' = [task EXCEPT ![r] = s]
  BY DEF RailEnds, Over
<1>2. /\ task[r] \in Live /\ UNCHANGED <<at, use, accountVars, stamped, cost, answer>>
      /\ spent' = spent /\ gate' = gate /\ rollup' = rollup
  BY DEF RailEnds, Live, accountVars
<1>3. r \in Tasks /\ r \notin Phases /\ Phases \subseteq Tasks
  BY DEF Tasks, Phases, Rails
<1>4. task' \in [Tasks -> States]
      /\ \A t \in Tasks : task'[t] = IF t = r THEN s ELSE task[t]
  BY <1>1, <1>3 DEF RequestInv, Typed, States
<1>5. Typed'
  BY <1>2, <1>4 DEF RequestInv, Typed
<1>6. Placed'
  <2>1. at # "idle"
    BY <1>2, <1>3 DEF RequestInv, Placed, Live
  <2> QED
    BY <1>2, <1>4, <2>1 DEF RequestInv, Placed, Quiet, Over, Tasks, Phases, Rails
<1>7. GateActive' /\ RollupSettled'
  BY <1>2, <1>3, <1>4
     DEF RequestInv, GateActive, RollupSettled, AllSettled, Settled, Typed, Phases, Live, Over
<1>8. CostKnown'
  BY <1>2 DEF RequestInv, CostKnown, Total
<1>9. OnlySpecRefills'
  BY <1>2, <1>3, <1>4 DEF RequestInv, OnlySpecRefills, Answered, Phases
<1> QED
  BY <1>5, <1>6, <1>7, <1>8, <1>9 DEF RequestInv

LEMMA NextRequestInv == RequestInv /\ [Next]_vars => RequestInv'
<1> SUFFICES ASSUME RequestInv, [Next]_vars PROVE RequestInv'
  OBVIOUS
<1>1. CASE HandlerStep
  BY <1>1, HandlerPreserves
<1>2. CASE SpecStarts
  BY <1>2, SpecStartsPreserves
<1>3. ASSUME NEW p \in Phases, Charge(p) \/ PhaseEnds(p) PROVE RequestInv'
  BY <1>3, ChargePreserves, PhaseEndsPreserves
<1>4. ASSUME NEW r \in Rails, RailEnds(r) PROVE RequestInv'
  BY <1>4, RailEndsPreserves
<1>5. CASE UNCHANGED vars
  BY <1>5
     DEF vars, accountVars, RequestInv, Typed, Placed, Quiet, GateActive, RollupSettled,
         AllSettled, Settled, CostKnown, Total, OnlySpecRefills, Answered, Live, Over
<1> QED
  BY <1>1, <1>2, <1>3, <1>4, <1>5 DEF Next

LEMMA RequestIsConsistent == Spec => []RequestInv
  BY InitRequestInv, NextRequestInv, PTL DEF Spec

-----------------------------------------------------------------------------
(* What is answered as spent.  Until the accounts are released the rollup  *)
(* is exactly what phases that are over have spent, and the gate of early  *)
(* analytics is the active one as long as the handler has begun none of    *)
(* its own: so what is reported then is all that was spent, and the early  *)
(* analytics, cancelled, is charged nothing more.                          *)

NothingSpentYet == \A p \in Phases : task[p] \in {"none", "created"} => spent[p] = 0

RollupExact == ~Answered => (IF rollup = Absent THEN 0 ELSE rollup) = AllSettled

GateOfLast == at # "done" /\ use # "inline" /\ task["spec"] \in Live => gate = "spec"

SpecDropped ==
    at = "fallback" \/ answer \in {"timeout", "unavailable"} =>
        task["spec"] \notin {"created", "running"}

LateAnswer == answer \in {"timeout", "unavailable"} => cost = Total

(* Where analytics has been awaited, or forgone.                           *)
Behind == {"closing", "reaping", "grace", "refill", "forcing"}

(* The cost of a stamped intent covers search, and once analytics has been *)
(* awaited what it has spent, unless it raised.                            *)
CostCovers ==
    /\ at \in {"idle", "searching"} => ~stamped
    /\ stamped /\ answer # "error" => cost >= spent["search"]
    /\ use # "none" /\ (at \in Behind \/ answer = "ok") =>
          /\ task[use] \in Over
          /\ stamped /\ task[use] # "raised" => cost >= spent["search"] + spent[use]

SpendInv ==
    /\ NothingSpentYet /\ RollupExact /\ GateOfLast
    /\ SpecDropped /\ LateAnswer /\ CostCovers

(* No phase ends or is forgotten.                                          *)
Steady ==
    \A p \in Phases :
        /\ task[p] \in Live => task'[p] \in Live
        /\ task[p] \in Over => task'[p] = task[p]
        /\ task'[p] \in {"none", "created"} => task[p] \in {"none", "created"}

LEMMA InitSpendInv == Init => SpendInv
<1> SUFFICES ASSUME Init PROVE SpendInv
  OBVIOUS
<1>1. /\ \A p \in Phases : task[p] = "none" /\ spent[p] = 0
      /\ Phases = {"search", "spec", "inline"}
  BY DEF Init, Tasks, Phases
<1>2. AllSettled = 0
  BY <1>1 DEF AllSettled, Settled, Over
<1> QED
  BY <1>1, <1>2
     DEF Init, SpendInv, NothingSpentYet, RollupExact, GateOfLast, SpecDropped,
         LateAnswer, CostCovers, Live, Behind

(* Nothing is settled by a step that ends no phase.                        *)
LEMMA SteadySettles ==
  ASSUME RequestInv, NothingSpentYet, Typed', Steady, spent' = spent
  PROVE  /\ NothingSpentYet' /\ AllSettled' = AllSettled /\ Total' = Total
         /\ \A p \in Phases : Settled(p)' = Settled(p)
<1>1. \A p \in Phases : task[p] \in States /\ task'[p] \in States /\ spent[p] \in Nat
  BY SpendBounded DEF RequestInv, Typed, Tasks
<1>2. NothingSpentYet'
  BY DEF Steady, NothingSpentYet
<1>3. ASSUME NEW p \in Phases PROVE Settled(p)' = Settled(p)
  <2>1. CASE task[p] \in Live
    BY <2>1 DEF Steady, Settled, Live, Over
  <2>2. CASE task[p] \in Over
    BY <2>2 DEF Steady, Settled, Over
  <2>3. CASE task[p] \in {"none", "created"}
    <3>1. spent[p] = 0
      BY <2>3 DEF NothingSpentYet
    <3> QED
      BY <2>3, <3>1 DEF Settled, Over
  <2> QED
    BY <1>1, <2>1, <2>2, <2>3 DEF States
<1> QED
  BY <1>2, <1>3 DEF AllSettled, Total, Phases

(* request_llm_cost_usd counts what is settled, and everything once only   *)
(* the early analytics may still be spending.                              *)
LEMMA WhatIsReported ==
  ASSUME RequestInv, SpendInv, at # "done"
  PROVE  /\ \A p \in Phases :
               spent[p] \in Nat /\ (Quiet(p) => Settled(p) = spent[p])
         /\ RequestCost >= AllSettled
         /\ Quiet("search") /\ use # "inline" => RequestCost = Total
<1>1. \A p \in Phases : spent[p] \in Nat /\ Settled(p) \in Nat /\ task[p] \in States
  BY SpendBounded DEF RequestInv, Typed, Settled, Tasks
<1>2. ASSUME NEW p \in Phases, task[p] \notin Live \/ Quiet(p)
      PROVE  Settled(p) = spent[p]
  BY <1>1, <1>2 DEF SpendInv, NothingSpentYet, Settled, Quiet, States, Live, Over
<1>3. RequestCost = AllSettled + (IF gate = "none" THEN 0 ELSE spent[gate])
  BY DEF RequestInv, Placed, Answered, SpendInv, RollupExact, RequestCost
<1>4. RequestCost >= AllSettled
  BY <1>1, <1>3 DEF AllSettled, RequestInv, Typed, Phases
<1>5. ASSUME Quiet("search"), use # "inline" PROVE RequestCost = Total
  <2>1. Quiet("inline") /\ gate # "search" /\ gate # "inline"
    BY <1>5 DEF RequestInv, Placed, GateActive, Quiet, Live
  <2>2. Settled("search") = spent["search"] /\ Settled("inline") = spent["inline"]
    BY <1>2, <1>5, <2>1 DEF Phases
  <2>3. CASE task["spec"] \in Live
    <3>1. gate = "spec" /\ Settled("spec") = 0
      BY <1>5, <2>3 DEF SpendInv, GateOfLast, Settled, Live, Over
    <3> QED
      BY <1>1, <1>3, <2>2, <3>1 DEF AllSettled, Total, Phases
  <2>4. CASE task["spec"] \notin Live
    <3>1. gate = "none" /\ Settled("spec") = spent["spec"]
      BY <1>2, <2>1, <2>4 DEF RequestInv, GateActive, Typed, Phases
    <3> QED
      BY <1>1, <1>3, <2>2, <3>1 DEF AllSettled, Total, Phases
  <2> QED
    BY <2>3, <2>4
<1> QED
  BY <1>1, <1>2, <1>4, <1>5

(* The handler goes on: its accounts stand as they were.                   *)
LEMMA GoingOn ==
  ASSUME RequestInv, SpendInv, Typed', Steady, spent' = spent, rollup' = rollup,
         at # "done", at' # "done", answer' = answer,
         task'["spec"] \in Live => task["spec"] \in Live,
         use' # "inline" /\ task'["spec"] \in Live => use # "inline" /\ gate' = gate,
         at' = "fallback" => task'["spec"] \notin {"created", "running"},
         CostCovers'
  PROVE  SpendInv'
<1>1. answer = "none"
  BY DEF RequestInv, Placed
<1>2. NothingSpentYet' /\ AllSettled' = AllSettled
  BY SteadySettles DEF SpendInv
<1> QED
  BY <1>1, <1>2 DEF SpendInv, RollupExact, Answered, GateOfLast, SpecDropped, LateAnswer

(* ... and so does the cost.                                               *)
LEMMA CostStands ==
  ASSUME RequestInv, SpendInv, Steady, spent' = spent, at # "done",
         at' \notin {"idle", "searching"}, answer' = answer,
         stamped' = stamped, cost' = cost,
         at' \in Behind => use' = "none" \/ (use' = use /\ at \in Behind)
  PROVE  CostCovers'
<1>1. answer = "none" /\ use \in {"none", "spec", "inline"}
  BY DEF RequestInv, Placed, Typed
<1> QED
  BY <1>1 DEF SpendInv, CostCovers, Steady, Phases, Behind

(* The handler answers with what has been spent so far.                    *)
LEMMA AnsweringLate ==
  ASSUME RequestInv, SpendInv, Typed', Steady,
         NEW kind \in {"timeout", "unavailable"}, Respond(kind, RequestCost), Clear,
         at # "done", use # "inline", Quiet("search"),
         task'["spec"] \notin {"created", "running"}
  PROVE  SpendInv'
<1>1. cost' = Total /\ at' = "done" /\ answer' = kind /\ use' = use /\ stamped' = stamped
      /\ spent' = spent
  BY WhatIsReported DEF Respond, Clear
<1>2. NothingSpentYet' /\ Total' = Total
  BY <1>1, SteadySettles DEF SpendInv
<1>3. Total >= spent["search"]
  BY WhatIsReported DEF Total, Phases
<1> QED
  BY <1>1, <1>2, <1>3
     DEF SpendInv, RollupExact, Answered, GateOfLast, SpecDropped, LateAnswer, CostCovers,
         Behind

(* The handler answers what it has, which covers what it used.             *)
LEMMA AnsweringOk ==
  ASSUME RequestInv, SpendInv, Typed', Steady, NEW c \in Nat, Respond("ok", c), Clear,
         stamped => c >= spent["search"],
         use # "none" =>
            /\ task[use] \in Over
            /\ stamped /\ task[use] # "raised" => c >= spent["search"] + spent[use]
  PROVE  SpendInv'
<1>1. cost' = c /\ at' = "done" /\ answer' = "ok" /\ use' = use /\ stamped' = stamped
      /\ spent' = spent
  BY DEF Respond, Clear
<1>2. NothingSpentYet'
  BY <1>1, SteadySettles DEF SpendInv
<1>3. use # "none" => use \in Phases /\ task'[use] = task[use]
  BY DEF RequestInv, Typed, Phases, Steady
<1> QED
  BY <1>1, <1>2, <1>3
     DEF SpendInv, RollupExact, Answered, GateOfLast, SpecDropped, LateAnswer, CostCovers,
         Behind

LEMMA AnsweringError ==
  ASSUME RequestInv, SpendInv, Typed', Steady, NEW kind \in {"rejected", "error"},
         Respond(kind, 0), UNCHANGED accountVars, kind = "rejected" => ~stamped,
         at # "done"
  PROVE  SpendInv'
<1>1. at' = "done" /\ answer' = kind /\ stamped' = stamped /\ spent' = spent
      /\ rollup' = rollup
  BY DEF Respond, accountVars
<1>2. NothingSpentYet' /\ AllSettled' = AllSettled /\ answer = "none"
  BY <1>1, SteadySettles DEF SpendInv, RequestInv, Placed
<1> QED
  BY <1>1, <1>2
     DEF SpendInv, RollupExact, Answered, GateOfLast, SpecDropped, LateAnswer, CostCovers,
         Behind

LEMMA CancelledPhases ==
  ASSUME RequestInv, NEW ts \in SUBSET Tasks
  PROVE  /\ \A t \in Tasks :
               /\ task[t] \in Live => Cancelled(ts)[t] \in Live
               /\ task[t] \in Over => Cancelled(ts)[t] = task[t]
               /\ Cancelled(ts)[t] \in Live => task[t] \in Live
               /\ Cancelled(ts)[t] \in {"none", "created", "running"} => Cancelled(ts)[t] = task[t]
               /\ t \in ts => Cancelled(ts)[t] \notin {"created", "running"}
         /\ task' = Cancelled(ts) => Steady
<1>1. \A t \in Tasks :
         /\ task[t] \in States
         /\ Cancelled(ts)[t] = IF t \notin ts THEN task[t]
                               ELSE CASE task[t] = "created" -> "cancelled"
                                      [] task[t] = "running" -> "cancelling"
                                      [] OTHER -> task[t]
  BY DEF RequestInv, Typed, Cancelled
<1>2. \A t \in Tasks :
         /\ task[t] \in Live => Cancelled(ts)[t] \in Live
         /\ task[t] \in Over => Cancelled(ts)[t] = task[t]
         /\ Cancelled(ts)[t] \in Live => task[t] \in Live
         /\ Cancelled(ts)[t] \in {"none", "created", "running"} => Cancelled(ts)[t] = task[t]
         /\ t \in ts => Cancelled(ts)[t] \notin {"created", "running"}
  BY <1>1 DEF States, Live, Over
<1> QED
  BY <1>2 DEF Steady, Tasks

(* The responses that carry the cost the handler has so far.               *)
LEMMA PlainAnswersSpend ==
  ASSUME RequestInv, SpendInv, RequestInv',
         Listing \/ ForcingEnds \/ DetourEnds \/ ReapEnds \/ RefillEnds
  PROVE  SpendInv'
<1>1. Respond("ok", cost) /\ Clear /\ cost \in Nat
  BY Known DEF Listing, ForcingEnds, DetourEnds, ReapEnds, RefillEnds
<1>2. Steady
  <2>1. task' = Cancelled({"spec"}) \/ task' = Cancelled({})
    BY Known DEF Listing, ForcingEnds, DetourEnds, ReapEnds, RefillEnds
  <2>2. {} \in SUBSET Tasks /\ {"spec"} \in SUBSET Tasks
    BY DEF Tasks, Phases
  <2> QED
    BY <2>1, <2>2, CancelledPhases
<1>3. at \in {"route", "detour"} => use = "none"
  BY DEF RequestInv, Placed
<1>4. answer = "none" /\ (at \in Behind \/ at \in {"route", "detour"})
  BY DEF RequestInv, Placed, Behind, Listing, ForcingEnds, DetourEnds, ReapEnds, RefillEnds
<1> QED
  BY <1>1, <1>2, <1>3, <1>4, AnsweringOk DEF RequestInv, SpendInv, CostCovers

LEMMA FallbackEndsSpends ==
  ASSUME RequestInv, SpendInv, RequestInv', FallbackEnds
  PROVE  SpendInv'
<1>1. task' = task /\ Steady
  BY DEF FallbackEnds, Steady
<1>2. use # "inline" /\ Quiet("search") /\ task["spec"] \notin {"created", "running"}
      /\ at # "done"
  BY DEF RequestInv, Placed, SpendInv, SpecDropped, FallbackEnds
<1>3. CASE Respond("error", 0) /\ UNCHANGED accountVars
  BY <1>1, <1>2, <1>3, AnsweringError DEF RequestInv
<1>4. CASE Respond("timeout", RequestCost) /\ Clear
  BY <1>1, <1>2, <1>4, AnsweringLate DEF RequestInv
<1> QED
  BY <1>3, <1>4 DEF FallbackEnds

(* Tasks alone have changed, none of the phases' accounts.                 *)
LEMMA SearchRaisedSpends ==
  ASSUME RequestInv, SpendInv, RequestInv', SearchRaised
  PROVE  SpendInv'
<1>1. at = "searching" /\ use = "none" /\ ~stamped /\ Quiet("search")
  BY DEF RequestInv, Placed, SpendInv, CostCovers, Quiet, SearchRaised
<1>2. {"spec"} \in SUBSET Tasks /\ "spec" \in Tasks
  BY DEF Tasks, Phases
<1>3. CASE task' = Cancelled({"spec"}) /\ Respond("rejected", 0) /\ UNCHANGED accountVars
  BY <1>1, <1>2, <1>3, CancelledPhases, AnsweringError DEF RequestInv
<1>4. CASE task' = Cancelled({"spec"}) /\ Respond("unavailable", RequestCost) /\ Clear
  <2>1. Steady /\ task'["spec"] \notin {"created", "running"}
    BY <1>2, <1>4, CancelledPhases
  <2> QED
    BY <1>1, <1>4, <2>1, AnsweringLate DEF RequestInv
<1>5. CASE Proceed("classify") /\ UNCHANGED <<task, use, accountVars, cost>>
  <2>1. /\ at' = "classify" /\ answer' = answer /\ stamped' = stamped /\ task' = task
        /\ spent' = spent /\ gate' = gate /\ rollup' = rollup /\ use' = use /\ cost' = cost
    BY <1>5 DEF Proceed, accountVars
  <2>2. Steady
    BY <2>1 DEF Steady
  <2>3. CostCovers'
    BY <1>1, <2>1, <2>2, CostStands DEF Behind
  <2> QED
    BY <1>1, <2>1, <2>2, <2>3, GoingOn DEF RequestInv
<1>6. CASE Respond("error", 0) /\ UNCHANGED <<task, accountVars>>
  BY <1>1, <1>6, AnsweringError DEF RequestInv, Steady
<1> QED
  BY <1>3, <1>4, <1>5, <1>6 DEF SearchRaised

LEMMA SearchReturnedSpends ==
  ASSUME RequestInv, SpendInv, RequestInv', SearchReturned
  PROVE  SpendInv'
<1>1. at = "searching" /\ use = "none" /\ ~stamped /\ Quiet("search") /\ answer = "none"
  BY DEF RequestInv, Placed, SpendInv, CostCovers, Quiet, SearchReturned
<1>2. {"spec"} \in SUBSET Tasks /\ "spec" \in Tasks
  BY DEF Tasks, Phases
<1>3. CASE task' = Cancelled({"spec"}) /\ Respond("unavailable", RequestCost) /\ Clear
  <2>1. Steady /\ task'["spec"] \notin {"created", "running"}
    BY <1>2, <1>3, CancelledPhases
  <2> QED
    BY <1>1, <1>3, <2>1, AnsweringLate DEF RequestInv
<1>4. CASE Proceed("classify") /\ UNCHANGED <<task, use, accountVars, cost>>
  <2>1. /\ at' = "classify" /\ answer' = answer /\ stamped' = stamped /\ task' = task
        /\ spent' = spent /\ gate' = gate /\ rollup' = rollup /\ use' = use /\ cost' = cost
    BY <1>4 DEF Proceed, accountVars
  <2>2. Steady
    BY <2>1 DEF Steady
  <2>3. CostCovers'
    BY <1>1, <2>1, <2>2, CostStands DEF Behind
  <2> QED
    BY <1>1, <2>1, <2>2, <2>3, GoingOn DEF RequestInv
<1>5. CASE /\ at' = "route" /\ stamped' = TRUE /\ cost' = spent["search"]
           /\ UNCHANGED <<task, use, accountVars, answer>>
  <2>1. spent' = spent /\ gate' = gate /\ rollup' = rollup /\ task' = task /\ Steady
    BY <1>5 DEF accountVars, Steady
  <2>2. CostCovers'
    <3>1. spent["search"] \in Nat
      BY SpendBounded DEF RequestInv, Typed, Phases
    <3> QED
      BY <1>1, <1>5, <2>1, <3>1 DEF CostCovers, Behind
  <2> QED
    BY <1>1, <1>5, <2>1, <2>2, GoingOn DEF RequestInv
<1> QED
  BY <1>3, <1>4, <1>5 DEF SearchReturned

LEMMA ReclassifiedSpends ==
  ASSUME RequestInv, SpendInv, RequestInv', Reclassified
  PROVE  SpendInv'
<1>1. at = "classify" /\ at' = "route" /\ use = "none" /\ answer = "none"
      /\ spent' = spent /\ gate' = gate /\ rollup' = rollup
      /\ UNCHANGED <<task, use, answer>> /\ Steady
  BY DEF RequestInv, Placed, Reclassified, accountVars, Steady
<1>2. CostCovers'
  <2>1. CASE UNCHANGED <<stamped, cost>>
    BY <1>1, <2>1 DEF SpendInv, CostCovers, Behind
  <2>2. CASE cost' = spent["search"]
    <3>1. spent["search"] \in Nat
      BY SpendBounded DEF RequestInv, Typed, Phases
    <3> QED
      BY <1>1, <2>2, <3>1 DEF CostCovers, Behind
  <2> QED
    BY <2>1, <2>2 DEF Reclassified
<1> QED
  BY <1>1, <1>2, GoingOn DEF RequestInv

(* Analytics of the handler's own begins: none was there before.           *)
LEMMA StartingInlineSpends ==
  ASSUME RequestInv, SpendInv, RequestInv', NEW place \in {"joining", "cross"},
         NEW ts \in SUBSET {"spec"}, StartInline(place, ts), use = "none",
         at \notin {"idle", "searching", "done"}
  PROVE  SpendInv'
<1>1. PICK s \in {"running", "failed", "raised"} :
         task' = [Cancelled(ts) EXCEPT !["inline"] = s]
  BY DEF StartInline
<1>2. /\ at' = place /\ answer' = answer /\ stamped' = stamped
      /\ use' = "inline" /\ spent' = spent /\ rollup' = rollup /\ cost' = cost
  BY DEF StartInline, Proceed
<1>3. ts \in SUBSET Tasks /\ "inline" \in Tasks /\ "spec" \in Tasks /\ Phases \subseteq Tasks
  BY DEF Tasks, Phases
<1>4. \A t \in Tasks : task'[t] = IF t = "inline" THEN s ELSE Cancelled(ts)[t]
  BY <1>1, <1>3, CancelledTasks DEF RequestInv
<1>5. task["inline"] = "none"
  BY DEF RequestInv, Placed
<1>6. Steady
  BY <1>3, <1>4, <1>5, CancelledPhases DEF Steady, Live, Over
<1>7. task'["spec"] \in Live => task["spec"] \in Live
  BY <1>3, <1>4, CancelledPhases
<1>8. CostCovers'
  BY <1>2, <1>6, CostStands DEF Behind
<1> QED
  BY <1>2, <1>6, <1>7, <1>8, GoingOn DEF RequestInv

(* The handler goes on, at most cancelling, with the cost it had.          *)
LEMMA ProceedingSpends ==
  ASSUME RequestInv, SpendInv, RequestInv', NEW ts \in SUBSET Tasks,
         task' = Cancelled(ts), UNCHANGED <<accountVars, cost, stamped, answer>>,
         at # "done", at' \notin {"idle", "searching", "fallback", "done"},
         use' = use \/ (use' = "spec" /\ use = "none"),
         at' \in Behind => use' = "none" \/ (use' = use /\ at \in Behind)
  PROVE  SpendInv'
<1>1. spent' = spent /\ gate' = gate /\ rollup' = rollup
  BY DEF accountVars
<1>2. Steady /\ "spec" \in Tasks
  BY CancelledPhases DEF Tasks, Phases
<1>3. task'["spec"] \in Live => task["spec"] \in Live
  BY <1>2, CancelledPhases
<1>4. CostCovers'
  BY <1>1, <1>2, CostStands
<1> QED
  BY <1>1, <1>2, <1>3, <1>4, GoingOn DEF RequestInv

LEMMA GuidanceSpends ==
  ASSUME RequestInv, SpendInv, RequestInv', Guidance
  PROVE  SpendInv'
<1>1. at = "route" /\ use = "none" /\ answer = "none"
  BY DEF RequestInv, Placed, Guidance
<1>2. {"spec"} \in SUBSET Tasks
  BY DEF Tasks, Phases
<1>3. CASE StartInline("cross", {"spec"})
  BY <1>1, <1>3, StartingInlineSpends
<1>4. CASE Proceed("forcing") /\ task' = Cancelled({"spec"})
           /\ UNCHANGED <<use, accountVars, cost>>
  BY <1>1, <1>2, <1>4, ProceedingSpends DEF Proceed
<1>5. CASE Respond("ok", cost) /\ task' = Cancelled({"spec"}) /\ Clear
  <2>1. Steady /\ cost \in Nat
    BY <1>2, <1>5, CancelledPhases, Known
  <2> QED
    BY <1>1, <1>5, <2>1, AnsweringOk DEF RequestInv, SpendInv, CostCovers
<1> QED
  BY <1>3, <1>4, <1>5 DEF Guidance

LEMMA CrossEndsSpends ==
  ASSUME RequestInv, SpendInv, RequestInv', CrossEnds
  PROVE  SpendInv'
<1>1. at = "cross" /\ use = "inline" /\ task["inline"] \in Over /\ answer = "none"
      /\ Quiet("search") /\ task' = task /\ Steady
  BY DEF RequestInv, Placed, CrossEnds, Steady
<1> DEFINE known == IF task["inline"] \in {"ok", "failed"}
                    THEN cost + spent["inline"] ELSE RequestCost
<1>2. /\ known \in Nat
      /\ stamped => known >= spent["search"] + spent["inline"]
  <2>1. \A p \in Phases : spent[p] \in Nat /\ Settled(p) \in Nat
    BY SpendBounded DEF RequestInv, Typed, Settled
  <2>2. stamped => cost >= spent["search"]
    BY <1>1 DEF SpendInv, CostCovers
  <2>3. RequestCost >= spent["search"] + spent["inline"] /\ RequestCost \in Nat
    <3>1. Settled("search") = spent["search"] /\ Settled("inline") = spent["inline"]
      BY <1>1, WhatIsReported DEF Settled, Phases
    <3> QED
      BY <1>1, <2>1, <3>1, WhatIsReported, Known DEF AllSettled, Phases
  <2> QED
    BY <2>1, <2>2, <2>3, Known DEF Phases
<1>3. CASE Respond("ok", known) /\ Clear
  <2>1. stamped => known >= spent["search"]
    BY <1>2, SpendBounded DEF RequestInv, Typed, Phases
  <2> QED
    BY <1>1, <1>2, <1>3, <2>1, AnsweringOk DEF RequestInv
<1>4. CASE Proceed("forcing") /\ cost' = known /\ UNCHANGED <<use, accountVars>>
  <2>1. /\ at' = "forcing" /\ answer' = answer /\ stamped' = stamped
        /\ spent' = spent /\ gate' = gate /\ rollup' = rollup /\ use' = use
    BY <1>4 DEF Proceed, accountVars
  <2>2. spent["search"] \in Nat /\ spent["inline"] \in Nat
    BY SpendBounded DEF RequestInv, Typed, Phases
  <2>3. CostCovers'
    BY <1>1, <1>2, <1>4, <2>1, <2>2 DEF CostCovers
  <2> QED
    BY <1>1, <2>1, <2>3, GoingOn DEF RequestInv
<1> QED
  BY <1>3, <1>4 DEF CrossEnds

LEMMA BeginSpends ==
  ASSUME RequestInv, SpendInv, RequestInv', Begin
  PROVE  SpendInv'
<1>1. PICK early \in {"none", "created"} :
         task' = [task EXCEPT !["search"] = "running", !["spec"] = early]
  BY DEF Begin
<1>2. at = "idle" /\ at' = "searching" /\ answer' = answer /\ stamped' = stamped
      /\ UNCHANGED <<use, spent, rollup, cost>> /\ use = "none" /\ answer = "none" /\ ~stamped
  BY DEF Begin, Proceed, RequestInv, Placed, SpendInv, CostCovers
<1>3. \A t \in Tasks : task[t] = "none"
  BY <1>2 DEF RequestInv, Placed
<1>4. task'["search"] = "running" /\ task'["spec"] = early /\ task'["inline"] = "none"
  BY <1>1, <1>3 DEF RequestInv, Typed, Tasks, Phases
<1>5. Steady
  BY <1>3, <1>4 DEF Steady, Tasks, Phases, Live, Over
<1>6. CostCovers'
  BY <1>2 DEF CostCovers, Behind
<1>7. task'["spec"] \notin Live
  BY <1>4 DEF Live
<1> QED
  BY <1>2, <1>5, <1>6, <1>7, GoingOn DEF RequestInv

LEMMA TimerFiresSpends ==
  ASSUME RequestInv, SpendInv, RequestInv', TimerFires
  PROVE  SpendInv'
<1>1. task' = Cancelled({Awaited}) /\ at' = at /\ use' = use /\ stamped' = stamped
      /\ cost' = cost /\ answer' = answer /\ spent' = spent /\ gate' = gate /\ rollup' = rollup
  BY DEF TimerFires, accountVars
<1>2. {Awaited} \in SUBSET Tasks /\ at # "done" /\ "spec" \in Tasks
  BY DEF RequestInv, Typed, Awaited, TimerFires, Tasks, Phases, Rails
<1>3. Steady /\ (task'["spec"] \in Live => task["spec"] \in Live)
      /\ (task'["spec"] \in {"created", "running"} => task'["spec"] = task["spec"])
  BY <1>1, <1>2, CancelledPhases
<1>4. CostCovers'
  <2>1. answer = "none" /\ (use # "none" => use \in Phases)
    BY <1>2 DEF RequestInv, Placed, Typed, Phases
  <2> QED
    BY <1>1, <1>3, <2>1 DEF SpendInv, CostCovers, Steady
<1>5. at' = "fallback" => task'["spec"] \notin {"created", "running"}
  BY <1>1, <1>3 DEF SpendInv, SpecDropped
<1> QED
  BY <1>1, <1>2, <1>3, <1>4, <1>5, GoingOn DEF RequestInv

LEMMA SearchTimedOutSpends ==
  ASSUME RequestInv, SpendInv, RequestInv', SearchTimedOut
  PROVE  SpendInv'
<1> DEFINE ts == {"spec"}
<1>1. ts \in SUBSET Tasks /\ "spec" \in Tasks /\ "spec" \in ts /\ "explore" \notin Phases
      /\ Phases \subseteq Tasks
  BY DEF Tasks, Phases
<1>2. /\ at = "searching" /\ at' = "fallback" /\ answer' = answer /\ stamped' = stamped
      /\ spent' = spent /\ gate' = gate /\ rollup' = rollup /\ use' = use /\ cost' = cost
      /\ task' = [Cancelled(ts) EXCEPT !["explore"] = "running"]
  BY DEF SearchTimedOut, Proceed, accountVars
<1>3. \A p \in Phases : task'[p] = Cancelled(ts)[p]
  BY <1>1, <1>2, CancelledTasks DEF RequestInv
<1>4. Steady /\ (task'["spec"] \in Live => task["spec"] \in Live)
      /\ task'["spec"] \notin {"created", "running"}
  BY <1>1, <1>3, CancelledPhases DEF Steady, Phases
<1>5. CostCovers'
  BY <1>2, <1>4, CostStands DEF Behind
<1> QED
  BY <1>2, <1>4, <1>5, GoingOn DEF RequestInv

LEMMA AnalyticsUnavailableSpends ==
  ASSUME RequestInv, SpendInv, RequestInv', AnalyticsUnavailable
  PROVE  SpendInv'
<1>1. at = "route" /\ use = "none" /\ Quiet("search")
  BY DEF RequestInv, Placed, AnalyticsUnavailable
<1>2. {"spec"} \in SUBSET Tasks /\ "spec" \in Tasks /\ Phases \subseteq Tasks
      /\ "explore" \notin Phases
  BY DEF Tasks, Phases
<1>3. \A p \in Phases : task'[p] = Cancelled({"spec"})[p]
  BY <1>2, CancelledTasks DEF AnalyticsUnavailable, RequestInv
<1>4. Steady /\ task'["spec"] \notin {"created", "running"}
  BY <1>2, <1>3, CancelledPhases DEF Steady, Phases
<1> QED
  BY <1>1, <1>4, AnsweringLate DEF RequestInv, AnalyticsUnavailable

LEMMA AnalyticsSpends ==
  ASSUME RequestInv, SpendInv, RequestInv', Analytics
  PROVE  SpendInv'
<1>1. /\ at = "route" /\ at' = "analytics" /\ answer' = answer /\ stamped' = stamped
      /\ spent' = spent /\ gate' = gate /\ rollup' = rollup /\ use' = use /\ cost' = cost
      /\ task' = [task EXCEPT !["explore"] = "cancelled", !["scoped"] = "running"]
  BY DEF Analytics, Proceed, accountVars
<1>2. \A p \in Phases : task'[p] = task[p]
  BY <1>1 DEF RequestInv, Typed, Tasks, Phases
<1>3. Steady /\ task'["spec"] = task["spec"]
  BY <1>2 DEF Steady, Phases
<1>4. CostCovers'
  BY <1>1, <1>3, CostStands DEF Behind
<1> QED
  BY <1>1, <1>3, <1>4, GoingOn DEF RequestInv

LEMMA ChoicesSpend ==
  ASSUME RequestInv, SpendInv, RequestInv', Detour \/ DropSpec \/ JoinSpec
  PROVE  SpendInv'
<1>1. PICK place \in {"detour", "dropping", "joining"}, ts \in SUBSET {"spec"} :
         Proceed(place) /\ task' = Cancelled(ts) /\ use' \in {use, "spec"}
         /\ UNCHANGED <<accountVars, cost>>
  BY Known DEF Detour, DropSpec, JoinSpec
<1>2. at = "analytics" /\ use = "none" /\ ts \in SUBSET Tasks
  BY DEF Detour, DropSpec, JoinSpec, RequestInv, Placed, Tasks, Phases
<1> QED
  BY <1>1, <1>2, ProceedingSpends DEF Proceed, Behind

LEMMA CallAnalyticsSpends ==
  ASSUME RequestInv, SpendInv, RequestInv', CallAnalytics
  PROVE  SpendInv'
<1>1. at \in {"analytics", "dropping"} /\ StartInline("joining", {})
  BY DEF CallAnalytics
<1>2. use = "none"
  BY <1>1 DEF RequestInv, Placed
<1> QED
  BY <1>1, <1>2, StartingInlineSpends

(* request_llm_cost_usd covers search and, once it is over, analytics.     *)
LEMMA TimingOutSpends ==
  ASSUME RequestInv, SpendInv, RequestInv', TimedOut, at \in {"analytics", "joining"},
         use # "none" => task[use] \in Over
  PROVE  SpendInv'
<1>1. PICK place \in {"reaping", "grace"}, ts \in SUBSET {"scoped"} :
         Proceed(place) /\ task' = Cancelled(ts)
  BY Known DEF TimedOut
<1>2. /\ at' = place /\ answer' = answer /\ stamped' = stamped /\ cost' = RequestCost
      /\ use' = use /\ spent' = spent /\ gate' = gate /\ rollup' = rollup
  BY <1>1 DEF TimedOut, Proceed, accountVars
<1>3. ts \in SUBSET Tasks /\ "spec" \in Tasks
  BY DEF Tasks, Rails, Phases
<1>4. Steady /\ (task'["spec"] \in Live => task["spec"] \in Live)
  BY <1>1, <1>3, CancelledPhases
<1>5. Quiet("search") /\ answer = "none" /\ at # "done" /\ use \in {"none", "spec", "inline"}
  BY DEF RequestInv, Placed, Typed
<1>6. /\ RequestCost \in Nat /\ RequestCost >= spent["search"]
      /\ use # "none" => RequestCost >= spent["search"] + spent[use]
  <2>1. \A p \in Phases : spent[p] \in Nat /\ Settled(p) \in Nat
    BY SpendBounded DEF RequestInv, Typed, Settled
  <2>2. Settled("search") = spent["search"] /\ RequestCost >= AllSettled
    BY <1>5, WhatIsReported DEF Phases
  <2>3. use # "none" => Settled(use) = spent[use]
    BY DEF Settled
  <2> QED
    BY <1>5, <2>1, <2>2, <2>3, Known DEF AllSettled, Phases
<1>7. CostCovers'
  <2>1. use # "none" => task'[use] \in Over
    BY <1>4, <1>5 DEF Steady, Phases
  <2>2. at' \notin {"idle", "searching"}
    BY <1>2
  <2> QED
    BY <1>2, <1>5, <1>6, <2>1, <2>2 DEF CostCovers
<1> QED
  BY <1>2, <1>4, <1>5, <1>7, GoingOn DEF RequestInv

LEMMA BudgetExhaustedSpends ==
  ASSUME RequestInv, SpendInv, RequestInv', BudgetExhausted
  PROVE  SpendInv'
<1>1. at = "analytics" /\ use = "none" /\ TimedOut
  BY DEF RequestInv, Placed, BudgetExhausted
<1> QED
  BY <1>1, TimingOutSpends

LEMMA JoinEndsSpends ==
  ASSUME RequestInv, SpendInv, RequestInv', JoinEnds
  PROVE  SpendInv'
<1>1. at = "joining" /\ use \in {"spec", "inline"} /\ answer = "none"
  BY DEF RequestInv, Typed, Placed, JoinEnds
<1>2. task[use] \in Over
  BY <1>1 DEF JoinEnds, Over
<1>3. CASE task[use] = "cancelled"
  BY <1>1, <1>2, <1>3, TimingOutSpends DEF JoinEnds
<1>4. CASE task[use] = "crashed"
  <2>1. Respond("error", 0) /\ UNCHANGED <<task, accountVars>> /\ Steady
    BY <1>4 DEF JoinEnds, Steady
  <2> QED
    BY <1>1, <2>1, AnsweringError DEF RequestInv
<1>5. CASE task[use] \in {"ok", "failed", "raised"}
  <2>1. /\ Proceed("closing")
        /\ cost' = cost + (IF task[use] = "raised" THEN 0 ELSE spent[use])
        /\ task' = Cancelled({"scoped"})
        /\ UNCHANGED <<use, accountVars>>
    BY <1>5 DEF JoinEnds
  <2>2. /\ at' = "closing" /\ answer' = answer /\ stamped' = stamped /\ use' = use
        /\ spent' = spent /\ gate' = gate /\ rollup' = rollup
    BY <2>1 DEF Proceed, accountVars
  <2>3. {"scoped"} \in SUBSET Tasks /\ "spec" \in Tasks
    BY DEF Tasks, Rails, Phases
  <2>4. Steady /\ (task'["spec"] \in Live => task["spec"] \in Live)
    BY <2>1, <2>3, CancelledPhases
  <2>5. task'[use] = task[use]
    BY <1>1, <1>2, <2>4 DEF Steady, Phases
  <2>6. cost \in Nat /\ spent["search"] \in Nat /\ spent[use] \in Nat
    BY <1>1, SpendBounded DEF RequestInv, Typed, Phases
  <2>7. stamped => cost >= spent["search"]
    BY <1>1 DEF SpendInv, CostCovers
  <2>8. stamped' /\ answer' # "error" => cost' >= spent'["search"]
    BY <2>1, <2>2, <2>6, <2>7
  <2>9. stamped' /\ task'[use] # "raised" => cost' >= spent'["search"] + spent'[use]
    BY <2>1, <2>2, <2>5, <2>6, <2>7
  <2>10. CostCovers'
    BY <1>2, <2>2, <2>5, <2>8, <2>9 DEF CostCovers
  <2> QED
    BY <1>1, <2>2, <2>4, <2>10, GoingOn DEF RequestInv
<1> QED
  BY <1>2, <1>3, <1>4, <1>5 DEF Over

LEMMA LastWaitsSpend ==
  ASSUME RequestInv, SpendInv, RequestInv', CloseEnds \/ GraceEnds
  PROVE  SpendInv'
<1>1. at \in Behind /\ at # "done" /\ answer = "none" /\ cost \in Nat
  BY Known DEF CloseEnds, GraceEnds, Behind, RequestInv, Placed
<1>2. PICK ts \in SUBSET {"spec"} : task' = Cancelled(ts)
  BY Known DEF CloseEnds, GraceEnds
<1>3. ts \in SUBSET Tasks
  BY DEF Tasks, Phases
<1>4. CASE Respond("ok", cost) /\ Clear
  <2>1. Steady
    BY <1>2, <1>3, CancelledPhases
  <2> QED
    BY <1>1, <1>4, <2>1, AnsweringOk DEF RequestInv, SpendInv, CostCovers
<1>5. CASE Proceed("refill") /\ UNCHANGED <<use, accountVars, cost>>
  BY <1>1, <1>2, <1>3, <1>5, ProceedingSpends DEF Proceed
<1> QED
  BY <1>4, <1>5 DEF CloseEnds, GraceEnds

LEMMA HandlerSpends ==
  ASSUME RequestInv, SpendInv, HandlerStep
  PROVE  SpendInv'
<1>1. RequestInv'
  BY HandlerPreserves
<1> QED
  BY <1>1, PlainAnswersSpend, FallbackEndsSpends, SearchRaisedSpends,
     SearchReturnedSpends, ReclassifiedSpends, GuidanceSpends, CrossEndsSpends,
     BeginSpends, TimerFiresSpends, SearchTimedOutSpends,
     AnalyticsUnavailableSpends, AnalyticsSpends, ChoicesSpend,
     CallAnalyticsSpends, BudgetExhaustedSpends, JoinEndsSpends, LastWaitsSpend
     DEF HandlerStep

(* Early analytics that starts only now was neither charged nor dropped.   *)
LEMMA SpecStartsSpends ==
  ASSUME RequestInv, SpendInv, RequestInv', SpecStarts
  PROVE  SpendInv'
<1>1. PICK s \in {"running", "failed", "raised"} :
         /\ task' = [task EXCEPT !["spec"] = s]
         /\ gate' = IF s = "running" THEN "spec" ELSE gate
  BY DEF SpecStarts
<1>2. /\ task["spec"] = "created" /\ at' = at /\ use' = use /\ spent' = spent
      /\ rollup' = rollup /\ stamped' = stamped /\ cost' = cost /\ answer' = answer
  BY DEF SpecStarts
<1>3. /\ task'["spec"] = s /\ \A t \in Tasks \ {"spec"} : task'[t] = task[t]
      /\ Phases \subseteq Tasks /\ "spec" \in Phases
  BY <1>1 DEF RequestInv, Typed, Tasks, Phases
<1>4. spent["spec"] = 0
  BY <1>2, <1>3 DEF SpendInv, NothingSpentYet
<1>5. NothingSpentYet'
  BY <1>2, <1>3, <1>4 DEF SpendInv, NothingSpentYet
<1>6. RollupExact'
  <2>1. \A p \in Phases : Settled(p)' = Settled(p)
    BY <1>2, <1>3, <1>4 DEF Settled, Over
  <2> QED
    BY <1>2, <2>1 DEF SpendInv, RollupExact, Answered, AllSettled, Phases
<1>7. GateOfLast'
  BY <1>1, <1>3 DEF GateOfLast, Live
<1>8. SpecDropped' /\ LateAnswer'
  BY <1>2 DEF SpendInv, SpecDropped, LateAnswer, Total
<1>9. CostCovers'
  <2>1. use \in {"none", "spec", "inline"}
    BY DEF RequestInv, Typed
  <2>2. "inline" \in Tasks \ {"spec"} /\ "created" \notin Over
    BY DEF Tasks, Phases, Over
  <2> QED
    BY <1>2, <1>3, <2>1, <2>2 DEF SpendInv, CostCovers
<1> QED
  BY <1>5, <1>6, <1>7, <1>8, <1>9 DEF SpendInv

(* Who is still charged has not been answered for.                         *)
LEMMA ChargeSpends ==
  ASSUME RequestInv, SpendInv, NEW p \in Phases, Charge(p)
  PROVE  SpendInv'
<1>1. /\ task[p] = "running"
      /\ spent' = [spent EXCEPT ![p] = @ + 1]
      /\ at' = at /\ task' = task /\ use' = use /\ gate' = gate /\ rollup' = rollup
      /\ stamped' = stamped /\ cost' = cost /\ answer' = answer
  BY DEF Charge
<1>2. \A q \in Phases : spent'[q] = IF q = p THEN spent[q] + 1 ELSE spent[q]
  BY <1>1 DEF RequestInv, Typed
<1>3. NothingSpentYet'
  BY <1>1, <1>2 DEF SpendInv, NothingSpentYet
<1>4. \A q \in Phases : Settled(q)' = Settled(q)
  BY <1>1, <1>2 DEF Settled, Over
<1>5. RollupExact' /\ GateOfLast' /\ SpecDropped'
  BY <1>1, <1>4 DEF SpendInv, RollupExact, Answered, GateOfLast, SpecDropped, AllSettled,
                    Phases
<1>6. LateAnswer'
  <2>1. answer \notin {"timeout", "unavailable"}
    <3>1. SUFFICES ASSUME answer \in {"timeout", "unavailable"} PROVE FALSE
      OBVIOUS
    <3>2. Quiet("search") /\ Quiet("inline") /\ task["spec"] # "running"
      BY <3>1 DEF RequestInv, Placed, SpendInv, SpecDropped
    <3> QED
      BY <1>1, <3>2 DEF Quiet, Phases
  <2> QED
    BY <1>1, <2>1 DEF LateAnswer
<1>7. CostCovers'
  <2>1. p = "search" => at = "searching"
    BY <1>1 DEF RequestInv, Placed, Quiet
  <2>2. use # "none" => use \in Phases
    BY DEF RequestInv, Typed, Phases
  <2>3. stamped => spent'["search"] = spent["search"]
    BY <1>2, <2>1 DEF SpendInv, CostCovers, Phases
  <2>4. use # "none" /\ task[use] \in Over => spent'[use] = spent[use]
    BY <1>1, <1>2, <2>2 DEF Over
  <2> QED
    BY <1>1, <2>3, <2>4 DEF SpendInv, CostCovers
<1> QED
  BY <1>3, <1>5, <1>6, <1>7 DEF SpendInv

(* What was active moves to the rollup.                                    *)
LEMMA PhaseEndsSpends ==
  ASSUME RequestInv, SpendInv, NEW p \in Phases, PhaseEnds(p)
  PROVE  SpendInv'
<1>1. PICK s \in Over : task' = [task EXCEPT ![p] = s]
  BY DEF PhaseEnds, Over
<1>2. /\ task[p] \in Live /\ at' = at /\ use' = use /\ spent' = spent
      /\ stamped' = stamped /\ cost' = cost /\ answer' = answer
  BY DEF PhaseEnds, Live
<1>3. /\ rollup' = (IF rollup = Absent THEN 0 ELSE rollup) + spent[p]
      /\ gate' = IF gate = p THEN "none" ELSE gate
  BY DEF PhaseEnds, Finalize
<1>4. \A q \in Phases : task'[q] = IF q = p THEN s ELSE task[q]
  BY <1>1 DEF RequestInv, Typed, Tasks
<1>5. \A q \in Phases : spent[q] \in Nat /\ Settled(q) \in Nat
  BY SpendBounded DEF RequestInv, Typed, Settled
<1>6. NothingSpentYet'
  BY <1>2, <1>4 DEF SpendInv, NothingSpentYet, Over
<1>7. RollupExact'
  <2>1. Settled(p) = 0 /\ Settled(p)' = spent[p]
    BY <1>2, <1>4 DEF Settled, Live, Over
  <2>2. \A q \in Phases \ {p} : Settled(q)' = Settled(q)
    BY <1>2, <1>4 DEF Settled
  <2>3. rollup' # Absent
    BY <1>3, <1>5 DEF RequestInv, Typed, Absent
  <2> QED
    BY <1>2, <1>3, <1>5, <2>1, <2>2, <2>3
       DEF SpendInv, RollupExact, Answered, AllSettled, Phases
<1>8. GateOfLast'
  BY <1>2, <1>3, <1>4 DEF SpendInv, GateOfLast, Phases, Live, Over
<1>9. SpecDropped' /\ LateAnswer'
  BY <1>2, <1>4 DEF SpendInv, SpecDropped, LateAnswer, Total, Phases, Over
<1>10. CostCovers'
  <2>1. use # "none" => use \in Phases
    BY DEF RequestInv, Typed, Phases
  <2>2. use # "none" /\ task[use] \in Over => task'[use] = task[use]
    BY <1>2, <1>4, <2>1 DEF Live, Over
  <2> QED
    BY <1>2, <2>2 DEF SpendInv, CostCovers
<1> QED
  BY <1>6, <1>7, <1>8, <1>9, <1>10 DEF SpendInv

LEMMA RailEndsSpends ==
  ASSUME RequestInv, SpendInv, NEW r \in Rails, RailEnds(r)
  PROVE  SpendInv'
<1>1. PICK s \in Over : task' = [task EXCEPT ![r] = s]
  BY DEF RailEnds, Over
<1>2. /\ at' = at /\ use' = use /\ spent' = spent /\ gate' = gate /\ rollup' = rollup
      /\ stamped' = stamped /\ cost' = cost /\ answer' = answer
  BY DEF RailEnds, accountVars
<1>3. \A p \in Phases : task'[p] = task[p]
  BY <1>1 DEF RequestInv, Typed, Tasks, Phases, Rails
<1>4. /\ \A p \in Phases : Settled(p)' = Settled(p)
      /\ task'["spec"] = task["spec"] /\ (use # "none" => task'[use] = task[use])
  BY <1>2, <1>3 DEF Settled, RequestInv, Typed, Phases
<1>5. NothingSpentYet' /\ RollupExact' /\ GateOfLast' /\ SpecDropped' /\ LateAnswer'
  BY <1>2, <1>3, <1>4
     DEF SpendInv, NothingSpentYet, RollupExact, Answered, GateOfLast, SpecDropped,
         LateAnswer, AllSettled, Total, Phases
<1>6. CostCovers'
  BY <1>2, <1>4 DEF SpendInv, CostCovers
<1> QED
  BY <1>5, <1>6 DEF SpendInv

LEMMA NextSpendInv == RequestInv /\ RequestInv' /\ SpendInv /\ [Next]_vars => SpendInv'
<1> SUFFICES ASSUME RequestInv, RequestInv', SpendInv, [Next]_vars PROVE SpendInv'
  OBVIOUS
<1>1. CASE HandlerStep
  BY <1>1, HandlerSpends
<1>2. CASE SpecStarts
  BY <1>2, SpecStartsSpends
<1>3. ASSUME NEW p \in Phases, Charge(p) \/ PhaseEnds(p) PROVE SpendInv'
  BY <1>3, ChargeSpends, PhaseEndsSpends
<1>4. ASSUME NEW r \in Rails, RailEnds(r) PROVE SpendInv'
  BY <1>4, RailEndsSpends
<1>5. CASE UNCHANGED vars
  BY <1>5
     DEF vars, accountVars, SpendInv, NothingSpentYet, RollupExact, Answered, GateOfLast,
         SpecDropped, LateAnswer, CostCovers, AllSettled, Settled, Total
<1> QED
  BY <1>1, <1>2, <1>3, <1>4, <1>5 DEF Next

LEMMA RequestAndSpend == Spec => [](RequestInv /\ SpendInv)
<1>1. RequestInv /\ SpendInv /\ [Next]_vars => RequestInv' /\ SpendInv'
  BY NextRequestInv, NextSpendInv
<1> QED
  BY <1>1, InitRequestInv, InitSpendInv, PTL DEF Spec

-----------------------------------------------------------------------------

(* Every variable has its type; in particular neither the rollup nor the   *)
(* cost answered exceeds what three phases can spend.                      *)
THEOREM RequestTypeCorrect == Spec => []TypeOK
<1>1. RequestInv => TypeOK
  <2> SUFFICES ASSUME RequestInv PROVE TypeOK
    OBVIOUS
  <2>1. \A p \in Phases : spent[p] \in 0 .. MaxSpend /\ Settled(p) \in 0 .. MaxSpend
    BY SpendBounded DEF RequestInv, Typed, Settled
  <2>2. rollup \in {Absent} \cup 0 .. 3 * MaxSpend
    BY <2>1, SpendBounded DEF RequestInv, RollupSettled, AllSettled, Typed, Phases
  <2>3. cost \in 0 .. 3 * MaxSpend
    BY <2>1, SpendBounded DEF RequestInv, CostKnown, Total, Typed, Phases
  <2> QED
    BY <2>2, <2>3 DEF RequestInv, Typed, TypeOK, States
<1> QED
  BY <1>1, RequestIsConsistent, PTL

(* A gate is active only for a phase in progress, and request_llm_cost_usd *)
(* never reports more than the phases of the request have spent.           *)
THEOREM NoPhaseIsCountedTwice == Spec => []NoPhaseCountedTwice
<1>1. RequestInv => NoPhaseCountedTwice
  BY CostBelowTotal DEF RequestInv, GateActive, NoPhaseCountedTwice
<1> QED
  BY <1>1, RequestIsConsistent, PTL

(* After a response the only gate is that of early analytics under way,    *)
(* and the rollup holds nothing but what early analytics that ended later  *)
(* has spent; after a 422 or a 500, which release nothing, it holds        *)
(* exactly what the phases that are over have spent.                       *)
THEOREM AccountsAfterTheAnswer == Spec => []AccountsClosed
<1>1. RequestInv /\ SpendInv => AccountsClosed
  <2> SUFFICES ASSUME RequestInv, SpendInv, at = "done" PROVE AccountsClosed
    BY DEF AccountsClosed
  <2>1. Quiet("search") /\ Quiet("inline")
    BY DEF RequestInv, Placed
  <2>2. gate # "none" => gate = "spec" /\ task["spec"] \in Live
    BY <2>1 DEF RequestInv, GateActive, Typed, Phases, Quiet, Live
  <2> QED
    BY <2>2 DEF RequestInv, OnlySpecRefills, SpendInv, RollupExact, AccountsClosed
<1> QED
  BY <1>1, RequestAndSpend, PTL

(* Of the tasks of a request only the early analytics outlives its answer. *)
THEOREM TasksEndWithTheAnswer == Spec => []OnlyEarlyAnalyticsOutlives
<1>1. RequestInv => OnlyEarlyAnalyticsOutlives
  BY DEF RequestInv, Placed, Quiet, Answered, OnlyEarlyAnalyticsOutlives,
         Tasks, Phases, Rails
<1> QED
  BY <1>1, RequestIsConsistent, PTL

(* decision_cost_usd of a response is, after a time-out or with a store    *)
(* unavailable, all that the request has spent and ever will.  Any other   *)
(* answer reports no more than that, and at least what search and the      *)
(* analytics used have spent, unless the intent is not the one search      *)
(* stamped or analytics raised: for these there is no lower bound.         *)
THEOREM SpendIsReported == Spec => []SpendReported
<1>1. RequestInv /\ SpendInv => SpendReported
  <2> SUFFICES ASSUME RequestInv, SpendInv PROVE SpendReported
    OBVIOUS
  <2>1. cost \in Nat /\ spent["search"] \in Nat /\ cost <= Total
    BY SpendBounded DEF RequestInv, Typed, CostKnown, Phases
  <2>2. answer = "ok" /\ stamped /\ (use # "none" => task[use] # "raised") =>
           cost >= spent["search"] + (IF use = "none" THEN 0 ELSE spent[use])
    <3>1. CASE use = "none"
      BY <2>1, <3>1 DEF SpendInv, CostCovers
    <3>2. CASE use # "none"
      BY <3>2 DEF SpendInv, CostCovers
    <3> QED
      BY <3>1, <3>2
  <2> QED
    BY <2>1, <2>2 DEF SpendInv, LateAnswer, SpendReported
<1> QED
  BY <1>1, RequestAndSpend, PTL

=============================================================================
