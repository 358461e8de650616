# Formal models of semantic-search

TLA+ specifications of the search service in `src/packages/semantic-search` (with
`src/packages/llm-core`), the TLC configurations that check them on small
instances, and TLAPS proofs of their main invariants for all values of the
constants. Paths below are relative to
`src/packages/semantic-search/semantic_search/` unless they begin with `src/`.

## 1. The system

A query enters `app.py`, and `orchestrator.py` answers it: query intelligence
(`qi/`) turns text into an intent, with the help of LLM calls when the cheaper
tiers are unsure; retrievers (Qdrant, an in-memory structured index, ClickHouse
SQL) return candidates in parallel; fusion and an external eRanker order them;
caches keep the results. A query that aggregates is answered by analytics
instead, which the handler may start before it knows what the query is, next to
rails of interesting listings. Background drivers keep the indexes fresh, and
ingest bumps a snapshot version that invalidates the caches. One asyncio event
loop runs all of it. Interleaving happens at `await`s, and, for the objects
behind a `threading.Lock`, between threads.

| Component | State | Operations | Interacts with | Hard behaviour | Correct when |
|---|---|---|---|---|---|
| LLM circuit breaker, `resilience/circuit_breaker.py` | state, opened-at, probe streak, event window | `allow_request`, `record_success`, `record_failure`, `reset` | router, QI ensemble | outcomes of calls admitted in an earlier state; lost probes | fields agree; cut for a whole cooldown; only a streak of successes closes it; recovers |
| LLM call router, `core/llm_client.py` | per call: chain position | `call_structured` | breaker, health registry, cost gate, structural gate, providers | cancellation at each await, two observers, errors outside the retry list | both observers see one history; only failures cut traffic |
| Backend health, `resilience/health.py` | verdict, unhealthy-since, window per backend | `record`, `is_healthy`, `is_probe_eligible` | planner, retrieval, eRanker, router | verdict depends on what drained from the window, and on time | an unhealthy backend stays so for the recovery time and then can leave |
| Planner and fan-out, `resilience/degradation.py`, `orchestrator.py` | calls awaited by each request | `plan`, `_gather_candidates`, `_safe_retrieve`, `_apply_eranker` | health registry, retrievers, eRanker | late outcomes, rescues outside the plan, one call raising in `gather` | a backend that serves again gets traffic again |
| Cost budgets, `cost/` | query total, hour and day buckets, in memory or Redis | `check_admit`, `record_cost`, `RequestCostGate` | router, orchestrator | charge after await; Redis failing on one side; reply lost; a breach raised between two records | overspending bounded by calls in progress; each cost counted as often as the code says |
| Structural gate, `core/structural_gate.py` | capability record per model and schema, probe locks | `ensure_probed`, `filter_capable_chain`, `invalidate` | router | single flight, expiry, cancelled probe | probes are shared; no lookup waits for ever |
| A search request, `app.py`, `orchestrator.py` | tasks of the handler, active gate and rollup of its id | the handler of `POST /search`, cost phases, `clear_request_llm_cost` | analytics, rails, cost gates | tasks that overlap, time out, are cancelled with and without being awaited | every request is answered, its spend is reported and not twice, what is left of it is known |
| Result caches, `cache/`, `orchestrator.py` | entries with time to live, count, bytes, version tags; the unkeyed fallback slot | `get`, `put`, `invalidate_all` | orchestrator, snapshot registry | result computed before a bump and stored after it | tags are current; accounting agrees with contents; staleness is bounded |
| Ingest and snapshot registry, `ingest/in_memory_consumer.py` | version, bump hooks | `bump`, `register` | caches, refresh driver | hooks run inside the bump | every cache is told of each bump |
| Refresh drivers and indexer, `vectorization/` | cursor or last version, failure count, pause | tick, cycle, `start`, `stop`, `run` | Athena, Qdrant, ClickHouse, lifespan | partial failure, restart, pause, cancellation, uncaught errors, a window over one stamp and partitions by another | seen means indexed; what the cursor passes unpatched is late, counted, in another hour or reindexed; both catch up or are known to have stopped |
| Rate limiter, `middleware/rate_limit.py` | main and burst windows per session, LRU | `check_and_record`, `retry_after_seconds` | HTTP middleware, analytics | two windows evicted independently | admissions per window bounded; an obedient client is admitted |
| Inventory percentiles, `inventory/resolver.py` | cached percentiles | resolve, `invalidate_on_bump` | orchestrator | one lock around each operation | |
| LLM provider and ranking, `src/packages/llm-core` | ranking, refresh task | `get_client_for_model`, refresh | router | refresh failing half way | last good ranking is kept |
| Query intelligence, `qi/` | learned thresholds, transforms | classify, transform | router, breaker | parallel tiers with time-outs | a lost LLM tier degrades, never fails |
| Event ingest and enrichment drivers, `vectorization/` | cursor | cycle | ClickHouse | the delta driver's | |
| History and compactor, `history/` | rows per user, vector per user | append, compact, `forget_user` | orchestrator, rails | forgetting during a compaction, for a store that awaits | a forgotten user has no vector |
| Signals, uploads, analytics, rails, retrievers, fusion, safety, calibration, configuration, training | mostly pure, I/O or offline | | | | functions of their inputs |

## 2. Modules

| Module | Models | How it corresponds to the code |
|---|---|---|
| `CircuitBreaker` | the breaker's methods | variables are the fields of `CircuitBreaker.__init__`; one action per method, each the body of a critical section |
| `BreakerContract` | what the breaker promises | three modes, the time since traffic was cut, the success streak; no rolling window |
| `BackendHealth` | the health registry | `RecordOutcome` is `record` with `_evict_old` and `_reassess`; `IsHealthy` and `IsProbeEligible` are the two questions asked of it |
| `LLMCallRouter` | concurrent `call_structured` calls and the QI ensemble's consultation | extends `CircuitBreaker` and instantiates `BackendHealth` for the one backend `llm`; one action per stretch of code between two awaits |
| `DegradedRetrieval` | planner, fan-out, rescues, eRanker step | extends `BackendHealth`; a request is idle, fetching, rescuing, ranking, or failed with calls still going |
| `CostBudget` | query and fleet budgets behind `RequestCostGate` | a call occupies a slot from `check_admit` to its charge; `Readings` and `Add` are the two halves of the store; each replica has the store its boot gave it |
| `StructuralGate` | the capability record of one model and schema, and its probe lock | `holder` and `queue` are the key's `asyncio.Lock`; an expired record reads as absent |
| `SearchRequest` | one `POST /search`: the handler, the tasks it starts, and the accounts they share under the request's id | `at` is the await the handler stands at; a task is created, running, cancelling or over; `gate` and `rollup` are the id's entries of `_active_cost_gate_by_rid` and `_accumulated_llm_cost_usd`; `cost` is the response's `decision_cost_usd` |
| `LruTtlStore` | `LRUTTLCache` | operators on a record of its three fields; each method is an operator from store to store |
| `ServingCaches` | what concurrent searches share: exact cache, structured cache, fallback slot, snapshot registry | extends `LruTtlStore`; a search goes from look-up to planning, retrieval, fusion, rails when results are few, and reply, or to a fallback; data are known by the version they were read from; rails may show any version that was current less than `RailLag` ago |
| `IndexFreshness` | refresh driver, delta driver, indexer and their lifespan, with the index, the audit table and crashes | one block of variables per driver; the audit table gives each row its event stamp and the hour of its `src_receive` stamp; `Gone` is what a process takes with it. `missed` and `rewritten` are no state of the code: they name the rows the cursor may pass and the points whose patches an index run undid |
| `RateLimiter` | `SlidingWindowRateLimiter` | two stores, each an order and a sequence of admission times per client; a check and its `retry_after_seconds` are one step. `granted`, `recent` and `promise` are no state of the code: they remember the admissions of the last window, the callers and what each was told |
| `*_proofs` | TLAPS proofs | extend the module they are about |
| `MC*` | small instances | sets of calls, requests, queries, listings and clients, and their symmetries |

Composition. The router runs the breaker and a registry together; retrieval runs
the registry for its backends; `CostBudget` is the budget whose gates
`SearchRequest` accounts for; the events that bump the version in
`ServingCaches` are those the refresh driver of `IndexFreshness` follows.

Time. The breaker and the registry compare times only with their window, their
cooldown and their recovery time. So time is relative to now and discrete: the
event window is the number of outcomes of each age, an opening is the time since
it happened, capped at the bound it is compared with, and `Tick` makes everything
one tick older. A recorded order of events within one instant is never read.
Caches count the time an entry has left. `RateLimiter` and `IndexFreshness` keep
absolute times, because Retry-After and cursors do.

`SearchRequest` follows the event loop of Python 3.12: `wait_for` cancels what it
awaits and returns when that has unwound; a task cancelled before its first step
never begins; a coroutine that is awaited directly runs at once, a created task
when the loop comes to it. What a query turns out to be (listing, guidance,
analytics), and whether backends are up, is an arbitrary choice where the handler
looks at it.

Actions whose comment begins with "Fault:" are not part of any specification.
Each is a plausible bug (a dropped guard, a missing reset, an off-by-one) that
takes the place of the definition after it to show that a property can fail.

## 3. Checks

Each run answers one question. `X.cfg` belongs to module `X`, unless a module is
named.

| Run | Configuration | Shows |
|---|---|---|
| `search_request` | `MCSearchRequest` of `SearchRequest` | however search, early and inline analytics and rails end, time out and overlap: every request is answered; no spend is counted twice; a time-out reports all that was spent, other answers at most that and, unless reclassified or raised, at least what search and the analytics used have cost; no task but early analytics outlives the response; of the accounts only early analytics' gate and late spend are left, and after a 422 or 500 exactly what finished phases have spent |
| `serving_caches` | `MCServingCaches` | two searches and their fallbacks across bumps, expiries and evictions: the stores keep their books, no entry has an old tag, and what the inventory left behind is gone from the structured cache after a search and a life, from the exact cache after a search, a life and the longer of that and the lag of a rail, from the slot after the lag of a rail, a search, a fallback and a life. These bounds are what the code gives, not the 60 s that are written about it (section 6) |
| `index_freshness` | `MCIndexFreshness` | failed and repeated batches, failed patches, cycles that fail and are counted or end their task, late rows and rows in another hour's partition, crashes and restarts: a version is seen only when all of it is indexed; the mutable fields are as new as the rows the delta cursor has passed, but for those it did not get, did not patch and counted, or an index run undid; and both drivers catch up with the version and with the present, however cycles fail, unless they are paused or have ended |
| `router` | `MCLLMCallRouter` | two calls over a chain of up to two models, with cancellations, gate rejections and escaping errors: the breaker's fields agree, it refines `BreakerContract`, breaker and registry hold the same outcomes, only a failing provider cuts traffic, and once providers answer for good the breaker closes for good |
| `structural_gate` | `MCStructuralGate` | four lookups of one model under time-outs, cancellations, expiry and invalidation: one probe at a time, none while the verdict is known, no lookup left behind a lock that nobody will release, and none that waits for ever |
| `retrieval` | `MCDegradedRetrieval` | two requests to a retriever and the eRanker: an unhealthy backend is dated and stays unhealthy for the recovery time |
| `retrieval_recovery` | `MCRetrievalRecovery` of `MCDegradedRetrieval` | two retrievers that replace each other: one that serves for good leaves `unhealthy` for good |
| `fleet` | `MCCostBudget` | two replicas, each on its memory or on a Redis that fails in reads, writes and replies: requests, processes and the fleet overspend by less than the call slots cost; each cost is counted once in the hour and in the day, in the memory or the Redis of its replica, twice only when a reply of Redis is lost, and nowhere when it breaches its query's cap |
| `rate_limiter` | `MCRateLimiter` | three clients in stores for two: no window holds more than its admissions and bursts; a client that waits as long as it was told is admitted; only the least recent caller is forgotten |
| `eranker_recovery`, `rollup_released`, `shutdown` | `MCERankerRecovery` of `MCDegradedRetrieval`, `MCRollupReleased` of `SearchRequest`, `MCShutdown` of `MCIndexFreshness` | disagreements between the code and what is written about it (section 6); each checks one property and ends in a counterexample |

**Bounds.** Two calls, requests or searches suffice for a late outcome of one to
meet a transition caused by the other. Thresholds (`MinCalls`, `Required`,
`MinObservations`) are 2, the least that makes a streak or a rate differ from a
single outcome; the rate is 1/2, so one success can outweigh one failure.
Windows, cooldowns and recovery times are 1 to 3 ticks; recovery is shorter than
the health window in `router`, and equal to it or longer in the retrieval runs,
so outcomes both outlive an opening and drain during it.
The gate has four lookups: a prober, the first in its queue and two behind it.
`MaxPerTick` and `MaxObsPerTick` bound the outcomes recorded in one tick (in
`retrieval_recovery` to 1, so that the liveness graph stays small: two ticks still
cross the threshold). In `CostBudget` a call costs at most 2 against caps of 2 and
3, so a call can land below, at and above each cap; `MaxLedger` ends a day at 5,
two above its cap.

`SearchRequest` is one request, because all it shares is keyed by its id;
`MaxSpend = 2` lets each phase spend something before and after another begins.
`ServingCaches` has two queries of different size in stores that hold two
entries or two bytes, so either limit evicts; a life is two ticks, a search and
a fallback one each, and one bump is what an entry needs to lag. A rail lags up
to four ticks, longer than a search and a life together, as the code's 120 s are
longer than its 60 s and 20 s, so that it is the rails that decide the bound of the
exact cache. `IndexFreshness` has two listings, one of them audited, so that a
batch can fail between two that succeed and one listing can be left to the
refresh driver; the clock runs to 3, one and a half windows of `Chunk = 2`, with
rows up to `Delay = 1` late, hours of two ticks and the stamps of a row up to one
tick apart, so that a row can be in an hour before those of its window (behind them
it can be only when the stamps are further apart, which the theorem covers). There
are at most two rows, which is what it takes for a newer one to hide an older, and
time stops at 1 where events come in (`MCNext`): the two drivers meet in the index
alone, and the product of everything each can go through is too large. Both drivers pause after two failures, so that each fails, goes on and
catches up, and each fails and pauses. `shutdown` has one row at most and no events.
`RateLimiter` has
two admissions and one burst to a window of two seconds at two ticks each, so that
Retry-After is rounded, and six ticks, so that a window ends and the next one
fills.

`CHECK_DEADLOCK` is off for `SearchRequest` alone: an answered request stops. It
is on everywhere else: time passes, or, where `MaxTime` stops the clock, a process
can always end and begin, or a client call.

**Fairness.** `LLMCallRouter!FairSpec`: the clock advances (weak); a request
keeps asking (weak), and is not refused by the half-open dice every time it could
be admitted (strong; `half_open_probe_ratio` is validated to be above 0); the gate
ends (weak) and does not reject for ever (strong); a call whose provider answers
is not cancelled every time (strong: a time-out bounds one call, not all).
Nothing is assumed of `Cancel`, `Escape`, `EnsembleConsults` and
`ProviderChanges`. `StructuralGate!FairSpec`: the event loop runs a woken
lookup, and `wait_for` ends every probe. `DegradedRetrieval!FairSpec`: the clock
advances; a request in progress makes progress; requests for all retrievers keep
coming; a retriever or eRanker that serves is not cancelled every time. With no
traffic, nothing in the code would make a backend recover; the liveness
properties are about a service in use. `SearchRequest!FairSpec`: the event loop
runs the handler, starts tasks, and unwinds those that were cancelled. That a task
left alone ever returns is not assumed; the timers are part of the handler's steps,
which are weakly fair: what the handler waits for returns or is cancelled.
`IndexFreshness!FairSpec`: the drivers' tasks and `stop()` are run, and Qdrant,
Athena and ClickHouse answer or fail; nothing is assumed of which. A failure may
also end the delta driver's task, after which nothing runs it:
`DriversCatchUp` has that as a case of its own, next to the pause. Events, crashes, the clock and the audit table need not do
anything. `fetch_delta` without Athena credentials skips a cycle without
counting a failure (`vectorization/delta_driver.py:193`); the model has
credentials. `ServingCaches` and `RateLimiter` have safety properties only.

## 4. Proofs

| Theorem | For all | Argument |
|---|---|---|
| `LLMCallRouter_proofs!BreakerTypeCorrect`, `BreakerConsistency` | window, cooldown, thresholds | inductive invariant: types and `BreakerConsistent`. The latter is inductive: `half_open` is entered only from `open`, which has a date and no streak |
| `LLMCallRouter_proofs!ImplementsContract` | the same | refinement mapping `mode <- state`, `cut <- openFor` while not closed, `streak <- probes`; each method maps to a step or a stutter under that invariant |
| `LLMCallRouter_proofs!RouterTypeCorrect`, `RouterKeepsBreakerConsistent`, `RouterKeepsContract` | calls, chain lengths, both configurations | each router step is one method of the breaker or leaves it alone, and one `record` of the registry or leaves it alone |
| `LLMCallRouter_proofs!RouterCutsOnFailure` | the same | every step but a failing call's last leaves a closed breaker closed |
| `LLMCallRouter_proofs!ObserversAgree` | the same | with equal windows the two event counts start equal, age alike, and each outcome goes to both |
| `StructuralGate_proofs!GateTypeCorrect`, `SharedProbes` | lookups, time to live | the prober is the holder of the lock, and a held lock implies that no verdict is known: only the holder records one, and it gives the lock up in the same step |
| `StructuralGate_proofs!NobodyLeftBehind` | the same | the queue holds exactly the waiting lookups, each once (`QueueOfWaiting`): were one in it twice, its cancelled wait would leave it there. With the holder a prober, this is the part of `LookupsEnd` that is safety |
| `DegradedRetrieval_proofs!RetrievalTypeCorrect` | backends, fallback chains, requests, thresholds | the registry keeps its types under `RecordOutcome` and `HealthTick`; a request awaits retrievers or the eRanker only |
| `DegradedRetrieval_proofs!Dates` | the same | `Since` dates each entry into `unhealthy` and drops the date only on leaving it; the contents of the window are left arbitrary |
| `DegradedRetrieval_proofs!QuietPeriod` | the same | every branch of `Verdict` that leaves `unhealthy` requires the recovery time; a dated backend has it only when it has passed |
| `CostBudget_proofs!TypeCorrect`, `QueryOvershoot`, `FleetOvershoot` | calls, requests, replicas, caps, costs | `total + MaxCost * pending < cap + MaxCost * slots` is inductive: an admission finds the total below the cap and a slot free, a charge turns a pending call into at most `MaxCost` |
| `CostBudget_proofs!SpendReachesFleet` | the same | only `Answer` spends. A cost that breaches the request's cap is added nowhere; any other to the replica's own memory, to Redis, or, when a write fails or its reply is lost, to the memory it falls back on, in the last case to both |
| `SearchRequest_proofs!RequestTypeCorrect`, `NoPhaseIsCountedTwice`, `AccountsAfterTheAnswer`, `TasksEndWithTheAnswer` | bounds on the spend | inductive invariant `RequestInv`: which task may be under way at which place (`Placed`), the active gate belongs to a live phase (`GateActive`), the rollup holds at most what phases that are over have spent (`RollupSettled`), the cost so far is search's until analytics was awaited (`CostKnown`), and behind an answer only early analytics that is over refills the rollup (`OnlySpecRefills`). A live gate and a rollup of finished phases cannot count the same phase. `AccountsAfterTheAnswer` also needs `SpendInv` of the next row: a 422 and a 500 leave the rollup as it was before, which is exactly what finished phases have spent |
| `SearchRequest_proofs!SpendIsReported` | the same | `SpendInv` on top of `RequestInv`: until an answer clears it the rollup is exactly what finished phases have spent (`RollupExact`), the active gate is early analytics' as long as it lives and the handler has begun no analytics of its own (`GateOfLast`), a time-out or an unavailable store answers with their sum when nothing can spend any more (`LateAnswer`), and behind the join the cost covers search and the analytics used (`CostCovers`) |
| `ServingCaches_proofs!CachesTypeCorrect`, `TagsStayCurrent`, `StalenessIsBounded` | searches, queries, sizes, lives, time limits, lag of rails | inductive invariant `CachesInv`: for an entry that lags, the time since the last bump and the time it has left add up to at most the bound of its cache (`OneLife`, `ExactLife`, `SlotLife`), and what a search or a fallback has read and merged is bounded by its age (`ReadBounded`), which is within its limit (`InTime`). Time moves the two summands in opposite directions, hits move neither; rails bring in data at most `RailLag` behind the moment they were read, which is as old as the search that started them |
| `ServingCaches_proofs!StoresKeepAccounts` | the same | every method keeps a store `Booked` (no key twice, sizes for exactly its keys, bytes their sum), and `put` ends with a store that fits, because dropping everything would. The bytes are a fold over a set of keys in no given order. That it takes up or gives up one key's size at a time needs no induction rule: if it did not, there would be a set of least cardinality for which it does not, and one key less would give a smaller one |
| `RateLimiter_proofs!TypesHold`, `RateIsBounded`, `WaitingSuffices`, `ForgetsInOrder` | clients, limits, capacity, windows, ticks per second | inductive invariant `RateInv`: what was granted by the main bucket is what the bucket holds of the window (`MainKnown`), so it is no more than the bucket; a burst bucket's worth of bursts is never followed by another within the burst window (`BurstKnown`), so the bursts of a window fall into one group per burst window that begins in it; the oldest time a denied client's bucket holds expires before it was told to return (`MainKnown`); and a store's order is the end of the order of calls (`Recency`). Dropping expired times leaves the suffix that begins with the first that is not, and dropping twice is dropping once |
| `IndexFreshness_proofs!FreshnessTypeCorrect`, `WhatIsSeenIsIndexed`, `FieldsFollowTheCursor` | listings, chunk, lookback, delay, failure limits | `FreshInv`, in two independent halves. `RefreshInv`: a cycle's source is the inventory as of its target version, and unless a batch failed, what is no longer to do is indexed from it (`CycleFaithful`). `DeltaInv`: each row of the window just read is answered for, or a row of the same listing that is as new in the query's order, hour before stamp, is still to be patched (`WindowFaithful`); fields come from rows that are in the table (`Rooted`), whose partitions do not change, so a row that lands later disturbs no comparison of old ones |

Assumptions are those of the modules, all named: the configuration's validated
ranges (`config/models.py`), finitely many call slots, fallback chains over
retrievers.

Every safety invariant and every action property of the passing runs is stated by a
theorem. Only model-checked are the liveness properties under fairness
(`RecoversWithProvider`, `RetrieversRecover`, `LookupsEnd`, `AlwaysAnswers`,
`DriversCatchUp`), which the prover cannot do, and the three disagreements of
section 6, which are counterexamples.

## 5. What the models leave out

- Costs are whole numbers of some unit; an uncapped hour or day is a large cap.
  Breach counters, which nothing reads, and the no-op query budget are left out.
  A failed attempt costs nothing in the code and in the model.
- `BackendHealthRegistry.reset`, which nothing calls, `force_unhealthy_backends`,
  a debugging switch, listeners and log lines.
- Which retrievers a query's type requests, and which query passes the structural
  gate, are arbitrary choices. Retrieval results are "served" or "failed".
- A call turned away before the breaker is consulted changes nothing and is
  not represented.
- Providers, Redis, Qdrant, Athena, ClickHouse and the eRanker service are
  external: they serve or fail, and change at any time.
- `invalidate` of the structural gate is modelled, although nothing in the service
  calls it: its docstring says the snapshot registry does, which `registry.py` does
  not wire. The breaker's `reset` is in `BreakerNext`, about which the theorems
  are, and in no run: nothing calls it.
- `SearchRequest` takes the request's id as its own. The id may come from the
  client, and two requests in progress with one id share gate and rollup.
- `ServingCaches`: the intent plan cache is emptied by bumps and never read or
  filled, whatever its docstring says of the tier after `classify`; the intent
  result and semantic caches hold classifications and no inventory; the Redis tier
  is off in `base.yaml`. A bump and its hooks are one step of the event loop, so
  the tag check of the structured cache never rejects anything as wired. `Flight`
  is the longest search: the outer limit of the handler is `search_timeout_seconds`
  (10 s) or, for queries that look like analytics, `analytics_total_budget_seconds`
  (20 s; `app.py:3870-3907`). `Rails` is the longest fallback:
  `explore_fallback_timeout_seconds` (2.5 s) and then `qdrant_rails_timeout_seconds`
  (2 s), each with a `wait_for` of its own (`orchestrator.py:3651-3702, 3747-3760`).
  `RailLag` is the longest of the composer's caches with its jitter (10 to 120 s,
  and 3; `explore/composer.py:60-70, 129-132, 463-480`) and one fetch. Which rails a
  search has started, and whether its fallback consumes them, is an arbitrary
  choice; as early as a search begins is the earliest they can have been read. The
  per-request gates of these prewarmed rails are left out, see section 6.
- `IndexFreshness`: the refresh driver is off in `base.yaml`
  (`refresh.enabled: false`); the model has it on. `Docs` are the listings the
  indexer can index: it skips a document without a usable key
  (`vectorization/indexer.py:282-288`) or without any vector (454-456) and counts no
  failure, so `SeenIsIndexed` says nothing of these. A row is known by its
  `event_receive` stamp and the hour of its `src_receive` stamp, and rows in one
  hour are ordered by the former, as the query does. Rows without an item id or
  without any mutable field set, which `_row_to_update` drops, are no rows of the
  model. What is written to ClickHouse is left out, that the write may raise is not
  (`CycleRaises`). The delta query's `LIMIT` is
  assumed not to bite, as `config/base.yaml:5511` says; rows of one listing under
  several auction ids are one listing. How long a driver sleeps is left open, and
  with it the priority flag, which shortens the next sleep.
- Not modelled at all, and why: the inventory percentiles (each operation holds one
  lock throughout); the event ingest driver and the enrichment driver (the
  delta driver's walk over other sources; what differs is that failed ClickHouse rows
  are counted and skipped); the history compactor (no operation of the wired
  in-memory store yields to the event loop, so nothing interleaves); signal store
  and uploaders (a log and a ring buffer under one lock, uploads whose failures are
  logged); analytics, NL-to-SQL, retrievers, fusion, rails, safety, calibration
  (transformations of text and numbers; they appear as tasks that succeed, fail,
  raise or hang); ranking of models in `llm-core` (a sort of scores);
  configuration (validation of records); everything offline (evaluation, training,
  harnesses).
- Disabled components (`enabled: false`) do nothing and are not represented,
  the refresh driver excepted.

The modules cover the parts of the program that keep state across awaits. Most of
its hundred thousand lines are elsewhere: the validation of configuration records
(`config/models.py`), extraction and reconciliation of entities from text (`qi/`),
scoring, query building, request and response records (`app.py`), and the
offline scripts. These are functions of their inputs, over text and numbers TLC
cannot enumerate; a specification of them would be a second copy.

## 6. Where the code and its documentation disagree

| Run | Property | Disagreement |
|---|---|---|
| `eranker_recovery` | `ERankerRecovers` | an unhealthy eRanker is skipped without asking for a probe, and only its own calls record its outcomes: it is skipped for ever |
| `rollup_released` | `RollupReleased` | early analytics is cancelled and not awaited, the accounts are cleared, and when it unwinds it adds its spend to a new entry that nothing removes. (What the ways out that do not clear at all leave, `AccountsClosed` states) |
| `shutdown` | `ShutdownEnds` | a cancellation that meets an index run becomes a failed cycle (`vectorization/indexer.py:811`, `vectorization/refresh_driver.py:220`): the loop goes on, `stop()` does not return, and the drivers after it are never stopped |

Met while modelling, and followed by the models as the code has it:

- `core/llm_client.py:506`: a call cancelled by its caller, or failing with an
  error outside `_RETRYABLE_TRANSPORT_ERRORS`, records no outcome, though lines 6-8
  say each call's outcome is recorded. An outage that shows as time-outs never
  trips the breaker.
- `resilience/health.py:118`: with a drained window, a failed probe makes an
  unhealthy backend healthy; lines 3-4 say it turns unhealthy "when probes also
  fail".
- `config/base.yaml:105` and `config/base.yaml:2608` promise "max 60s freshness" of
  the fallback slot and of the exact cache, whose entries live 60 s. That is the age
  of the entry, not of what is in it: a search that began before a bump stores what
  it read after it, and so does a later one that found it in the structured cache or
  was filled up with cached rails. `StalenessBounded` has the bounds that hold: with
  the shipped settings (and without jitter) 80 s in the structured cache, about
  200 s in the exact one, where rails may lag 120 s, and about 205 s in the slot.
- `app.py:4009-4014` (an invalid query, 422) and the 500 of a search that raises
  leave the request's rollup entry, with what its finished phases have spent, and
  nothing removes it.
- `orchestrator.py:1152-1163`: a fallback that waits for prewarmed rails creates the
  request's gate where there is none, and gives up after a while; the gate stays in
  `_explore_prewarm_gate_by_rid`, since `_prune_finished_explore_prewarm` (1070) goes
  by the tasks and there is no task.
- `vectorization/delta_driver.py:166` says of `_write_clickhouse` "Soft-fail; never
  raises". What the ClickHouse client raises when it is not available or refuses a
  query (`analytics/clickhouse_client.py:58-62`) is an `AgentSearchError`, which
  neither `explore/ch_delta_analytics.py:169` nor `_write_clickhouse` (175) nor the
  cycle (225-230) catches; nor does the cycle catch the botocore errors that
  `nl_to_sql/athena_client.py:197, 218, 253` let through. Either ends the driver's
  task, uncounted and unpaused, for the rest of the process; a `stop()` of it then
  raises the error again, which `app.py:1711` catches in the one case and not in
  the other.
- `vectorization/delta_source.py:62, 75-88`: the hours of the partitions are those of
  the window, which is a range of another stamp. A row whose two stamps lie in
  different hours may be passed by the cursor without having been fetched, and is
  not counted.
- `cost/request_cost_gate.py:59`: the answer that takes a query over its cap
  raises before the fleet is charged.
- `cost/fleet_budget.py:101`: while writes to Redis fail and reads succeed, spend
  goes to a memory that admission does not look at.
- `orchestrator.py:3588`: with an intent, fallback results are said to match the
  query's own context; the two calls of `app.py` after timed-out and failed
  analytics (4610, 4729) pass an intent but not `bypass_cache`, and may be
  answered from the slot with another query's results.
- `orchestrator.py:3903` speaks of errors "from this request";
  `_last_retrieve_errors` is one field that all concurrent requests write.
- `app.py:4698` says early analytics is not left dangling; the path on which
  the time is used up before analytics is awaited returns without cancelling it. A
  second classification (4141-4197) replaces the intent with search's cost
  stamped in it.
- `config/base.yaml:5245` calls the failure limit of the refresh driver a
  back-off; the code pauses it for good.
- `vectorization/refresh_driver.py:158`: the priority flag is read before the
  sleep, so it does not shorten one in progress. A full re-index overwrites the
  mutable fields the delta driver had patched, until their next row;
  listings that left the inventory stay in the index.
- `vectorization/delta_source.py:185` calls the lower bound exclusive; the query
  (line 63) has `>=`. Rows that appear late in the audit table are missed, and a
  restart begins at now minus the lookback.
- `middleware/rate_limit.py`: a denied request also makes and touches burst
  buckets, so it can evict another client's; Retry-After ignores the burst
  bucket; the counts are per process.
- `history/`: opting out removes a user's rows and leaves the vector
  aggregated from them.

## 7. How the project is laid out, and what could follow

Each component's module stands alone or extends the modules of the parts it runs;
theorems live in `*_proofs` modules, and instances in `MC*` modules where the
configuration needs sets or symmetry. What a next step would bring in: a history
store that awaits, and the compaction that then races `forget_user`, and the sharing
of one id by two requests.
