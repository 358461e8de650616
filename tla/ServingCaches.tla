---------------------------- MODULE ServingCaches ----------------------------
(***************************************************************************)
(* What concurrent searches of one process share: the exact and the        *)
(* structured cache, tagged with the snapshot version and emptied when it  *)
(* is bumped, and the unkeyed slot of the explore fallback.                *)
(*                                                                         *)
(* A consumer records an event and bumps the version, and the registry's   *)
(* hooks empty both caches, in one step of the event loop.  Data are known *)
(* by the version of the inventory they were read from.  A step of a       *)
(* search runs from one await to the next.  Time is in ticks.              *)
(*                                                                         *)
(* The rails of the composer come out of caches of its own, one to a rail, *)
(* which no bump empties.  What they hold is not followed: they may give   *)
(* any version that was current less than RailLag ago.                     *)
(***************************************************************************)
EXTENDS LruTtlStore

CONSTANTS
    Requests,    \* searches that run at the same time
    Queries,     \* normalised queries
    Ttl,         \* ttl_seconds of the exact and the structured cache, with
                 \* its jitter, and of the explore-fallback slot
    Flight,      \* the longest search: search_timeout_seconds,
                 \* analytics_total_budget_seconds
    Rails,       \* the longest fallback: explore_fallback_timeout_seconds and
                 \* qdrant_rails_timeout_seconds one after the other
    RailLag,     \* _RAIL_CACHE_TTL_S with its jitter and the time of a fetch
    Bytes,       \* byte estimate of the results of each query
    MaxVersion   \* bound on the bumps of a behaviour

ASSUME CachesConfig ==
    /\ Ttl \in Nat \ {0}
    /\ Flight \in Nat \ {0}
    /\ Rails \in Nat \ {0}
    /\ RailLag \in Nat \ {0}
    /\ Bytes \in [Queries -> Nat \ {0}]
    /\ MaxVersion \in Nat

VARIABLES
    version,     \* SnapshotVersionRegistry._version
    quiet,       \* time since the last bump, up to Settled
    exact,       \* ExactCache._store
    structured,  \* StructuredCache._store
    slot,        \* _fb_result_cache: version read and time left
    at,          \* where each search is
    query,       \* what it looks for
    seen,        \* oldest inventory version its data come from
    age          \* time since it began, or its fallback

registryVars == <<version, quiet>>
cacheVars == <<exact, structured, slot>>
searchVars == <<at, query, seen, age>>
vars == <<registryVars, cacheVars, searchVars>>

(* How long an advance of the inventory can go unseen in the structured    *)
(* cache, the exact one and the slot.                                      *)
StructuredBound == Flight + Ttl
ExactBound == Flight + Ttl + Max({StructuredBound, RailLag})
SlotBound == RailLag + Flight + Rails + Ttl

Settled == Max({ExactBound, SlotBound})
Searching == {"preparing", "planning", "fetching", "fusing", "merging"}
Places == Searching \cup {"idle", "replying", "railing"}
Versions == 0 .. MaxVersion

Entry(q, v) == [key |-> q, seen |-> v, tag |-> version, left |-> Ttl]

EntryOK(e) ==
    /\ e.key \in Queries
    /\ e.seen \in Versions
    /\ e.tag \in Versions
    /\ e.left \in 0 .. Ttl

TypeOK ==
    /\ version \in Versions
    /\ quiet \in 0 .. Settled
    /\ \A e \in Entries(exact) \cup Entries(structured) : EntryOK(e)
    /\ slot \in [seen : Versions, left : 0 .. Ttl]
    /\ at \in [Requests -> Places]
    /\ query \in [Requests -> Queries]
    /\ seen \in [Requests -> Versions]
    /\ age \in [Requests -> 0 .. Max({Flight, Rails})]

Init ==
    /\ version = 0
    /\ quiet = Settled
    /\ exact = EmptyStore
    /\ structured = EmptyStore
    /\ slot = [seen |-> 0, left |-> 0]
    /\ at = [r \in Requests |-> "idle"]
    /\ query \in [Requests -> Queries]
    /\ seen = [r \in Requests |-> 0]
    /\ age = [r \in Requests |-> 0]

Goto(r, place) == at' = [at EXCEPT ![r] = place]
Read(r, v) == seen' = [seen EXCEPT ![r] = v]
Restart(r) == age' = [age EXCEPT ![r] = 0]

(* The search is over, and nothing of it is left.                          *)
Leave(r) ==
    /\ Goto(r, "idle")
    /\ Read(r, 0)
    /\ Restart(r)

-----------------------------------------------------------------------------
(* A search                                                                *)

Begin(r) ==
    /\ at[r] = "idle"
    /\ Goto(r, "preparing")
    /\ \E q \in Queries : query' = [query EXCEPT ![r] = q]
    /\ UNCHANGED <<registryVars, cacheVars, seen, age>>

(* get_payload, and if it has nothing to say get, which does not look at   *)
(* the tag: an entry that is there and not expired is answered.            *)
LookUp(r) ==
    /\ at[r] = "preparing"
    /\ exact' = Touch(exact, query[r])
    /\ IF Fresh(exact, query[r])
       THEN Goto(r, "replying") /\ Read(r, Found(exact, query[r]).seen) /\ Restart(r)
       ELSE Goto(r, "planning") /\ UNCHANGED <<seen, age>>
    /\ UNCHANGED <<registryVars, structured, slot, query>>

(* The query is classified and its retrievals are started.  One with       *)
(* filters looks in the structured cache, which drops what it finds with   *)
(* an old tag; a miss is retrieved and stored.                             *)
Gather(r) ==
    /\ at[r] = "planning"
    /\ LET q == query[r]
           hit == Fresh(structured, q) /\ Found(structured, q).tag >= version
       IN  \/ /\ hit
              /\ structured' = Touch(structured, q)
              /\ Goto(r, "fusing")
              /\ Read(r, Found(structured, q).seen)
           \/ /\ ~hit
              /\ structured' = Remove(structured, q)
              /\ Goto(r, "fetching")
              /\ Read(r, version)
           \/ /\ Goto(r, "fusing")
              /\ Read(r, version)
              /\ UNCHANGED structured
    /\ UNCHANGED <<registryVars, exact, slot, query, age>>

(* The index is read at some time of the retrieval; candidates found are   *)
(* stored, tagged with the version of this later moment.                   *)
Retrieved(r) ==
    /\ at[r] = "fetching"
    /\ Goto(r, "fusing")
    /\ \E v \in seen[r] .. version :
          /\ Read(r, v)
          /\ structured' \in {structured, Put(structured, Entry(query[r], v), Bytes[query[r]])}
    /\ UNCHANGED <<registryVars, exact, slot, query, age>>

(* What rails read in the last since ticks may show.                       *)
RailsOf(since) == {v \in 0 .. version : v < version => quiet < RailLag + since}

(* Few results are filled up with rails, started in the search.            *)
Complement(r) ==
    /\ at[r] = "fusing"
    /\ Goto(r, "merging")
    /\ \E v \in RailsOf(0) : Read(r, Min({seen[r], v}))
    /\ UNCHANGED <<registryVars, cacheVars, query, age>>

(* Results that are the query's own or filled up, not the guard's or a     *)
(* fallback's, are stored, tagged with the version of this moment.         *)
Fuse(r) ==
    /\ at[r] \in {"fusing", "merging"}
    /\ Goto(r, "replying")
    /\ Restart(r)
    /\ exact' \in {exact, Put(exact, Entry(query[r], seen[r]), Bytes[query[r]])}
    /\ UNCHANGED <<registryVars, structured, slot, query, seen>>

Reply(r) ==
    /\ at[r] = "replying"
    /\ Leave(r)
    /\ UNCHANGED <<registryVars, cacheVars, query>>

(* Rails of the request's own, with a time limit of their own; or those a  *)
(* search has started since it began and not consumed.                     *)
StartRails(r) ==
    /\ Goto(r, "railing")
    /\ \E v \in RailsOf(IF at[r] \in Searching THEN age[r] ELSE 0) : Read(r, v)
    /\ Restart(r)

(* A search that times out, and analytics that failed or timed out, fall   *)
(* back on the slot, whoever filled it, or on rails.                       *)
FallBack(r) ==
    /\ at[r] \in Searching \cup {"replying"}
    /\ IF slot.left > 0 THEN Leave(r) ELSE StartRails(r)
    /\ UNCHANGED <<registryVars, cacheVars, query>>

(* The rails next to analytics do not look at the slot (bypass_cache).     *)
Scope(r) ==
    /\ at[r] = "replying"
    /\ StartRails(r)
    /\ UNCHANGED <<registryVars, cacheVars, query>>

(* The rails fill the slot, find nothing to put there or are cancelled.    *)
RailsEnd(r) ==
    /\ at[r] = "railing"
    /\ Leave(r)
    /\ \/ \E v \in seen[r] .. version : slot' = [seen |-> v, left |-> Ttl]
       \/ UNCHANGED slot
    /\ UNCHANGED <<registryVars, exact, structured, query>>

-----------------------------------------------------------------------------

(* Fault: the hook of the structured cache is not registered.              *)
BumpExactOnly ==
    /\ version < MaxVersion
    /\ version' = version + 1
    /\ quiet' = 0
    /\ exact' = EmptyStore
    /\ UNCHANGED <<structured, slot, searchVars>>

(* An event changes the inventory: bump() and its hooks.                   *)
Bump ==
    /\ version < MaxVersion
    /\ version' = version + 1
    /\ quiet' = 0
    /\ exact' = EmptyStore
    /\ structured' = EmptyStore
    /\ UNCHANGED <<slot, searchVars>>

(* A search and a fallback have a time limit; what else a reply takes, an  *)
(* analytics pipeline for one, has none here.                              *)
Timed(r) == at[r] \in Searching \cup {"railing"}

(* Fault: time passes over searches that have used theirs up.              *)
TickOverdue ==
    /\ quiet' = IF quiet < Settled THEN quiet + 1 ELSE quiet
    /\ exact' = Older(exact)
    /\ structured' = Older(structured)
    /\ slot' = [slot EXCEPT !.left = IF @ > 0 THEN @ - 1 ELSE 0]
    /\ age' = [r \in Requests |-> IF Timed(r) THEN age[r] + 1 ELSE age[r]]
    /\ UNCHANGED <<version, at, query, seen>>

(* wait_for leaves no search and no fallback running past its time.        *)
Tick ==
    /\ \A r \in Requests :
          /\ at[r] \in Searching => age[r] < Flight
          /\ at[r] = "railing" => age[r] < Rails
    /\ quiet' = IF quiet < Settled THEN quiet + 1 ELSE quiet
    /\ exact' = Older(exact)
    /\ structured' = Older(structured)
    /\ slot' = [slot EXCEPT !.left = IF @ > 0 THEN @ - 1 ELSE 0]
    /\ age' = [r \in Requests |-> IF Timed(r) THEN age[r] + 1 ELSE age[r]]
    /\ UNCHANGED <<version, at, query, seen>>

Search(r) ==
    \/ Begin(r)
    \/ LookUp(r)
    \/ Gather(r)
    \/ Retrieved(r)
    \/ Complement(r)
    \/ Fuse(r)
    \/ Reply(r)
    \/ FallBack(r)
    \/ Scope(r)
    \/ RailsEnd(r)

Next ==
    \/ \E r \in Requests : Search(r)
    \/ Bump
    \/ Tick

Spec == Init /\ [][Next]_vars

-----------------------------------------------------------------------------

(* Both caches keep their books whatever searches, bumps and time do.      *)
StoresAccount == Accounts(exact) /\ Accounts(structured)

(* Nothing tagged with an old version is in a cache: the hooks and the tags*)
(* agree, and a search under way across a bump cannot put one back.        *)
TagsAreCurrent ==
    \A e \in Entries(exact) \cup Entries(structured) : e.tag = version

(* How long an advance of the inventory can go unseen.  A search under way *)
(* across the bump stores what it read before with the new tag; a later    *)
(* one may find that in the structured cache, or read rails from before    *)
(* the bump, and store it again, with a new life, in the exact one.  Rails *)
(* read during a search and consumed by its fallback fill the slot when    *)
(* that ends.  No chain of hits makes it longer.                           *)
StalenessBounded ==
    /\ \A e \in Entries(structured) : e.left > 0 /\ e.seen < version => quiet < StructuredBound
    /\ \A e \in Entries(exact) : e.left > 0 /\ e.seen < version => quiet < ExactBound
    /\ slot.left > 0 /\ slot.seen < version => quiet < SlotBound

=============================================================================
