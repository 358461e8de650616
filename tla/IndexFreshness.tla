---------------------------- MODULE IndexFreshness ----------------------------
(***************************************************************************)
(* How the vector index follows the inventory (vectorization/): the        *)
(* refresh driver indexes all listings again when the snapshot version has *)
(* moved, the delta driver patches the mutable fields of single points     *)
(* from an audit table, and the application's lifespan starts and stops    *)
(* both.  The index outlives the process; versions, cursors and failure    *)
(* counts do not.                                                          *)
(*                                                                         *)
(* A listing is known by the version at which it last changed, an audit    *)
(* row by its event stamp, one to a tick of the clock, and the mutable     *)
(* fields of a point by the row they come from.  The audit table is        *)
(* partitioned by the hour of another stamp of the row, near the first.    *)
(* Time is in whole units, as the audit query rounds it; how long the      *)
(* drivers sleep is left open.                                             *)
(***************************************************************************)
EXTENDS Integers, FiniteSetsExt

CONSTANTS
    Docs,          \* listings the indexer can index: with a key and a vector
    Audited,       \* those of the auction types the audit query selects
    NoDoc,         \* the listing of a row not in the audit table
    RefreshFailures, \* max_consecutive_failures of the refresh driver
    DeltaFailures,   \* and of the delta driver
    Chunk,         \* chunk_minutes
    Lookback,      \* lookback_minutes
    Delay,         \* how late a row may appear in the audit table
    Hour,          \* ticks to an hour of its partitions
    Lag,           \* how far the two stamps of a row may be apart
    MaxVersion,    \* bound on the events of a process
    MaxTime        \* bound on the clock

ASSUME FreshnessConfig ==
    /\ Audited \subseteq Docs
    /\ NoDoc \notin Docs
    /\ RefreshFailures \in Nat \ {0}
    /\ DeltaFailures \in Nat \ {0}
    /\ Chunk \in Nat \ {0}
    /\ Lookback \in Nat \ {0}
    /\ Delay \in Nat
    /\ Hour \in Nat \ {0}
    /\ Lag \in Nat
    /\ MaxVersion \in Nat
    /\ MaxTime \in Nat

VARIABLES
    life,        \* where the lifespan of the process is
    version,     \* SnapshotVersionRegistry._version
    changed,     \* version at which each listing last changed
    point,       \* what each point was indexed from
    field,       \* audit row in the mutable fields of each point
    vloop,       \* task of the refresh driver
    vcancel,     \* whether its cancellation is on the way
    last,        \* _last_seen_version
    target,      \* snapshot_version of its cycle
    source,      \* listings its cycle was given
    todo,        \* those not upserted yet
    broken,      \* whether a batch of the cycle has failed
    vfails,      \* _consecutive_failures
    dloop,       \* task of the delta driver
    dcancel,
    cursor,      \* _last_polled_at
    window,      \* chunk_end and now_ts of its cycle, whether it has pairs
    rows,        \* rows fetched and not patched yet
    dfails,
    clock,
    table,       \* audit rows that can be read: listing of each event stamp
    partition,   \* src_receive hour of each, by which the table is partitioned
    missed,      \* stamps the running process does not answer for
    rewritten    \* audited listings indexed again since their last patch

inventoryVars == <<version, changed>>
indexVars == <<point, field, rewritten>>
refreshVars == <<vloop, vcancel, last, target, source, todo, broken, vfails>>
deltaVars == <<dloop, dcancel, cursor, window, rows, dfails>>
auditVars == <<clock, table, partition>>
vars == <<life, inventoryVars, indexVars, refreshVars, deltaVars, auditVars, missed>>

Versions == 0 .. MaxVersion
Times == 0 .. MaxTime
Unseen == -1
NoRow == -1
NoWindow == [end |-> 0, now |-> 0, some |-> FALSE]

-----------------------------------------------------------------------------

TypeOK ==
    /\ life \in {"down", "up", "stopping refresh", "stopping delta"}
    /\ version \in Versions
    /\ changed \in [Docs -> Versions]
    /\ point \in [Docs -> Versions \cup {Unseen}]
    /\ field \in [Docs -> Times \cup {NoRow}]
    /\ vloop \in {"ended", "idle", "indexing"}
    /\ vcancel \in BOOLEAN
    /\ last \in Versions \cup {Unseen}
    /\ target \in Versions
    /\ source \in [Docs -> Versions]
    /\ todo \subseteq Docs
    /\ broken \in BOOLEAN
    /\ vfails \in 0 .. RefreshFailures
    /\ dloop \in {"ended", "idle", "fetching", "patching"}
    /\ dcancel \in BOOLEAN
    /\ cursor \in Times
    /\ window \in [end : Times, now : Times, some : BOOLEAN]
    /\ rows \subseteq Times
    /\ dfails \in 0 .. DeltaFailures
    /\ clock \in Times
    /\ table \in [Times -> Docs \cup {NoDoc}]
    /\ partition \in [Times -> Nat]
    /\ missed \subseteq Times
    /\ rewritten \subseteq Audited

Init ==
    /\ life = "down"
    /\ version = 0
    /\ changed = [d \in Docs |-> 0]
    /\ vloop = "ended"
    /\ vcancel = FALSE
    /\ last = Unseen
    /\ target = 0
    /\ source = [d \in Docs |-> 0]
    /\ todo = {}
    /\ broken = FALSE
    /\ vfails = 0
    /\ dloop = "ended"
    /\ dcancel = FALSE
    /\ cursor = 0
    /\ window = NoWindow
    /\ rows = {}
    /\ dfails = 0
    /\ point = [d \in Docs |-> Unseen]
    /\ field = [d \in Docs |-> NoRow]
    /\ clock = 0
    /\ table = [t \in Times |-> NoDoc]
    /\ partition = [t \in Times |-> 0]
    /\ missed = {}
    /\ rewritten = {}

-----------------------------------------------------------------------------
(* The refresh driver                                                      *)

RefreshPaused == vfails >= RefreshFailures

(* Fault: whether the driver is paused is not looked at.                   *)
RefreshTickUnpaused ==
    /\ vloop = "idle"
    /\ ~vcancel
    /\ version # last
    /\ vloop' = "indexing"
    /\ target' = version
    /\ source' = changed
    /\ todo' = Docs
    /\ broken' = FALSE
    /\ UNCHANGED <<life, inventoryVars, indexVars, vcancel, last, vfails,
                   deltaVars, auditVars, missed>>

(* A cycle over all listings as they are when the version is read.         *)
RefreshTick ==
    /\ vloop = "idle"
    /\ ~vcancel
    /\ ~RefreshPaused
    /\ version # last
    /\ vloop' = "indexing"
    /\ target' = version
    /\ source' = changed
    /\ todo' = Docs
    /\ broken' = FALSE
    /\ UNCHANGED <<life, inventoryVars, indexVars, vcancel, last, vfails,
                   deltaVars, auditVars, missed>>

RefreshPauses ==
    /\ vloop = "idle"
    /\ ~vcancel
    /\ RefreshPaused
    /\ vloop' = "ended"
    /\ UNCHANGED <<life, inventoryVars, indexVars, vcancel, last, target, source,
                   todo, broken, vfails, deltaVars, auditVars, missed>>

(* Fault: a failed cycle is not counted.                                   *)
CycleOverUncounted(success) ==
    /\ vloop' = "idle"
    /\ IF success THEN last' = target /\ vfails' = 0 ELSE UNCHANGED <<last, vfails>>
    /\ target' = 0
    /\ source' = [d \in Docs |-> 0]
    /\ todo' = {}
    /\ broken' = FALSE

(* Fault: the version recorded as seen is read when the run is over.       *)
CycleOverSeesNow(success) ==
    /\ vloop' = "idle"
    /\ IF success THEN last' = version /\ vfails' = 0
                  ELSE vfails' = vfails + 1 /\ UNCHANGED last
    /\ target' = 0
    /\ source' = [d \in Docs |-> 0]
    /\ todo' = {}
    /\ broken' = FALSE

(* The end of _run_cycle.                                                  *)
CycleOver(success) ==
    /\ vloop' = "idle"
    /\ IF success THEN last' = target /\ vfails' = 0
                  ELSE vfails' = vfails + 1 /\ UNCHANGED last
    /\ target' = 0
    /\ source' = [d \in Docs |-> 0]
    /\ todo' = {}
    /\ broken' = FALSE

(* An upsert replaces the whole point, mutable fields included.            *)
Indexed(d) ==
    /\ point' = [point EXCEPT ![d] = source[d]]
    /\ field' = [field EXCEPT ![d] = NoRow]
    /\ rewritten' = rewritten \cup ({d} \cap Audited)

(* A batch is upserted; or it fails, be it after Qdrant has done it, and   *)
(* the run goes on to the next.                                            *)
Upsert(d) ==
    /\ vloop = "indexing"
    /\ ~vcancel
    /\ d \in todo
    /\ todo' = todo \ {d}
    /\ \/ Indexed(d) /\ UNCHANGED broken
       \/ broken' = TRUE /\ (Indexed(d) \/ UNCHANGED indexVars)
    /\ UNCHANGED <<life, inventoryVars, vloop, vcancel, last, target, source, vfails,
                   deltaVars, auditVars, missed>>

CycleEnds ==
    /\ vloop = "indexing"
    /\ ~vcancel
    /\ todo = {}
    /\ CycleOver(~broken)
    /\ UNCHANGED <<life, inventoryVars, indexVars, vcancel, deltaVars, auditVars, missed>>

(* Any other error after any number of batches; the collection or Qdrant   *)
(* is not there before the first.                                          *)
RunRaises ==
    /\ vloop = "indexing"
    /\ ~vcancel
    /\ todo # {}
    /\ CycleOver(FALSE)
    /\ UNCHANGED <<life, inventoryVars, indexVars, vcancel, deltaVars, auditVars, missed>>

(* The cancellation of the task ends it, unless it meets an upsert: run    *)
(* turns it into DataIngestInterruptedError, a failure of the cycle like   *)
(* others, and the loop goes on.                                           *)
RefreshCancelled ==
    /\ vcancel
    /\ vcancel' = FALSE
    /\ \/ vloop = "indexing" /\ CycleOver(FALSE)
       \/ /\ vloop = "idle" \/ todo = Docs
          /\ vloop' = "ended"
          /\ target' = 0
          /\ source' = [d \in Docs |-> 0]
          /\ todo' = {}
          /\ UNCHANGED <<last, broken, vfails>>
    /\ UNCHANGED <<life, inventoryVars, indexVars, deltaVars, auditVars, missed>>

RefreshStep ==
    \/ RefreshTick
    \/ RefreshPauses
    \/ \E d \in Docs : Upsert(d)
    \/ CycleEnds
    \/ RunRaises
    \/ RefreshCancelled

-----------------------------------------------------------------------------
(* The delta driver                                                        *)

DeltaPaused == dfails >= DeltaFailures

(* A cycle walks from the cursor to the present.                           *)
DeltaTick ==
    /\ dloop = "idle"
    /\ ~dcancel
    /\ \/ /\ DeltaPaused
          /\ dloop' = "ended"
          /\ UNCHANGED window
       \/ /\ ~DeltaPaused
          /\ cursor < clock
          /\ dloop' = "fetching"
          /\ window' = [NoWindow EXCEPT !.now = clock]
    /\ UNCHANGED <<life, inventoryVars, indexVars, refreshVars, dcancel, cursor, rows,
                   dfails, auditVars, missed>>

(* The rows with from <= stamp < to in the partitions of the hours from    *)
(* the first to the last of the window.                                    *)
Selected(from, to) ==
    {t \in from .. to - 1 : table[t] # NoDoc /\ partition[t] \in from \div Hour .. to \div Hour}

(* ORDER BY the hour, then the stamp.                                      *)
Later(t, u) == partition[t] > partition[u] \/ (partition[t] = partition[u] /\ t > u)

(* Fault: the oldest row of a listing is taken.                            *)
FirstRows(from, to) ==
    {t \in Selected(from, to) : \A u \in Selected(from, to) : table[u] = table[t] => ~Later(t, u)}

(* fetch_delta: the last row selected of each listing.                     *)
LatestRows(from, to) ==
    {t \in Selected(from, to) : \A u \in Selected(from, to) : table[u] = table[t] => ~Later(u, t)}

(* A row of the window in a partition the query does not look at is not    *)
(* among those fetched, and nothing says so.                               *)
Fetched ==
    /\ dloop = "fetching"
    /\ ~dcancel
    /\ LET end == Min({cursor + Chunk, window.now})
           stamps == cursor .. end - 1
       IN  /\ rows' = LatestRows(cursor, end)
           /\ window' = [window EXCEPT !.end = end, !.some = (rows' # {})]
           /\ missed' = (missed \ stamps)
                        \cup {t \in stamps \ Selected(cursor, end) : table[t] # NoDoc}
    /\ dloop' = "patching"
    /\ UNCHANGED <<life, inventoryVars, indexVars, refreshVars, dcancel, cursor, dfails,
                   auditVars>>

(* Athena fails, or ClickHouse once the patches are done: the cycle has    *)
(* failed and is counted, or the error is none that it catches, and ends   *)
(* the task.                                                               *)
CycleRaises ==
    /\ \/ dloop = "fetching"
       \/ dloop = "patching" /\ rows = {} /\ window.some
    /\ ~dcancel
    /\ window' = NoWindow
    /\ \/ dloop' = "idle" /\ dfails' = dfails + 1
       \/ dloop' = "ended" /\ UNCHANGED dfails
    /\ UNCHANGED <<life, inventoryVars, indexVars, refreshVars, dcancel, cursor, rows,
                   auditVars, missed>>

(* set_payload for the listing of a row; a failure is only counted, as are *)
(* all rows when Qdrant is not available.                                  *)
Patch(t) ==
    /\ dloop = "patching"
    /\ ~dcancel
    /\ t \in rows
    /\ rows' = rows \ {t}
    /\ \/ /\ field' = [field EXCEPT ![table[t]] = t]
          /\ rewritten' = rewritten \ {table[t]}
          /\ UNCHANGED missed
       \/ /\ missed' = missed \cup {u \in cursor .. window.end - 1 : table[u] = table[t]}
          /\ UNCHANGED <<field, rewritten>>
    /\ UNCHANGED <<life, inventoryVars, point, refreshVars, dloop, dcancel, cursor,
                   window, dfails, auditVars>>

(* Fault: the cursor is not advanced.                                      *)
CommitNothing ==
    /\ dloop = "patching"
    /\ ~dcancel
    /\ rows = {}
    /\ dloop' = "idle"
    /\ window' = NoWindow
    /\ dfails' = 0
    /\ UNCHANGED <<life, inventoryVars, indexVars, refreshVars, dcancel, cursor, rows,
                   auditVars, missed>>

(* ClickHouse is written to, or is not and the error is only logged.  The  *)
(* cursor moves past the chunk, and the walk goes on or ends.              *)
Commit ==
    /\ dloop = "patching"
    /\ ~dcancel
    /\ rows = {}
    /\ cursor' = window.end
    /\ IF window.end < window.now
       THEN dloop' = "fetching" /\ UNCHANGED <<window, dfails>>
       ELSE dloop' = "idle" /\ window' = NoWindow /\ dfails' = 0
    /\ UNCHANGED <<life, inventoryVars, indexVars, refreshVars, dcancel, rows,
                   auditVars, missed>>

DeltaCancelled ==
    /\ dcancel
    /\ dcancel' = FALSE
    /\ dloop' = "ended"
    /\ rows' = {}
    /\ window' = NoWindow
    /\ UNCHANGED <<life, inventoryVars, indexVars, refreshVars, cursor, dfails,
                   auditVars, missed>>

DeltaStep ==
    \/ DeltaTick
    \/ Fetched
    \/ CycleRaises
    \/ \E t \in Times : Patch(t)
    \/ Commit
    \/ DeltaCancelled

-----------------------------------------------------------------------------
(* The lifespan of the process                                             *)

(* What the index was built from means nothing to the new inventory, and   *)
(* rows from before the look-back are nobody's business any more.          *)
Boot ==
    /\ life = "down"
    /\ life' = "up"
    /\ vloop' = "idle"
    /\ dloop' = "idle"
    /\ cursor' = Max({0, clock - Lookback})
    /\ missed' = 0 .. cursor' - 1
    /\ rewritten' = {}
    /\ point' = [d \in Docs |-> Unseen]
    /\ UNCHANGED <<inventoryVars, field, vcancel, last, target, source, todo, broken,
                   vfails, dcancel, window, rows, dfails, auditVars>>

(* The drivers are stopped one after the other; stop() cancels the task    *)
(* and awaits it.                                                          *)
Shutdown ==
    /\ life = "up"
    /\ life' = "stopping refresh"
    /\ vcancel' = (vloop # "ended")
    /\ UNCHANGED <<inventoryVars, indexVars, vloop, last, target, source, todo, broken,
                   vfails, deltaVars, auditVars, missed>>

RefreshStopped ==
    /\ life = "stopping refresh"
    /\ vloop = "ended"
    /\ life' = "stopping delta"
    /\ dcancel' = (dloop # "ended")
    /\ UNCHANGED <<inventoryVars, indexVars, refreshVars, dloop, cursor, window, rows,
                   dfails, auditVars, missed>>

(* The process is gone, and its memory with it.                            *)
Gone ==
    /\ life' = "down"
    /\ version' = 0
    /\ changed' = [d \in Docs |-> 0]
    /\ vloop' = "ended"
    /\ vcancel' = FALSE
    /\ last' = Unseen
    /\ target' = 0
    /\ source' = [d \in Docs |-> 0]
    /\ todo' = {}
    /\ broken' = FALSE
    /\ vfails' = 0
    /\ dloop' = "ended"
    /\ dcancel' = FALSE
    /\ cursor' = 0
    /\ window' = NoWindow
    /\ rows' = {}
    /\ dfails' = 0
    /\ point' = [d \in Docs |-> Unseen]
    /\ missed' = {}
    /\ rewritten' = {}
    /\ UNCHANGED <<field, auditVars>>

DeltaStopped == life = "stopping delta" /\ dloop = "ended" /\ Gone

Crash == life # "down" /\ Gone

-----------------------------------------------------------------------------
(* The world                                                               *)

(* An ingested event changes a listing and bumps the version.              *)
Event(d) ==
    /\ life # "down"
    /\ version < MaxVersion
    /\ version' = version + 1
    /\ changed' = [changed EXCEPT ![d] = version + 1]
    /\ UNCHANGED <<life, indexVars, refreshVars, deltaVars, auditVars, missed>>

(* A row appears in the audit table, in a partition not further from its   *)
(* stamp than Lag.  A window that has been read does not have it.          *)
Land(t, d) ==
    /\ table[t] = NoDoc
    /\ clock - t \in 0 .. Delay
    /\ t < MaxTime
    /\ table' = [table EXCEPT ![t] = d]
    /\ \E src \in Max({0, t - Lag}) .. t + Lag :
          partition' = [partition EXCEPT ![t] = src \div Hour]
    /\ missed' = IF t < (IF dloop = "patching" THEN window.end ELSE cursor)
                 THEN missed \cup {t} ELSE missed
    /\ UNCHANGED <<life, inventoryVars, indexVars, refreshVars, deltaVars, clock>>

Tick ==
    /\ clock < MaxTime
    /\ clock' = clock + 1
    /\ UNCHANGED <<life, inventoryVars, indexVars, refreshVars, deltaVars, table, partition, missed>>

Next ==
    \/ RefreshStep
    \/ DeltaStep
    \/ Boot
    \/ Shutdown
    \/ RefreshStopped
    \/ DeltaStopped
    \/ Crash
    \/ \E d \in Docs : Event(d)
    \/ \E t \in Times, d \in Audited : Land(t, d)
    \/ Tick

Spec == Init /\ [][Next]_vars

(* Tasks run, and the clients and servers they wait for answer or fail.     *)
Fairness ==
    /\ WF_vars(RefreshStep)
    /\ WF_vars(DeltaStep)
    /\ WF_vars(RefreshStopped \/ DeltaStopped)

FairSpec == Spec /\ Fairness

-----------------------------------------------------------------------------

(* A version is recorded as seen only when every listing that has not      *)
(* changed since is in the index as it was then, whatever batches failed   *)
(* or were done twice, and whatever events came in during the run.         *)
SeenIsIndexed ==
    last # Unseen => \A d \in Docs : changed[d] <= last => point[d] = changed[d]

(* Fields from row f are as new as row t: it is later in time or comes     *)
(* first in the query's order.                                             *)
AsNew(f, t) == f # NoRow /\ (f >= t \/ partition[f] > partition[t])

(* The mutable fields of a point are older than an audit row the cursor    *)
(* has passed only when the row came after its window was read, was in a   *)
(* partition of an hour outside its window, had its patch fail and be      *)
(* counted, or a refresh has indexed the point again since.                *)
FieldsFollow ==
    \A t \in 0 .. cursor - 1 :
        table[t] # NoDoc /\ t \notin missed =>
            AsNew(field[table[t]], t) \/ table[t] \in rewritten

(* In the end the refresh driver has caught up with the version and the    *)
(* delta driver with the present, failed runs, failed cycles and long      *)
(* windows notwithstanding, unless the driver has stopped for good: paused *)
(* after as many failures in a row as it was given, or, the delta driver,  *)
(* ended by an error it does not catch.                                    *)
DriversCatchUp ==
    life = "up" ~> \/ life # "up"
                   \/ /\ last = version \/ vloop = "ended"
                      /\ cursor = clock \/ dloop = "ended"

(* refresh_driver.py: stop() will "Cancel + await the background task".    *)
(* So a shutdown comes to an end.                                          *)
ShutdownEnds == life = "stopping refresh" ~> life = "down"

=============================================================================
