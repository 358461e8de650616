------------------------ MODULE IndexFreshness_proofs ------------------------
(***************************************************************************)
(* For any listings, numbers of failures, windows, delays and bounds: what *)
(* the refresh driver has seen is in the index, and what the delta         *)
(* driver's cursor has passed is in the mutable fields.                    *)
(*                                                                         *)
(* The two arguments meet only at the upsert.  For the refresh driver, a   *)
(* run without a failed batch leaves no listing of its source out, and     *)
(* events during the run are newer than its target.  For the delta driver, *)
(* a row of the window being patched is answered for by the row fetched    *)
(* for the same listing, which is the last one, until that is patched.     *)
(***************************************************************************)
EXTENDS IndexFreshness, WellFoundedInduction, TLAPS

(* A non-empty set of bounded numbers has a greatest one.                  *)
LEMMA Greatest ==
  ASSUME NEW to \in Nat, NEW S \in SUBSET (0 .. to - 1), S # {}
  PROVE  \E t \in S : \A u \in S : u <= t
<1> DEFINE T == {to - t : t \in S}
<1>1. T \subseteq Nat /\ T # {}
  OBVIOUS
<1>2. PICK x \in T : \A y \in T : <<y, x>> \notin OpToRel(<, Nat)
  BY <1>1, NatLessThanWellFounded, WFMin
<1>3. \A y \in T : ~(y < x)
  BY <1>1, <1>2 DEF OpToRel
<1>4. PICK t \in S : x = to - t
  OBVIOUS
<1>5. ASSUME NEW u \in S PROVE u <= t
  <2>1. to - u \in T
    OBVIOUS
  <2>2. ~(to - u < to - t)
    BY <1>3, <1>4, <2>1
  <2>3. u \in Int /\ t \in Int
    OBVIOUS
  <2> QED
    BY <2>2, <2>3
<1> QED
  BY <1>5

LEMMA Below ==
  ASSUME NEW n \in Nat, NEW m \in Nat, n <= m
  PROVE  0 .. n - 1 \subseteq 0 .. m
  OBVIOUS

LEMMA MaxPair == ASSUME NEW a \in Int, NEW b \in Int
                 PROVE  Max({a, b}) \in {a, b} /\ Max({a, b}) >= a /\ Max({a, b}) >= b
<1>1. \E x \in {a, b} : \A y \in {a, b} : x >= y
  OBVIOUS
<1> QED
  BY <1>1 DEF Max

LEMMA MinPair == ASSUME NEW a \in Int, NEW b \in Int
                 PROVE  Min({a, b}) \in {a, b} /\ Min({a, b}) <= a /\ Min({a, b}) <= b
<1>1. \E x \in {a, b} : \A y \in {a, b} : x <= y
  OBVIOUS
<1> QED
  BY <1>1 DEF Min

-----------------------------------------------------------------------------
(* The refresh driver's side                                               *)

RefreshTyped ==
    /\ life \in {"down", "up", "stopping refresh", "stopping delta"}
    /\ version \in Versions
    /\ changed \in [Docs -> Versions]
    /\ point \in [Docs -> Versions \cup {Unseen}]
    /\ vloop \in {"ended", "idle", "indexing"}
    /\ last \in Versions \cup {Unseen}
    /\ target \in Versions
    /\ source \in [Docs -> Versions]
    /\ todo \subseteq Docs
    /\ vfails \in 0 .. RefreshFailures

(* A cycle's source is the inventory as it was at its target, and what has *)
(* been upserted of it is in the index unless a batch has failed.          *)
CycleFaithful ==
    vloop = "indexing" =>
        /\ vfails < RefreshFailures
        /\ target <= version
        /\ last <= target
        /\ \A d \in Docs : changed[d] <= target => source[d] = changed[d]
        /\ ~broken => \A d \in Docs \ todo : point[d] = source[d]

RefreshInv ==
    /\ RefreshTyped
    /\ last <= version
    /\ life = "down" => last = Unseen /\ vloop = "ended" /\ vfails = 0
    /\ CycleFaithful
    /\ SeenIsIndexed

refreshSide == <<life, inventoryVars, point, vloop, last, target, source, todo,
                 broken, vfails>>

(* The delta driver's side                                                 *)
DeltaTyped ==
    /\ field \in [Docs -> Times \cup {NoRow}]
    /\ dloop \in {"ended", "idle", "fetching", "patching"}
    /\ cursor \in Times
    /\ window \in [end : Times, now : Times, some : BOOLEAN]
    /\ rows \subseteq Times
    /\ dfails \in 0 .. DeltaFailures
    /\ clock \in Times
    /\ table \in [Times -> Audited \cup {NoDoc}]
    /\ partition \in [Times -> Nat]
    /\ missed \subseteq Times
    /\ rewritten \subseteq Audited

Answered(t) == t \in missed \/ AsNew(field[table[t]], t) \/ table[t] \in rewritten

(* The row in a point's fields has landed, so its partition stands.        *)
Rooted == \A d \in Docs : field[d] # NoRow => table[field[d]] # NoDoc

(* A row of the window read is answered for already, or by a row of the    *)
(* same listing that is as new and still to be patched.                    *)
WindowFaithful ==
    dloop = "patching" =>
        /\ cursor <= window.end
        /\ rows \subseteq cursor .. window.end - 1
        /\ \A t \in rows :
              /\ table[t] # NoDoc
              /\ \A u \in cursor .. window.end - 1 :
                    table[u] = table[t] /\ u \notin missed => AsNew(t, u)
        /\ \A t \in cursor .. window.end - 1 :
              table[t] # NoDoc => Answered(t) \/ \E u \in rows : table[u] = table[t]

DeltaInv ==
    /\ DeltaTyped
    /\ cursor <= clock
    /\ dloop \in {"fetching", "patching"} =>
          dfails < DeltaFailures /\ cursor < window.now /\ window.now <= clock
    /\ dloop = "patching" => window.end <= window.now
    /\ Rooted
    /\ WindowFaithful
    /\ FieldsFollow

deltaSide == <<field, dloop, cursor, window, rows, dfails, auditVars, missed, rewritten>>

Flags == vcancel \in BOOLEAN /\ dcancel \in BOOLEAN /\ broken \in BOOLEAN

FreshInv == RefreshInv /\ DeltaInv

-----------------------------------------------------------------------------

LEMMA Bounds ==
    /\ MaxVersion \in Nat /\ MaxTime \in Nat
    /\ RefreshFailures \in Nat /\ RefreshFailures > 0
    /\ DeltaFailures \in Nat /\ DeltaFailures > 0
    /\ Chunk \in Nat /\ Chunk > 0 /\ Lookback \in Nat
    /\ Hour \in Nat /\ Hour > 0 /\ Lag \in Nat
    /\ Audited \subseteq Docs /\ NoDoc \notin Docs
  BY FreshnessConfig DEF FreshnessConfig

LEMMA InitFresh == Init => FreshInv
<1> SUFFICES ASSUME Init PROVE FreshInv
  OBVIOUS
<1> USE Bounds
<1>1. RefreshTyped
  BY DEF Init, RefreshTyped, Versions, Unseen
<1>2. RefreshInv
  BY <1>1 DEF Init, RefreshInv, CycleFaithful, SeenIsIndexed, Unseen
<1>3. DeltaTyped
  BY DEF Init, DeltaTyped, Times, NoWindow
<1>4. WindowFaithful /\ FieldsFollow /\ Rooted
  BY DEF Init, WindowFaithful, FieldsFollow, Rooted
<1>5. DeltaInv
  BY <1>3, <1>4 DEF Init, DeltaInv
<1> QED
  BY <1>2, <1>5 DEF FreshInv

LEMMA RefreshNumbers ==
  ASSUME RefreshTyped
  PROVE  /\ version \in Int /\ target \in Int /\ last \in Int
         /\ vfails \in Int /\ 0 <= vfails /\ vfails <= RefreshFailures
         /\ \A d \in Docs : changed[d] \in Int
<1>1. /\ version \in Versions /\ target \in Versions /\ last \in Versions \cup {Unseen}
      /\ vfails \in 0 .. RefreshFailures
      /\ \A d \in Docs : changed[d] \in Versions
  BY DEF RefreshTyped
<1> QED
  BY <1>1, Bounds DEF Versions, Unseen

LEMMA RefreshStands ==
  ASSUME RefreshInv, UNCHANGED refreshSide
  PROVE  RefreshInv'
<1>1. /\ life' = life /\ version' = version /\ changed' = changed /\ point' = point
      /\ vloop' = vloop /\ last' = last /\ target' = target /\ source' = source
      /\ todo' = todo /\ broken' = broken /\ vfails' = vfails
  BY DEF refreshSide, inventoryVars
<1> QED
  BY <1>1 DEF RefreshInv, RefreshTyped, CycleFaithful, SeenIsIndexed

LEMMA DeltaStands ==
  ASSUME DeltaInv, UNCHANGED deltaSide
  PROVE  DeltaInv'
<1>1. /\ field' = field /\ dloop' = dloop /\ cursor' = cursor /\ window' = window
      /\ rows' = rows /\ dfails' = dfails /\ clock' = clock /\ table' = table
      /\ partition' = partition /\ missed' = missed /\ rewritten' = rewritten
  BY DEF deltaSide, auditVars
<1> QED
  BY <1>1 DEF DeltaInv, DeltaTyped, WindowFaithful, FieldsFollow, Answered, AsNew, Rooted

LEMMA AsNewStands ==
  ASSUME partition' = partition, NEW f, NEW t
  PROVE  AsNew(f, t)' <=> AsNew(f, t)
  BY DEF AsNew, NoRow

-----------------------------------------------------------------------------
(* Steps of the refresh driver                                             *)

LEMMA RefreshTickFresh ==
  ASSUME FreshInv, RefreshTick
  PROVE  FreshInv'
<1>1. DeltaInv'
  BY DeltaStands DEF FreshInv, RefreshTick, deltaSide, deltaVars, indexVars, auditVars
<1>2. /\ vloop' = "indexing" /\ target' = version /\ source' = changed
      /\ todo' = Docs /\ life' = life /\ version' = version /\ changed' = changed
      /\ point' = point /\ last' = last /\ vfails' = vfails
  BY DEF RefreshTick, inventoryVars, indexVars
<1>3. vloop = "idle" /\ ~(vfails >= RefreshFailures) /\ version # last
  BY DEF RefreshTick, RefreshPaused
<1>4. RefreshTyped'
  BY <1>2 DEF FreshInv, RefreshInv, RefreshTyped
<1>5. vfails < RefreshFailures
  BY <1>3, Bounds, RefreshNumbers DEF FreshInv, RefreshInv
<1>6. version <= version /\ last <= version
  BY RefreshNumbers DEF FreshInv, RefreshInv
<1>7. CycleFaithful'
  BY <1>2, <1>5, <1>6 DEF CycleFaithful
<1>8. RefreshInv'
  BY <1>2, <1>3, <1>4, <1>7 DEF FreshInv, RefreshInv, SeenIsIndexed
<1> QED
  BY <1>1, <1>8 DEF FreshInv

LEMMA RefreshPausesFresh ==
  ASSUME FreshInv, RefreshPauses
  PROVE  FreshInv'
<1>1. DeltaInv'
  BY DeltaStands DEF FreshInv, RefreshPauses, deltaSide, deltaVars, indexVars, auditVars
<1>2. RefreshInv'
  BY DEF FreshInv, RefreshInv, RefreshTyped, CycleFaithful, SeenIsIndexed,
         RefreshPauses, inventoryVars, indexVars
<1> QED
  BY <1>1, <1>2 DEF FreshInv

(* The end of a cycle: without success nothing is seen that was not.       *)
LEMMA CycleOverFresh ==
  ASSUME RefreshInv, vloop = "indexing", NEW success \in BOOLEAN, CycleOver(success),
         success => ~broken /\ todo = {},
         life' = life, version' = version, changed' = changed, point' = point
  PROVE  RefreshInv'
<1> USE Bounds
<1>1. /\ vloop' = "idle" /\ target' = 0 /\ source' = [d \in Docs |-> 0] /\ todo' = {}
      /\ IF success THEN last' = target /\ vfails' = 0
                    ELSE vfails' = vfails + 1 /\ last' = last
  BY DEF CycleOver
<1>2. vfails < RefreshFailures /\ target <= version
  BY DEF RefreshInv, CycleFaithful
<1>3. RefreshTyped'
  <2>1. vfails' \in 0 .. RefreshFailures
    BY <1>1, <1>2, RefreshNumbers DEF RefreshInv
  <2>3. last' \in Versions \cup {Unseen}
    BY <1>1 DEF RefreshInv, RefreshTyped
  <2>2. 0 \in Versions
    BY DEF Versions
  <2> QED
    BY <1>1, <2>1, <2>2, <2>3 DEF RefreshInv, RefreshTyped
<1>4. SeenIsIndexed'
  BY <1>1 DEF RefreshInv, CycleFaithful, SeenIsIndexed
<1>5. life # "down"
  BY DEF RefreshInv
<1> QED
  BY <1>1, <1>2, <1>3, <1>4, <1>5 DEF RefreshInv, CycleFaithful

LEMMA CycleEndsFresh ==
  ASSUME FreshInv, Flags, CycleEnds \/ RunRaises
  PROVE  FreshInv'
<1>1. DeltaInv'
  BY DeltaStands
     DEF FreshInv, CycleEnds, RunRaises, deltaSide, deltaVars, indexVars, auditVars
<1>2. PICK success \in BOOLEAN : CycleOver(success) /\ (success => ~broken /\ todo = {})
  BY DEF CycleEnds, RunRaises, Flags
<1>3. /\ vloop = "indexing" /\ life' = life /\ version' = version
      /\ changed' = changed /\ point' = point
  BY DEF CycleEnds, RunRaises, inventoryVars, indexVars
<1>4. RefreshInv'
  BY <1>2, <1>3, CycleOverFresh DEF FreshInv
<1> QED
  BY <1>1, <1>4 DEF FreshInv

LEMMA RefreshCancelledFresh ==
  ASSUME FreshInv, RefreshCancelled
  PROVE  FreshInv'
<1>1. DeltaInv'
  BY DeltaStands
     DEF FreshInv, RefreshCancelled, deltaSide, deltaVars, indexVars, auditVars
<1>2. life' = life /\ version' = version /\ changed' = changed /\ point' = point
  BY DEF RefreshCancelled, inventoryVars, indexVars
<1>3. ASSUME vloop = "indexing", CycleOver(FALSE) PROVE RefreshInv'
  <2>1. \E success \in BOOLEAN : CycleOver(success) /\ (success => ~broken /\ todo = {})
    BY <1>3
  <2> QED
    BY <1>2, <1>3, <2>1, CycleOverFresh DEF FreshInv
<1>4. ASSUME vloop' = "ended", target' = 0, source' = [d \in Docs |-> 0], todo' = {},
             last' = last, vfails' = vfails
      PROVE  RefreshInv'
  <2>1. RefreshTyped'
    <3>1. 0 \in Versions
      BY Bounds DEF Versions
    <3> QED
      BY <1>2, <1>4, <3>1 DEF FreshInv, RefreshInv, RefreshTyped
  <2>2. CycleFaithful'
    BY <1>4 DEF CycleFaithful
  <2>3. SeenIsIndexed'
    BY <1>2, <1>4 DEF FreshInv, RefreshInv, SeenIsIndexed
  <2> QED
    BY <1>2, <1>4, <2>1, <2>2, <2>3 DEF FreshInv, RefreshInv
<1>5. RefreshInv'
  BY <1>3, <1>4 DEF RefreshCancelled
<1> QED
  BY <1>1, <1>5 DEF FreshInv

(* An upsert: what was seen stays in the index, since the source is not    *)
(* older; the mutable fields of an audited listing are known to be gone.   *)
LEMMA UpsertFresh ==
  ASSUME FreshInv, NEW d \in Docs, Upsert(d)
  PROVE  FreshInv'
<1> USE Bounds
<1>1. /\ vloop = "indexing" /\ d \in todo /\ todo' = todo \ {d}
      /\ life' = life /\ version' = version /\ changed' = changed /\ vloop' = vloop
      /\ last' = last /\ target' = target /\ source' = source /\ vfails' = vfails
      /\ dloop' = dloop /\ cursor' = cursor /\ window' = window /\ rows' = rows
      /\ dfails' = dfails /\ clock' = clock /\ table' = table /\ missed' = missed
      /\ partition' = partition
  BY DEF Upsert, inventoryVars, deltaVars, auditVars
<1>2. \/ Indexed(d) /\ broken' = broken
      \/ broken' = TRUE /\ (Indexed(d) \/ UNCHANGED <<point, field, rewritten>>)
  BY DEF Upsert, indexVars
<1>3. point' \in [Docs -> Versions \cup {Unseen}]
      /\ \A e \in Docs : point'[e] \in {point[e], source[e]} /\ (e # d => point'[e] = point[e])
  BY <1>2 DEF FreshInv, RefreshInv, RefreshTyped, Indexed
<1>4. RefreshTyped'
  BY <1>1, <1>3 DEF FreshInv, RefreshInv, RefreshTyped
<1>5. CycleFaithful'
  <2>1. ~broken' => ~broken /\ point'[d] = source[d]
    BY <1>2 DEF Indexed, FreshInv, RefreshInv, RefreshTyped
  <2> QED
    BY <1>1, <1>3, <2>1 DEF FreshInv, RefreshInv, CycleFaithful
<1>6. SeenIsIndexed'
  <2> SUFFICES ASSUME last # Unseen, NEW e \in Docs, changed[e] <= last
               PROVE  point'[e] = changed[e]
    BY <1>1 DEF SeenIsIndexed
  <2>1. changed[e] \in Int /\ last \in Int /\ target \in Int /\ last <= target
    BY <1>1, RefreshNumbers DEF FreshInv, RefreshInv, CycleFaithful
  <2>2. source[e] = changed[e]
    BY <1>1, <2>1 DEF FreshInv, RefreshInv, CycleFaithful
  <2> QED
    BY <1>3, <2>2 DEF FreshInv, RefreshInv, SeenIsIndexed
<1>7. RefreshInv'
  BY <1>1, <1>4, <1>5, <1>6 DEF FreshInv, RefreshInv
<1>8. /\ field' \in [Docs -> Times \cup {NoRow}] /\ rewritten' \subseteq Audited
      /\ \A e \in Docs : field'[e] \in {field[e], NoRow}
      /\ \A e \in Audited : (field'[e] = field[e] \/ e \in rewritten') /\ (e \in rewritten => e \in rewritten')
  <2>1. CASE Indexed(d)
    <3>1. /\ field' \in [Docs -> Times \cup {NoRow}]
          /\ \A e \in Docs : field'[e] = IF e = d THEN NoRow ELSE field[e]
      BY <2>1 DEF Indexed, FreshInv, DeltaInv, DeltaTyped
    <3> QED
      BY <2>1, <3>1 DEF Indexed, FreshInv, DeltaInv, DeltaTyped
  <2>2. CASE UNCHANGED <<point, field, rewritten>>
    BY <2>2 DEF FreshInv, DeltaInv, DeltaTyped
  <2> QED
    BY <1>2, <2>1, <2>2
<1>9. DeltaTyped'
  BY <1>1, <1>8 DEF FreshInv, DeltaInv, DeltaTyped
<1>10. \A t \in Times : table[t] # NoDoc /\ Answered(t) => Answered(t)'
  BY <1>1, <1>8, AsNewStands DEF FreshInv, DeltaInv, DeltaTyped, Answered
<1>11. WindowFaithful'
  <2>1. \A t \in cursor .. window.end - 1 : t \in Times
    BY DEF FreshInv, DeltaInv, DeltaTyped, Times
  <2> QED
    BY <1>1, <1>10, <2>1, AsNewStands DEF FreshInv, DeltaInv, WindowFaithful
<1>12. FieldsFollow'
  <2>1. \A t \in 0 .. cursor - 1 : t \in Times
    BY DEF FreshInv, DeltaInv, DeltaTyped, Times
  <2> QED
    BY <1>1, <1>10, <2>1 DEF FreshInv, DeltaInv, FieldsFollow, Answered
<1>13. Rooted'
  BY <1>1, <1>8 DEF FreshInv, DeltaInv, Rooted
<1>14. DeltaInv'
  BY <1>1, <1>9, <1>11, <1>12, <1>13 DEF FreshInv, DeltaInv
<1> QED
  BY <1>7, <1>14 DEF FreshInv

-----------------------------------------------------------------------------
(* Steps of the delta driver                                               *)

LEMMA DeltaNumbers ==
  ASSUME DeltaTyped
  PROVE  /\ cursor \in Nat /\ clock \in Nat /\ window.end \in Nat /\ window.now \in Nat
         /\ dfails \in Int /\ 0 <= dfails /\ dfails <= DeltaFailures
         /\ clock <= MaxTime /\ cursor <= MaxTime
<1>1. /\ cursor \in Times /\ clock \in Times /\ window.end \in Times /\ window.now \in Times
      /\ dfails \in 0 .. DeltaFailures
  BY DEF DeltaTyped
<1> QED
  BY <1>1, Bounds DEF Times

LEMMA DeltaStepStands ==
  ASSUME FreshInv, DeltaStep
  PROVE  RefreshInv'
<1>1. UNCHANGED refreshSide
  BY DEF DeltaStep, DeltaTick, Fetched, CycleRaises, Patch, Commit, DeltaCancelled,
         refreshSide, refreshVars, indexVars
<1> QED
  BY <1>1, RefreshStands DEF FreshInv

(* A driver that is not patching answers for what its cursor has passed.   *)
LEMMA WindowClosed ==
  ASSUME DeltaInv, DeltaTyped', cursor' <= clock',
         dloop' \in {"fetching", "patching"} =>
             dfails' < DeltaFailures /\ cursor' < window'.now /\ window'.now <= clock',
         dloop' # "patching", cursor' = cursor,
         field' = field, table' = table, partition' = partition, missed' = missed,
         rewritten' = rewritten
  PROVE  DeltaInv'
<1>1. FieldsFollow' /\ Rooted'
  BY DEF DeltaInv, FieldsFollow, AsNew, Rooted
<1>2. WindowFaithful'
  BY DEF WindowFaithful
<1> QED
  BY <1>1, <1>2 DEF DeltaInv

LEMMA DeltaTickFresh ==
  ASSUME DeltaInv, DeltaTick
  PROVE  DeltaInv'
<1>1. /\ cursor' = cursor /\ clock' = clock /\ rows' = rows /\ dfails' = dfails
      /\ field' = field /\ table' = table /\ missed' = missed /\ rewritten' = rewritten
      /\ partition' = partition
  BY DEF DeltaTick, indexVars, auditVars
<1>2. CASE dloop' = "ended" /\ window' = window
  <2>1. DeltaTyped'
    BY <1>1, <1>2 DEF DeltaInv, DeltaTyped
  <2> QED
    BY <1>1, <1>2, <2>1, WindowClosed DEF DeltaInv
<1>3. CASE /\ ~DeltaPaused /\ cursor < clock /\ dloop' = "fetching"
           /\ window' = [NoWindow EXCEPT !.now = clock]
  <2>1. window' \in [end : Times, now : Times, some : BOOLEAN] /\ window'.now = clock
    <3>1. 0 \in Times /\ clock \in Times
      BY Bounds DEF DeltaInv, DeltaTyped, Times
    <3> QED
      BY <1>3, <3>1 DEF NoWindow
  <2>2. DeltaTyped'
    BY <1>1, <1>3, <2>1 DEF DeltaInv, DeltaTyped
  <2>3. dfails < DeltaFailures /\ clock <= clock
    BY <1>3, Bounds, DeltaNumbers DEF DeltaInv, DeltaPaused
  <2> QED
    BY <1>1, <1>3, <2>1, <2>2, <2>3, WindowClosed DEF DeltaInv
<1> QED
  BY <1>2, <1>3 DEF DeltaTick

LEMMA NoWindowTyped == NoWindow \in [end : Times, now : Times, some : BOOLEAN]
  BY Bounds DEF NoWindow, Times

LEMMA CycleRaisesFresh ==
  ASSUME DeltaInv, CycleRaises
  PROVE  DeltaInv'
<1>1. /\ cursor' = cursor /\ clock' = clock /\ rows' = rows
      /\ field' = field /\ table' = table /\ missed' = missed /\ rewritten' = rewritten
      /\ partition' = partition /\ window' = NoWindow
      /\ dloop \in {"fetching", "patching"} /\ dloop' \in {"idle", "ended"}
      /\ dfails' = dfails + 1 \/ dfails' = dfails
  BY DEF CycleRaises, indexVars, auditVars
<1>2. dfails' \in 0 .. DeltaFailures
  BY <1>1, Bounds, DeltaNumbers DEF DeltaInv
<1>3. DeltaTyped'
  BY <1>1, <1>2, NoWindowTyped DEF DeltaInv, DeltaTyped
<1> QED
  BY <1>1, <1>3, WindowClosed DEF DeltaInv

LEMMA DeltaCancelledFresh ==
  ASSUME DeltaInv, DeltaCancelled
  PROVE  DeltaInv'
<1>1. /\ cursor' = cursor /\ clock' = clock /\ rows' = {} /\ dfails' = dfails
      /\ field' = field /\ table' = table /\ missed' = missed /\ rewritten' = rewritten
      /\ dloop' = "ended" /\ window' = NoWindow /\ partition' = partition
  BY DEF DeltaCancelled, indexVars, auditVars
<1>2. DeltaTyped'
  BY <1>1, NoWindowTyped DEF DeltaInv, DeltaTyped
<1> QED
  BY <1>1, <1>2, WindowClosed DEF DeltaInv

(* Of the rows of a listing that a window selects, one that none of the    *)
(* others comes before in the query's order is fetched: the last of those  *)
(* in the last partition.                                                  *)
LEMMA LatestStandsForAll ==
  ASSUME NEW from \in Nat, NEW to \in Nat, to <= MaxTime + 1,
         partition \in [Times -> Nat], NEW t \in Selected(from, to)
  PROVE  \E u \in LatestRows(from, to) : table[u] = table[t]
<1> DEFINE S == {u \in Selected(from, to) : table[u] = table[t]}
           last_hour == to \div Hour
<1>1. S \subseteq 0 .. to - 1 /\ t \in S
  BY DEF Selected
<1>2. last_hour \in Int /\ last_hour >= 0
  BY Bounds, SMTT(30)
<1>3. \A u \in S : partition[u] \in Nat /\ partition[u] <= last_hour
  <2>1. \A u \in 0 .. to - 1 : u \in Times
    BY Bounds DEF Times
  <2>2. from \div Hour \in Int
    BY Bounds, SMTT(30)
  <2>3. \A u \in S : u \in Times /\ partition[u] \in from \div Hour .. last_hour
    BY <1>1, <2>1 DEF Selected
  <2> HIDE DEF last_hour, S
  <2> QED
    BY <1>2, <2>2, <2>3
<1> HIDE DEF last_hour, S
<1>4. PICK p \in {partition[u] : u \in S} : \A q \in {partition[u] : u \in S} : q <= p
  <2>1. {partition[u] : u \in S} \subseteq 0 .. (last_hour + 1) - 1
    BY <1>2, <1>3
  <2>2. {partition[u] : u \in S} # {}
    BY <1>1
  <2> QED
    BY <1>2, <2>1, <2>2, Greatest, last_hour + 1 \in Nat
<1>5. PICK u \in {v \in S : partition[v] = p} : \A v \in {v \in S : partition[v] = p} : v <= u
  <2>1. {v \in S : partition[v] = p} \subseteq 0 .. to - 1 /\ {v \in S : partition[v] = p} # {}
    BY <1>1, <1>4
  <2> QED
    BY <2>1, Greatest
<1>6. ASSUME NEW v \in S PROVE ~Later(v, u)
  <2>1. partition[v] <= p /\ partition[u] = p /\ partition[v] \in Nat /\ p \in Nat
    BY <1>3, <1>4, <1>5
  <2>2. v \in Nat /\ u \in Nat
    BY <1>1, <1>5
  <2>3. partition[v] = p => v <= u
    BY <1>5
  <2> QED
    BY <2>1, <2>2, <2>3 DEF Later
<1>7. u \in LatestRows(from, to) /\ table[u] = table[t]
  <2>1. u \in S
    BY <1>5
  <2> QED
    BY <1>6, <2>1 DEF LatestRows, S
<1> QED
  BY <1>7

LEMMA FetchedFresh ==
  ASSUME DeltaInv, Fetched
  PROVE  DeltaInv'
<1> DEFINE end == Min({cursor + Chunk, window.now})
<1>1. /\ cursor' = cursor /\ clock' = clock /\ dfails' = dfails
      /\ field' = field /\ table' = table /\ partition' = partition
      /\ rewritten' = rewritten
      /\ missed' = (missed \ (cursor .. end - 1))
                   \cup {t \in (cursor .. end - 1) \ Selected(cursor, end) : table[t] # NoDoc}
      /\ dloop' = "patching" /\ dloop = "fetching" /\ rows' = LatestRows(cursor, end)
      /\ window' = [window EXCEPT !.end = end, !.some = (rows' # {})]
  BY DEF Fetched, indexVars, auditVars
<1>2. end \in Nat /\ cursor <= end /\ end <= window.now
  <2>1. cursor \in Nat /\ window.now \in Nat /\ cursor < window.now
    BY <1>1, DeltaNumbers DEF DeltaInv
  <2>2. cursor + Chunk \in Int /\ cursor < cursor + Chunk /\ window.now \in Int
    BY <2>1, Bounds
  <2>3. end \in {cursor + Chunk, window.now} /\ end <= window.now
    BY <2>2, MinPair
  <2> QED
    BY <2>1, <2>2, <2>3
<1>3. window.now <= clock /\ clock <= MaxTime /\ cursor \in Nat /\ window.now \in Nat /\ clock \in Nat
  BY <1>1, DeltaNumbers DEF DeltaInv
<1>4. /\ window' \in [end : Times, now : Times, some : BOOLEAN]
      /\ window'.end = end /\ window'.now = window.now
  <2>1. end \in Times
    BY <1>2, <1>3, Bounds DEF Times
  <2> QED
    BY <1>1, <2>1 DEF DeltaInv, DeltaTyped
<1> HIDE DEF end
<1>5. rows' \subseteq cursor .. end - 1
  BY <1>1 DEF LatestRows, Selected
<1>6. DeltaTyped'
  <2>1. cursor .. end - 1 \subseteq Times
    BY <1>2, <1>3, Bounds DEF Times
  <2>2. rows' \subseteq Times /\ missed' \subseteq Times
    BY <1>1, <1>5, <2>1 DEF DeltaInv, DeltaTyped
  <2> QED
    BY <1>1, <1>4, <2>2 DEF DeltaInv, DeltaTyped
<1>7. ASSUME NEW t \in cursor .. end - 1, table[t] # NoDoc, t \notin missed'
      PROVE  t \in Selected(cursor, end)
  BY <1>1, <1>7
<1>8. partition \in [Times -> Nat]
  BY DEF DeltaInv, DeltaTyped
<1>9. WindowFaithful'
  <2>1. ASSUME NEW t \in rows'
        PROVE  t \in Selected(cursor, end) /\ table[t] # NoDoc
    BY <1>1 DEF LatestRows, Selected
  <2>2. ASSUME NEW t \in rows', NEW u \in cursor .. end - 1, table[u] = table[t],
               u \notin missed'
        PROVE  AsNew(t, u)
    <3>1. u \in Selected(cursor, end)
      BY <1>7, <2>1, <2>2
    <3>2. ~Later(u, t)
      BY <1>1, <2>2, <3>1 DEF LatestRows
    <3>3. t \in Nat /\ u \in Nat /\ t \in Times /\ u \in Times
      BY <1>2, <1>3, <1>5, Bounds DEF Times
    <3>4. partition[t] \in Nat /\ partition[u] \in Nat
      BY <1>8, <3>3
    <3> QED
      BY <3>2, <3>3, <3>4 DEF Later, AsNew, NoRow
  <2>3. ASSUME NEW t \in cursor .. end - 1, table[t] # NoDoc, t \notin missed'
        PROVE  \E u \in rows' : table[u] = table[t]
    <3>1. t \in Selected(cursor, end) /\ end <= MaxTime + 1
      BY <1>2, <1>3, <1>7, <2>3, Bounds
    <3> QED
      BY <1>1, <1>2, <1>3, <1>8, <3>1, LatestStandsForAll
  <2>4. /\ cursor' <= window'.end
        /\ rows' \subseteq cursor' .. window'.end - 1
    BY <1>1, <1>2, <1>4, <1>5
  <2>5. ASSUME NEW t \in rows'
        PROVE  /\ table'[t] # NoDoc
               /\ \A u \in cursor' .. window'.end - 1 :
                     table'[u] = table'[t] /\ u \notin missed' => AsNew(t, u)'
    BY <1>1, <1>4, <2>1, <2>2, AsNewStands
  <2>6. ASSUME NEW t \in cursor' .. window'.end - 1, table'[t] # NoDoc
        PROVE  Answered(t)' \/ \E u \in rows' : table'[u] = table'[t]
    BY <1>1, <1>4, <2>3, <2>6 DEF Answered
  <2> QED
    BY <2>4, <2>5, <2>6 DEF WindowFaithful
<1>10. FieldsFollow' /\ Rooted'
  <2>1. ASSUME NEW t \in 0 .. cursor - 1, t \notin missed' PROVE t \notin missed
    BY <1>1, <1>2, <1>3, <2>1
  <2> QED
    BY <1>1, <2>1, AsNewStands DEF DeltaInv, FieldsFollow, Rooted
<1> QED
  BY <1>1, <1>2, <1>4, <1>6, <1>9, <1>10 DEF DeltaInv

(* A patched row answers for the rows of its listing before it, which no   *)
(* later window reads again.                                               *)
LEMMA PatchFresh ==
  ASSUME DeltaInv, NEW t \in Times, Patch(t)
  PROVE  DeltaInv'
<1> DEFINE d == table[t]
           end == window.end
<1>1. /\ dloop = "patching" /\ t \in rows /\ rows' = rows \ {t}
      /\ dloop' = dloop /\ cursor' = cursor /\ window' = window /\ dfails' = dfails
      /\ clock' = clock /\ table' = table /\ partition' = partition
  BY DEF Patch, auditVars
<1>2. \/ /\ field' = [field EXCEPT ![d] = t] /\ rewritten' = rewritten \ {d}
         /\ missed' = missed
      \/ /\ missed' = missed \cup {u \in cursor .. end - 1 : table[u] = d}
         /\ field' = field /\ rewritten' = rewritten
  BY DEF Patch
<1>3. cursor \in Nat /\ end \in Nat /\ end <= MaxTime
  <2>1. cursor \in Nat /\ window.end \in Nat /\ window.now \in Nat /\ clock \in Nat
        /\ clock <= MaxTime
    BY DeltaNumbers DEF DeltaInv
  <2>2. window.end <= window.now /\ window.now <= clock
    BY <1>1 DEF DeltaInv
  <2> QED
    BY <2>1, <2>2, Bounds
<1>4. /\ cursor <= end /\ rows \subseteq cursor .. end - 1 /\ d # NoDoc
      /\ \A u \in cursor .. end - 1 : table[u] = d /\ u \notin missed => AsNew(t, u)
  BY <1>1 DEF DeltaInv, WindowFaithful
<1>5. d \in Audited /\ d \in Docs /\ t \in cursor .. end - 1
  BY <1>1, <1>4, Bounds DEF DeltaInv, DeltaTyped
<1>6. DeltaTyped'
  <2>1. field' \in [Docs -> Times \cup {NoRow}] /\ rewritten' \subseteq Audited
    BY <1>2, <1>5 DEF DeltaInv, DeltaTyped
  <2>2. {u \in cursor .. end - 1 : table[u] = d} \subseteq Times
    BY <1>3, Bounds DEF Times
  <2>3. missed' \subseteq Times
    BY <1>2, <2>2 DEF DeltaInv, DeltaTyped
  <2> QED
    BY <1>1, <2>1, <2>3 DEF DeltaInv, DeltaTyped
<1>7. ASSUME NEW u \in Times, u < end, table[u] # NoDoc, table[u] # d, Answered(u)
      PROVE  Answered(u)'
  <2>1. table[u] \in Docs
    BY <1>7, Bounds DEF DeltaInv, DeltaTyped
  <2>2. field'[table[u]] = field[table[u]]
    BY <1>2, <1>7, <2>1 DEF DeltaInv, DeltaTyped
  <2>3. /\ u \in missed => u \in missed'
        /\ table[u] \in rewritten => table[u] \in rewritten'
    BY <1>2, <1>7
  <2> QED
    BY <1>1, <1>7, <2>2, <2>3, AsNewStands DEF Answered
<1>8. ASSUME NEW u \in Times, u < cursor, table[u] = d, Answered(u)
      PROVE  Answered(u)'
  <2>1. u \in Nat /\ t \in Nat /\ u <= t
    BY <1>3, <1>5, <1>8, Bounds DEF Times
  <2>2. CASE field'[d] = t
    <3>1. AsNew(t, u)'
      BY <2>1 DEF AsNew, NoRow
    <3> QED
      BY <1>1, <1>8, <2>2, <3>1 DEF Answered
  <2>3. CASE field' = field /\ rewritten' = rewritten /\ missed \subseteq missed'
    BY <1>1, <1>8, <2>3, AsNewStands DEF Answered
  <2>4. field' = [field EXCEPT ![d] = t] => field'[d] = t
    BY <1>5 DEF DeltaInv, DeltaTyped
  <2> QED
    BY <1>2, <2>2, <2>3, <2>4
<1>9. ASSUME NEW u \in cursor .. end - 1, table[u] = d
      PROVE  Answered(u)'
  <2>1. CASE u \in missed'
    BY <2>1 DEF Answered
  <2>2. CASE u \notin missed'
    <3>1. u \notin missed /\ field'[d] = t
      BY <1>2, <1>5, <1>9, <2>2 DEF DeltaInv, DeltaTyped
    <3>2. AsNew(t, u)'
      BY <1>1, <1>4, <1>9, <3>1, AsNewStands
    <3> QED
      BY <1>1, <1>9, <3>1, <3>2 DEF Answered
  <2> QED
    BY <2>1, <2>2
<1>10. \A u \in 0 .. end - 1 : u \in Times
  BY <1>3, Bounds DEF Times
<1>11. FieldsFollow'
  <2> SUFFICES ASSUME NEW u \in 0 .. cursor - 1, table[u] # NoDoc, u \notin missed'
               PROVE  Answered(u)'
    BY <1>1 DEF FieldsFollow, Answered, AsNew
  <2>1. u \in Times /\ u < cursor /\ u < end
    BY <1>3, <1>4, <1>10
  <2>2. u \notin missed
    BY <1>2
  <2>3. Answered(u)
    BY <2>2 DEF Answered, DeltaInv, FieldsFollow
  <2> QED
    BY <1>7, <1>8, <2>1, <2>3
<1>12. WindowFaithful'
  <2>1. \A u \in cursor .. end - 1 :
           table[u] # NoDoc => Answered(u)' \/ \E v \in rows' : table[v] = table[u]
    <3> SUFFICES ASSUME NEW u \in cursor .. end - 1, table[u] # NoDoc
                 PROVE  Answered(u)' \/ \E v \in rows' : table[v] = table[u]
      OBVIOUS
    <3>1. CASE table[u] = d
      BY <1>9, <3>1
    <3>2. CASE table[u] # d
      <4>1. u \in Times /\ u < end
        BY <1>3, <1>10
      <4>2. Answered(u) \/ \E v \in rows : table[v] = table[u]
        BY <1>1 DEF DeltaInv, WindowFaithful
      <4> QED
        BY <1>1, <1>7, <3>2, <4>1, <4>2
    <3> QED
      BY <3>1, <3>2
  <2>2. \A v \in rows' :
           /\ table[v] # NoDoc
           /\ \A u \in cursor .. end - 1 :
                 table[u] = table[v] /\ u \notin missed' => AsNew(v, u)'
    BY <1>1, <1>2, AsNewStands DEF DeltaInv, WindowFaithful
  <2> QED
    BY <1>1, <1>4, <2>1, <2>2 DEF WindowFaithful
<1>13. Rooted'
  <2>1. \A e \in Docs : field'[e] \in {field[e], t} /\ (field'[e] = t => field[e] = t \/ e = d)
    BY <1>2, <1>5 DEF DeltaInv, DeltaTyped
  <2> QED
    BY <1>1, <1>4, <2>1 DEF DeltaInv, Rooted
<1> QED
  BY <1>1, <1>6, <1>11, <1>12, <1>13 DEF DeltaInv

LEMMA CommitFresh ==
  ASSUME DeltaInv, Commit
  PROVE  DeltaInv'
<1>1. /\ dloop = "patching" /\ rows = {} /\ cursor' = window.end
      /\ clock' = clock /\ field' = field /\ table' = table /\ missed' = missed
      /\ rewritten' = rewritten /\ rows' = rows /\ partition' = partition
  BY DEF Commit, indexVars, auditVars
<1>2. \/ /\ window.end < window.now /\ dloop' = "fetching" /\ window' = window
         /\ dfails' = dfails
      \/ dloop' = "idle" /\ window' = NoWindow /\ dfails' = 0
  BY DEF Commit
<1>3. /\ cursor \in Nat /\ window.end \in Nat /\ window.now \in Nat /\ clock \in Nat
      /\ window.end <= window.now /\ window.now <= clock /\ clock <= MaxTime
      /\ cursor <= window.end
  BY <1>1, DeltaNumbers DEF DeltaInv, WindowFaithful
<1>4. window' \in [end : Times, now : Times, some : BOOLEAN] /\ dfails' \in 0 .. DeltaFailures
  <2>1. 0 \in 0 .. DeltaFailures
    BY Bounds
  <2> QED
    BY <1>2, <2>1, NoWindowTyped DEF DeltaInv, DeltaTyped
<1>5. DeltaTyped'
  <2>1. window.end \in Times
    BY DEF DeltaInv, DeltaTyped
  <2> QED
    BY <1>1, <1>2, <1>4, <2>1 DEF DeltaInv, DeltaTyped
<1>6. FieldsFollow'
  <2> SUFFICES ASSUME NEW t \in 0 .. window.end - 1, table[t] # NoDoc, t \notin missed
               PROVE  AsNew(field[table[t]], t) \/ table[t] \in rewritten
    BY <1>1, AsNewStands DEF FieldsFollow
  <2>1. CASE t \in 0 .. cursor - 1
    BY <2>1 DEF DeltaInv, FieldsFollow
  <2>2. CASE t \in cursor .. window.end - 1
    BY <1>1, <2>2 DEF DeltaInv, WindowFaithful, Answered
  <2> QED
    BY <1>3, <2>1, <2>2
<1>7. WindowFaithful'
  BY <1>2 DEF WindowFaithful
<1>8. dloop' \in {"fetching", "patching"} =>
         dfails' < DeltaFailures /\ cursor' < window'.now /\ window'.now <= clock'
  BY <1>1, <1>2, <1>3 DEF DeltaInv
<1>9. cursor' <= clock' /\ dloop' # "patching"
  BY <1>1, <1>2, <1>3
<1>10. Rooted'
  BY <1>1 DEF DeltaInv, Rooted
<1> QED
  BY <1>5, <1>6, <1>7, <1>8, <1>9, <1>10 DEF DeltaInv

LEMMA DeltaStepFresh ==
  ASSUME FreshInv, DeltaStep
  PROVE  FreshInv'
<1>1. DeltaInv'
  BY DeltaTickFresh, FetchedFresh, CycleRaisesFresh, PatchFresh, CommitFresh,
     DeltaCancelledFresh
     DEF FreshInv, DeltaStep
<1> QED
  BY <1>1, DeltaStepStands DEF FreshInv

-----------------------------------------------------------------------------
(* The lifespan and the world                                              *)

LEMMA BootFresh ==
  ASSUME FreshInv, Boot
  PROVE  FreshInv'
<1>1. /\ life = "down" /\ life' = "up" /\ vloop' = "idle" /\ dloop' = "idle"
      /\ cursor' = Max({0, clock - Lookback}) /\ missed' = 0 .. cursor' - 1
      /\ rewritten' = {} /\ point' = [d \in Docs |-> Unseen]
      /\ version' = version /\ changed' = changed /\ field' = field /\ last' = last
      /\ target' = target /\ source' = source /\ todo' = todo /\ vfails' = vfails
      /\ window' = window /\ rows' = rows /\ dfails' = dfails /\ clock' = clock
      /\ table' = table /\ partition' = partition
  BY DEF Boot, inventoryVars, auditVars
<1>2. last = Unseen
  BY <1>1 DEF FreshInv, RefreshInv
<1>3. RefreshTyped'
  BY <1>1 DEF FreshInv, RefreshInv, RefreshTyped
<1>4. RefreshInv'
  BY <1>1, <1>2, <1>3 DEF FreshInv, RefreshInv, CycleFaithful, SeenIsIndexed
<1>5. cursor' \in Nat /\ cursor' <= clock
  <2>1. clock \in Nat /\ clock - Lookback \in Int /\ 0 \in Int /\ clock - Lookback <= clock
    BY Bounds, DeltaNumbers DEF FreshInv, DeltaInv
  <2>2. cursor' \in {0, clock - Lookback} /\ cursor' >= 0
    BY <1>1, <2>1, MaxPair
  <2> QED
    BY <2>1, <2>2
<1>6. clock \in Nat /\ clock <= MaxTime
  BY DeltaNumbers DEF FreshInv, DeltaInv
<1>7. cursor' \in Times /\ missed' \subseteq Times
  <2>1. cursor' \in 0 .. MaxTime
    BY <1>5, <1>6, Bounds
  <2>2. cursor' \in Nat /\ cursor' <= MaxTime /\ MaxTime \in Nat
    BY <1>5, <1>6, Bounds
  <2>3. 0 .. cursor' - 1 \subseteq 0 .. MaxTime
    BY <2>2, Below
  <2> QED
    BY <1>1, <2>1, <2>3 DEF Times
<1>8. DeltaTyped'
  BY <1>1, <1>7 DEF FreshInv, DeltaInv, DeltaTyped
<1>9. FieldsFollow' /\ WindowFaithful' /\ Rooted'
  BY <1>1 DEF FieldsFollow, WindowFaithful, FreshInv, DeltaInv, Rooted
<1>10. DeltaInv'
  BY <1>1, <1>5, <1>8, <1>9 DEF DeltaInv
<1> QED
  BY <1>4, <1>10 DEF FreshInv

LEMMA StoppingFresh ==
  ASSUME FreshInv, Shutdown \/ RefreshStopped
  PROVE  FreshInv'
<1>1. DeltaInv'
  BY DeltaStands
     DEF FreshInv, Shutdown, RefreshStopped, deltaSide, deltaVars, indexVars, auditVars
<1>2. /\ life' \in {"stopping refresh", "stopping delta"}
      /\ version' = version /\ changed' = changed /\ point' = point
      /\ vloop' = vloop /\ last' = last /\ target' = target /\ source' = source
      /\ todo' = todo /\ broken' = broken /\ vfails' = vfails
  BY DEF Shutdown, RefreshStopped, inventoryVars, indexVars, refreshVars
<1>3. RefreshTyped'
  BY <1>2 DEF FreshInv, RefreshInv, RefreshTyped
<1>4. CycleFaithful' /\ SeenIsIndexed'
  BY <1>2 DEF FreshInv, RefreshInv, CycleFaithful, SeenIsIndexed
<1>5. RefreshInv'
  BY <1>2, <1>3, <1>4 DEF FreshInv, RefreshInv
<1> QED
  BY <1>1, <1>5 DEF FreshInv

LEMMA GoneFresh ==
  ASSUME FreshInv, Gone
  PROVE  FreshInv'
<1>1. /\ life' = "down" /\ version' = 0 /\ changed' = [d \in Docs |-> 0]
      /\ vloop' = "ended" /\ last' = Unseen /\ target' = 0
      /\ source' = [d \in Docs |-> 0] /\ todo' = {} /\ vfails' = 0
      /\ dloop' = "ended" /\ cursor' = 0 /\ window' = NoWindow /\ rows' = {}
      /\ dfails' = 0 /\ point' = [d \in Docs |-> Unseen] /\ field' = field
      /\ rewritten' = {} /\ missed' = {}
      /\ clock' = clock /\ table' = table /\ partition' = partition
  BY DEF Gone, auditVars
<1>2. 0 \in Versions /\ 0 \in Times /\ 0 \in 0 .. RefreshFailures /\ 0 \in 0 .. DeltaFailures
  BY Bounds DEF Versions, Times
<1>3. RefreshTyped'
  BY <1>1, <1>2 DEF FreshInv, RefreshInv, RefreshTyped
<1>4. RefreshInv'
  BY <1>1, <1>3 DEF RefreshInv, CycleFaithful, SeenIsIndexed, Unseen
<1>5. DeltaTyped'
  BY <1>1, <1>2, NoWindowTyped DEF FreshInv, DeltaInv, DeltaTyped
<1>6. FieldsFollow' /\ WindowFaithful' /\ Rooted'
  BY <1>1 DEF FieldsFollow, WindowFaithful, FreshInv, DeltaInv, Rooted
<1>7. 0 <= clock
  BY DeltaNumbers DEF FreshInv, DeltaInv
<1>8. DeltaInv'
  BY <1>1, <1>5, <1>6, <1>7 DEF DeltaInv
<1> QED
  BY <1>4, <1>8 DEF FreshInv

(* What an event changes is newer than what any cycle aims at.             *)
LEMMA EventFresh ==
  ASSUME FreshInv, NEW d \in Docs, Event(d)
  PROVE  FreshInv'
<1>1. DeltaInv'
  BY DeltaStands DEF FreshInv, Event, deltaSide, deltaVars, indexVars, auditVars
<1>2. /\ life # "down" /\ version < MaxVersion /\ version' = version + 1
      /\ changed' = [changed EXCEPT ![d] = version + 1]
      /\ life' = life /\ point' = point /\ vloop' = vloop /\ last' = last
      /\ target' = target /\ source' = source /\ todo' = todo /\ broken' = broken
      /\ vfails' = vfails
  BY DEF Event, indexVars, refreshVars
<1>3. version' \in Versions
  <2>1. version \in Versions
    BY DEF FreshInv, RefreshInv, RefreshTyped
  <2> QED
    BY <1>2, <2>1, Bounds DEF Versions
<1>4. RefreshTyped'
  BY <1>2, <1>3 DEF FreshInv, RefreshInv, RefreshTyped
<1>5. version \in Int /\ target \in Int /\ last \in Int /\ last <= version
  BY RefreshNumbers DEF FreshInv, RefreshInv
<1>6. \A e \in Docs : changed'[e] = IF e = d THEN version + 1 ELSE changed[e]
  BY <1>2 DEF FreshInv, RefreshInv, RefreshTyped
<1>7. CycleFaithful'
  <2> SUFFICES ASSUME vloop = "indexing" PROVE CycleFaithful'
    BY <1>2 DEF CycleFaithful
  <2>1. target <= version
    BY DEF FreshInv, RefreshInv, CycleFaithful
  <2>2. \A e \in Docs : changed'[e] <= target => source[e] = changed'[e]
    BY <1>5, <1>6, <2>1 DEF FreshInv, RefreshInv, CycleFaithful
  <2>3. target <= version'
    BY <1>2, <1>5, <2>1
  <2> QED
    BY <1>2, <2>2, <2>3 DEF FreshInv, RefreshInv, CycleFaithful
<1>8. SeenIsIndexed'
  BY <1>2, <1>5, <1>6 DEF FreshInv, RefreshInv, SeenIsIndexed
<1>9. last <= version'
  BY <1>2, <1>5
<1>10. RefreshInv'
  BY <1>2, <1>4, <1>7, <1>8, <1>9 DEF FreshInv, RefreshInv
<1> QED
  BY <1>1, <1>10 DEF FreshInv

(* A row that appears behind the cursor, or in a window that has been      *)
(* read, is a missed one.                                                  *)
LEMMA LandFresh ==
  ASSUME FreshInv, NEW t \in Times, NEW d \in Audited, Land(t, d)
  PROVE  FreshInv'
<1>1. RefreshInv'
  BY RefreshStands DEF FreshInv, Land, refreshSide, refreshVars, indexVars
<1> DEFINE passed == IF dloop = "patching" THEN window.end ELSE cursor
<1>2. /\ table[t] = NoDoc /\ table' = [table EXCEPT ![t] = d]
      /\ missed' = IF t < passed THEN missed \cup {t} ELSE missed
      /\ field' = field /\ dloop' = dloop /\ cursor' = cursor /\ window' = window
      /\ rows' = rows /\ dfails' = dfails /\ clock' = clock /\ rewritten' = rewritten
      /\ \E src \in Max({0, t - Lag}) .. t + Lag :
            partition' = [partition EXCEPT ![t] = src \div Hour]
  BY DEF Land, indexVars, deltaVars
<1>3. missed' \subseteq Times /\ missed \subseteq missed'
  BY <1>2 DEF FreshInv, DeltaInv, DeltaTyped
<1>4. DeltaTyped'
  <2>1. PICK src \in Max({0, t - Lag}) .. t + Lag :
           partition' = [partition EXCEPT ![t] = src \div Hour]
    BY <1>2
  <2>2. src \in Nat
    <3>1. 0 \in Int /\ t - Lag \in Int /\ t + Lag \in Int
      BY Bounds DEF Times
    <3>2. Max({0, t - Lag}) \in {0, t - Lag} /\ Max({0, t - Lag}) >= 0
      BY <3>1, MaxPair
    <3> QED
      BY <3>1, <3>2
  <2>3. src \div Hour \in Nat
    BY <2>2, Bounds, SMTT(30)
  <2>4. partition' \in [Times -> Nat]
    BY <2>1, <2>3 DEF FreshInv, DeltaInv, DeltaTyped
  <2> QED
    BY <1>2, <1>3, <2>4 DEF FreshInv, DeltaInv, DeltaTyped
<1>5. \A u \in Times : u # t => table'[u] = table[u] /\ partition'[u] = partition[u]
  BY <1>2 DEF FreshInv, DeltaInv, DeltaTyped
<1>6. ASSUME NEW f \in Times \cup {NoRow}, NEW u \in Times, f # t, u # t
       PROVE  AsNew(f, u)' <=> AsNew(f, u)
  BY <1>5, <1>6 DEF AsNew, NoRow
<1>7. \A e \in Docs : field[e] \in Times \cup {NoRow} /\ field[e] # t
  <2>1. \A e \in Docs : field[e] \in Times \cup {NoRow}
    BY DEF FreshInv, DeltaInv, DeltaTyped
  <2>2. t # NoRow
    BY DEF Times, NoRow
  <2> QED
    BY <1>2, <2>1, <2>2 DEF FreshInv, DeltaInv, Rooted
<1>8. ASSUME NEW u \in Times, u # t, table[u] \in Docs
       PROVE  AsNew(field[table[u]], u)' <=> AsNew(field[table[u]], u)
  <2> DEFINE f == field[table[u]]
  <2>1. f \in Times \cup {NoRow} /\ f # t
    BY <1>7, <1>8
  <2>2. field'[table'[u]] = f
    BY <1>2, <1>5, <1>8
  <2> HIDE DEF f
  <2>3. f' = f
    BY <2>2 DEF f
  <2>4. AsNew(f, u)' <=> AsNew(f, u)
    BY <1>6, <1>8, <2>1, <2>3
  <2> QED
    BY <2>4 DEF f
<1>9. Rooted'
  <2>1. \A u \in Times : table[u] # NoDoc => table'[u] # NoDoc
    BY <1>2, <1>5
  <2> QED
    BY <1>2, <1>7, <2>1 DEF FreshInv, DeltaInv, Rooted
<1>10. t \in Nat /\ cursor \in Nat /\ window.end \in Nat
  BY DeltaNumbers, Bounds DEF FreshInv, DeltaInv, Times
<1>11. FieldsFollow'
  <2> SUFFICES ASSUME NEW u \in 0 .. cursor - 1, table'[u] # NoDoc, u \notin missed'
               PROVE  AsNew(field[table[u]], u)' \/ table'[u] \in rewritten
    BY <1>2 DEF FieldsFollow
  <2>1. u \in Times
    BY <1>10, Bounds DEF FreshInv, DeltaInv, DeltaTyped, Times
  <2>2. u # t
    <3>1. dloop = "patching" => cursor <= window.end
      BY DEF FreshInv, DeltaInv, WindowFaithful
    <3> QED
      BY <1>2, <1>10, <3>1
  <2>3. u \notin missed
    BY <1>3
  <2>4. table'[u] = table[u] /\ table[u] \in Docs
    BY <1>5, <2>1, <2>2, Bounds DEF FreshInv, DeltaInv, DeltaTyped
  <2>5. AsNew(field[table[u]], u) \/ table[u] \in rewritten
    BY <2>3, <2>4, Bounds DEF FreshInv, DeltaInv, FieldsFollow
  <2>6. AsNew(field[table[u]], u)' <=> AsNew(field[table[u]], u)
    BY <1>8, <2>1, <2>2, <2>4
  <2> QED
    BY <2>4, <2>5, <2>6
<1>12. WindowFaithful'
  <2> SUFFICES ASSUME dloop = "patching" PROVE WindowFaithful'
    BY <1>2 DEF WindowFaithful
  <2>1. /\ cursor <= window.end /\ rows \subseteq cursor .. window.end - 1
        /\ \A u \in cursor .. window.end - 1 : u \in Times
    <3>1. cursor <= window.end /\ rows \subseteq cursor .. window.end - 1
      BY DEF FreshInv, DeltaInv, WindowFaithful
    <3>2. cursor \in Nat /\ window.end \in 0 .. MaxTime
      BY <1>10 DEF FreshInv, DeltaInv, DeltaTyped, Times
    <3>3. cursor .. window.end - 1 \subseteq Times
      BY <3>2, Bounds DEF Times
    <3> QED
      BY <3>1, <3>3
  <2>2. t \in cursor .. window.end - 1 => t \in missed'
    BY <1>2, <1>10
  <2>3. ASSUME NEW v \in rows
        PROVE  /\ table'[v] # NoDoc
               /\ \A u \in cursor .. window.end - 1 :
                     table'[u] = table'[v] /\ u \notin missed' => AsNew(v, u)'
    <3>1. table[v] # NoDoc /\ v # t /\ v \in Times
      BY <1>2, <2>1 DEF FreshInv, DeltaInv, WindowFaithful
    <3>2. ASSUME NEW u \in cursor .. window.end - 1, table'[u] = table'[v], u \notin missed'
          PROVE  AsNew(v, u)'
      <4>1. u # t /\ u \in Times /\ u \notin missed
        BY <1>3, <2>1, <2>2, <3>2
      <4>2. AsNew(v, u)
        BY <1>5, <3>1, <3>2, <4>1 DEF FreshInv, DeltaInv, WindowFaithful
      <4> QED
        BY <1>6, <3>1, <4>1, <4>2
    <3> QED
      BY <1>5, <3>1, <3>2
  <2>4. ASSUME NEW u \in cursor .. window.end - 1, table'[u] # NoDoc
        PROVE  Answered(u)' \/ \E v \in rows : table'[v] = table'[u]
    <3>1. CASE u = t
      BY <2>2, <3>1 DEF Answered
    <3>2. CASE u # t
      <4>1. table'[u] = table[u]
        BY <1>5, <2>1, <3>2
      <4>2. Answered(u) \/ \E v \in rows : table[v] = table[u]
        BY <2>4, <4>1 DEF FreshInv, DeltaInv, WindowFaithful
      <4>3. \A v \in rows : table'[v] = table[v]
        <5>1. \A v \in rows : table[v] # NoDoc /\ v \in Times
          BY <2>1 DEF FreshInv, DeltaInv, WindowFaithful
        <5> QED
          BY <1>2, <1>5, <5>1
      <4>4. Answered(u) => Answered(u)'
        <5>1. table[u] \in Docs /\ u \in Times
          BY <2>1, <2>4, <4>1, Bounds DEF FreshInv, DeltaInv, DeltaTyped
        <5>2. AsNew(field[table[u]], u)' <=> AsNew(field[table[u]], u)
          BY <1>8, <3>2, <5>1
        <5> QED
          BY <1>2, <1>3, <4>1, <5>2 DEF Answered
      <4> QED
        BY <4>1, <4>2, <4>3, <4>4
    <3> QED
      BY <3>1, <3>2
  <2> QED
    BY <1>2, <2>1, <2>3, <2>4 DEF WindowFaithful
<1>13. DeltaInv'
  BY <1>2, <1>4, <1>11, <1>12, <1>9 DEF FreshInv, DeltaInv
<1> QED
  BY <1>1, <1>13 DEF FreshInv

LEMMA ClockFresh ==
  ASSUME FreshInv, Tick
  PROVE  FreshInv'
<1>1. RefreshInv'
  BY RefreshStands DEF FreshInv, Tick, refreshSide, refreshVars, indexVars
<1>2. /\ clock < MaxTime /\ clock' = clock + 1
      /\ field' = field /\ dloop' = dloop /\ cursor' = cursor /\ window' = window
      /\ rows' = rows /\ dfails' = dfails /\ table' = table /\ missed' = missed
      /\ rewritten' = rewritten /\ partition' = partition
  BY DEF Tick, indexVars, deltaVars
<1>3. clock \in Nat /\ cursor \in Nat /\ window.now \in Nat
  BY DeltaNumbers DEF FreshInv, DeltaInv
<1>4. clock' \in Times
  BY <1>2, <1>3, Bounds DEF Times
<1>5. DeltaTyped'
  BY <1>2, <1>4 DEF FreshInv, DeltaInv, DeltaTyped
<1>6. WindowFaithful' /\ FieldsFollow' /\ Rooted'
  BY <1>2 DEF FreshInv, DeltaInv, WindowFaithful, FieldsFollow, Answered, AsNew, Rooted
<1>7. cursor' <= clock' /\ (window.now <= clock => window.now <= clock')
  BY <1>2, <1>3 DEF FreshInv, DeltaInv
<1>8. DeltaInv'
  BY <1>2, <1>5, <1>6, <1>7 DEF FreshInv, DeltaInv
<1> QED
  BY <1>1, <1>8 DEF FreshInv

-----------------------------------------------------------------------------

LEMMA FlagsStayFlags == Flags /\ [Next]_vars => Flags'
  BY DEF Flags, Next, vars, RefreshStep, RefreshTick, RefreshPauses, Upsert, CycleEnds,
         RunRaises, RefreshCancelled, CycleOver, DeltaStep, DeltaTick, Fetched,
         CycleRaises, Patch, Commit, DeltaCancelled, Boot, Shutdown, RefreshStopped,
         DeltaStopped, Crash, Gone, Event, Land, Tick, refreshVars, deltaVars

LEMMA NextFresh == FreshInv /\ Flags /\ [Next]_vars => FreshInv'
<1> SUFFICES ASSUME FreshInv, Flags, [Next]_vars PROVE FreshInv'
  OBVIOUS
<1>1. CASE RefreshStep
  BY <1>1, RefreshTickFresh, RefreshPausesFresh, UpsertFresh, CycleEndsFresh,
     RefreshCancelledFresh
     DEF RefreshStep
<1>2. CASE DeltaStep
  BY <1>2, DeltaStepFresh
<1>3. CASE Boot \/ Shutdown \/ RefreshStopped
  BY <1>3, BootFresh, StoppingFresh
<1>4. CASE DeltaStopped \/ Crash
  BY <1>4, GoneFresh DEF DeltaStopped, Crash
<1>5. CASE \E d \in Docs : Event(d)
  BY <1>5, EventFresh
<1>6. CASE \E t \in Times, d \in Audited : Land(t, d)
  BY <1>6, LandFresh
<1>7. CASE Tick
  BY <1>7, ClockFresh
<1>8. CASE UNCHANGED vars
  <2>1. UNCHANGED refreshSide /\ UNCHANGED deltaSide
    BY <1>8 DEF vars, refreshSide, deltaSide, indexVars, refreshVars, deltaVars
  <2> QED
    BY <2>1, RefreshStands, DeltaStands DEF FreshInv
<1> QED
  BY <1>1, <1>2, <1>3, <1>4, <1>5, <1>6, <1>7, <1>8 DEF Next

LEMMA IndexIsConsistent == Spec => [](FreshInv /\ Flags)
<1>1. Init => FreshInv /\ Flags
  BY InitFresh DEF Init, Flags
<1>2. (FreshInv /\ Flags) /\ [Next]_vars => (FreshInv /\ Flags)'
  BY NextFresh, FlagsStayFlags
<1> QED
  BY <1>1, <1>2, PTL DEF Spec

(* Every variable has its type; the drivers never count more failures than *)
(* they pause at, and the cursor and the windows stay within the clock.    *)
THEOREM FreshnessTypeCorrect == Spec => []TypeOK
<1>1. FreshInv /\ Flags => TypeOK
  <2> SUFFICES ASSUME FreshInv, Flags PROVE TypeOK
    OBVIOUS
  <2>1. table \in [Times -> Docs \cup {NoDoc}]
    BY Bounds DEF FreshInv, DeltaInv, DeltaTyped
  <2> QED
    BY <2>1 DEF FreshInv, RefreshInv, RefreshTyped, DeltaInv, DeltaTyped, Flags, TypeOK
<1> QED
  BY <1>1, IndexIsConsistent, PTL

(* A version is recorded as seen only when every listing that has not      *)
(* changed since is in the index as it was then.                           *)
THEOREM WhatIsSeenIsIndexed == Spec => []SeenIsIndexed
<1>1. FreshInv => SeenIsIndexed
  BY DEF FreshInv, RefreshInv
<1> QED
  BY <1>1, IndexIsConsistent, PTL

(* The mutable fields follow the audit rows the cursor has passed, but for *)
(* rows known to be missed and points indexed again.                       *)
THEOREM FieldsFollowTheCursor == Spec => []FieldsFollow
<1>1. FreshInv => FieldsFollow
  BY DEF FreshInv, DeltaInv
<1> QED
  BY <1>1, IndexIsConsistent, PTL

=============================================================================
