------------------------ MODULE StructuralGate_proofs -------------------------
(***************************************************************************)
(* For any number of lookups and any time to live: the record, the lock    *)
(* and its queue keep their types, probes of a model are shared, and no    *)
(* lookup is left behind.  The queue matters to the last alone.            *)
(***************************************************************************)
EXTENDS StructuralGate, SequenceTheorems, TLAPS

LEMMA InitTypeOK == Init => TypeOK
  BY GateConfig DEF Init, TypeOK

(* A sequence without its i-th element.                                    *)
LEMMA WithoutOne ==
  ASSUME NEW S, NEW s \in Seq(S), NEW i \in 1 .. Len(s)
  PROVE  SubSeq(s, 1, i - 1) \o SubSeq(s, i + 1, Len(s)) \in Seq(S)
  <1>1. SubSeq(s, 1, i - 1) \in Seq(S)
    BY SubSeqProperties
  <1>2. SubSeq(s, i + 1, Len(s)) \in Seq(S)
    BY SubSeqProperties
  <1>3. QED
    BY <1>1, <1>2, ConcatProperties

LEMMA NextTypeOK == TypeOK /\ [Next]_vars => TypeOK'
  <1> SUFFICES ASSUME TypeOK, [Next]_vars PROVE TypeOK'
    OBVIOUS
  <1> USE GateConfig DEF TypeOK, Goto, Verdicts
  <1>1. ASSUME NEW c \in Calls, Lookup(c)
        PROVE  TypeOK'
    <2>1. CASE ProbeAtOnce(c)
      BY <2>1 DEF ProbeAtOnce, recordVars
    <2>2. CASE Wait(c)
      BY <2>2 DEF Wait, recordVars
    <2>3. CASE Wake(c)
      BY <2>3, HeadTailProperties DEF Wake, recordVars
    <2>4. CASE ProbeEnds(c)
      BY <2>4 DEF ProbeEnds
    <2>5. CASE ProbeTimesOut(c)
      BY <2>5 DEF ProbeTimesOut, recordVars
    <2>6. CASE CancelWait(c)
      <3>1. queue' \in Seq(Calls)
        BY <2>6, WithoutOne DEF CancelWait
      <3>2. QED
        BY <2>6, <3>1 DEF CancelWait, recordVars
    <2>7. CASE CancelProbe(c)
      BY <2>7 DEF CancelProbe, recordVars
    <2>8. QED
      BY <1>1, <2>1, <2>2, <2>3, <2>4, <2>5, <2>6, <2>7 DEF Lookup
  <1>2. CASE Invalidate
    BY <1>2 DEF Invalidate, lockVars
  <1>3. CASE Tick
    BY <1>3 DEF Tick, lockVars
  <1>4. CASE UNCHANGED vars
    BY <1>4 DEF vars, recordVars, lockVars
  <1>5. QED
    BY <1>1, <1>2, <1>3, <1>4 DEF Next

(* The record never outlives its time to live, whatever callers do.        *)
THEOREM GateTypeCorrect == Spec => []TypeOK
  BY InitTypeOK, NextTypeOK, PTL DEF Spec

-----------------------------------------------------------------------------

(* The prober is the holder of the lock, and holds it over a miss only.    *)
ProberHolds ==
    /\ pc \in [Calls -> {"idle", "waiting", "probing"}]
    /\ \A c \in Calls : pc[c] = "probing" <=> holder = c
    /\ holder # Nobody => ~Known

LEMMA InitProberHolds == Init => ProberHolds
  BY GateConfig DEF Init, ProberHolds, Known

LEMMA NextProberHolds == ProberHolds /\ [Next]_vars => ProberHolds'
  <1> SUFFICES ASSUME ProberHolds, [Next]_vars PROVE ProberHolds'
    OBVIOUS
  <1> USE GateConfig DEF ProberHolds, Goto
  <1>1. ASSUME NEW c \in Calls, Lookup(c)
        PROVE  ProberHolds'
    <2>1. CASE ProbeAtOnce(c)
      BY <2>1 DEF ProbeAtOnce, recordVars, Known
    <2>2. CASE Wait(c)
      BY <2>2 DEF Wait, recordVars, Known
    <2>3. CASE Wake(c)
      <3>1. CASE Known
        <4>1. pc[c] # "probing"
          BY <2>3 DEF Wake
        <4>2. QED
          BY <2>3, <3>1, <4>1 DEF Wake, recordVars, Known
      <3>2. CASE ~Known
        BY <2>3, <3>2 DEF Wake, recordVars, Known
      <3>3. QED
        BY <3>1, <3>2
    <2>4. CASE ProbeEnds(c)
      BY <2>4 DEF ProbeEnds
    <2>5. CASE ProbeTimesOut(c)
      BY <2>5 DEF ProbeTimesOut
    <2>6. CASE CancelWait(c)
      BY <2>6 DEF CancelWait, recordVars, Known
    <2>7. CASE CancelProbe(c)
      BY <2>7 DEF CancelProbe, recordVars, Known
    <2>8. QED
      BY <1>1, <2>1, <2>2, <2>3, <2>4, <2>5, <2>6, <2>7 DEF Lookup
  <1>2. CASE Invalidate \/ Tick
    BY <1>2 DEF Invalidate, Tick, Known, lockVars
  <1>3. CASE UNCHANGED vars
    BY <1>3 DEF vars, recordVars, lockVars, Known
  <1>4. QED
    BY <1>1, <1>2, <1>3 DEF Next

(* Never is a model with a known verdict probed, nor one by two calls.     *)
THEOREM SharedProbes == Spec => []ProbesAreShared
  <1>1. ProberHolds => ProbesAreShared
    BY GateConfig DEF ProberHolds, ProbesAreShared
  <1>2. QED
    BY <1>1, InitProberHolds, NextProberHolds, PTL DEF Spec

-----------------------------------------------------------------------------

(* The queue: who waits is in it, once, and nobody else is.                *)
Queued(q, c) == \E i \in 1 .. Len(q) : q[i] = c

Once(q) == \A i, j \in 1 .. Len(q) : q[i] = q[j] => i = j

QueueOfWaiting ==
    /\ Once(queue)
    /\ \A c \in Calls : pc[c] = "waiting" <=> Queued(queue, c)

(* Who comes last is added.                                                *)
LEMMA QueuedLast ==
  ASSUME NEW q \in Seq(Calls), NEW c \in Calls, Once(q), ~Queued(q, c)
  PROVE  /\ Once(Append(q, c))
         /\ \A d \in Calls : Queued(Append(q, c), d) <=> d = c \/ Queued(q, d)
<1> DEFINE n == Len(q)
           r == Append(q, c)
<1>1. n \in Nat /\ Len(r) = n + 1 /\ r[n + 1] = c /\ \A i \in 1 .. n : r[i] = q[i]
  BY LenProperties, AppendProperties
<1> HIDE DEF r
<1>2. \A i \in 1 .. n + 1 : i \in 1 .. n \/ i = n + 1
  BY <1>1
<1>3. n + 1 \in 1 .. n + 1 /\ \A i \in 1 .. n : i \in 1 .. n + 1
  BY <1>1
<1>4. Once(r)
  BY <1>1, <1>2 DEF Once, Queued
<1>5. \A d \in Calls : Queued(r, d) <=> d = c \/ Queued(q, d)
  BY <1>1, <1>2, <1>3 DEF Queued
<1> QED
  BY <1>4, <1>5 DEF r

(* Who leaves from any place of the queue is gone, and only he.            *)
LEMMA LeftQueue ==
  ASSUME NEW q \in Seq(Calls), Once(q), NEW i \in 1 .. Len(q)
  PROVE  LET r == SubSeq(q, 1, i - 1) \o SubSeq(q, i + 1, Len(q))
         IN  /\ Once(r)
             /\ \A d \in Calls : Queued(r, d) <=> d # q[i] /\ Queued(q, d)
<1> DEFINE n == Len(q)
           a == SubSeq(q, 1, i - 1)
           b == SubSeq(q, i + 1, n)
           r == a \o b
           from(j) == IF j < i THEN j ELSE j + 1
<1>1. n \in Nat /\ i \in Nat /\ 1 <= i /\ i <= n
  BY LenProperties
<1>2. a \in Seq(Calls) /\ Len(a) = i - 1 /\ \A j \in 1 .. i - 1 : a[j] = q[j]
  <2>1. \A j \in 1 .. i - 1 : j \in 1 .. n
    BY <1>1
  <2>2. \A j \in 1 .. i - 1 : q[j] \in Calls
    BY <2>1, ElementOfSeq
  <2>3. /\ a \in Seq(Calls) /\ Len(a) = IF 1 <= i - 1 THEN (i - 1) - 1 + 1 ELSE 0
        /\ \A j \in 1 .. (i - 1) - 1 + 1 : a[j] = q[1 + j - 1]
    BY <1>1, <2>2, SubSeqProperties
  <2> HIDE DEF a
  <2>4. (i - 1) - 1 + 1 = i - 1 /\ \A j \in 1 .. i - 1 : 1 + j - 1 = j
    BY <1>1
  <2>5. Len(a) = i - 1
    BY <1>1, <2>3
  <2> QED
    BY <2>3, <2>4, <2>5
<1>3. b \in Seq(Calls) /\ Len(b) = n - i /\ \A j \in 1 .. n - i : b[j] = q[i + j]
  <2>1. \A j \in i + 1 .. n : j \in 1 .. n
    BY <1>1
  <2>2. \A j \in i + 1 .. n : q[j] \in Calls
    BY <2>1, ElementOfSeq
  <2>3. /\ b \in Seq(Calls) /\ Len(b) = IF i + 1 <= n THEN n - (i + 1) + 1 ELSE 0
        /\ \A j \in 1 .. n - (i + 1) + 1 : b[j] = q[(i + 1) + j - 1]
    BY <1>1, <2>2, SubSeqProperties
  <2> HIDE DEF b
  <2>4. n - (i + 1) + 1 = n - i /\ \A j \in 1 .. n - i : (i + 1) + j - 1 = i + j
    BY <1>1
  <2>5. Len(b) = n - i
    BY <1>1, <2>3
  <2> QED
    BY <2>3, <2>4, <2>5
<1> HIDE DEF a, b
<1>4. Len(r) = Len(a) + Len(b) /\ \A j \in 1 .. Len(a) + Len(b) :
         r[j] = IF j <= Len(a) THEN a[j] ELSE b[j - Len(a)]
  BY <1>2, <1>3, ConcatProperties
<1> HIDE DEF r
<1>5. Len(r) = n - 1
  BY <1>1, <1>2, <1>3, <1>4
<1>6. ASSUME NEW j \in 1 .. n - 1
      PROVE  r[j] = q[from(j)] /\ from(j) \in 1 .. n /\ from(j) # i
  <2>1. j \in Nat /\ j \in 1 .. Len(a) + Len(b)
    BY <1>1, <1>2, <1>3
  <2>2. CASE j < i
    <3>1. j <= Len(a) /\ j \in 1 .. i - 1
      BY <1>1, <1>2, <2>1, <2>2
    <3>2. r[j] = q[j]
      BY <1>2, <1>4, <2>1, <3>1
    <3> QED
      BY <1>1, <2>1, <2>2, <3>2
  <2>3. CASE ~(j < i)
    <3>1. ~(j <= Len(a)) /\ j - Len(a) \in 1 .. n - i /\ i + (j - Len(a)) = j + 1
      BY <1>1, <1>2, <2>1, <2>3
    <3>2. r[j] = q[j + 1]
      BY <1>3, <1>4, <2>1, <3>1
    <3> QED
      BY <1>1, <2>1, <2>3, <3>2
  <2> QED
    BY <2>2, <2>3
<1>7. \A j, h \in 1 .. n - 1 : from(j) = from(h) => j = h
  BY <1>1
<1>8. \A h \in 1 .. n : h # i => \E j \in 1 .. n - 1 : from(j) = h
  <2> SUFFICES ASSUME NEW h \in 1 .. n, h # i PROVE \E j \in 1 .. n - 1 : from(j) = h
    OBVIOUS
  <2>1. CASE h < i
    BY <1>1, <2>1
  <2>2. CASE i < h
    <3>1. h - 1 \in 1 .. n - 1 /\ from(h - 1) = h
      BY <1>1, <2>2
    <3> QED
      BY <3>1
  <2> QED
    BY <1>1, <2>1, <2>2
<1> HIDE DEF from
<1>9. Once(r)
  BY <1>5, <1>6, <1>7 DEF Once
<1>10. ASSUME NEW d \in Calls, Queued(r, d) PROVE d # q[i] /\ Queued(q, d)
  <2>1. PICK j \in 1 .. n - 1 : r[j] = d
    BY <1>5, <1>10 DEF Queued
  <2>2. d = q[from(j)] /\ from(j) \in 1 .. n /\ from(j) # i
    BY <1>6, <2>1
  <2> QED
    BY <2>2 DEF Queued, Once
<1>11. ASSUME NEW d \in Calls, d # q[i], Queued(q, d) PROVE Queued(r, d)
  <2>1. PICK h \in 1 .. n : q[h] = d
    BY <1>11 DEF Queued
  <2>2. PICK j \in 1 .. n - 1 : from(j) = h
    BY <1>8, <1>11, <2>1
  <2> QED
    BY <1>5, <1>6, <2>1, <2>2 DEF Queued
<1> QED
  BY <1>9, <1>10, <1>11 DEF r, a, b

(* The first leaves.                                                       *)
LEMMA LeftFirst ==
  ASSUME NEW q \in Seq(Calls), Once(q), q # <<>>
  PROVE  /\ Once(Tail(q))
         /\ \A d \in Calls : Queued(Tail(q), d) <=> d # Head(q) /\ Queued(q, d)
         /\ Head(q) \in Calls /\ Queued(q, Head(q))
<1> DEFINE n == Len(q)
           r == Tail(q)
<1>1. n \in Nat /\ n > 0 /\ Head(q) = q[1] /\ q[1] \in Calls
  BY HeadTailProperties, LenProperties, EmptySeq
<1>2. Len(r) = n - 1 /\ \A j \in 1 .. n - 1 : r[j] = q[j + 1]
  BY HeadTailProperties
<1> HIDE DEF r
<1>3. \A j \in 1 .. n - 1 : j + 1 \in 1 .. n /\ j + 1 # 1
  BY <1>1
<1>4. \A i, j \in 1 .. n - 1 : i + 1 = j + 1 => i = j
  BY <1>1
<1>5. \A h \in 1 .. n : h # 1 => h - 1 \in 1 .. n - 1 /\ (h - 1) + 1 = h
  BY <1>1
<1>6. 1 \in 1 .. n
  BY <1>1
<1>7. Once(r)
  BY <1>2, <1>3, <1>4 DEF Once
<1>8. ASSUME NEW d \in Calls, Queued(r, d) PROVE d # q[1] /\ Queued(q, d)
  <2>1. PICK j \in 1 .. n - 1 : r[j] = d
    BY <1>2, <1>8 DEF Queued
  <2>2. d = q[j + 1] /\ j + 1 \in 1 .. n /\ j + 1 # 1
    BY <1>2, <1>3, <2>1
  <2> QED
    BY <1>6, <2>2 DEF Queued, Once
<1>9. ASSUME NEW d \in Calls, d # q[1], Queued(q, d) PROVE Queued(r, d)
  <2>1. PICK h \in 1 .. n : q[h] = d
    BY <1>9 DEF Queued
  <2>2. h - 1 \in 1 .. n - 1 /\ (h - 1) + 1 = h
    BY <1>5, <1>9, <2>1
  <2>3. r[h - 1] = d
    BY <1>2, <2>1, <2>2
  <2> QED
    BY <1>2, <2>2, <2>3 DEF Queued
<1>10. Queued(q, q[1])
  BY <1>6 DEF Queued
<1> QED
  BY <1>1, <1>7, <1>8, <1>9, <1>10 DEF r

LEMMA InitQueueOfWaiting == Init => QueueOfWaiting
<1>1. Len(<<>>) = 0 /\ 1 .. 0 = {}
  OBVIOUS
<1> QED
  BY <1>1 DEF Init, QueueOfWaiting, Once, Queued

LEMMA NextQueueOfWaiting ==
  ASSUME TypeOK, QueueOfWaiting, [Next]_vars
  PROVE  QueueOfWaiting'
<1> USE DEF Goto
<1>0. pc \in [Calls -> {"idle", "waiting", "probing"}] /\ queue \in Seq(Calls)
  BY DEF TypeOK
<1>1. ASSUME NEW c \in Calls, pc[c] # "waiting", queue' = queue,
             NEW place \in {"idle", "probing"}, Goto(c, place)
      PROVE  QueueOfWaiting'
  BY <1>0, <1>1 DEF QueueOfWaiting, Once, Queued
<1>2. ASSUME NEW c \in Calls, Lookup(c)
      PROVE  QueueOfWaiting'
  <2>1. CASE ProbeAtOnce(c)
    BY <1>1, <2>1 DEF ProbeAtOnce
  <2>2. CASE Wait(c)
    <3>1. pc[c] = "idle" /\ pc' = [pc EXCEPT ![c] = "waiting"] /\ queue' = Append(queue, c)
      BY <2>2 DEF Wait
    <3>2. /\ Once(queue')
          /\ \A d \in Calls : Queued(queue', d) <=> d = c \/ Queued(queue, d)
      BY <1>0, <3>1, QueuedLast DEF QueueOfWaiting
    <3>3. \A d \in Calls : pc'[d] = IF d = c THEN "waiting" ELSE pc[d]
      BY <1>0, <3>1
    <3>4. \A d \in Calls : pc'[d] = "waiting" <=> Queued(queue', d)
      BY <3>2, <3>3 DEF QueueOfWaiting
    <3> QED
      BY <3>2, <3>4 DEF QueueOfWaiting, Once, Queued
  <2>3. CASE Wake(c)
    <3>1. /\ queue # <<>> /\ c = Head(queue) /\ queue' = Tail(queue)
          /\ Goto(c, "idle") \/ Goto(c, "probing")
      BY <2>3 DEF Wake
    <3>2. /\ Once(queue')
          /\ \A d \in Calls : Queued(queue', d) <=> d # c /\ Queued(queue, d)
      BY <1>0, <3>1, LeftFirst DEF QueueOfWaiting
    <3>3. \A d \in Calls : pc'[d] = "waiting" <=> d # c /\ pc[d] = "waiting"
      BY <1>0, <3>1
    <3>4. \A d \in Calls : pc'[d] = "waiting" <=> Queued(queue', d)
      BY <3>2, <3>3 DEF QueueOfWaiting
    <3> QED
      BY <3>2, <3>4 DEF QueueOfWaiting, Once, Queued
  <2>4. CASE ProbeEnds(c)
    BY <1>1, <2>4 DEF ProbeEnds
  <2>5. CASE ProbeTimesOut(c)
    BY <1>1, <2>5 DEF ProbeTimesOut
  <2>6. CASE CancelWait(c)
    <3>1. pc[c] = "waiting" /\ Goto(c, "idle")
      BY <2>6 DEF CancelWait
    <3>2. PICK i \in 1 .. Len(queue) :
             /\ queue[i] = c
             /\ queue' = SubSeq(queue, 1, i - 1) \o SubSeq(queue, i + 1, Len(queue))
      BY <2>6 DEF CancelWait
    <3>3. /\ Once(queue')
          /\ \A d \in Calls : Queued(queue', d) <=> d # c /\ Queued(queue, d)
      BY <1>0, <3>2, LeftQueue DEF QueueOfWaiting
    <3>4. \A d \in Calls : pc'[d] = "waiting" <=> d # c /\ pc[d] = "waiting"
      BY <1>0, <3>1
    <3>5. \A d \in Calls : pc'[d] = "waiting" <=> Queued(queue', d)
      BY <3>3, <3>4 DEF QueueOfWaiting
    <3> QED
      BY <3>3, <3>5 DEF QueueOfWaiting, Once, Queued
  <2>7. CASE CancelProbe(c)
    BY <1>1, <2>7 DEF CancelProbe
  <2> QED
    BY <1>2, <2>1, <2>2, <2>3, <2>4, <2>5, <2>6, <2>7 DEF Lookup
<1>3. ASSUME pc' = pc, queue' = queue PROVE QueueOfWaiting'
  BY <1>3 DEF QueueOfWaiting, Once, Queued
<1> QED
  BY <1>2, <1>3 DEF Next, Invalidate, Tick, vars, lockVars

(* However many lookups queue, time out and are cancelled, none is left    *)
(* behind a lock that nobody will release, or outside the queue.           *)
THEOREM NobodyLeftBehind == Spec => []NobodyIsStranded
<1>1. TypeOK /\ ProberHolds /\ QueueOfWaiting => NobodyIsStranded
  BY DEF TypeOK, ProberHolds, QueueOfWaiting, Queued, NobodyIsStranded
<1>2. TypeOK /\ QueueOfWaiting /\ [Next]_vars => QueueOfWaiting'
  BY NextQueueOfWaiting
<1>3. Spec => []TypeOK
  BY GateTypeCorrect
<1>4. Spec => []ProberHolds
  BY InitProberHolds, NextProberHolds, PTL DEF Spec
<1>5. Spec => []QueueOfWaiting
  BY InitQueueOfWaiting, <1>2, <1>3, PTL DEF Spec
<1> QED
  BY <1>1, <1>3, <1>4, <1>5, PTL

=============================================================================
