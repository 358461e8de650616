-------------------------- MODULE RateLimiter_proofs --------------------------
(***************************************************************************)
(* For any clients, limits, windows and any length of the clock's tick:    *)
(* the rate is bounded, a client that comes back when told is admitted,    *)
(* and buckets are forgotten in the order in which the clients called.     *)
(***************************************************************************)
EXTENDS RateLimiter, SequenceTheorems, WellFoundedInduction, TLAPS

(* Every set of naturals with an element has a least one.                  *)
LEMMA LeastNatural ==
  ASSUME NEW N \in SUBSET Nat, N # {}
  PROVE  \E m \in N : \A n \in N : m <= n
<1>1. PICK m \in N : \A n \in N : <<n, m>> \notin OpToRel(<, Nat)
  BY NatLessThanWellFounded, WFMin
<1>2. ASSUME NEW n \in N PROVE m <= n
  <2>1. ~(n < m)
    BY <1>1 DEF OpToRel
  <2> QED
    BY <2>1
<1> QED
  BY <1>2

-----------------------------------------------------------------------------
(* Times since a cutoff: a suffix of the times                             *)

(* r is s without its first m elements, and these are before the cutoff.   *)
DropsTo(s, cutoff, r, m) ==
    /\ m \in 0 .. Len(s)
    /\ Len(r) = Len(s) - m
    /\ \A i \in 1 .. Len(r) : r[i] = s[m + i]
    /\ \A i \in 1 .. m : s[i] < cutoff
    /\ r # <<>> => r[1] >= cutoff

LEMMA SinceDrops ==
  ASSUME NEW S \in SUBSET Int, NEW s \in Seq(S), NEW a \in Int
  PROVE  Since(s, a) \in Seq(S) /\ \E m \in Nat : DropsTo(s, a, Since(s, a), m)
<1> DEFINE kept == {i \in DOMAIN s : s[i] >= a}
           len == Len(s)
<1>1. len \in Nat /\ DOMAIN s = 1 .. len /\ \A i \in 1 .. len : s[i] \in S
  BY LenProperties, ElementOfSeq
<1>2. CASE kept = {}
  <2>1. Since(s, a) = <<>>
    BY <1>2 DEF Since
  <2>2. ASSUME NEW i \in 1 .. len PROVE s[i] < a
    <3>1. s[i] \in Int /\ ~(s[i] >= a)
      BY <1>1, <1>2
    <3> QED
      BY <3>1
  <2>3. DropsTo(s, a, <<>>, len)
    BY <1>1, <2>2, EmptySeq DEF DropsTo
  <2> QED
    BY <1>1, <2>1, <2>3, EmptySeq
<1>3. CASE kept # {}
  <2>0. kept \in SUBSET Nat
    BY <1>1
  <2> HIDE DEF kept
  <2>1. PICK m \in kept : \A i \in kept : m <= i
    BY <1>3, <2>0, LeastNatural
  <2>2. Min(kept) \in kept /\ \A i \in kept : Min(kept) <= i
    BY <2>1 DEF Min
  <2> DEFINE first == Min(kept)
             r == SubSeq(s, first, len)
  <2>3. first \in 1 .. len /\ s[first] >= a
    BY <1>1, <2>2 DEF kept
  <2>4. Since(s, a) = r
    BY <1>3 DEF Since, kept
  <2> HIDE DEF first
  <2>5. /\ r \in Seq(S) /\ Len(r) = len - first + 1
        /\ \A i \in 1 .. len - first + 1 : r[i] = s[first + i - 1]
    <3>1. \A i \in first .. len : s[i] \in S
      BY <1>1, <2>3
    <3> QED
      BY <1>1, <2>3, <3>1, SubSeqProperties
  <2>6. \A i \in 1 .. first - 1 : s[i] < a
    <3> SUFFICES ASSUME NEW i \in 1 .. first - 1 PROVE s[i] < a
      OBVIOUS
    <3>1. i \in 1 .. len /\ ~(first <= i)
      BY <1>1, <2>3
    <3>2. s[i] \in Int /\ i \notin kept
      BY <1>1, <2>2, <3>1 DEF first
    <3> QED
      BY <1>1, <3>1, <3>2 DEF kept
  <2>7. r[1] = s[first]
    BY <1>1, <2>3, <2>5
  <2>8. \A i \in 1 .. len - first + 1 : r[i] = s[(first - 1) + i]
    BY <1>1, <2>3, <2>5
  <2> HIDE DEF r
  <2>9. DropsTo(s, a, r, first - 1)
    BY <1>1, <2>3, <2>5, <2>6, <2>7, <2>8 DEF DropsTo
  <2> QED
    BY <1>1, <2>3, <2>4, <2>5, <2>9
<1> QED
  BY <1>2, <1>3

(* That determines it.                                                     *)
LEMMA DropsOnce ==
  ASSUME NEW S \in SUBSET Int, NEW s \in Seq(S), NEW a \in Int,
         NEW r \in Seq(S), NEW m \in Nat, DropsTo(s, a, r, m)
  PROVE  Since(s, a) = r
<1>1. PICK n \in Nat : DropsTo(s, a, Since(s, a), n)
  BY SinceDrops
<1> DEFINE t == Since(s, a)
<1>2. t \in Seq(S) /\ DropsTo(s, a, t, n)
  BY <1>1, SinceDrops
<1> HIDE DEF t
<1>3. Len(s) \in Nat /\ \A i \in 1 .. Len(s) : s[i] \in Int
  BY LenProperties, ElementOfSeq
<1>4. m = n
  <2>1. CASE m < n
    <3>1. r # <<>> /\ r[1] = s[m + 1] /\ s[m + 1] < a
      <4>1. Len(r) = Len(s) - m /\ n <= Len(s)
        BY <1>2, <1>3 DEF DropsTo
      <4>2. 1 \in 1 .. Len(r) /\ m + 1 \in 1 .. n
        BY <1>3, <2>1, <4>1
      <4>3. r # <<>>
        BY <1>3, <4>2, EmptySeq
      <4> QED
        BY <1>2, <4>2, <4>3 DEF DropsTo
    <3>2. m + 1 \in 1 .. Len(s)
      BY <1>2, <1>3, <2>1 DEF DropsTo
    <3> QED
      BY <1>3, <3>1, <3>2 DEF DropsTo
  <2>2. CASE n < m
    <3>1. t # <<>> /\ t[1] = s[n + 1] /\ s[n + 1] < a
      <4>1. Len(t) = Len(s) - n /\ m <= Len(s)
        BY <1>2, <1>3 DEF DropsTo
      <4>2. 1 \in 1 .. Len(t) /\ n + 1 \in 1 .. m
        BY <1>3, <2>2, <4>1
      <4>3. t # <<>>
        BY <1>3, <4>2, EmptySeq
      <4> QED
        BY <1>2, <4>2, <4>3 DEF DropsTo
    <3>2. n + 1 \in 1 .. Len(s)
      BY <1>3, <2>2 DEF DropsTo
    <3> QED
      BY <1>2, <1>3, <3>1, <3>2 DEF DropsTo
  <2> QED
    BY <1>3, <2>1, <2>2 DEF DropsTo
<1>5. Len(t) = Len(r) /\ \A i \in 1 .. Len(t) : t[i] = r[i]
  BY <1>2, <1>4 DEF DropsTo
<1>6. t = r
  BY <1>2, <1>5, SeqEqual
<1> QED
  BY <1>6 DEF t

LEMMA SinceLonger ==
  ASSUME NEW S \in SUBSET Int, NEW s \in Seq(S), NEW a \in Int, NEW x \in S, x >= a
  PROVE  Since(Append(s, x), a) = Append(Since(s, a), x)
<1>1. PICK m \in Nat : DropsTo(s, a, Since(s, a), m)
  BY SinceDrops
<1> DEFINE t == Since(s, a)
           r == Append(t, x)
           sx == Append(s, x)
<1>2. t \in Seq(S) /\ DropsTo(s, a, t, m)
  BY <1>1, SinceDrops
<1> HIDE DEF t
<1>3. Len(s) \in Nat /\ Len(t) \in Nat
  BY <1>2, LenProperties
<1>4. /\ r \in Seq(S) /\ r # <<>> /\ Len(r) = Len(t) + 1
      /\ \A i \in 1 .. Len(t) : r[i] = t[i]
      /\ r[Len(t) + 1] = x
  BY <1>2, AppendProperties
<1>5. /\ sx \in Seq(S) /\ Len(sx) = Len(s) + 1
      /\ \A i \in 1 .. Len(s) : sx[i] = s[i]
      /\ sx[Len(s) + 1] = x
  BY AppendProperties
<1> HIDE DEF r, sx
<1>6. m \in 0 .. Len(sx) /\ Len(r) = Len(sx) - m
  BY <1>2, <1>3, <1>4, <1>5 DEF DropsTo
<1>7. ASSUME NEW i \in 1 .. Len(r) PROVE r[i] = sx[m + i]
  <2>1. CASE i = Len(t) + 1
    BY <1>2, <1>3, <1>4, <1>5, <2>1 DEF DropsTo
  <2>2. CASE i # Len(t) + 1
    <3>1. i \in 1 .. Len(t)
      BY <1>3, <1>4, <2>2
    <3>3. Len(t) = Len(s) - m /\ m \in 0 .. Len(s)
      BY <1>2 DEF DropsTo
    <3>2. m + i \in 1 .. Len(s)
      BY <1>3, <3>1, <3>3
    <3> QED
      BY <1>2, <1>4, <1>5, <3>1, <3>2 DEF DropsTo
  <2> QED
    BY <2>1, <2>2
<1>8. ASSUME NEW i \in 1 .. m PROVE sx[i] < a
  <2>1. i \in 1 .. Len(s) /\ s[i] < a
    BY <1>2, <1>3 DEF DropsTo
  <2> QED
    BY <1>5, <2>1
<1>9. r[1] >= a
  <2>1. CASE Len(t) = 0
    BY <1>4, <2>1
  <2>2. CASE Len(t) # 0
    BY <1>2, <1>3, <1>4, <2>2, EmptySeq DEF DropsTo
  <2> QED
    BY <2>1, <2>2
<1>10. DropsTo(sx, a, r, m)
  BY <1>6, <1>7, <1>8, <1>9 DEF DropsTo
<1> QED
  BY <1>4, <1>5, <1>10, DropsOnce DEF r, sx, t

(* Of two cutoffs the later one counts.                                    *)
LEMMA SinceLater ==
  ASSUME NEW S \in SUBSET Int, NEW s \in Seq(S), NEW a \in Int, NEW b \in Int, a <= b
  PROVE  Since(Since(s, a), b) = Since(s, b)
<1> DEFINE t == Since(s, a)
           r == Since(t, b)
<1>1. PICK m \in Nat : t \in Seq(S) /\ DropsTo(s, a, t, m)
  BY SinceDrops
<1>2. PICK n \in Nat : r \in Seq(S) /\ DropsTo(t, b, r, n)
  BY <1>1, SinceDrops
<1> HIDE DEF t, r
<1>3. Len(s) \in Nat /\ Len(t) \in Nat /\ Len(r) \in Nat
      /\ \A i \in 1 .. Len(s) : s[i] \in Int
  BY <1>1, <1>2, LenProperties, ElementOfSeq
<1>4. m + n \in 0 .. Len(s) /\ Len(r) = Len(s) - (m + n)
  BY <1>1, <1>2, <1>3 DEF DropsTo
<1>5. ASSUME NEW i \in 1 .. Len(r) PROVE r[i] = s[(m + n) + i]
  <2>1. n + i \in 1 .. Len(t) /\ r[i] = t[n + i]
    BY <1>2, <1>3 DEF DropsTo
  <2>2. t[n + i] = s[m + (n + i)]
    BY <1>1, <2>1 DEF DropsTo
  <2>3. m + (n + i) = (m + n) + i
    BY <1>3
  <2> QED
    BY <2>1, <2>2, <2>3
<1>6. ASSUME NEW i \in 1 .. m + n PROVE s[i] < b
  <2>1. CASE i \in 1 .. m
    BY <1>1, <1>3, <1>4, <2>1 DEF DropsTo
  <2>2. CASE i \notin 1 .. m
    <3>1. i - m \in 1 .. n /\ i - m \in 1 .. Len(t)
      BY <1>1, <1>2, <1>3, <2>2 DEF DropsTo
    <3>2. t[i - m] < b /\ t[i - m] = s[m + (i - m)]
      BY <1>1, <1>2, <3>1 DEF DropsTo
    <3> QED
      BY <3>2
  <2> QED
    BY <2>1, <2>2
<1>7. r # <<>> => r[1] >= b
  BY <1>2 DEF DropsTo
<1>8. DropsTo(s, b, r, m + n)
  BY <1>4, <1>5, <1>6, <1>7 DEF DropsTo
<1> QED
  BY <1>2, <1>8, DropsOnce DEF t, r

LEMMA SinceEarlier ==
  ASSUME NEW S \in SUBSET Int, NEW s \in Seq(S), NEW a \in Int, NEW b \in Int, b <= a
  PROVE  Since(Since(s, a), b) = Since(s, a)
<1> DEFINE t == Since(s, a)
<1>1. PICK m \in Nat : t \in Seq(S) /\ DropsTo(s, a, t, m)
  BY SinceDrops
<1> HIDE DEF t
<1>2. Len(t) \in Nat /\ \A i \in 1 .. Len(t) : t[i] \in Int
  BY <1>1, LenProperties, ElementOfSeq
<1>3. t # <<>> => t[1] \in Int
  BY <1>1, <1>2, EmptySeq
<1>4. DropsTo(t, b, t, 0)
  BY <1>1, <1>2, <1>3 DEF DropsTo
<1> QED
  BY <1>1, <1>4, DropsOnce DEF t

LEMMA SinceShorter ==
  ASSUME NEW S \in SUBSET Int, NEW s \in Seq(S), NEW a \in Int
  PROVE  /\ Len(Since(s, a)) \in Nat /\ Len(Since(s, a)) <= Len(s)
         /\ s # <<>> /\ s[1] < a => Len(Since(s, a)) < Len(s)
         /\ \A i \in 1 .. Len(s) : Len(s) - Len(Since(s, a)) >= i => s[i] < a
         /\ (\A i \in 1 .. Len(s) : s[i] < a) => Len(Since(s, a)) = 0
<1>1. PICK m \in Nat : Since(s, a) \in Seq(S) /\ DropsTo(s, a, Since(s, a), m)
  BY SinceDrops
<1>2. Len(s) \in Nat /\ Len(Since(s, a)) \in Nat /\ \A i \in 1 .. Len(s) : s[i] \in Int
  BY <1>1, LenProperties, ElementOfSeq
<1>3. Len(Since(s, a)) # 0 => /\ Since(s, a)[1] = s[m + 1] /\ s[m + 1] >= a
                              /\ m + 1 \in 1 .. Len(s)
  BY <1>1, <1>2, EmptySeq DEF DropsTo
<1>4. s # <<>> /\ s[1] < a => Len(Since(s, a)) < Len(s)
  <2> SUFFICES ASSUME s # <<>>, s[1] < a, m = 0 PROVE FALSE
    BY <1>1, <1>2 DEF DropsTo
  <2>1. Len(s) # 0
    BY EmptySeq
  <2> QED
    BY <1>1, <1>2, <1>3, <2>1 DEF DropsTo
<1>5. \A i \in 1 .. Len(s) : Len(s) - Len(Since(s, a)) >= i => s[i] < a
  BY <1>1, <1>2 DEF DropsTo
<1>6. (\A i \in 1 .. Len(s) : s[i] < a) => Len(Since(s, a)) = 0
  BY <1>2, <1>3
<1> QED
  BY <1>1, <1>2, <1>4, <1>5, <1>6 DEF DropsTo

LEMMA SinceMonotonic ==
  ASSUME NEW S \in SUBSET Int, NEW s \in Seq(S), NEW a \in Int, NEW b \in Int, a <= b
  PROVE  Len(Since(s, b)) <= Len(Since(s, a))
<1>1. Since(s, a) \in Seq(S) /\ Since(s, b) = Since(Since(s, a), b)
  BY SinceDrops, SinceLater
<1> QED
  BY <1>1, SinceShorter

-----------------------------------------------------------------------------
(* Clients in the order in which they called                               *)

LEMMA WithoutNothing ==
  ASSUME NEW s, NEW c, c \notin Range(s)
  PROVE  Without(s, c) = s
  BY DEF Without

LEMMA WithoutOne ==
  ASSUME NEW S, NEW s \in Seq(S), IsInjective(s), NEW i \in 1 .. Len(s)
  PROVE  /\ Without(s, s[i]) \in Seq(S)
         /\ Len(Without(s, s[i])) = Len(s) - 1
         /\ \A j \in 1 .. Len(s) - 1 :
               Without(s, s[i])[j] = IF j < i THEN s[j] ELSE s[j + 1]
<1> DEFINE len == Len(s)
           front == SubSeq(s, 1, i - 1)
           back == SubSeq(s, i + 1, len)
<1>0. len \in Nat
  BY LenProperties
<1>1. len \in Nat /\ DOMAIN s = 1 .. len /\ \A j \in 1 .. len : s[j] \in S
  BY LenProperties, ElementOfSeq
<1>2. Without(s, s[i]) = front \o back
  <2>1. s[i] \in Range(s)
    BY <1>1 DEF Range
  <2>2. (CHOOSE j \in DOMAIN s : s[j] = s[i]) = i
    BY <1>1 DEF IsInjective
  <2> QED
    BY <2>1, <2>2 DEF Without
<1>3. /\ front \in Seq(S) /\ Len(front) = i - 1
      /\ \A j \in 1 .. i - 1 : front[j] = s[j]
  <2>1. \A j \in 1 .. i - 1 : s[j] \in S
    BY <1>1
  <2>2. front \in Seq(S) /\ Len(front) = (IF 1 <= i - 1 THEN (i - 1) - 1 + 1 ELSE 0)
        /\ \A j \in 1 .. (i - 1) - 1 + 1 : front[j] = s[1 + j - 1]
    BY <1>1, <2>1, SubSeqProperties
  <2> QED
    BY <1>1, <2>2
<1>4. /\ back \in Seq(S) /\ Len(back) = len - i
      /\ \A j \in 1 .. len - i : back[j] = s[i + j]
  <2>1. \A j \in i + 1 .. len : s[j] \in S
    BY <1>1
  <2>2. back \in Seq(S) /\ Len(back) = (IF i + 1 <= len THEN len - (i + 1) + 1 ELSE 0)
        /\ \A j \in 1 .. len - (i + 1) + 1 : back[j] = s[(i + 1) + j - 1]
    BY <1>1, <2>1, SubSeqProperties
  <2> HIDE DEF len, back
  <2>3. i \in Int /\ i <= len
    BY <1>0 DEF len
  <2>4. Len(back) = len - i
    BY <1>0, <2>2, <2>3
  <2> QED
    BY <1>0, <2>2, <2>3, <2>4
<1> HIDE DEF front, back
<1>5. /\ front \o back \in Seq(S) /\ Len(front \o back) = (i - 1) + (len - i)
      /\ \A j \in 1 .. (i - 1) + (len - i) :
            (front \o back)[j] = IF j <= i - 1 THEN front[j] ELSE back[j - (i - 1)]
  <2>1. /\ front \o back \in Seq(S) /\ Len(front \o back) = Len(front) + Len(back)
        /\ \A j \in 1 .. Len(front) + Len(back) :
              (front \o back)[j] = IF j <= Len(front) THEN front[j] ELSE back[j - Len(front)]
    BY <1>3, <1>4, ConcatProperties
  <2> QED
    BY <1>3, <1>4, <2>1
<1>6. ASSUME NEW j \in 1 .. len - 1
      PROVE  (front \o back)[j] = IF j < i THEN s[j] ELSE s[j + 1]
  <2>1. CASE j < i
    <3>1. j \in 1 .. i - 1 /\ j \in 1 .. (i - 1) + (len - i)
      BY <1>1, <2>1
    <3> QED
      BY <1>3, <1>5, <2>1, <3>1
  <2>2. CASE ~(j < i)
    <3>1. /\ j - (i - 1) \in 1 .. len - i /\ j \in 1 .. (i - 1) + (len - i)
          /\ ~(j <= i - 1) /\ i + (j - (i - 1)) = j + 1
      BY <1>1, <2>2
    <3> QED
      BY <1>4, <1>5, <2>2, <3>1
  <2> QED
    BY <2>1, <2>2
<1> DEFINE w == front \o back
<1>7. w \in Seq(S) /\ \A j \in 1 .. len - 1 : w[j] = IF j < i THEN s[j] ELSE s[j + 1]
  BY <1>5, <1>6
<1>8. Len(w) = (i - 1) + (len - i) /\ Without(s, s[i]) = w
  BY <1>2, <1>5
<1> HIDE DEF w
<1>9. Len(w) = len - 1
  BY <1>1, <1>8
<1> QED
  BY <1>7, <1>8, <1>9 DEF len

(* A client that calls goes to the end of the order, once.                 *)
LEMMA ToTheEnd ==
  ASSUME NEW S, NEW s \in Seq(S), IsInjective(s), NEW c \in S
  PROVE  LET r == Append(Without(s, c), c)
         IN  /\ r \in Seq(S)
             /\ IsInjective(r)
             /\ Range(r) = Range(s) \cup {c}
             /\ Len(r) = IF c \in Range(s) THEN Len(s) ELSE Len(s) + 1
<1> DEFINE w == Without(s, c)
           r == Append(w, c)
<1>0. Len(s) \in Nat
  BY LenProperties
<1>1. DOMAIN s = 1 .. Len(s)
  BY LenProperties
<1>2. CASE c \notin Range(s)
  <2>1. w = s
    BY <1>2, WithoutNothing
  <2>2. /\ r \in Seq(S) /\ Len(r) = Len(s) + 1 /\ r[Len(s) + 1] = c
        /\ \A i \in 1 .. Len(s) : r[i] = s[i]
    BY <2>1, AppendProperties
  <2> HIDE DEF r
  <2>3. DOMAIN r = 1 .. Len(s) + 1
    BY <2>2, LenProperties
  <2>4. Range(r) = Range(s) \cup {c}
    BY <1>1, <2>2, <2>3 DEF Range
  <2>5. IsInjective(r)
    BY <1>1, <1>2, <2>2, <2>3 DEF IsInjective, Range
  <2> QED
    BY <1>2, <2>2, <2>4, <2>5 DEF r
<1>3. CASE c \in Range(s)
  <2>1. PICK k \in 1 .. Len(s) : c = s[k]
    BY <1>1, <1>3 DEF Range
  <2>2. /\ w \in Seq(S) /\ Len(w) = Len(s) - 1
        /\ \A j \in 1 .. Len(s) - 1 : w[j] = IF j < k THEN s[j] ELSE s[j + 1]
    BY <2>1, WithoutOne
  <2>3. /\ r \in Seq(S) /\ Len(r) = Len(s) /\ r[Len(s)] = c
        /\ \A i \in 1 .. Len(s) - 1 : r[i] = w[i]
    <3>1. /\ r \in Seq(S) /\ Len(r) = Len(w) + 1 /\ r[Len(w) + 1] = c
          /\ \A i \in 1 .. Len(w) : r[i] = w[i]
      BY <2>2, AppendProperties
    <3> QED
      BY <1>0, <2>2, <3>1
  <2> HIDE DEF r, w
  <2>4. DOMAIN r = 1 .. Len(s)
    BY <2>3, LenProperties
  <2> DEFINE from(j) == IF j = Len(s) THEN k ELSE IF j < k THEN j ELSE j + 1
  <2>5. ASSUME NEW j \in 1 .. Len(s)
        PROVE  from(j) \in 1 .. Len(s) /\ r[j] = s[from(j)]
    <3>1. CASE j = Len(s)
      BY <1>0, <2>1, <2>3, <3>1
    <3>2. CASE j # Len(s)
      <4>1. j \in 1 .. Len(s) - 1
        BY <1>0, <3>2
      <4>2. r[j] = IF j < k THEN s[j] ELSE s[j + 1]
        BY <2>2, <2>3, <4>1
      <4> QED
        BY <1>0, <3>2, <4>1, <4>2
    <3> QED
      BY <3>1, <3>2
  <2>6. ASSUME NEW i \in 1 .. Len(s), NEW j \in 1 .. Len(s), from(i) = from(j)
        PROVE  i = j
    BY <1>0, <2>6
  <2>7. \A i \in 1 .. Len(s) : \E j \in 1 .. Len(s) : from(j) = i
    <3> TAKE i \in 1 .. Len(s)
    <3>1. CASE i = k
      <4>1. Len(s) \in 1 .. Len(s) /\ from(Len(s)) = i
        BY <1>0, <3>1
      <4> QED
        BY <4>1
    <3>2. CASE i < k
      <4>1. i # Len(s) /\ from(i) = i
        BY <1>0, <3>2
      <4> QED
        BY <4>1
    <3>3. CASE i > k
      <4>1. i - 1 \in 1 .. Len(s) /\ from(i - 1) = i
        BY <1>0, <3>3
      <4> QED
        BY <4>1
    <3> QED
      BY <1>0, <3>1, <3>2, <3>3
  <2> HIDE DEF from
  <2>8. IsInjective(r)
    BY <1>1, <2>4, <2>5, <2>6 DEF IsInjective
  <2>9. Range(r) = Range(s)
    <3>1. Range(r) \subseteq Range(s)
      BY <1>1, <2>4, <2>5 DEF Range
    <3>2. ASSUME NEW x \in Range(s) PROVE x \in Range(r)
      <4>1. PICK i \in 1 .. Len(s) : x = s[i]
        BY <1>1 DEF Range
      <4>2. PICK j \in 1 .. Len(s) : from(j) = i
        BY <2>7
      <4> QED
        BY <2>4, <2>5, <4>1, <4>2 DEF Range
    <3> QED
      BY <3>1, <3>2
  <2> QED
    BY <1>3, <2>1, <2>3, <2>8, <2>9 DEF r, w
<1> QED
  BY <1>2, <1>3

(* The order is what called last, as much as there is room for.            *)
LastOf(order, s) ==
    LET k == Len(s) - Len(order)
    IN  /\ k >= 0
        /\ Len(order) <= Cap
        /\ k # 0 => Len(order) = Cap
        /\ \A i \in 1 .. Len(order) : order[i] = s[k + i]

Kept(order, c) ==
    IF c \notin Range(order) /\ Len(order) >= Cap THEN Tail(order) ELSE order

LEMMA EndsWith ==
  ASSUME NEW S, NEW s \in Seq(S), IsInjective(s), NEW c \in S
  PROVE  LET r == Append(Without(s, c), c)
         IN  /\ c \notin Range(s) =>
                   /\ Len(r) = Len(s) + 1 /\ r[Len(s) + 1] = c
                   /\ \A j \in 1 .. Len(s) : r[j] = s[j]
             /\ \A k \in 1 .. Len(s) : s[k] = c =>
                   /\ Len(r) = Len(s) /\ r[Len(s)] = c
                   /\ \A j \in 1 .. Len(s) - 1 :
                         r[j] = IF j < k THEN s[j] ELSE s[j + 1]
<1> DEFINE r == Append(Without(s, c), c)
<1>1. ASSUME c \notin Range(s)
      PROVE  /\ Len(r) = Len(s) + 1 /\ r[Len(s) + 1] = c
             /\ \A j \in 1 .. Len(s) : r[j] = s[j]
  BY <1>1, WithoutNothing, AppendProperties
<1>2. ASSUME NEW k \in 1 .. Len(s), s[k] = c
      PROVE  /\ Len(r) = Len(s) /\ r[Len(s)] = c
             /\ \A j \in 1 .. Len(s) - 1 : r[j] = IF j < k THEN s[j] ELSE s[j + 1]
  <2> DEFINE w == Without(s, c)
  <2>1. /\ w \in Seq(S) /\ Len(w) = Len(s) - 1 /\ Len(s) \in Nat
        /\ \A j \in 1 .. Len(s) - 1 : w[j] = IF j < k THEN s[j] ELSE s[j + 1]
    BY <1>2, WithoutOne, LenProperties
  <2> HIDE DEF w
  <2>2. /\ Len(Append(w, c)) = Len(w) + 1 /\ Append(w, c)[Len(w) + 1] = c
        /\ \A j \in 1 .. Len(w) : Append(w, c)[j] = w[j]
    BY <2>1, AppendProperties
  <2>3. /\ Len(Append(w, c)) = Len(s) /\ Append(w, c)[Len(s)] = c
        /\ \A j \in 1 .. Len(s) - 1 : Append(w, c)[j] = w[j]
    BY <2>1, <2>2
  <2> QED
    BY <2>1, <2>3 DEF w
<1> QED
  BY <1>1, <1>2

LEMMA KeptOrder ==
  ASSUME NEW order \in Seq(Clients), IsInjective(order), Len(order) <= Cap, NEW c \in Clients
  PROVE  /\ Kept(order, c) \in Seq(Clients) /\ IsInjective(Kept(order, c))
         /\ Len(Append(Without(Kept(order, c), c), c)) <= Cap
         /\ \A d \in Range(order) :
               d \in Range(Kept(order, c)) \/ (d = Head(order) /\ Kept(order, c) # order)
<1>1. Len(order) \in Nat /\ DOMAIN order = 1 .. Len(order)
  BY LenProperties
<1>2. Cap \in Nat \ {0}
  BY LimiterConfig DEF LimiterConfig
<1>3. CASE c \notin Range(order) /\ Len(order) >= Cap
  <2> DEFINE t == Tail(order)
  <2>1. order # <<>>
    BY <1>2, <1>3, EmptySeq
  <2>2. /\ t \in Seq(Clients) /\ Len(t) = Len(order) - 1
        /\ \A j \in 1 .. Len(t) : t[j] = order[j + 1]
    BY <2>1, HeadTailProperties
  <2>3. Kept(order, c) = t /\ Head(order) = order[1]
    BY <1>3 DEF Kept
  <2> HIDE DEF t
  <2>4. DOMAIN t = 1 .. Len(t) /\ Len(t) \in Nat
    BY <2>2, LenProperties
  <2>5. IsInjective(t)
    <3> SUFFICES ASSUME NEW a \in 1 .. Len(t), NEW b \in 1 .. Len(t), t[a] = t[b]
                 PROVE  a = b
      BY <2>4 DEF IsInjective
    <3>1. a + 1 \in 1 .. Len(order) /\ b + 1 \in 1 .. Len(order) /\ order[a + 1] = order[b + 1]
      BY <1>1, <2>2, <2>4
    <3>2. a + 1 = b + 1
      BY <1>1, <3>1 DEF IsInjective
    <3> QED
      BY <3>2
  <2>6. ASSUME NEW d \in Range(order) PROVE d \in Range(t) \/ d = order[1]
    <3>1. PICK j \in 1 .. Len(order) : d = order[j]
      BY <1>1 DEF Range
    <3>2. CASE j = 1
      BY <3>1, <3>2
    <3>3. CASE j # 1
      <4>1. j - 1 \in 1 .. Len(t) /\ t[j - 1] = order[(j - 1) + 1]
        BY <1>1, <2>2, <2>4, <3>3
      <4> QED
        BY <2>4, <3>1, <4>1 DEF Range
    <3> QED
      BY <3>2, <3>3
  <2>7. c \notin Range(t)
    <3> SUFFICES ASSUME NEW j \in 1 .. Len(t), t[j] = c PROVE FALSE
      BY <2>4 DEF Range
    <3>1. j + 1 \in 1 .. Len(order) /\ order[j + 1] = c
      BY <1>1, <2>2, <2>4
    <3> QED
      BY <1>1, <1>3, <3>1 DEF Range
  <2>8. Len(Append(Without(t, c), c)) = Len(t) + 1
    BY <2>2, <2>5, <2>7, EndsWith
  <2>9. t # order
    BY <1>1, <2>2
  <2> QED
    BY <1>1, <2>2, <2>3, <2>5, <2>6, <2>8, <2>9
<1>4. CASE ~(c \notin Range(order) /\ Len(order) >= Cap)
  <2>1. Kept(order, c) = order
    BY <1>4 DEF Kept
  <2>2. Len(Append(Without(order, c), c)) = IF c \in Range(order) THEN Len(order) ELSE Len(order) + 1
    BY ToTheEnd
  <2> QED
    BY <1>1, <1>2, <1>4, <2>1, <2>2
<1> QED
  BY <1>3, <1>4

LEMMA LastOfBy ==
  ASSUME NEW order, NEW s, NEW k \in Nat, Len(order) \in Nat, Len(s) = k + Len(order),
         Len(order) <= Cap, k # 0 => Len(order) = Cap,
         \A i \in 1 .. Len(order) : order[i] = s[k + i]
  PROVE  LastOf(order, s)
<1>1. Len(s) - Len(order) = k
  OBVIOUS
<1> QED
  BY <1>1 DEF LastOf

(* A call moves its client to the end of both, and room is made for one    *)
(* that was not there by the one that called longest ago.                  *)
LEMMA StillLast ==
  ASSUME NEW order \in Seq(Clients), NEW s \in Seq(Clients), IsInjective(order),
         IsInjective(s), LastOf(order, s), NEW c \in Clients
  PROVE  LastOf(Append(Without(Kept(order, c), c), c), Append(Without(s, c), c))
<1> DEFINE k == Len(s) - Len(order)
           o1 == Append(Without(Kept(order, c), c), c)
           s1 == Append(Without(s, c), c)
<1>1. Len(order) \in Nat /\ Len(s) \in Nat /\ Cap \in Nat \ {0}
  BY LenProperties, LimiterConfig DEF LimiterConfig
<1>2. DOMAIN order = 1 .. Len(order) /\ DOMAIN s = 1 .. Len(s)
  BY LenProperties
<1>3. /\ k \in Nat /\ Len(order) <= Cap /\ (k # 0 => Len(order) = Cap)
      /\ Len(s) = k + Len(order)
      /\ \A i \in 1 .. Len(order) : order[i] = s[k + i]
  BY <1>1 DEF LastOf
<1> HIDE DEF k
<1>7. k \in Nat /\ Len(s) = k + Len(order)
  BY <1>3
<1>4. CASE c \in Range(order)
  <2>1. PICK i \in 1 .. Len(order) : order[i] = c
    BY <1>2, <1>4 DEF Range
  <2>2. k + i \in 1 .. Len(s) /\ s[k + i] = c
    BY <1>1, <1>3, <2>1
  <2>3. Kept(order, c) = order
    BY <1>4 DEF Kept
  <2>4. /\ Len(o1) = Len(order) /\ o1[Len(order)] = c
        /\ \A j \in 1 .. Len(order) - 1 :
              o1[j] = IF j < i THEN order[j] ELSE order[j + 1]
    BY <2>1, <2>3, EndsWith
  <2>5. /\ Len(s1) = Len(s) /\ s1[Len(s)] = c
        /\ \A j \in 1 .. Len(s) - 1 :
              s1[j] = IF j < k + i THEN s[j] ELSE s[j + 1]
    BY <2>2, EndsWith
  <2> HIDE DEF o1, s1
  <2>6. ASSUME NEW j \in 1 .. Len(order) PROVE o1[j] = s1[k + j]
    <3>1. CASE j = Len(order)
      BY <1>1, <1>3, <2>4, <2>5, <3>1
    <3>2. CASE j # Len(order)
      <4>1. j \in 1 .. Len(order) - 1 /\ k + j \in 1 .. Len(s) - 1
            /\ (j < i <=> k + j < k + i)
            /\ j + 1 \in 1 .. Len(order) /\ k + (j + 1) = (k + j) + 1
        BY <1>1, <1>3, <3>2
      <4>2. order[j] = s[k + j] /\ order[j + 1] = s[(k + j) + 1]
        BY <1>3, <4>1
      <4> QED
        BY <2>4, <2>5, <4>1, <4>2
    <3> QED
      BY <3>1, <3>2
  <2>7. Len(s1) = k + Len(o1) /\ Len(o1) = Len(order)
    BY <1>1, <1>3, <2>4, <2>5
  <2>8. LastOf(o1, s1)
    BY <1>1, <1>3, <2>6, <2>7, LastOfBy
  <2> QED
    BY <2>8 DEF o1, s1
<1>5. CASE c \notin Range(order) /\ Len(order) >= Cap
  <2> DEFINE t == Tail(order)
  <2>0. Kept(order, c) = t
    BY <1>5 DEF Kept
  <2>1. Len(order) = Cap
    BY <1>1, <1>3, <1>5
  <2>2. t \in Seq(Clients) /\ IsInjective(t) /\ Len(t) = Cap - 1
        /\ \A j \in 1 .. Cap - 1 : t[j] = order[j + 1]
    <3>1. order # <<>>
      BY <1>1, <2>1, EmptySeq
    <3> QED
      BY <1>1, <1>3, <2>0, <2>1, <3>1, KeptOrder, HeadTailProperties
  <2>3. c \notin Range(t)
    <3> SUFFICES ASSUME NEW j \in DOMAIN t, t[j] = c PROVE FALSE
      BY DEF Range
    <3>1. j \in 1 .. Cap - 1
      BY <2>2, LenProperties
    <3>2. j + 1 \in 1 .. Len(order) /\ order[j + 1] = c
      BY <1>1, <2>1, <2>2, <3>1
    <3> QED
      BY <1>2, <1>5, <3>2 DEF Range
  <2>4. /\ Len(o1) = Cap /\ o1[Cap] = c
        /\ \A j \in 1 .. Cap - 1 : o1[j] = order[j + 1]
    <3> HIDE DEF t
    <3>1. /\ Len(o1) = Len(t) + 1 /\ o1[Len(t) + 1] = c
          /\ \A j \in 1 .. Len(t) : o1[j] = t[j]
      BY <2>0, <2>2, <2>3, EndsWith
    <3> QED
      BY <1>1, <2>2, <3>1
  <2> HIDE DEF o1, s1, t
  <2>7. Len(o1) = Cap
    BY <2>4
  <2>5. CASE c \notin Range(s)
    <3>1. /\ Len(s1) = Len(s) + 1 /\ s1[Len(s) + 1] = c
          /\ \A j \in 1 .. Len(s) : s1[j] = s[j]
      BY <2>5, EndsWith DEF s1
    <3>2. ASSUME NEW j \in 1 .. Cap PROVE o1[j] = s1[(k + 1) + j]
      <4>1. CASE j = Cap
        BY <1>1, <1>3, <2>1, <2>4, <3>1, <4>1
      <4>2. CASE j # Cap
        <5>1. j \in 1 .. Cap - 1 /\ j + 1 \in 1 .. Len(order)
              /\ (k + 1) + j = k + (j + 1) /\ k + (j + 1) \in 1 .. Len(s)
          BY <1>1, <1>3, <2>1, <4>2
        <5> QED
          BY <1>3, <2>4, <3>1, <5>1
      <4> QED
        BY <4>1, <4>2
    <3>3. Len(s1) = (k + 1) + Len(o1) /\ Len(o1) = Cap /\ k + 1 \in Nat
      <4>1. Len(s1) = Len(s) + 1
        BY <3>1
      <4> QED
        BY <1>1, <1>7, <2>1, <2>7, <4>1
    <3>4. LastOf(o1, s1)
      <4>1. Cap <= Cap /\ Cap \in Nat
        BY <1>1
      <4> QED
        BY <3>2, <3>3, <4>1, LastOfBy
    <3> QED
      BY <3>4 DEF o1, s1
  <2>6. CASE c \in Range(s)
    <3>1. PICK p \in 1 .. Len(s) : s[p] = c
      BY <1>2, <2>6 DEF Range
    <3>2. p <= k
      <4> SUFFICES ASSUME p > k PROVE FALSE
        BY <1>1, <1>3
      <4>1. p - k \in 1 .. Len(order) /\ k + (p - k) = p
        BY <1>1, <1>3
      <4>2. order[p - k] = c
        BY <1>3, <3>1, <4>1
      <4> QED
        BY <1>2, <1>5, <4>1, <4>2 DEF Range
    <3>3. Len(s1) = Len(s) /\ s1[Len(s)] = c
      BY <3>1, EndsWith DEF s1
    <3>7. ASSUME NEW j \in 1 .. Len(s) - 1
          PROVE  s1[j] = IF j < p THEN s[j] ELSE s[j + 1]
      BY <3>1, EndsWith DEF s1
    <3>4. ASSUME NEW j \in 1 .. Cap PROVE o1[j] = s1[k + j]
      <4>1. CASE j = Cap
        BY <1>1, <1>3, <2>1, <2>4, <3>3, <4>1
      <4>2. CASE j # Cap
        <5>1. j \in 1 .. Cap - 1 /\ j + 1 \in 1 .. Len(order) /\ ~(k + j < p)
              /\ (k + j) + 1 = k + (j + 1) /\ k + j \in 1 .. Len(s) - 1
          BY <1>1, <1>3, <2>1, <3>2, <4>2
        <5>2. s1[k + j] = s[k + (j + 1)]
          BY <3>7, <5>1
        <5> QED
          BY <1>3, <2>4, <5>1, <5>2
      <4> QED
        BY <4>1, <4>2
    <3>5. Len(s1) = k + Len(o1) /\ Len(o1) = Cap
      BY <1>1, <1>7, <2>1, <2>7, <3>3
    <3>6. LastOf(o1, s1)
      <4>1. Cap <= Cap /\ Cap \in Nat
        BY <1>1
      <4> QED
        BY <1>7, <3>4, <3>5, <4>1, LastOfBy
    <3> QED
      BY <3>6 DEF o1, s1
  <2> QED
    BY <2>5, <2>6
<1>6. CASE c \notin Range(order) /\ Len(order) < Cap
  <2>1. Kept(order, c) = order /\ k = 0 /\ Len(order) = Len(s)
    BY <1>1, <1>3, <1>6 DEF Kept
  <2>2. order = s
    BY <1>1, <1>3, <2>1, SeqEqual
  <2>3. Len(s1) = Len(s) + 1 /\ o1 = s1
    BY <1>6, <2>1, <2>2, EndsWith
  <2> HIDE DEF o1, s1
  <2> QED
    BY <1>1, <1>6, <2>1, <2>3 DEF LastOf, o1, s1
<1> QED
  BY <1>1, <1>4, <1>5, <1>6

-----------------------------------------------------------------------------
(* Bursts                                                                  *)

(* What is known of a client's admissions by its burst bucket at time t:   *)
(* the recent ones are all in the bucket, so any Burst of them are followed *)
(* by none within the burst window, and the oldest is in the window.       *)
BurstOK(bucket, given, t) ==
    /\ \A a \in t - BurstWindow .. t : Len(Since(given, a)) <= Len(Since(bucket, a))
    /\ \A i \in 1 .. Len(given) - Burst : given[i] + BurstWindow < given[i + Burst]
    /\ \A i \in 1 .. Len(given) : given[i] <= t
    /\ given # <<>> => given[1] >= t - Window

LEMMA NoBurst ==
  ASSUME NEW S \in SUBSET Int, NEW b \in Seq(S), NEW t \in Int
  PROVE  BurstOK(b, <<>>, t)
<1>0. Burst \in Nat /\ BurstWindow \in Nat
  BY LimiterConfig DEF LimiterConfig
<1>1. Len(<<>>) = 0 /\ <<>> \in Seq(S)
  BY EmptySeq
<1>2. ASSUME NEW a \in t - BurstWindow .. t PROVE Len(Since(<<>>, a)) <= Len(Since(b, a))
  <2>1. a \in Int
    BY <1>0
  <2>2. Len(Since(<<>>, a)) \in Nat /\ Len(Since(<<>>, a)) <= Len(<<>>)
    BY <1>1, <2>1, SinceShorter
  <2>3. Len(Since(b, a)) \in Nat
    BY <2>1, SinceShorter
  <2> QED
    BY <1>1, <2>2, <2>3
<1> QED
  BY <1>0, <1>1, <1>2 DEF BurstOK

LEMMA BurstTicks ==
  ASSUME NEW S \in SUBSET Int, NEW b \in Seq(S), NEW g \in Seq(S), NEW t \in Int,
         BurstOK(b, g, t)
  PROVE  BurstOK(b, Since(g, (t + 1) - Window), t + 1)
<1> DEFINE cut == (t + 1) - Window
           h == Since(g, cut)
<1>1. Burst \in Nat /\ BurstWindow \in Nat /\ Window \in Nat
  BY LimiterConfig DEF LimiterConfig
<1>2. cut \in Int
  BY <1>1
<1>3. PICK m \in Nat : h \in Seq(S) /\ DropsTo(g, cut, h, m)
  BY <1>2, SinceDrops
<1>4. Len(g) \in Nat /\ Len(h) \in Nat /\ \A i \in 1 .. Len(g) : g[i] \in Int
  BY <1>3, LenProperties, ElementOfSeq
<1>5. ASSUME NEW a \in (t + 1) - BurstWindow .. t + 1
      PROVE  Len(Since(h, a)) <= Len(Since(b, a))
  <2>1. a \in Int /\ Len(Since(b, a)) \in Nat
    BY <1>1, SinceShorter
  <2>2. CASE a = t + 1
    <3>1. \A i \in 1 .. Len(g) : g[i] < a
      BY <1>4, <2>2 DEF BurstOK
    <3>2. Len(Since(g, a)) = 0
      BY <2>1, <3>1, SinceShorter
    <3>3. cut <= a
      BY <1>1, <2>2
    <3> QED
      BY <1>2, <2>1, <3>2, <3>3, SinceLater
  <2>3. CASE a # t + 1 /\ cut <= a
    <3>1. Since(h, a) = Since(g, a)
      BY <1>2, <2>1, <2>3, SinceLater
    <3>2. a \in t - BurstWindow .. t
      BY <1>1, <2>1, <2>3
    <3> QED
      BY <3>1, <3>2 DEF BurstOK
  <2>4. CASE a # t + 1 /\ a < cut
    <3>1. Since(h, a) = h
      BY <1>2, <2>1, <2>4, SinceEarlier
    <3>2. a \in t - BurstWindow .. t /\ a <= cut
      BY <1>1, <1>2, <2>1, <2>4
    <3>3. Len(h) <= Len(Since(g, a)) /\ Len(Since(g, a)) \in Nat
      BY <1>2, <2>1, <3>2, SinceMonotonic, SinceShorter
    <3>4. Len(Since(g, a)) <= Len(Since(b, a))
      BY <3>2 DEF BurstOK
    <3> QED
      BY <1>4, <2>1, <3>1, <3>3, <3>4
  <2> QED
    BY <1>2, <2>1, <2>2, <2>3, <2>4
<1> HIDE DEF h, cut
<1>6. Len(h) = Len(g) - m /\ m \in 0 .. Len(g) /\ \A i \in 1 .. Len(h) : h[i] = g[m + i]
  BY <1>3 DEF DropsTo
<1>7. ASSUME NEW i \in 1 .. Len(h) - Burst PROVE h[i] + BurstWindow < h[i + Burst]
  <2>1. /\ m + i \in 1 .. Len(g) - Burst /\ i \in 1 .. Len(h) /\ i + Burst \in 1 .. Len(h)
        /\ m + (i + Burst) = (m + i) + Burst
    BY <1>1, <1>4, <1>6
  <2> QED
    BY <1>6, <2>1 DEF BurstOK
<1>8. ASSUME NEW i \in 1 .. Len(h) PROVE h[i] <= t + 1
  <2>1. m + i \in 1 .. Len(g) /\ h[i] = g[m + i]
    BY <1>4, <1>6
  <2>2. g[m + i] <= t /\ g[m + i] \in Int
    BY <1>4, <2>1 DEF BurstOK
  <2> QED
    BY <2>1, <2>2
<1>9. h # <<>> => h[1] >= cut
  BY <1>3 DEF DropsTo
<1>10. cut = (t + 1) - Window
  BY DEF cut
<1>11. BurstOK(b, h, t + 1)
  BY <1>5, <1>7, <1>8, <1>9, <1>10 DEF BurstOK
<1> QED
  BY <1>11 DEF h, cut

LEMMA BurstTouched ==
  ASSUME NEW S \in SUBSET Int, NEW b \in Seq(S), NEW g \in Seq(S), NEW t \in Int,
         BurstOK(b, g, t)
  PROVE  BurstOK(Since(b, t - BurstWindow), g, t)
<1>1. BurstWindow \in Nat
  BY LimiterConfig DEF LimiterConfig
<1>2. ASSUME NEW a \in t - BurstWindow .. t
      PROVE  Since(Since(b, t - BurstWindow), a) = Since(b, a)
  <2>1. a \in Int /\ t - BurstWindow \in Int /\ t - BurstWindow <= a
    BY <1>1
  <2> QED
    BY <2>1, SinceLater
<1> QED
  BY <1>2 DEF BurstOK

(* An admission by the burst bucket comes after the Burst-last one by more *)
(* than the burst window.                                                  *)
LEMMA BurstAdmits ==
  ASSUME NEW S \in SUBSET Int, NEW b \in Seq(S), NEW g \in Seq(S), NEW t \in S,
         BurstOK(b, g, t), Len(Since(b, t - BurstWindow)) < Burst
  PROVE  BurstOK(Append(Since(b, t - BurstWindow), t), Append(g, t), t)
<1> DEFINE b0 == Since(b, t - BurstWindow)
           g1 == Append(g, t)
<1>1. Burst \in Nat /\ BurstWindow \in Nat /\ Window \in Nat /\ t \in Int
  BY LimiterConfig DEF LimiterConfig
<1>2. b0 \in Seq(S) /\ BurstOK(b0, g, t)
  BY <1>1, SinceDrops, BurstTouched
<1>9. Len(g1) = Len(g) + 1 /\ Len(g) \in Nat
  BY AppendProperties, LenProperties
<1>3. /\ g1 \in Seq(S) /\ Len(g1) = Len(g) + 1 /\ Len(g) \in Nat
      /\ \A i \in 1 .. Len(g) : g1[i] = g[i] /\ g[i] \in Int
      /\ g1[Len(g) + 1] = t
  <2>1. \A i \in 1 .. Len(g) : g[i] \in Int
    BY ElementOfSeq
  <2> QED
    BY <1>9, <2>1, AppendProperties
<1>4. ASSUME NEW a \in t - BurstWindow .. t
      PROVE  Len(Since(g1, a)) <= Len(Since(Append(b0, t), a))
  <2>1. a \in Int /\ t >= a
    BY <1>1
  <2>2. /\ Since(g1, a) = Append(Since(g, a), t)
        /\ Since(Append(b0, t), a) = Append(Since(b0, a), t)
    BY <1>2, <2>1, SinceLonger
  <2>3. Since(g, a) \in Seq(S) /\ Since(b0, a) \in Seq(S)
    BY <1>2, <2>1, SinceDrops
  <2>4. /\ Len(Since(g1, a)) = Len(Since(g, a)) + 1
        /\ Len(Since(Append(b0, t), a)) = Len(Since(b0, a)) + 1
    BY <2>2, <2>3, AppendProperties
  <2>5. Len(Since(g, a)) <= Len(Since(b0, a))
        /\ Len(Since(g, a)) \in Nat /\ Len(Since(b0, a)) \in Nat
    BY <1>2, <2>3, LenProperties DEF BurstOK
  <2> QED
    BY <2>4, <2>5
<1>5. ASSUME NEW i \in 1 .. Len(g1) - Burst PROVE g1[i] + BurstWindow < g1[i + Burst]
  <2>1. CASE i = Len(g) + 1 - Burst
    <3>1. Len(Since(g, t - BurstWindow)) <= Len(b0)
      <4>1. t - BurstWindow \in t - BurstWindow .. t /\ t - BurstWindow \in Int
        BY <1>1
      <4>2. Len(Since(g, t - BurstWindow)) <= Len(Since(b, t - BurstWindow))
        BY <4>1 DEF BurstOK
      <4> QED
        BY <4>2
    <3>2. Len(Since(g, t - BurstWindow)) \in Nat /\ Len(b0) \in Nat
      BY <1>1, <1>2, SinceShorter, LenProperties
    <3>3. Len(Since(g, t - BurstWindow)) < Burst
      BY <1>1, <3>1, <3>2
    <3>4. i \in 1 .. Len(g) /\ Len(g) - Len(Since(g, t - BurstWindow)) >= i
      BY <1>1, <1>3, <2>1, <3>2, <3>3
    <3>5. t - BurstWindow \in Int
      BY <1>1
    <3>6. g[i] < t - BurstWindow
      BY <3>4, <3>5, SinceShorter
    <3>7. g1[i] = g[i] /\ g[i] \in Int /\ i + Burst = Len(g) + 1
      BY <1>1, <1>3, <2>1, <3>4
    <3> QED
      BY <1>1, <1>3, <3>6, <3>7
  <2>2. CASE i # Len(g) + 1 - Burst
    <3> HIDE DEF g1
    <3>1. i \in 1 .. Len(g) - Burst /\ i \in 1 .. Len(g) /\ i + Burst \in 1 .. Len(g)
      BY <1>1, <1>9, <2>2
    <3> QED
      BY <1>3, <3>1 DEF BurstOK
  <2> QED
    BY <2>1, <2>2
<1> HIDE DEF g1
<1>6. ASSUME NEW i \in 1 .. Len(g1) PROVE g1[i] <= t
  <2>1. CASE i = Len(g) + 1
    BY <1>1, <1>3, <2>1
  <2>2. CASE i # Len(g) + 1
    <3>1. i \in 1 .. Len(g)
      BY <1>3, <2>2
    <3> QED
      BY <1>3, <3>1 DEF BurstOK
  <2> QED
    BY <2>1, <2>2
<1>7. g1[1] >= t - Window
  <2>1. CASE Len(g) = 0
    BY <1>1, <1>3, <2>1
  <2>2. CASE Len(g) # 0
    <3>1. g # <<>> /\ 1 \in 1 .. Len(g)
      BY <1>3, <2>2, EmptySeq
    <3> QED
      BY <1>3, <3>1 DEF BurstOK
  <2> QED
    BY <2>1, <2>2
<1>8. BurstOK(Append(b0, t), g1, t)
  BY <1>4, <1>5, <1>6, <1>7 DEF BurstOK
<1> QED
  BY <1>8 DEF g1

(* So many bursts fit into a window, the last one begun included.          *)
LEMMA BurstsFit ==
  ASSUME NEW S \in SUBSET Int, NEW b, NEW g \in Seq(S), NEW t \in Int, BurstOK(b, g, t)
  PROVE  Len(g) <= Burst * (Window \div (BurstWindow + 1) + 1)
<1> DEFINE step == BurstWindow + 1
           q == Window \div step + 1
           at(k) == 1 + Burst * k
<1>1. Burst \in Nat /\ BurstWindow \in Nat /\ Window \in Nat /\ step \in Nat \ {0}
  BY LimiterConfig DEF LimiterConfig
<1>2. Len(g) \in Nat /\ \A i \in 1 .. Len(g) : g[i] \in Int
  BY LenProperties, ElementOfSeq
<1>3. \A i \in 1 .. Len(g) - Burst : g[i] + BurstWindow < g[i + Burst]
  BY DEF BurstOK
<1>4. q \in Nat /\ q * step > Window
  BY <1>1, SMTT(30)
<1>5. ASSUME NEW k \in Nat
      PROVE  at(k) \in Nat /\ at(k) >= 1 /\ at(k + 1) = at(k) + Burst
             /\ (k + 1) * step = k * step + step /\ k * step \in Nat
  <2>1. Burst * k \in Nat /\ Burst * (k + 1) = Burst * k + Burst
    BY <1>1, SMTT(30)
  <2>2. (k + 1) * step = k * step + step /\ k * step \in Nat
    BY <1>1, SMTT(30)
  <2> QED
    BY <1>1, <2>1, <2>2
<1>6. at(0) = 1 /\ 0 * step = 0
  BY <1>1
<1> HIDE DEF at, q, step
<1>7. ASSUME NEW k \in Nat, at(k) <= Len(g)
      PROVE  g[at(k)] >= g[1] + k * step
  <2> DEFINE Bad == {n \in Nat : at(n) <= Len(g) /\ ~(g[at(n)] >= g[1] + n * step)}
  <2>1. CASE Bad = {}
    BY <1>7, <2>1
  <2>2. CASE Bad # {}
    <3>1. PICK m \in Bad : \A n \in Bad : m <= n
      <4>1. Bad \in SUBSET Nat
        OBVIOUS
      <4> HIDE DEF Bad
      <4> QED
        BY <2>2, <4>1, LeastNatural
    <3>2. m \in Nat /\ at(m) <= Len(g) /\ ~(g[at(m)] >= g[1] + m * step)
      BY <3>1
    <3>3. m # 0
      <4>1. 1 <= Len(g) => g[1] \in Int
        BY <1>2
      <4> QED
        BY <1>6, <3>2, <4>1
    <3>4. m - 1 \in Nat /\ (m - 1) + 1 = m
      BY <3>2, <3>3
    <3> DEFINE p == m - 1
    <3>5. p \in Nat /\ p + 1 = m /\ p \notin Bad
      BY <3>1, <3>4
    <3> HIDE DEF p
    <3>6. at(m) = at(p) + Burst /\ at(p) \in Nat /\ at(p) >= 1
          /\ m * step = p * step + step /\ p * step \in Nat
      BY <1>5, <3>5
    <3>7. at(p) <= Len(g) /\ at(p) \in 1 .. Len(g) - Burst /\ at(p) \in 1 .. Len(g)
          /\ at(m) \in 1 .. Len(g) /\ 1 \in 1 .. Len(g)
      BY <1>1, <1>2, <3>2, <3>6
    <3>8. g[at(p)] >= g[1] + p * step
      BY <3>5, <3>7
    <3>9. g[at(p)] + BurstWindow < g[at(m)]
      BY <1>3, <3>6, <3>7
    <3>10. g[at(p)] \in Int /\ g[at(m)] \in Int /\ g[1] \in Int
      BY <1>2, <3>7
    <3>11. step = BurstWindow + 1
      BY DEF step
    <3>12. g[at(m)] >= g[1] + (p * step + step)
      <4> DEFINE u == p * step
      <4>1. u \in Int /\ BurstWindow \in Int
        BY <1>1, <3>6
      <4>2. g[at(p)] >= g[1] + u
        BY <3>8
      <4> HIDE DEF u
      <4>3. g[at(m)] >= g[1] + (u + (BurstWindow + 1))
        <5> DEFINE x == g[at(p)]
                   y == g[at(m)]
                   z == g[1]
        <5>1. x \in Int /\ y \in Int /\ z \in Int /\ x + BurstWindow < y /\ x >= z + u
          BY <3>9, <3>10, <4>2
        <5> HIDE DEF x, y, z
        <5>2. y >= z + (u + (BurstWindow + 1))
          BY <4>1, <5>1
        <5> QED
          BY <5>2 DEF x, y, z
      <4> QED
        BY <3>11, <4>3 DEF u
    <3> QED
      BY <3>2, <3>6, <3>12
  <2> QED
    BY <2>1, <2>2
<1>8. ~(at(q) <= Len(g))
  <2> SUFFICES ASSUME at(q) <= Len(g) PROVE FALSE
    OBVIOUS
  <2>1. at(q) \in 1 .. Len(g) /\ 1 \in 1 .. Len(g)
    BY <1>2, <1>4, <1>5
  <2>2. g[at(q)] >= g[1] + q * step
    BY <1>4, <1>7
  <2>3. g[at(q)] <= t /\ g[1] >= t - Window
    BY <2>1, <1>2, EmptySeq DEF BurstOK
  <2>4. g[at(q)] \in Int /\ g[1] \in Int
    BY <1>2, <2>1
  <2>5. q * step \in Nat
    BY <1>4, <1>5
  <2> QED
    BY <1>1, <1>4, <2>2, <2>3, <2>4, <2>5
<1>9. Len(g) < at(q) /\ Burst * q \in Nat
  <2>1. at(q) \in Nat
    BY <1>4, <1>5
  <2>2. at(q) = 1 + Burst * q
    BY DEF at
  <2>3. Burst * q \in Nat
    BY <1>1, <1>4, SMTT(30)
  <2> QED
    BY <1>2, <1>8, <2>1, <2>3
<1>10. Len(g) <= Burst * q
  BY <1>2, <1>9 DEF at
<1> QED
  BY <1>10 DEF q, step

(* The seconds a denied client is told to wait reach beyond the window of  *)
(* its oldest admission.                                                   *)
LEMMA WaitIsLong ==
  ASSUME NEW x \in Int
  PROVE  /\ Max({1, x \div Second + 1}) \in Int
         /\ Max({1, x \div Second + 1}) * Second > x
<1>1. Second \in Nat \ {0}
  BY LimiterConfig DEF LimiterConfig
<1> DEFINE n == x \div Second + 1
           m == Max({1, n})
<1>2. n \in Int /\ n * Second > x
  BY <1>1, SMTT(30)
<1> HIDE DEF n
<1>3. m \in {1, n} /\ m >= n
  <2>1. \E y \in {1, n} : \A z \in {1, n} : y >= z
    BY <1>2
  <2>2. m \in {1, n} /\ \A z \in {1, n} : m >= z
    BY <2>1 DEF Max
  <2> QED
    BY <2>2
<1> HIDE DEF m
<1>4. m \in Int /\ m * Second >= n * Second
  BY <1>1, <1>2, <1>3, SMTT(30)
<1>5. m * Second \in Int /\ n * Second \in Int
  BY <1>1, <1>2, <1>4, SMTT(30)
<1>6. m * Second > x
  BY <1>2, <1>4, <1>5
<1> QED
  BY <1>4, <1>6 DEF m, n

-----------------------------------------------------------------------------
(* The stores                                                              *)

IsStore(x) == x = [order |-> x.order, hits |-> x.hits]

LEMMA TouchParts ==
  ASSUME NEW store, NEW max \in Nat, StoreOK(store, max), NEW c \in Clients,
         NEW window \in Nat, now \in Times
  PROVE  LET r == Touch(store, c, window)
         IN  /\ r.order = Append(Without(Kept(store.order, c), c), c)
             /\ IsStore(r) /\ StoreOK(r, max) /\ c \in Range(r.order)
             /\ r.hits[c] = Since(store.hits[c], now - window)
             /\ \A d \in Clients \ {c} :
                   r.hits[d] = IF d \in Displaced(store, c) THEN <<>> ELSE store.hits[d]
             /\ c \notin Displaced(store, c)
<1> DEFINE r == Touch(store, c, window)
           gone == Displaced(store, c)
           order == store.order
<1>1. Times \in SUBSET Int /\ now - window \in Int
  BY LimiterConfig DEF LimiterConfig, Times
<1>2. /\ order \in Seq(Clients) /\ IsInjective(order) /\ Len(order) <= Cap
      /\ store.hits \in [Clients -> Seq(Times)]
      /\ \A d \in Clients : Len(store.hits[d]) <= max
      /\ \A d \in Clients : store.hits[d] # <<>> => d \in Range(order)
  BY DEF StoreOK
<1>3. gone = IF c \notin Range(order) /\ Len(order) >= Cap THEN {Head(order)} ELSE {}
  BY DEF Displaced
<1>4. Kept(order, c) = IF gone = {} THEN order ELSE Tail(order)
  BY <1>3 DEF Kept
<1> HIDE DEF order, gone
<1>5. r = [order |-> Append(Without(Kept(order, c), c), c),
           hits  |-> [d \in Clients |->
                         IF d = c THEN DropExpired(store.hits[c], window)
                         ELSE IF d \in gone THEN <<>> ELSE store.hits[d]]]
  BY <1>4 DEF Touch, gone, order
<1> HIDE DEF r
<1>6. r.order = Append(Without(Kept(order, c), c), c) /\ IsStore(r)
  BY <1>5 DEF IsStore
<1>7. \A d \in Clients :
         r.hits[d] = IF d = c THEN Since(store.hits[c], now - window)
                     ELSE IF d \in gone THEN <<>> ELSE store.hits[d]
  BY <1>5 DEF DropExpired
<1>8. c \notin gone
  <2>1. CASE gone = {}
    BY <2>1
  <2>2. CASE gone # {}
    <3>1. Len(order) >= Cap /\ c \notin Range(order) /\ gone = {Head(order)}
      BY <1>3, <2>2
    <3>2. Len(order) \in Nat /\ DOMAIN order = 1 .. Len(order)
      BY <1>2, LenProperties
    <3>3. 1 \in DOMAIN order
      BY <3>1, <3>2, LimiterConfig DEF LimiterConfig
    <3> QED
      BY <3>1, <3>3 DEF Range
  <2> QED
    BY <2>1, <2>2
<1>9. /\ Kept(order, c) \in Seq(Clients) /\ IsInjective(Kept(order, c))
      /\ Len(r.order) <= Cap
      /\ \A d \in Range(order) :
            d \in Range(Kept(order, c)) \/ (d = Head(order) /\ Kept(order, c) # order)
  BY <1>2, <1>6, KeptOrder
<1>10. /\ r.order \in Seq(Clients) /\ IsInjective(r.order)
       /\ Range(r.order) = Range(Kept(order, c)) \cup {c}
  BY <1>6, <1>9, ToTheEnd
<1>11. Since(store.hits[c], now - window) \in Seq(Times)
       /\ Len(Since(store.hits[c], now - window)) <= max
  <2>1. store.hits[c] \in Seq(Times) /\ Len(store.hits[c]) <= max
    BY <1>2
  <2>2. /\ Since(store.hits[c], now - window) \in Seq(Times)
        /\ Len(Since(store.hits[c], now - window)) \in Nat
        /\ Len(Since(store.hits[c], now - window)) <= Len(store.hits[c])
    BY <1>1, <2>1, SinceDrops, SinceShorter
  <2> QED
    BY <2>1, <2>2, LenProperties
<1>12. ASSUME NEW d \in Clients PROVE r.hits[d] \in Seq(Times) /\ Len(r.hits[d]) <= max
  <2>1. CASE d = c
    BY <1>7, <1>11, <2>1
  <2>2. CASE d # c /\ d \in gone
    <3>1. r.hits[d] = <<>>
      BY <1>7, <2>2
    <3>2. <<>> \in Seq(Times) /\ Len(<<>>) = 0
      BY EmptySeq
    <3> QED
      BY <3>1, <3>2
  <2>3. CASE d # c /\ d \notin gone
    BY <1>2, <1>7, <2>3
  <2> QED
    BY <2>1, <2>2, <2>3
<1>13. r.hits \in [Clients -> Seq(Times)]
  BY <1>5, <1>12
<1>14. ASSUME NEW d \in Clients, r.hits[d] # <<>> PROVE d \in Range(r.order)
  <2>1. CASE d = c
    BY <1>10, <2>1
  <2>2. CASE d # c
    <3>1. d \notin gone /\ d \in Range(order)
      BY <1>2, <1>7, <1>14, <2>2
    <3>2. d \in Range(Kept(order, c)) \/ (d = Head(order) /\ Kept(order, c) # order)
      BY <1>9, <3>1
    <3>3. d = Head(order) => Kept(order, c) = order
      BY <1>3, <1>4, <3>1
    <3> QED
      BY <1>10, <3>2, <3>3
  <2> QED
    BY <2>1, <2>2
<1>15. StoreOK(r, max)
  BY <1>9, <1>10, <1>12, <1>13, <1>14 DEF StoreOK
<1>16. c \in Range(r.order)
  BY <1>10
<1> QED
  BY <1>6, <1>7, <1>8, <1>15, <1>16 DEF r, gone, order

LEMMA RecordParts ==
  ASSUME NEW r, NEW max \in Nat, IsStore(r), StoreOK(r, max), NEW c \in Clients,
         c \in Range(r.order), Len(r.hits[c]) < max, now \in Times
  PROVE  /\ Record(r, c).order = r.order
         /\ IsStore(Record(r, c)) /\ StoreOK(Record(r, c), max)
         /\ Record(r, c).hits[c] = Append(r.hits[c], now)
         /\ \A d \in Clients \ {c} : Record(r, c).hits[d] = r.hits[d]
<1>1. r.hits \in [Clients -> Seq(Times)] /\ r.hits[c] \in Seq(Times)
  BY DEF StoreOK
<1> DEFINE order == r.order
           hits == r.hits
<1>2. r = [order |-> order, hits |-> hits]
  BY DEF IsStore
<1> HIDE DEF order, hits
<1>3. Record(r, c) = [order |-> order, hits |-> [hits EXCEPT ![c] = Append(@, now)]]
  <2>1. Record(r, c) = [[order |-> order, hits |-> hits] EXCEPT !.hits[c] = Append(@, now)]
    BY <1>2 DEF Record
  <2> QED
    BY <2>1
<1>4. /\ Append(hits[c], now) \in Seq(Times) /\ Len(Append(hits[c], now)) = Len(hits[c]) + 1
      /\ Len(hits[c]) \in Nat
  BY <1>1, AppendProperties, LenProperties DEF hits
<1>5. /\ Record(r, c).order = order
      /\ Record(r, c).hits = [hits EXCEPT ![c] = Append(@, now)]
      /\ IsStore(Record(r, c))
  BY <1>3 DEF IsStore
<1>6. /\ Record(r, c).hits[c] = Append(hits[c], now)
      /\ \A d \in Clients \ {c} : Record(r, c).hits[d] = hits[d]
      /\ Record(r, c).hits \in [Clients -> Seq(Times)]
  BY <1>1, <1>4, <1>5 DEF hits
<1>7. Len(hits[c]) + 1 <= max
  BY <1>4 DEF hits
<1>8. StoreOK(Record(r, c), max)
  BY <1>4, <1>5, <1>6, <1>7 DEF StoreOK, order, hits
<1> QED
  BY <1>5, <1>6, <1>8 DEF order, hits

-----------------------------------------------------------------------------
(* The inductive invariant                                                 *)

Typed ==
    /\ TypeOK
    /\ IsStore(main)
    /\ IsStore(burst)
    /\ granted = [main |-> granted.main, burst |-> granted.burst]

(* A client's recent admissions by its main bucket are all in the bucket,  *)
(* and when it was told to come back the oldest will have expired.         *)
MainOK(bucket, given, told, t) ==
    /\ given = Since(bucket, t - Window)
    /\ told # Never /\ bucket # <<>> => bucket[1] + Window < told

MainKnown == \A c \in Clients : MainOK(main.hits[c], granted.main[c], promise[c], now)

BurstKnown == \A c \in Clients : BurstOK(burst.hits[c], granted.burst[c], now)

Recency == IsInjective(recent) /\ LastOf(main.order, recent)

RateInv == Typed /\ MainKnown /\ BurstKnown /\ Recency

LEMMA InitRateInv ==
  ASSUME Init
  PROVE  RateInv
<1>1. /\ main = NoBuckets /\ burst = NoBuckets /\ recent = <<>> /\ now = 0
      /\ granted = [main |-> NoTimes, burst |-> NoTimes]
      /\ promise = [c \in Clients |-> Never]
  BY DEF Init
<1>2. <<>> \in Seq(Times) /\ <<>> \in Seq(Clients) /\ Len(<<>>) = 0 /\ DOMAIN <<>> = {}
  BY EmptySeq
<1>3. Times \in SUBSET Int /\ 0 \in Times /\ Cap \in Nat \ {0} /\ MaxRequests \in Nat
      /\ Burst \in Nat /\ Window \in Nat
  BY LimiterConfig DEF LimiterConfig, Times
<1>4. IsInjective(<<>>)
  BY <1>2 DEF IsInjective
<1>5. NoTimes \in [Clients -> Seq(Times)] /\ \A c \in Clients : NoTimes[c] = <<>>
  BY <1>2 DEF NoTimes
<1>6. NoBuckets.order = <<>> /\ NoBuckets.hits = NoTimes /\ IsStore(NoBuckets)
  BY DEF NoBuckets, IsStore
<1>7. \A max \in Nat : StoreOK(NoBuckets, max)
  BY <1>2, <1>3, <1>4, <1>5, <1>6 DEF StoreOK
<1>8. Typed
  <2>1. promise \in [Clients -> Int]
    BY <1>1 DEF Never
  <2>2. granted.main = NoTimes /\ granted.burst = NoTimes
    BY <1>1
  <2>3. TypeOK
    BY <1>1, <1>2, <1>3, <1>5, <1>7, <2>1, <2>2 DEF TypeOK
  <2> QED
    BY <1>1, <1>6, <2>2, <2>3 DEF Typed
<1>9. ASSUME NEW c \in Clients
      PROVE  /\ MainOK(main.hits[c], granted.main[c], promise[c], now)
             /\ BurstOK(burst.hits[c], granted.burst[c], now)
  <2>1. /\ main.hits[c] = <<>> /\ granted.main[c] = <<>>
        /\ burst.hits[c] = <<>> /\ granted.burst[c] = <<>>
    BY <1>1, <1>5, <1>6
  <2>2. <<>> = Since(<<>>, now - Window)
    <3>1. now - Window \in Int
      BY <1>1, <1>3
    <3>2. Since(<<>>, now - Window) \in Seq(Times) /\ Len(Since(<<>>, now - Window)) = 0
      <4>1. /\ Len(Since(<<>>, now - Window)) \in Nat
            /\ Len(Since(<<>>, now - Window)) <= Len(<<>>)
        BY <1>2, <1>3, <3>1, SinceShorter
      <4>2. Since(<<>>, now - Window) \in Seq(Times)
        BY <1>2, <1>3, <3>1, SinceDrops
      <4> QED
        BY <1>2, <4>1, <4>2
    <3> QED
      BY <3>2, EmptySeq
  <2>3. BurstOK(<<>>, <<>>, now)
    BY <1>1, <1>2, <1>3, NoBurst
  <2> QED
    BY <2>1, <2>2, <2>3 DEF MainOK
<1>10. Recency
  BY <1>1, <1>2, <1>3, <1>4, <1>6 DEF Recency, LastOf
<1> QED
  BY <1>8, <1>9, <1>10 DEF RateInv, MainKnown, BurstKnown

(* What the invariant says of the types of a client's times.               *)
LEMMA TimesTyped ==
  ASSUME Typed, NEW c \in Clients
  PROVE  /\ Times \in SUBSET Int /\ now \in Times /\ now \in Int
         /\ now - Window \in Int /\ now - BurstWindow \in Int
         /\ main.hits[c] \in Seq(Times) /\ burst.hits[c] \in Seq(Times)
         /\ granted.main[c] \in Seq(Times) /\ granted.burst[c] \in Seq(Times)
<1>1. Times \in SUBSET Int /\ Window \in Nat /\ BurstWindow \in Nat
  BY LimiterConfig DEF LimiterConfig, Times
<1>2. now \in Times
  BY DEF Typed, TypeOK
<1>3. /\ main.hits[c] \in Seq(Times) /\ burst.hits[c] \in Seq(Times)
      /\ granted.main[c] \in Seq(Times) /\ granted.burst[c] \in Seq(Times)
  BY DEF Typed, TypeOK, StoreOK
<1> QED
  BY <1>1, <1>2, <1>3

LEMMA TickRateInv ==
  ASSUME RateInv, Tick
  PROVE  RateInv'
<1> USE DEF RateInv
<1>1. /\ now' = now + 1 /\ main' = main /\ burst' = burst /\ recent' = recent
      /\ promise' = promise /\ now < MaxTime
  BY DEF Tick
<1> DEFINE cut == (now + 1) - Window
           G == [c \in Clients |-> Since(granted.main[c], cut)]
           H == [c \in Clients |-> Since(granted.burst[c], cut)]
<1>2. granted' = [main |-> G, burst |-> H]
  BY <1>1 DEF Tick
<1>3. now \in Times /\ now + 1 \in Times /\ Window \in Nat /\ cut \in Int /\ now - Window <= cut
      /\ Times \in SUBSET Int /\ now \in Int
  BY <1>1, LimiterConfig DEF Typed, TypeOK, LimiterConfig, Times
<1>4. \A c \in Clients : G[c] = Since(granted.main[c], cut) /\ H[c] = Since(granted.burst[c], cut)
  OBVIOUS
<1> HIDE DEF G, H
<1>5. G \in [Clients -> Seq(Times)] /\ H \in [Clients -> Seq(Times)]
  <2>1. ASSUME NEW c \in Clients
        PROVE  Since(granted.main[c], cut) \in Seq(Times) /\ Since(granted.burst[c], cut) \in Seq(Times)
    BY <1>3, TimesTyped, SinceDrops
  <2> QED
    BY <2>1 DEF G, H
<1>6. Typed'
  <2>1. granted'.main = G /\ granted'.burst = H
    BY <1>2
  <2>2. TypeOK'
    BY <1>1, <1>3, <1>5, <2>1 DEF Typed, TypeOK
  <2> QED
    BY <1>1, <1>2, <2>1, <2>2 DEF Typed
<1>7. ASSUME NEW c \in Clients
      PROVE  MainOK(main'.hits[c], granted'.main[c], promise'[c], now')
  <2>1. main.hits[c] \in Seq(Times) /\ granted.main[c] = Since(main.hits[c], now - Window)
    BY TimesTyped DEF MainKnown, MainOK
  <2>2. now - Window \in Int
    BY <1>3
  <2>3. Since(granted.main[c], cut) = Since(main.hits[c], cut)
    BY <1>3, <2>1, <2>2, SinceLater
  <2>4. granted'.main[c] = Since(main'.hits[c], now' - Window)
    BY <1>1, <1>2, <1>4, <2>3
  <2> QED
    BY <1>1, <2>4 DEF MainKnown, MainOK
<1>8. ASSUME NEW c \in Clients
      PROVE  BurstOK(burst'.hits[c], granted'.burst[c], now')
  <2>1. BurstOK(burst.hits[c], granted.burst[c], now)
    BY DEF BurstKnown
  <2>2. BurstOK(burst.hits[c], Since(granted.burst[c], cut), now + 1)
    BY <1>3, <2>1, TimesTyped, BurstTicks
  <2> QED
    BY <1>1, <1>2, <1>4, <2>2
<1>9. Recency'
  BY <1>1 DEF Recency
<1> QED
  BY <1>6, <1>7, <1>8, <1>9 DEF MainKnown, BurstKnown

(* A bucket's expired times are dropped, and maybe one is added.           *)
LEMMA MainTouched ==
  ASSUME NEW S \in SUBSET Int, NEW b \in Seq(S), NEW g, NEW told, NEW t \in S,
         MainOK(b, g, told, t), NEW p,
         p # Never => LET b0 == Since(b, t - Window) IN b0 # <<>> => b0[1] + Window < p
  PROVE  /\ MainOK(Since(b, t - Window), g, p, t)
         /\ MainOK(Append(Since(b, t - Window), t), Append(g, t), Never, t)
<1> DEFINE b0 == Since(b, t - Window)
<1>1. t - Window \in Int /\ t - Window <= t /\ t - Window <= t - Window
  BY LimiterConfig DEF LimiterConfig
<1>2. b0 \in Seq(S) /\ g = b0
  BY <1>1, SinceDrops DEF MainOK
<1>3. Since(b0, t - Window) = b0
  BY <1>1, SinceLater
<1>4. Since(Append(b0, t), t - Window) = Append(b0, t)
  BY <1>1, <1>2, <1>3, SinceLonger
<1> QED
  BY <1>2, <1>3, <1>4 DEF MainOK

(* What a client's call makes of the two stores.                           *)
LEMMA RequestMain ==
  ASSUME Typed, NEW c \in Clients, Request(c)
  PROVE  /\ IsStore(main') /\ StoreOK(main', MaxRequests)
         /\ main'.order = Append(Without(Kept(main.order, c), c), c)
         /\ main'.hits[c] = IF Verdict(c) = "main"
                            THEN Append(Since(main.hits[c], now - Window), now)
                            ELSE Since(main.hits[c], now - Window)
         /\ \A d \in Clients \ {c} :
               main'.hits[d] = IF d \in Displaced(main, c) THEN <<>> ELSE main.hits[d]
         /\ c \notin Displaced(main, c)
<1> DEFINE m == Touch(main, c, Window)
<1>1. MaxRequests \in Nat /\ Window \in Nat /\ now \in Times /\ StoreOK(main, MaxRequests)
  BY LimiterConfig DEF LimiterConfig, Typed, TypeOK
<1>2. /\ m.order = Append(Without(Kept(main.order, c), c), c)
      /\ IsStore(m) /\ StoreOK(m, MaxRequests) /\ c \in Range(m.order)
      /\ m.hits[c] = Since(main.hits[c], now - Window)
      /\ \A d \in Clients \ {c} :
            m.hits[d] = IF d \in Displaced(main, c) THEN <<>> ELSE main.hits[d]
      /\ c \notin Displaced(main, c)
  BY <1>1, TouchParts
<1>3. main' = IF Verdict(c) = "main" THEN Record(m, c) ELSE m
  BY DEF Request
<1> HIDE DEF m
<1>4. CASE Verdict(c) = "main"
  <2>1. Len(m.hits[c]) < MaxRequests
    BY <1>2, <1>4 DEF Verdict, DropExpired
  <2>2. /\ Record(m, c).order = m.order
        /\ IsStore(Record(m, c)) /\ StoreOK(Record(m, c), MaxRequests)
        /\ Record(m, c).hits[c] = Append(m.hits[c], now)
        /\ \A d \in Clients \ {c} : Record(m, c).hits[d] = m.hits[d]
    BY <1>1, <1>2, <2>1, RecordParts
  <2> QED
    BY <1>2, <1>3, <1>4, <2>2
<1>5. CASE Verdict(c) # "main"
  BY <1>2, <1>3, <1>5
<1> QED
  BY <1>4, <1>5

LEMMA RequestBurst ==
  ASSUME Typed, NEW c \in Clients, Request(c), Verdict(c) # "main", Burst > 0
  PROVE  /\ IsStore(burst') /\ StoreOK(burst', Burst)
         /\ burst'.hits[c] = IF Verdict(c) = "burst"
                             THEN Append(Since(burst.hits[c], now - BurstWindow), now)
                             ELSE Since(burst.hits[c], now - BurstWindow)
         /\ \A d \in Clients \ {c} :
               burst'.hits[d] = IF d \in Displaced(burst, c) THEN <<>> ELSE burst.hits[d]
         /\ c \notin Displaced(burst, c)
<1> DEFINE b == Touch(burst, c, BurstWindow)
<1>1. Burst \in Nat /\ BurstWindow \in Nat /\ now \in Times /\ StoreOK(burst, Burst)
  BY LimiterConfig DEF LimiterConfig, Typed, TypeOK
<1>2. /\ IsStore(b) /\ StoreOK(b, Burst) /\ c \in Range(b.order)
      /\ b.hits[c] = Since(burst.hits[c], now - BurstWindow)
      /\ \A d \in Clients \ {c} :
            b.hits[d] = IF d \in Displaced(burst, c) THEN <<>> ELSE burst.hits[d]
      /\ c \notin Displaced(burst, c)
  BY <1>1, TouchParts
<1>3. burst' = IF Verdict(c) = "burst" THEN Record(b, c) ELSE b
  BY DEF Request
<1> HIDE DEF b
<1>4. CASE Verdict(c) = "burst"
  <2>1. Len(b.hits[c]) < Burst
    BY <1>2, <1>4 DEF Verdict, DropExpired
  <2>2. /\ IsStore(Record(b, c)) /\ StoreOK(Record(b, c), Burst)
        /\ Record(b, c).hits[c] = Append(b.hits[c], now)
        /\ \A d \in Clients \ {c} : Record(b, c).hits[d] = b.hits[d]
    BY <1>1, <1>2, <2>1, RecordParts
  <2> QED
    BY <1>2, <1>3, <1>4, <2>2
<1>5. CASE Verdict(c) # "burst"
  BY <1>2, <1>3, <1>5
<1> QED
  BY <1>4, <1>5

(* The client's bucket holds an admission when it is denied, and the       *)
(* promise is for after that one expires.                                  *)
LEMMA RequestPromise ==
  ASSUME Typed, NEW c \in Clients, Request(c)
  PROVE  LET b0 == Since(main.hits[c], now - Window)
         IN  /\ promise' \in [Clients -> Int]
             /\ \A d \in Clients \ {c} : promise'[d] = promise[d]
             /\ Verdict(c) # "denied" => promise'[c] = Never
             /\ Verdict(c) = "denied" /\ b0 # <<>> => b0[1] + Window < promise'[c]
<1> DEFINE b0 == Since(main.hits[c], now - Window)
           x == Window - (now - b0[1])
<1>1. /\ promise \in [Clients -> Int] /\ Window \in Int /\ now \in Int /\ MaxRequests \in Nat \ {0}
      /\ Never \in Int /\ Second \in Nat
  BY LimiterConfig, TimesTyped DEF LimiterConfig, Typed, TypeOK, Never
<1>2. /\ promise' = [promise EXCEPT ![c] = IF Verdict(c) = "denied"
                                            THEN now + RetryAfter(Touch(main, c, Window), c) * Second
                                            ELSE Never]
  BY DEF Request
<1>3. Touch(main, c, Window).hits[c] = b0
  BY DEF Touch, DropExpired
<1>4. CASE Verdict(c) # "denied"
  BY <1>1, <1>2, <1>4
<1>5. CASE Verdict(c) = "denied"
  <2>1. Len(b0) >= MaxRequests
    <3>1. ~(Len(b0) < MaxRequests)
      BY <1>5 DEF Verdict, DropExpired
    <3>2. Len(b0) \in Nat
      BY TimesTyped, SinceShorter
    <3> QED
      BY <1>1, <3>1, <3>2
  <2>2. b0 \in Seq(Times) /\ Times \in SUBSET Int
    BY TimesTyped, SinceDrops
  <2>3. b0[1] \in Int
    <3> HIDE DEF b0
    <3>1. 1 \in 1 .. Len(b0)
      BY <1>1, <2>1, <2>2, LenProperties
    <3> QED
      BY <2>2, <3>1, ElementOfSeq
  <2> DEFINE w == RetryAfter(Touch(main, c, Window), c)
  <2>4. w = Max({1, x \div Second + 1})
    BY <1>3 DEF RetryAfter
  <2>5. x \in Int /\ now + x = b0[1] + Window
    <3> HIDE DEF b0
    <3> QED
      BY <1>1, <2>3
  <2> HIDE DEF x
  <2>6. w \in Int /\ w * Second > x
    BY <2>4, <2>5, WaitIsLong
  <2>7. promise'[c] = now + w * Second
    BY <1>1, <1>2, <1>5
  <2> HIDE DEF w, b0
  <2>8. w * Second \in Int
    BY <1>1, <2>6, SMTT(30)
  <2>9. b0[1] + Window < promise'[c] /\ promise'[c] \in Int
    BY <1>1, <2>3, <2>5, <2>6, <2>7, <2>8
  <2>10. promise' \in [Clients -> Int] /\ \A d \in Clients \ {c} : promise'[d] = promise[d]
    BY <1>1, <1>2, <2>9
  <2> QED
    BY <1>5, <2>9, <2>10 DEF b0
<1> QED
  BY <1>4, <1>5

LEMMA RequestRateInv ==
  ASSUME RateInv, NEW c \in Clients, Request(c)
  PROVE  RateInv'
<1> USE DEF RateInv
<1> DEFINE v == Verdict(c)
           bursts == v # "main" /\ Burst > 0
           lost == Displaced(main, c)
           blost == IF bursts THEN Displaced(burst, c) ELSE {}
           G == Granted(granted.main, lost, c, v = "main")
           H == Granted(granted.burst, blost, c, v = "burst")
<1>1. /\ now' = now /\ granted' = [main |-> G, burst |-> H]
      /\ recent' = Append(Without(recent, c), c)
  <2>1. granted' = [main |-> G, burst |-> H]
    BY DEF Request
  <2> QED
    BY <2>1 DEF Request
<1>2. /\ now \in Times /\ Times \in SUBSET Int /\ Burst \in Nat
      /\ <<>> \in Seq(Times)
  BY LimiterConfig, EmptySeq DEF LimiterConfig, Times, Typed, TypeOK
<1>3. v = "burst" => bursts /\ Len(Since(burst.hits[c], now - BurstWindow)) < Burst
  <2> SUFFICES ASSUME v = "burst" PROVE bursts /\ Len(Since(burst.hits[c], now - BurstWindow)) < Burst
    OBVIOUS
  <2>1. Len(Since(burst.hits[c], now - BurstWindow)) < Burst
    BY DEF Verdict, DropExpired
  <2>2. Len(Since(burst.hits[c], now - BurstWindow)) \in Nat
    BY TimesTyped, SinceShorter
  <2> QED
    BY <1>2, <2>1, <2>2
<1>4. v \in {"main", "burst", "denied"} /\ (~bursts => burst' = burst)
  BY <1>3 DEF Verdict, Request
<1>5. c \notin lost /\ c \notin blost
  BY RequestMain, RequestBurst
<1>6. /\ G[c] = IF v = "main" THEN Append(granted.main[c], now) ELSE granted.main[c]
      /\ H[c] = IF v = "burst" THEN Append(granted.burst[c], now) ELSE granted.burst[c]
      /\ \A d \in Clients \ {c} :
            /\ G[d] = IF d \in lost THEN <<>> ELSE granted.main[d]
            /\ H[d] = IF d \in blost THEN <<>> ELSE granted.burst[d]
  BY <1>5 DEF Granted
<1>7. G \in [Clients -> Seq(Times)] /\ H \in [Clients -> Seq(Times)]
  <2>1. ASSUME NEW d \in Clients
        PROVE  /\ granted.main[d] \in Seq(Times) /\ granted.burst[d] \in Seq(Times)
               /\ Append(granted.main[d], now) \in Seq(Times)
               /\ Append(granted.burst[d], now) \in Seq(Times)
    BY <1>2, TimesTyped, AppendProperties
  <2> QED
    BY <1>2, <2>1 DEF Granted
<1> HIDE DEF G, H
<1>8. /\ promise' \in [Clients -> Int]
      /\ \A d \in Clients \ {c} : promise'[d] = promise[d]
  BY RequestPromise
<1>9. IsStore(burst') /\ StoreOK(burst', Burst)
  <2>1. CASE bursts
    BY <2>1, RequestBurst
  <2>2. CASE ~bursts
    BY <1>4, <2>2 DEF Typed, TypeOK
  <2> QED
    BY <2>1, <2>2
<1>10. recent \in Seq(Clients) /\ IsInjective(recent)
  BY DEF Typed, TypeOK, Recency
<1>11. recent' \in Seq(Clients) /\ IsInjective(recent')
  BY <1>1, <1>10, ToTheEnd
<1>12. Typed'
  <2>1. granted'.main = G /\ granted'.burst = H
    BY <1>1
  <2>2. IsStore(main') /\ StoreOK(main', MaxRequests)
    BY RequestMain
  <2>3. TypeOK'
    BY <1>1, <1>2, <1>7, <1>8, <1>9, <1>11, <2>1, <2>2 DEF TypeOK
  <2> QED
    BY <1>1, <1>9, <2>1, <2>2, <2>3 DEF Typed
<1>13. ASSUME NEW d \in Clients
       PROVE  MainOK(main'.hits[d], G[d], promise'[d], now)
  <2> DEFINE b0 == Since(main.hits[c], now - Window)
  <2>1. MainOK(main.hits[d], granted.main[d], promise[d], now)
    BY DEF MainKnown
  <2>2. CASE d = c
    <3>1. promise'[c] # Never => (b0 # <<>> => b0[1] + Window < promise'[c])
      BY <1>4, RequestPromise
    <3>2. /\ MainOK(b0, granted.main[c], promise'[c], now)
          /\ MainOK(Append(b0, now), Append(granted.main[c], now), Never, now)
      BY <1>2, <2>1, <2>2, <3>1, TimesTyped, MainTouched
    <3>3. v = "main" => promise'[c] = Never
      BY RequestPromise
    <3>4. main'.hits[c] = IF v = "main" THEN Append(b0, now) ELSE b0
      BY RequestMain
    <3> QED
      BY <1>6, <2>2, <3>2, <3>3, <3>4
  <2>3. CASE d # c /\ d \in lost
    <3>1. main'.hits[d] = <<>> /\ G[d] = <<>>
      BY <1>6, <2>3, RequestMain
    <3>2. Since(<<>>, now - Window) = <<>>
      <4>1. now - Window \in Int
        BY TimesTyped
      <4>2. /\ Since(<<>>, now - Window) \in Seq(Times)
            /\ Len(Since(<<>>, now - Window)) \in Nat
            /\ Len(Since(<<>>, now - Window)) <= Len(<<>>)
        BY <1>2, <4>1, SinceShorter, SinceDrops
      <4>3. Len(Since(<<>>, now - Window)) = 0
        BY <4>2, EmptySeq
      <4> QED
        BY <4>2, <4>3, EmptySeq
    <3> QED
      BY <3>1, <3>2 DEF MainOK
  <2>4. CASE d # c /\ d \notin lost
    <3>1. main'.hits[d] = main.hits[d] /\ G[d] = granted.main[d] /\ promise'[d] = promise[d]
      BY <1>6, <1>8, <2>4, RequestMain
    <3> QED
      BY <2>1, <3>1
  <2> QED
    BY <2>2, <2>3, <2>4
<1>14. ASSUME NEW d \in Clients
       PROVE  BurstOK(burst'.hits[d], H[d], now)
  <2>1. BurstOK(burst.hits[d], granted.burst[d], now)
    BY DEF BurstKnown
  <2>2. CASE ~bursts
    <3>1. burst'.hits[d] = burst.hits[d] /\ H[d] = granted.burst[d]
      BY <1>3, <1>4, <1>6, <2>2
    <3> QED
      BY <2>1, <3>1
  <2>3. CASE bursts
    <3> DEFINE b0 == Since(burst.hits[c], now - BurstWindow)
    <3>1. /\ burst'.hits[c] = IF v = "burst" THEN Append(b0, now) ELSE b0
          /\ \A e \in Clients \ {c} :
                burst'.hits[e] = IF e \in blost THEN <<>> ELSE burst.hits[e]
      BY <2>3, RequestBurst
    <3>2. CASE d = c /\ v = "burst"
      <4>1. BurstOK(Append(b0, now), Append(granted.burst[c], now), now)
        BY <1>2, <1>3, <2>1, <3>2, TimesTyped, BurstAdmits
      <4> QED
        BY <1>6, <3>1, <3>2, <4>1
    <3>3. CASE d = c /\ v # "burst"
      <4>1. BurstOK(b0, granted.burst[c], now)
        BY <1>2, <2>1, <3>3, TimesTyped, BurstTouched
      <4> QED
        BY <1>6, <3>1, <3>3, <4>1
    <3>4. CASE d # c /\ d \in blost
      <4>1. burst'.hits[d] = <<>> /\ H[d] = <<>>
        BY <1>6, <3>1, <3>4
      <4>2. BurstOK(<<>>, <<>>, now)
        BY <1>2, TimesTyped, NoBurst
      <4> QED
        BY <4>1, <4>2
    <3>5. CASE d # c /\ d \notin blost
      <4>1. burst'.hits[d] = burst.hits[d] /\ H[d] = granted.burst[d]
        BY <1>6, <3>1, <3>5
      <4> QED
        BY <2>1, <4>1
    <3> QED
      BY <3>2, <3>3, <3>4, <3>5
  <2> QED
    BY <2>2, <2>3
<1>15. Recency'
  <2>1. main.order \in Seq(Clients) /\ IsInjective(main.order) /\ LastOf(main.order, recent)
    BY DEF Typed, TypeOK, StoreOK, Recency
  <2>2. LastOf(Append(Without(Kept(main.order, c), c), c), Append(Without(recent, c), c))
    BY <1>10, <2>1, StillLast
  <2>3. main'.order = Append(Without(Kept(main.order, c), c), c)
    BY RequestMain
  <2> QED
    BY <1>1, <1>11, <2>2, <2>3 DEF Recency
<1>16. granted'.main = G /\ granted'.burst = H
  BY <1>1
<1> QED
  BY <1>1, <1>12, <1>13, <1>14, <1>15, <1>16 DEF MainKnown, BurstKnown

-----------------------------------------------------------------------------
(* What follows                                                            *)

LEMMA RateInvInvariant == Spec => []RateInv
<1>1. Init => RateInv
  BY InitRateInv
<1>2. RateInv /\ [Next]_vars => RateInv'
  <2> SUFFICES ASSUME RateInv, [Next]_vars PROVE RateInv'
    OBVIOUS
  <2>1. CASE Tick
    BY <2>1, TickRateInv
  <2>2. ASSUME NEW c \in Clients, Request(c) PROVE RateInv'
    BY <2>2, RequestRateInv
  <2>3. CASE UNCHANGED vars
    BY <2>3 DEF vars, RateInv, Typed, TypeOK, MainKnown, BurstKnown, Recency
  <2> QED
    BY <2>1, <2>2, <2>3 DEF Next
<1> QED
  BY <1>1, <1>2, PTL DEF Spec

(* Every bucket is within its bound and every bucket with an admission is  *)
(* in the order of its store, which never holds more buckets than Cap nor  *)
(* one of them twice.                                                      *)
THEOREM TypesHold == Spec => []TypeOK
<1>1. RateInv => TypeOK
  BY DEF RateInv, Typed
<1> QED
  BY <1>1, RateInvInvariant, PTL

LEMMA RateInvBounds == RateInv => RateBounded
<1> SUFFICES ASSUME RateInv, NEW c \in Clients
             PROVE  Len(granted.main[c]) + Len(granted.burst[c])
                        <= MaxRequests + Burst * (Window \div (BurstWindow + 1) + 1)
  BY DEF RateBounded
<1>1. Typed
  BY DEF RateInv
<1>2. Len(granted.main[c]) <= Len(main.hits[c]) /\ Len(main.hits[c]) <= MaxRequests
  <2>1. granted.main[c] = Since(main.hits[c], now - Window)
    BY DEF RateInv, MainKnown, MainOK
  <2>2. Len(main.hits[c]) <= MaxRequests
    BY <1>1 DEF Typed, TypeOK, StoreOK
  <2> QED
    BY <1>1, <2>1, <2>2, TimesTyped, SinceShorter
<1>3. Len(granted.burst[c]) <= Burst * (Window \div (BurstWindow + 1) + 1)
  <2>1. BurstOK(burst.hits[c], granted.burst[c], now)
    BY DEF RateInv, BurstKnown
  <2> QED
    BY <1>1, <2>1, TimesTyped, BurstsFit
<1>4. /\ Len(granted.main[c]) \in Nat /\ Len(granted.burst[c]) \in Nat
      /\ Len(main.hits[c]) \in Nat
  BY <1>1, TimesTyped, LenProperties
<1> DEFINE most == Burst * (Window \div (BurstWindow + 1) + 1)
<1>5. most \in Int /\ MaxRequests \in Int
  BY LimiterConfig, SMTT(30) DEF LimiterConfig
<1> HIDE DEF most
<1>6. Len(granted.main[c]) + Len(granted.burst[c]) <= MaxRequests + most
  <2> DEFINE x == Len(granted.main[c])
             y == Len(granted.burst[c])
             z == Len(main.hits[c])
  <2>1. x <= z /\ z <= MaxRequests /\ y <= most /\ x \in Nat /\ y \in Nat /\ z \in Nat
    BY <1>2, <1>3, <1>4 DEF most
  <2> HIDE DEF x, y, z
  <2>2. x + y <= MaxRequests + most
    BY <1>5, <2>1
  <2> QED
    BY <2>2 DEF x, y
<1> QED
  BY <1>6 DEF most

(* No window holds more of a client's admissions than the limits allow,    *)
(* for every limit, window and burst window, whatever the clients do.      *)
THEOREM RateIsBounded == Spec => []RateBounded
<1> QED
  BY RateInvInvariant, RateInvBounds, PTL

LEMMA RateInvAdmits == RateInv => RetrySuffices
<1> SUFFICES ASSUME RateInv, NEW c \in Clients, promise[c] # Never, now >= promise[c]
             PROVE  Verdict(c) # "denied"
  BY DEF RetrySuffices
<1> DEFINE b == main.hits[c]
<1>1. Typed
  BY DEF RateInv
<1>2. /\ b \in Seq(Times) /\ Times \in SUBSET Int /\ now \in Int /\ now - Window \in Int
      /\ promise[c] \in Int /\ Window \in Int /\ MaxRequests \in Nat \ {0}
  BY <1>1, TimesTyped, LimiterConfig DEF LimiterConfig, Typed, TypeOK
<1>3. Len(b) \in Nat /\ Len(b) <= MaxRequests
  BY <1>1, <1>2, LenProperties DEF Typed, TypeOK, StoreOK
<1>4. b # <<>> => b[1] + Window < promise[c]
  BY DEF RateInv, MainKnown, MainOK
<1> HIDE DEF b
<1>5. Len(Since(b, now - Window)) < MaxRequests
  <2>1. Len(Since(b, now - Window)) \in Nat /\ Len(Since(b, now - Window)) <= Len(b)
    BY <1>2, SinceShorter
  <2>2. CASE b = <<>>
    BY <1>2, <2>1, <2>2, EmptySeq
  <2>3. CASE b # <<>>
    <3>1. 1 \in 1 .. Len(b)
      BY <1>2, <1>3, <2>3, EmptySeq
    <3>2. b[1] \in Int
      BY <1>2, <3>1, ElementOfSeq
    <3>3. b[1] < now - Window
      BY <1>2, <1>4, <2>3, <3>2
    <3>4. Len(Since(b, now - Window)) < Len(b)
      BY <1>2, <2>3, <3>3, SinceShorter
    <3> QED
      BY <1>2, <1>3, <2>1, <3>4
  <2> QED
    BY <2>2, <2>3
<1> QED
  BY <1>5 DEF Verdict, DropExpired, b

(* The Retry-After of a denial is long enough, for every window and clock  *)
(* tick and whatever the other clients do in between.                      *)
THEOREM WaitingSuffices == Spec => []RetrySuffices
<1> QED
  BY RateInvInvariant, RateInvAdmits, PTL

LEMMA LastIsTail ==
  ASSUME NEW order \in Seq(Clients), NEW s \in Seq(Clients), LastOf(order, s)
  PROVE  LET n == Min({Cap, Len(s)})
         IN  order = SubSeq(s, Len(s) - n + 1, Len(s))
<1> DEFINE k == Len(s) - Len(order)
           n == Min({Cap, Len(s)})
           tail == SubSeq(s, k + 1, Len(s))
<1>1. Len(order) \in Nat /\ Len(s) \in Nat /\ Cap \in Nat \ {0}
  BY LenProperties, LimiterConfig DEF LimiterConfig
<1>2. /\ k \in Nat /\ Len(order) <= Cap /\ (k # 0 => Len(order) = Cap)
      /\ Len(s) = k + Len(order)
      /\ \A i \in 1 .. Len(order) : order[i] = s[k + i]
  BY <1>1 DEF LastOf
<1> HIDE DEF k
<1>3. n = Len(order)
  <2>1. Len(order) \in {Cap, Len(s)} /\ \A y \in {Cap, Len(s)} : Len(order) <= y
    BY <1>1, <1>2
  <2>2. n \in {Cap, Len(s)} /\ \A y \in {Cap, Len(s)} : n <= y
    BY <2>1 DEF Min
  <2> QED
    BY <1>1, <2>1, <2>2
<1>4. /\ tail \in Seq(Clients) /\ Len(tail) = Len(order)
      /\ \A i \in 1 .. Len(order) : tail[i] = s[k + i]
  <2>1. k + 1 \in 1 .. Len(s) + 1 /\ Len(s) \in (k + 1) - 1 .. Len(s)
    BY <1>1, <1>2
  <2>2. /\ tail \in Seq(Clients)
        /\ Len(tail) = Len(s) - (k + 1) + 1
        /\ \A i \in 1 .. Len(s) - (k + 1) + 1 : tail[i] = s[(k + 1) + i - 1]
    BY <2>1, SubSeqProperties
  <2> HIDE DEF tail
  <2>3. Len(s) - (k + 1) + 1 = Len(order)
    BY <1>1, <1>2
  <2>5. ASSUME NEW i \in 1 .. Len(order) PROVE tail[i] = s[k + i]
    <3>1. tail[i] = s[(k + 1) + i - 1] /\ (k + 1) + i - 1 = k + i
      BY <1>1, <1>2, <2>2, <2>3
    <3> QED
      BY <3>1
  <2> QED
    BY <2>2, <2>3, <2>5
<1> HIDE DEF tail
<1>5. order = tail
  BY <1>2, <1>4, SeqEqual
<1>6. Len(s) - n + 1 = k + 1
  BY <1>1, <1>2, <1>3
<1> QED
  BY <1>5, <1>6 DEF tail

LEMMA RateInvForgets == RateInv => ForgetsLeastRecent
<1> SUFFICES ASSUME RateInv PROVE ForgetsLeastRecent
  OBVIOUS
<1>1. /\ main.order \in Seq(Clients) /\ recent \in Seq(Clients)
      /\ LastOf(main.order, recent)
  BY DEF RateInv, Typed, TypeOK, StoreOK, Recency
<1> QED
  BY <1>1, LastIsTail DEF ForgetsLeastRecent

(* A bucket is forgotten only when as many other clients as there is room  *)
(* for have called since its own did last.                                 *)
THEOREM ForgetsInOrder == Spec => []ForgetsLeastRecent
<1> QED
  BY RateInvInvariant, RateInvForgets, PTL

=============================================================================
