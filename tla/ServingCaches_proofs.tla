------------------------- MODULE ServingCaches_proofs -------------------------
(***************************************************************************)
(* For any number of searches, queries and bumps, any size of the caches,  *)
(* any life of their entries and any time limit of a search: tags are      *)
(* current, and what the inventory has left behind is not served for long. *)
(*                                                                         *)
(* What is stored is bounded by the time it has left: an entry that lags   *)
(* was read before the last bump, so the time since that bump and the time *)
(* left to the entry add up to no more than one flight and one life in the *)
(* structured cache.  In the exact one, which may store what was found in  *)
(* the other or given by a rail, they add up to a flight, a life and what  *)
(* that was behind; in the slot to a flight, a fallback, a life and what a *)
(* rail may be behind.  Time moves the two in opposite directions, hits    *)
(* move neither.                                                           *)
(*                                                                         *)
(* The books of both caches are kept as well.  Their bytes are a sum, a    *)
(* fold; that it grows and shrinks with one key at a time is shown by a    *)
(* set of the least cardinality that would refute it.                      *)
(***************************************************************************)
EXTENDS ServingCaches, SequenceTheorems, FiniteSetTheorems, WellFoundedInduction, TLAPS

(* A store with entries of S.                                              *)
StoreOf(s, S) ==
    /\ s = [items |-> s.items, sizes |-> s.sizes, bytes |-> s.bytes]
    /\ s.items \in Seq(S)

EntrySet == [key : Queries, seen : Versions, tag : Versions, left : 0 .. Ttl]

(* Entries that, if they lag, add up to no more than bound.                *)
Bounded(bound) ==
    {e \in EntrySet :
        e.tag = version /\ (e.left > 0 /\ e.seen < version => quiet + e.left <= bound)}

OneLife == StructuredBound
ExactLife == ExactBound - 1
SlotLife == SlotBound - 1

(* The longest that what a search merges may be behind, and its time limit *)
(* or that of a fallback, the longer.                                      *)
Behind == Max({StructuredBound, RailLag})
Longest == Max({Flight, Rails})

Typed ==
    /\ version \in Versions
    /\ quiet \in 0 .. Settled
    /\ slot \in [seen : Versions, left : 0 .. Ttl]
    /\ at \in [Requests -> Places]
    /\ query \in [Requests -> Queries]
    /\ seen \in [Requests -> Versions]
    /\ age \in [Requests -> 0 .. Longest]

(* Only a search and a fallback have an age, within their limits.          *)
InTime(r) ==
    /\ at[r] \in Searching => age[r] <= Flight
    /\ at[r] = "railing" => age[r] <= Rails
    /\ at[r] \in {"idle", "replying"} => age[r] = 0

(* What a search has read, if it lags.                                     *)
ReadBounded(r) ==
    seen[r] < version =>
        /\ at[r] = "fetching" => quiet <= age[r]
        /\ at[r] = "fusing" => quiet < age[r] + OneLife
        /\ at[r] = "merging" => quiet < age[r] + Behind
        /\ at[r] = "railing" => quiet < age[r] + RailLag + Flight

CachesInv ==
    /\ Typed
    /\ StoreOf(exact, Bounded(ExactLife))
    /\ StoreOf(structured, Bounded(OneLife))
    /\ slot.left > 0 /\ slot.seen < version => quiet + slot.left <= SlotLife
    /\ \A r \in Requests : InTime(r) /\ ReadBounded(r)

-----------------------------------------------------------------------------
(* Sums: the fold of SumFunctionOnSet depends neither on the order of the  *)
(* elements nor on anything but their values                               *)

(* Every set of naturals with an element has a least one: induction without *)
(* an operator.                                                            *)
LEMMA LeastNatural ==
  ASSUME NEW N \in SUBSET Nat, N # {}
  PROVE  \E m \in N : \A n \in N : m <= n
<1>1. PICK m \in N : \A n \in N : <<n, m>> \notin OpToRel(<, Nat)
  BY NatLessThanWellFounded, WFMin
<1>2. ASSUME NEW n \in N PROVE m <= n
  <2>1. ~(n < m)
    BY <1>1 DEF OpToRel
  <2> QED
    BY <2>1
<1> QED
  BY <1>2

Pick(s) == CHOOSE x \in s : TRUE

(* g sums f over the subsets of K the way a fold does.                     *)
FoldsOver(g, f, D) ==
    g = [s \in D |-> IF s = {} THEN 0 ELSE f[Pick(s)] + g[s \ {Pick(s)}]]

LEMMA SumIsFold ==
  ASSUME NEW f, NEW K
  PROVE  SumFunctionOnSet(f, K) = (CHOOSE g : FoldsOver(g, f, SUBSET K))[K]
  BY DEF SumFunctionOnSet, FoldFunctionOnSet, MapThenFoldSet, FoldsOver, Pick


LEMMA PickIn ==
  ASSUME NEW s, s # {}
  PROVE  Pick(s) \in s
<1>1. \E x \in s : TRUE
  OBVIOUS
<1> QED
  BY <1>1 DEF Pick

(* There is such a g for the subsets of at most n elements, whatever n.    *)
Few(K, n) == {s \in SUBSET K : Cardinality(s) <= n}

LEMMA FoldExists ==
  ASSUME NEW f, NEW K, IsFiniteSet(K)
  PROVE  \E g : FoldsOver(g, f, SUBSET K)
<1> DEFINE Bad == {n \in Nat : ~\E g : FoldsOver(g, f, Few(K, n))}
<1>1. ASSUME NEW s \in SUBSET K
      PROVE  /\ IsFiniteSet(s) /\ Cardinality(s) \in Nat /\ Cardinality(s) <= Cardinality(K)
             /\ Cardinality(s) = 0 => s = {}
             /\ s # {} => Cardinality(s \ {Pick(s)}) = Cardinality(s) - 1
  BY PickIn, FS_Subset, FS_CardinalityType, FS_EmptySet, FS_RemoveElement
<1>2. CASE Bad = {}
  <2>1. Cardinality(K) \in Nat
    BY FS_CardinalityType
  <2>2. Few(K, Cardinality(K)) = SUBSET K
    BY <1>1 DEF Few
  <2> QED
    BY <1>2, <2>1, <2>2
<1>3. CASE Bad # {}
  <2>1. PICK m \in Bad : \A n \in Bad : m <= n
    <3>1. Bad \in SUBSET Nat
      OBVIOUS
    <3> HIDE DEF Bad
    <3> QED
      BY <1>3, <3>1, LeastNatural
  <2>2. m \in Nat
    BY <2>1
  <2>3. CASE m = 0
    <3> DEFINE g == [s \in Few(K, 0) |-> 0]
    <3>1. ASSUME NEW s \in Few(K, 0) PROVE s = {}
      <4>1. s \in SUBSET K /\ Cardinality(s) <= 0
        BY DEF Few
      <4>2. Cardinality(s) \in Nat
        BY <1>1, <4>1
      <4>3. Cardinality(s) = 0
        BY <4>1, <4>2
      <4> QED
        BY <1>1, <4>1, <4>3
    <3>2. FoldsOver(g, f, Few(K, 0))
      BY <3>1 DEF FoldsOver
    <3> QED
      BY <2>1, <2>3, <3>2
  <2>4. CASE m # 0
    <3>1. m - 1 \in Nat /\ ~(m <= m - 1)
      BY <2>2, <2>4
    <3>2. m - 1 \notin Bad
      BY <2>1, <3>1
    <3>3. PICK g : FoldsOver(g, f, Few(K, m - 1))
      BY <3>1, <3>2
    <3> DEFINE body(h, s) == IF s = {} THEN 0 ELSE f[Pick(s)] + h[s \ {Pick(s)}]
               h == [s \in Few(K, m) |-> body(g, s)]
    <3>4. ASSUME NEW s \in Few(K, m), s # {} PROVE s \ {Pick(s)} \in Few(K, m - 1)
      <4>1. s \in SUBSET K /\ Cardinality(s) <= m
        BY DEF Few
      <4>2. Cardinality(s \ {Pick(s)}) = Cardinality(s) - 1 /\ Cardinality(s) \in Nat
        BY <1>1, <3>4, <4>1
      <4> QED
        BY <2>2, <4>1, <4>2 DEF Few
    <3>5. ASSUME NEW s \in Few(K, m - 1) PROVE s \in Few(K, m) /\ h[s] = g[s]
      <4>1. s \in SUBSET K /\ Cardinality(s) <= m - 1
        BY DEF Few
      <4>2. Cardinality(s) \in Nat
        BY <1>1, <4>1
      <4>3. s \in Few(K, m)
        BY <2>2, <4>1, <4>2 DEF Few
      <4>4. g[s] = body(g, s)
        BY <3>3 DEF FoldsOver
      <4> QED
        BY <4>3, <4>4
    <3> HIDE DEF h
    <3>6. ASSUME NEW s \in Few(K, m) PROVE body(g, s) = body(h, s)
      BY <3>4, <3>5
    <3>7. h = [s \in Few(K, m) |-> body(h, s)]
      <4>1. h = [s \in Few(K, m) |-> body(g, s)]
        BY DEF h
      <4> HIDE DEF body
      <4>2. [s \in Few(K, m) |-> body(g, s)] = [s \in Few(K, m) |-> body(h, s)]
        BY <3>6
      <4> QED
        BY <4>1, <4>2
    <3>8. FoldsOver(h, f, Few(K, m))
      BY <3>7 DEF FoldsOver
    <3> QED
      BY <2>1, <3>8
  <2> QED
    BY <2>3, <2>4
<1> QED
  BY <1>2, <1>3

(* The order in which a fold takes the elements does not matter.           *)
LEMMA FoldOrder ==
  ASSUME NEW f, NEW K, IsFiniteSet(K), \A k \in K : f[k] \in Int,
         NEW g, FoldsOver(g, f, SUBSET K)
  PROVE  \A s \in SUBSET K :
            /\ g[s] \in Int
            /\ \A x \in s : g[s] = f[x] + g[s \ {x}]
<1> DEFINE Good(s) == g[s] \in Int /\ \A x \in s : g[s] = f[x] + g[s \ {x}]
           Bad == {n \in Nat : \E s \in SUBSET K : Cardinality(s) = n /\ ~Good(s)}
<1>1. ASSUME NEW s \in SUBSET K
      PROVE  /\ IsFiniteSet(s) /\ Cardinality(s) \in Nat
             /\ \A x \in s : /\ s \ {x} \in SUBSET K
                             /\ Cardinality(s \ {x}) = Cardinality(s) - 1
  BY FS_Subset, FS_CardinalityType, FS_RemoveElement
<1>2. ASSUME NEW s \in SUBSET K
      PROVE  g[s] = IF s = {} THEN 0 ELSE f[Pick(s)] + g[s \ {Pick(s)}]
  BY DEF FoldsOver
<1>3. CASE Bad = {}
  BY <1>1, <1>3
<1>4. CASE Bad # {}
  <2>1. PICK m \in Bad : \A n \in Bad : m <= n
    <3>1. Bad \in SUBSET Nat
      OBVIOUS
    <3> HIDE DEF Bad
    <3> QED
      BY <1>4, <3>1, LeastNatural
  <2>2. PICK s \in SUBSET K : Cardinality(s) = m /\ ~Good(s)
    BY <2>1
  <2>3. ASSUME NEW t \in SUBSET K, Cardinality(t) < m PROVE Good(t)
    <3>1. Cardinality(t) \in Nat /\ ~(m <= Cardinality(t))
      BY <1>1, <2>1, <2>3
    <3>2. Cardinality(t) \notin Bad
      BY <2>1, <3>1
    <3> QED
      BY <3>1, <3>2
  <2> HIDE DEF Bad, Good
  <2>4. ASSUME NEW x \in s PROVE s \ {x} \in SUBSET K /\ Good(s \ {x})
    <3>1. s \ {x} \in SUBSET K /\ Cardinality(s \ {x}) < m
      BY <1>1, <2>2
    <3> QED
      BY <2>3, <3>1
  <2>5. CASE s = {}
    <3>1. g[s] = 0
      BY <1>2, <2>5
    <3> QED
      BY <2>2, <2>5, <3>1 DEF Good
  <2>6. CASE s # {}
    <3> DEFINE y == Pick(s)
    <3>1. y \in s /\ g[s] = f[y] + g[s \ {y}] /\ f[y] \in Int /\ g[s \ {y}] \in Int
      BY <1>2, <2>4, <2>6, PickIn DEF Good
    <3> HIDE DEF y
    <3>2. ASSUME NEW x \in s PROVE g[s] = f[x] + g[s \ {x}]
      <4>1. CASE x = y
        BY <3>1, <4>1
      <4>2. CASE x # y
        <5>1. g[s \ {y}] = f[x] + g[(s \ {y}) \ {x}]
          BY <2>4, <3>1, <4>2 DEF Good
        <5>2. g[s \ {x}] = f[y] + g[(s \ {x}) \ {y}]
          BY <2>4, <3>1, <4>2 DEF Good
        <5>3. (s \ {y}) \ {x} = (s \ {x}) \ {y}
          OBVIOUS
        <5> DEFINE r == (s \ {x}) \ {y}
        <5>4. r \in SUBSET K /\ g[r] \in Int
          <6>1. s \ {x} \in SUBSET K /\ y \in s \ {x} /\ r \in SUBSET K
            BY <2>4, <3>1, <4>2
          <6>2. Cardinality(r) = Cardinality(s \ {x}) - 1 /\ Cardinality(s \ {x}) = m - 1
            BY <1>1, <2>2, <6>1
          <6>3. Cardinality(s \ {x}) \in Nat /\ m \in Nat
            BY <1>1, <2>2, <6>1
          <6>4. Good(r)
            BY <2>3, <6>1, <6>2, <6>3
          <6> QED
            BY <6>1, <6>4 DEF Good
        <5> HIDE DEF r
        <5>5. g[s \ {y}] = f[x] + g[r] /\ g[s \ {x}] = f[y] + g[r]
          BY <5>1, <5>2, <5>3 DEF r
        <5>6. f[x] \in Int
          OBVIOUS
        <5> QED
          BY <3>1, <5>4, <5>5, <5>6
      <4> QED
        BY <4>1, <4>2
    <3>3. g[s] \in Int
      BY <3>1
    <3> QED
      BY <2>2, <3>2, <3>3 DEF Good
  <2> QED
    BY <2>5, <2>6
<1> QED
  BY <1>3, <1>4

(* Over the subsets of a set.                                              *)
SumsOver(g, f, K) == FoldsOver(g, f, SUBSET K)

(* A fold over a set looks at its elements only.                           *)
LEMMA FoldAgrees ==
  ASSUME NEW K, IsFiniteSet(K), NEW L \in SUBSET K, NEW f, NEW e,
         \A k \in L : f[k] = e[k],
         NEW g, SumsOver(g, f, K), NEW h, SumsOver(h, e, L)
  PROVE  g[L] = h[L]
<1> DEFINE Bad == {n \in Nat : \E s \in SUBSET L : Cardinality(s) = n /\ g[s] # h[s]}
<1>1. ASSUME NEW s \in SUBSET L
      PROVE  /\ Cardinality(s) \in Nat
             /\ g[s] = IF s = {} THEN 0 ELSE f[Pick(s)] + g[s \ {Pick(s)}]
             /\ h[s] = IF s = {} THEN 0 ELSE e[Pick(s)] + h[s \ {Pick(s)}]
             /\ s # {} => /\ Pick(s) \in s /\ s \ {Pick(s)} \in SUBSET L
                          /\ Cardinality(s \ {Pick(s)}) = Cardinality(s) - 1
  <2>1. s \in SUBSET K
    OBVIOUS
  <2> QED
    BY <2>1, PickIn, FS_Subset, FS_CardinalityType, FS_RemoveElement DEF FoldsOver, SumsOver
<1>2. CASE Bad = {}
  BY <1>1, <1>2
<1>3. CASE Bad # {}
  <2>1. PICK m \in Bad : \A n \in Bad : m <= n
    <3>1. Bad \in SUBSET Nat
      OBVIOUS
    <3> HIDE DEF Bad
    <3> QED
      BY <1>3, <3>1, LeastNatural
  <2>2. PICK s \in SUBSET L : Cardinality(s) = m /\ g[s] # h[s]
    BY <2>1
  <2>3. s # {}
    BY <1>1, <2>2
  <2> DEFINE t == s \ {Pick(s)}
  <2>4. /\ t \in SUBSET L /\ Pick(s) \in L /\ Cardinality(t) = m - 1 /\ Cardinality(t) \in Nat
        /\ g[s] = f[Pick(s)] + g[t] /\ h[s] = e[Pick(s)] + h[t]
    BY <1>1, <2>2, <2>3
  <2> HIDE DEF t
  <2>5. Cardinality(t) \notin Bad
    <3>1. m \in Nat /\ ~(m <= Cardinality(t))
      BY <2>1, <2>4
    <3> QED
      BY <2>1, <3>1
  <2>6. g[t] = h[t]
    BY <2>4, <2>5
  <2> QED
    BY <2>2, <2>4, <2>6
<1> QED
  BY <1>2, <1>3

LEMMA SumFolds ==
  ASSUME NEW f, NEW K, IsFiniteSet(K)
  PROVE  \E g : SumsOver(g, f, K) /\ SumFunctionOnSet(f, K) = g[K]
<1> DEFINE g == CHOOSE h : SumsOver(h, f, K)
<1>1. SumsOver(g, f, K)
  <2>1. \E h : SumsOver(h, f, K)
    BY FoldExists DEF SumsOver
  <2> HIDE DEF g
  <2>2. g = CHOOSE h : SumsOver(h, f, K)
    BY DEF g
  <2> QED
    BY <2>1, <2>2
<1>2. SumFunctionOnSet(f, K) = g[K]
  BY SumIsFold DEF SumsOver
<1> QED
  BY <1>1, <1>2

(* What is known of sums over a finite set.                                *)
LEMMA SumOfNone ==
  ASSUME NEW f
  PROVE  SumFunctionOnSet(f, {}) = 0
<1>1. IsFiniteSet({}) /\ {} \in SUBSET {}
  BY FS_EmptySet
<1>2. PICK g : SumsOver(g, f, {}) /\ SumFunctionOnSet(f, {}) = g[{}]
  BY <1>1, SumFolds
<1> QED
  BY <1>1, <1>2 DEF FoldsOver, SumsOver

LEMMA SumAgrees ==
  ASSUME NEW K, IsFiniteSet(K), NEW f, NEW e, \A k \in K : f[k] = e[k]
  PROVE  SumFunctionOnSet(f, K) = SumFunctionOnSet(e, K)
<1>1. PICK g : SumsOver(g, f, K) /\ SumFunctionOnSet(f, K) = g[K]
  BY SumFolds
<1>2. PICK h : SumsOver(h, e, K) /\ SumFunctionOnSet(e, K) = h[K]
  BY SumFolds
<1>3. K \in SUBSET K
  OBVIOUS
<1>4. g[K] = h[K]
  BY <1>1, <1>2, <1>3, FoldAgrees
<1> QED
  BY <1>1, <1>2, <1>4

LEMMA SumStep ==
  ASSUME NEW K, IsFiniteSet(K), NEW f, \A k \in K : f[k] \in Int
  PROVE  /\ SumFunctionOnSet(f, K) \in Int
         /\ \A x \in K : SumFunctionOnSet(f, K) = f[x] + SumFunctionOnSet(f, K \ {x})
<1>1. PICK g : SumsOver(g, f, K) /\ SumFunctionOnSet(f, K) = g[K]
  BY SumFolds
<1>2. ASSUME NEW x \in K PROVE SumFunctionOnSet(f, K \ {x}) = g[K \ {x}]
  <2>1. IsFiniteSet(K \ {x})
    BY FS_RemoveElement
  <2>2. PICK h : SumsOver(h, f, K \ {x}) /\ SumFunctionOnSet(f, K \ {x}) = h[K \ {x}]
    BY <2>1, SumFolds
  <2>3. K \ {x} \in SUBSET K
    OBVIOUS
  <2>4. \A k \in K \ {x} : f[k] = f[k]
    OBVIOUS
  <2>5. g[K \ {x}] = h[K \ {x}]
    BY <1>1, <2>2, <2>3, <2>4, FoldAgrees
  <2> QED
    BY <2>2, <2>5
<1>3. K \in SUBSET K
  OBVIOUS
<1>4. g[K] \in Int /\ \A x \in K : g[K] = f[x] + g[K \ {x}]
  BY <1>1, <1>3, FoldOrder DEF SumsOver
<1> QED
  BY <1>1, <1>2, <1>4

LEMMA SumNatural ==
  ASSUME NEW K, IsFiniteSet(K), NEW f, \A k \in K : f[k] \in Nat
  PROVE  SumFunctionOnSet(f, K) \in Nat
<1> DEFINE Sum(s) == SumFunctionOnSet(f, s)
           Bad == {n \in Nat : \E s \in SUBSET K : Cardinality(s) = n /\ Sum(s) \notin Nat}
<1>1. ASSUME NEW s \in SUBSET K
      PROVE  /\ Cardinality(s) \in Nat
             /\ \A x \in s : /\ Cardinality(s \ {x}) = Cardinality(s) - 1
                             /\ Sum(s) = f[x] + Sum(s \ {x}) /\ f[x] \in Nat
  <2>1. IsFiniteSet(s) /\ \A x \in s : f[x] \in Int
    BY FS_Subset
  <2> QED
    BY <2>1, FS_CardinalityType, FS_RemoveElement, SumStep
<1>2. CASE Bad = {}
  <2>1. K \in SUBSET K
    OBVIOUS
  <2> QED
    BY <1>1, <1>2, <2>1
<1>3. CASE Bad # {}
  <2>1. PICK m \in Bad : \A n \in Bad : m <= n
    <3>1. Bad \in SUBSET Nat
      OBVIOUS
    <3> HIDE DEF Bad
    <3> QED
      BY <1>3, <3>1, LeastNatural
  <2>2. PICK s \in SUBSET K : Cardinality(s) = m /\ Sum(s) \notin Nat
    BY <2>1
  <2>3. PICK x \in s : TRUE
    <3> SUFFICES ASSUME s = {} PROVE FALSE
      OBVIOUS
    <3>1. Sum({}) = 0
      BY SumOfNone
    <3> HIDE DEF Sum
    <3> QED
      BY <2>2, <3>1
  <2> DEFINE t == s \ {x}
  <2>4. /\ t \in SUBSET K /\ Cardinality(t) = m - 1 /\ Cardinality(t) \in Nat
        /\ Sum(s) = f[x] + Sum(t) /\ f[x] \in Nat
    BY <1>1, <2>2
  <2>5. Cardinality(t) \notin Bad
    <3>1. m \in Nat /\ ~(m <= Cardinality(t))
      BY <2>1, <2>4
    <3> QED
      BY <2>1, <3>1
  <2>6. Sum(t) \in Nat
    BY <2>4, <2>5
  <2> HIDE DEF Sum, t
  <2> QED
    BY <2>2, <2>4, <2>6
<1> QED
  BY <1>2, <1>3

LEMMA SumSplits ==
  ASSUME NEW K, IsFiniteSet(K), NEW f, \A k \in K : f[k] \in Int, NEW G \in SUBSET K
  PROVE  SumFunctionOnSet(f, K) = SumFunctionOnSet(f, G) + SumFunctionOnSet(f, K \ G)
<1> DEFINE Sum(s) == SumFunctionOnSet(f, s)
           Bad == {n \in Nat : \E s \in SUBSET K :
                                  Cardinality(s) = n /\ Sum(K) # Sum(s) + Sum(K \ s)}
<1>1. ASSUME NEW s \in SUBSET K
      PROVE  /\ IsFiniteSet(s) /\ Cardinality(s) \in Nat
             /\ \A x \in s : Cardinality(s \ {x}) = Cardinality(s) - 1
  BY FS_Subset, FS_CardinalityType, FS_RemoveElement
<1>2. ASSUME NEW s \in SUBSET K
      PROVE  Sum(s) \in Int /\ \A x \in s : Sum(s) = f[x] + Sum(s \ {x})
  BY <1>1, SumStep
<1>3. CASE Bad = {}
  BY <1>1, <1>3
<1>4. CASE Bad # {}
  <2>1. PICK m \in Bad : \A n \in Bad : m <= n
    <3>1. Bad \in SUBSET Nat
      OBVIOUS
    <3> HIDE DEF Bad
    <3> QED
      BY <1>4, <3>1, LeastNatural
  <2>2. PICK s \in SUBSET K : Cardinality(s) = m /\ Sum(K) # Sum(s) + Sum(K \ s)
    BY <2>1
  <2>3. s # {}
    <3> SUFFICES ASSUME s = {} PROVE FALSE
      OBVIOUS
    <3>1. Sum({}) = 0 /\ K \ {} = K /\ Sum(K) \in Int
      BY <1>2, SumOfNone
    <3> HIDE DEF Sum
    <3> QED
      BY <2>2, <3>1
  <2>4. PICK x \in s : TRUE
    BY <2>3
  <2> DEFINE t == s \ {x}
  <2>5. t \in SUBSET K /\ Cardinality(t) = m - 1 /\ Cardinality(t) \in Nat /\ m \in Nat
    BY <1>1, <2>1, <2>2
  <2>6. Cardinality(t) \notin Bad
    <3>1. ~(m <= Cardinality(t))
      BY <2>5
    <3> QED
      BY <2>1, <3>1
  <2>7. Sum(K) = Sum(t) + Sum(K \ t)
    BY <2>5, <2>6
  <2>8. K \ t \in SUBSET K /\ x \in K \ t /\ (K \ t) \ {x} = K \ s /\ K \ s \in SUBSET K
    OBVIOUS
  <2> HIDE DEF Sum, Bad
  <2>9. Sum(s) = f[x] + Sum(t) /\ Sum(K \ t) = f[x] + Sum(K \ s)
    BY <1>2, <2>8
  <2> HIDE DEF t
  <2>10. Sum(s) \in Int /\ Sum(t) \in Int /\ Sum(K \ s) \in Int /\ f[x] \in Int
    BY <1>2, <2>5, <2>8
  <2> QED
    BY <2>2, <2>7, <2>9, <2>10
<1> QED
  BY <1>3, <1>4

-----------------------------------------------------------------------------
(* The store's operations                                                  *)

LEMMA PlaceOf ==
  ASSUME NEW S, NEW s, s.items \in Seq(S), NEW k, k \in KeysOf(s)
  PROVE  Place(s, k) \in 1 .. Len(s.items) /\ Found(s, k) \in S /\ Found(s, k).key = k
<1>1. DOMAIN s.items = 1 .. Len(s.items)
  OBVIOUS
<1>2. \E i \in DOMAIN s.items : s.items[i].key = k
  BY DEF KeysOf
<1>3. Place(s, k) \in DOMAIN s.items /\ s.items[Place(s, k)].key = k
  BY <1>2 DEF Place
<1> QED
  BY <1>1, <1>3 DEF Found

LEMMA WithoutIn ==
  ASSUME NEW S, NEW s, s.items \in Seq(S), NEW k
  PROVE  Without(s, k) \in Seq(S)
<1>1. CASE k \notin KeysOf(s)
  BY <1>1 DEF Without
<1>2. CASE k \in KeysOf(s)
  <2> DEFINE i == Place(s, k)
             n == Len(s.items)
  <2>1. i \in 1 .. n /\ n \in Nat
    BY <1>2, PlaceOf
  <2>2. \A j \in 1 .. n : s.items[j] \in S
    OBVIOUS
  <2>3. SubSeq(s.items, 1, i - 1) \in Seq(S)
    BY <2>1, <2>2, SubSeqProperties
  <2>4. SubSeq(s.items, i + 1, n) \in Seq(S)
    BY <2>1, <2>2, SubSeqProperties
  <2> QED
    BY <1>2, <2>3, <2>4, ConcatProperties DEF Without
<1> QED
  BY <1>1, <1>2

LEMMA EmptyIn == ASSUME NEW S PROVE StoreOf(EmptyStore, S)
  BY DEF StoreOf, EmptyStore

LEMMA RemoveIn ==
  ASSUME NEW S, NEW s, StoreOf(s, S), NEW k
  PROVE  StoreOf(Remove(s, k), S)
  BY WithoutIn DEF StoreOf, Remove

LEMMA TouchIn ==
  ASSUME NEW S, NEW s, StoreOf(s, S), NEW k
  PROVE  StoreOf(Touch(s, k), S)
<1>1. CASE ~Fresh(s, k)
  BY <1>1, RemoveIn DEF Touch
<1>2. CASE Fresh(s, k)
  <2>1. Found(s, k) \in S /\ Without(s, k) \in Seq(S)
    BY <1>2, PlaceOf, WithoutIn DEF Fresh, StoreOf
  <2>2. Append(Without(s, k), Found(s, k)) \in Seq(S)
    BY <2>1, AppendProperties
  <2>3. Touch(s, k) = [s EXCEPT !.items = Append(Without(s, k), Found(s, k))]
    BY <1>2 DEF Touch
  <2>4. Touch(s, k) = [items |-> Append(Without(s, k), Found(s, k)),
                       sizes |-> s.sizes, bytes |-> s.bytes]
    BY <2>3 DEF StoreOf
  <2> QED
    BY <2>2, <2>4 DEF StoreOf
<1> QED
  BY <1>1, <1>2

(* Eviction ends, with the empty store at the latest.                      *)
LEMMA EvictedIn ==
  ASSUME NEW S, NEW s, StoreOf(s, S)
  PROVE  StoreOf(Evicted(s), S)
<1> DEFINE len == Len(s.items)
           N == {n \in 0 .. len : Fits(DropFirst(s, n))}
<1>1. len \in Nat /\ \A j \in 1 .. len : s.items[j] \in S
  BY DEF StoreOf
<1>2. ASSUME NEW n \in 0 .. len
      PROVE  StoreOf(DropFirst(s, n), S) /\ Len(DropFirst(s, n).items) = len - n
  <2>1. \A j \in n + 1 .. len : s.items[j] \in S
    BY <1>1
  <2>2. SubSeq(s.items, n + 1, len) \in Seq(S) /\ Len(SubSeq(s.items, n + 1, len)) = len - n
    BY <1>1, <2>1, SubSeqProperties
  <2> QED
    BY <2>2 DEF DropFirst, StoreOf
<1>3. len \in N
  BY <1>1, <1>2, StoreConfig DEF Fits, StoreConfig
<1>4. Min(N) \in N
  <2>1. N \subseteq Nat /\ N # {}
    BY <1>1, <1>3
  <2>2. PICK m \in N : \A n \in N : <<n, m>> \notin OpToRel(<, Nat)
    BY <2>1, NatLessThanWellFounded, WFMin
  <2> HIDE DEF N
  <2>3. ASSUME NEW n \in N PROVE m <= n
    <3>1. ~(n < m)
      BY <2>1, <2>2 DEF OpToRel
    <3> QED
      BY <2>1, <3>1
  <2> QED
    BY <2>3 DEF Min
<1> QED
  BY <1>2, <1>4 DEF Evicted

LEMMA PutIn ==
  ASSUME NEW S, NEW s, StoreOf(s, S), NEW e \in S, NEW size
  PROVE  StoreOf(Put(s, e, size), S)
<1>1. Remove(s, e.key).items \in Seq(S)
  BY RemoveIn DEF StoreOf
<1>2. Append(Remove(s, e.key).items, e) \in Seq(S)
  BY <1>1, AppendProperties
<1> QED
  BY <1>2, EvictedIn DEF Put, StoreOf

LEMMA OlderIn ==
  ASSUME NEW S, NEW T, NEW s, StoreOf(s, S), \A e \in S : Aged(e) \in T
  PROVE  StoreOf(Older(s), T)
<1> DEFINE items == [i \in DOMAIN s.items |-> Aged(s.items[i])]
<1>1. items \in Seq(T)
  <2>1. DOMAIN s.items = 1 .. Len(s.items) /\ Len(s.items) \in Nat
        /\ \A i \in DOMAIN s.items : s.items[i] \in S
    BY DEF StoreOf
  <2>2. items \in [1 .. Len(s.items) -> T]
    BY <2>1
  <2> HIDE DEF items
  <2> QED
    BY <2>1, <2>2, SeqDef
<1>2. Older(s) = [s EXCEPT !.items = items]
  BY DEF Older
<1> HIDE DEF items
<1>3. Older(s) = [items |-> items, sizes |-> s.sizes, bytes |-> s.bytes]
  BY <1>2 DEF StoreOf
<1> QED
  BY <1>1, <1>3 DEF StoreOf

(* A store goes on holding what it holds when the bound of its entries has *)
(* not become tighter.                                                     *)
LEMMA StoreStands ==
  ASSUME NEW S, NEW T, S \subseteq T, NEW s, StoreOf(s, S)
  PROVE  StoreOf(s, T)
<1>1. Seq(S) \subseteq Seq(T)
  BY SeqMonotonic
<1> QED
  BY <1>1 DEF StoreOf

LEMMA EntriesIn ==
  ASSUME NEW S, NEW s, StoreOf(s, S)
  PROVE  Entries(s) \subseteq S
  BY DEF StoreOf, Entries

-----------------------------------------------------------------------------
(* The books of a store                                                    *)

KeysIn(items) == {items[i].key : i \in 1 .. Len(items)}

Distinct(items) ==
    \A i, j \in 1 .. Len(items) : items[i].key = items[j].key => i = j

(* What the operations preserve; that both limits hold follows eviction.   *)
Booked(s, S) ==
    /\ StoreOf(s, S)
    /\ Distinct(s.items)
    /\ s.sizes \in [KeysIn(s.items) -> Nat]
    /\ s.bytes = SumFunctionOnSet(s.sizes, KeysIn(s.items))

LEMMA KeysAre ==
  ASSUME NEW S, NEW s, s.items \in Seq(S)
  PROVE  KeysOf(s) = KeysIn(s.items) /\ Len(s.items) \in Nat
<1>1. DOMAIN s.items = 1 .. Len(s.items) /\ Len(s.items) \in Nat
  BY LenProperties
<1> QED
  BY <1>1 DEF KeysOf, KeysIn

LEMMA KeysCounted ==
  ASSUME NEW S, NEW items \in Seq(S), Distinct(items)
  PROVE  IsFiniteSet(KeysIn(items)) /\ Cardinality(KeysIn(items)) = Len(items)
<1> DEFINE n == Len(items)
           K == KeysIn(items)
           f == [i \in 1 .. n |-> items[i].key]
<1>1. n \in Nat
  BY LenProperties
<1>2. IsFiniteSet(1 .. n) /\ Cardinality(1 .. n) = n
  <2>1. 1 \in Int /\ n \in Int /\ (IF 1 > n THEN 0 ELSE n - 1 + 1) = n
    BY <1>1
  <2> HIDE DEF n
  <2>2. IsFiniteSet(1 .. n) /\ Cardinality(1 .. n) = IF 1 > n THEN 0 ELSE n - 1 + 1
    BY <2>1, FS_Interval
  <2> QED
    BY <2>1, <2>2
<1>3. f \in Bijection(1 .. n, K)
  <2>1. f \in [1 .. n -> K] /\ \A i \in 1 .. n : f[i] = items[i].key
    BY DEF KeysIn
  <2>3. f \in Injection(1 .. n, K)
    <3> HIDE DEF f
    <3> QED
      BY <2>1 DEF Injection, IsInjective, Distinct
  <2>2. f \in Surjection(1 .. n, K)
    BY DEF Surjection, KeysIn
  <2> QED
    BY <2>2, <2>3 DEF Bijection
<1>4. ExistsBijection(1 .. n, K)
  BY <1>3 DEF ExistsBijection
<1> QED
  BY <1>2, <1>4, FS_Bijection

LEMMA WithoutParts ==
  ASSUME NEW S, NEW s, s.items \in Seq(S), Distinct(s.items), NEW k
  PROVE  /\ Without(s, k) \in Seq(S) /\ Distinct(Without(s, k))
         /\ KeysIn(Without(s, k)) = KeysIn(s.items) \ {k}
         /\ Len(Without(s, k)) = IF k \in KeysOf(s) THEN Len(s.items) - 1 ELSE Len(s.items)
<1> DEFINE items == s.items
           n == Len(items)
           w == Without(s, k)
<1>1. w \in Seq(S) /\ n \in Nat /\ KeysOf(s) = KeysIn(items)
  BY WithoutIn, KeysAre
<1>2. CASE k \notin KeysOf(s)
  BY <1>1, <1>2 DEF Without
<1>3. CASE k \in KeysOf(s)
  <2> DEFINE i == Place(s, k)
  <2>1. i \in 1 .. n /\ items[i].key = k
    BY <1>3, PlaceOf DEF Found
  <2> DEFINE a == SubSeq(items, 1, i - 1)
             b == SubSeq(items, i + 1, n)
  <2>2. w = a \o b
    BY <1>3 DEF Without
  <2> HIDE DEF i, w
  <2>3. \A j \in 1 .. n : items[j] \in S
    BY ElementOfSeq
  <2>4. /\ a \in Seq(S) /\ Len(a) = i - 1 /\ \A j \in 1 .. i - 1 : a[j] = items[j]
    <3>1. \A j \in 1 .. i - 1 : items[j] \in S
      BY <1>1, <2>1, <2>3
    <3>2. 1 \in Int /\ i - 1 \in Int
      BY <2>1
    <3>3. /\ a \in Seq(S) /\ Len(a) = IF 1 <= i - 1 THEN (i - 1) - 1 + 1 ELSE 0
          /\ \A j \in 1 .. (i - 1) - 1 + 1 : a[j] = items[1 + j - 1]
      BY <3>1, <3>2, SubSeqProperties
    <3>4. (i - 1) - 1 + 1 = i - 1 /\ \A j \in 1 .. i - 1 : 1 + j - 1 = j
      BY <2>1
    <3> HIDE DEF a
    <3> QED
      BY <2>1, <3>3, <3>4
  <2>5. /\ b \in Seq(S) /\ Len(b) = n - i /\ \A j \in 1 .. n - i : b[j] = items[i + j]
    <3>1. \A j \in i + 1 .. n : items[j] \in S
      BY <1>1, <2>1, <2>3
    <3>2. i + 1 \in Int /\ n \in Int
      BY <1>1, <2>1
    <3>3. /\ b \in Seq(S) /\ Len(b) = IF i + 1 <= n THEN n - (i + 1) + 1 ELSE 0
          /\ \A j \in 1 .. n - (i + 1) + 1 : b[j] = items[(i + 1) + j - 1]
      BY <3>1, <3>2, SubSeqProperties
    <3>4. n - (i + 1) + 1 = n - i /\ \A j \in 1 .. n - i : (i + 1) + j - 1 = i + j
      BY <1>1, <2>1
    <3> HIDE DEF b
    <3>5. Len(b) = n - i
      BY <1>1, <2>1, <3>3
    <3> QED
      BY <3>3, <3>4, <3>5
  <2> HIDE DEF a, b
  <2>6. /\ Len(w) = n - 1
        /\ \A j \in 1 .. n - 1 : w[j] = IF j < i THEN items[j] ELSE items[j + 1]
    <3>1. /\ Len(w) = Len(a) + Len(b)
          /\ \A j \in 1 .. Len(a) + Len(b) : w[j] = IF j <= Len(a) THEN a[j] ELSE b[j - Len(a)]
      BY <2>2, <2>4, <2>5, ConcatProperties
    <3>2. Len(a) + Len(b) = n - 1
      BY <1>1, <2>1, <2>4, <2>5
    <3>3. ASSUME NEW j \in 1 .. n - 1
          PROVE  w[j] = IF j < i THEN items[j] ELSE items[j + 1]
      <4>1. w[j] = IF j <= i - 1 THEN a[j] ELSE b[j - (i - 1)]
        BY <2>4, <3>1, <3>2
      <4>2. CASE j < i
        <5>1. j \in 1 .. i - 1 /\ j <= i - 1
          BY <1>1, <2>1, <4>2
        <5> QED
          BY <2>4, <4>1, <4>2, <5>1
      <4>3. CASE ~(j < i)
        <5>1. j - (i - 1) \in 1 .. n - i /\ ~(j <= i - 1) /\ i + (j - (i - 1)) = j + 1
          BY <1>1, <2>1, <4>3
        <5> QED
          BY <2>5, <4>1, <4>3, <5>1
      <4> QED
        BY <4>2, <4>3
    <3> QED
      BY <3>1, <3>2, <3>3
  <2> DEFINE from(j) == IF j < i THEN j ELSE j + 1
  <2>7. ASSUME NEW j \in 1 .. n - 1
        PROVE  from(j) \in 1 .. n /\ from(j) # i /\ w[j] = items[from(j)]
    BY <1>1, <2>1, <2>6
  <2>8. ASSUME NEW j \in 1 .. n, j # i
        PROVE  \E h \in 1 .. n - 1 : from(h) = j
    <3>1. CASE j < i
      <4>1. j \in 1 .. n - 1 /\ from(j) = j
        BY <1>1, <2>1, <3>1
      <4> QED
        BY <4>1
    <3>2. CASE ~(j < i)
      <4>1. j - 1 \in 1 .. n - 1 /\ from(j - 1) = j
        BY <1>1, <2>1, <2>8, <3>2
      <4> QED
        BY <4>1
    <3> QED
      BY <3>1, <3>2
  <2>9. ASSUME NEW j \in 1 .. n - 1, NEW h \in 1 .. n - 1, from(j) = from(h)
        PROVE  j = h
    BY <1>1, <2>1, <2>9
  <2> HIDE DEF from
  <2>10. Distinct(w)
    <3> SUFFICES ASSUME NEW j \in 1 .. Len(w), NEW h \in 1 .. Len(w), w[j].key = w[h].key
                 PROVE  j = h
      BY DEF Distinct
    <3>1. j \in 1 .. n - 1 /\ h \in 1 .. n - 1
      BY <2>6
    <3>2. /\ from(j) \in 1 .. n /\ from(h) \in 1 .. n
          /\ items[from(j)].key = items[from(h)].key
      BY <2>7, <3>1
    <3>3. from(j) = from(h)
      BY <3>2 DEF Distinct
    <3> QED
      BY <2>9, <3>1, <3>3
  <2>11. KeysIn(w) = KeysIn(items) \ {k}
    <3>1. ASSUME NEW x \in KeysIn(w) PROVE x \in KeysIn(items) \ {k}
      <4>1. PICK j \in 1 .. n - 1 : x = w[j].key
        BY <2>6 DEF KeysIn
      <4>2. x = items[from(j)].key /\ from(j) \in 1 .. n /\ from(j) # i
        BY <2>7, <4>1
      <4> QED
        BY <2>1, <4>2 DEF KeysIn, Distinct
    <3>2. ASSUME NEW x \in KeysIn(items) \ {k} PROVE x \in KeysIn(w)
      <4>1. PICK j \in 1 .. n : x = items[j].key
        BY DEF KeysIn
      <4>2. j # i
        BY <2>1, <4>1
      <4>3. PICK h \in 1 .. n - 1 : from(h) = j
        BY <2>8, <4>2
      <4>4. x = w[h].key /\ h \in 1 .. Len(w)
        BY <2>6, <2>7, <4>1, <4>3
      <4> QED
        BY <4>4 DEF KeysIn
    <3> QED
      BY <3>1, <3>2
  <2>12. Len(w) = n - 1 /\ w \in Seq(S)
    BY <1>1, <2>6 DEF w
  <2> QED
    BY <1>3, <2>10, <2>11, <2>12 DEF w
<1> QED
  BY <1>2, <1>3

LEMMA AppendParts ==
  ASSUME NEW S, NEW items \in Seq(S), Distinct(items), NEW e \in S, e.key \notin KeysIn(items)
  PROVE  /\ Append(items, e) \in Seq(S) /\ Distinct(Append(items, e))
         /\ KeysIn(Append(items, e)) = KeysIn(items) \cup {e.key}
         /\ Len(Append(items, e)) = Len(items) + 1
<1> DEFINE n == Len(items)
           w == Append(items, e)
<1>1. n \in Nat /\ w \in Seq(S) /\ Len(w) = n + 1
  BY LenProperties, AppendProperties
<1>2. w[n + 1] = e /\ \A j \in 1 .. n : w[j] = items[j]
  BY AppendProperties
<1> HIDE DEF w
<1>3. ASSUME NEW j \in 1 .. n + 1 PROVE j \in 1 .. n \/ j = n + 1
  BY <1>1
<1>4. n + 1 \in 1 .. n + 1 /\ \A j \in 1 .. n : j \in 1 .. n + 1
  BY <1>1
<1>5. \A j \in 1 .. n : items[j].key # e.key
  BY DEF KeysIn
<1>6. ASSUME NEW i \in 1 .. n + 1, NEW j \in 1 .. n + 1, w[i].key = w[j].key
      PROVE  i = j
  BY <1>2, <1>3, <1>5, <1>6 DEF Distinct
<1>7. KeysIn(w) = KeysIn(items) \cup {e.key}
  <2>1. ASSUME NEW x \in KeysIn(w) PROVE x \in KeysIn(items) \cup {e.key}
    BY <1>1, <1>2, <1>3 DEF KeysIn
  <2>2. ASSUME NEW x \in KeysIn(items) \cup {e.key} PROVE x \in KeysIn(w)
    BY <1>1, <1>2, <1>4 DEF KeysIn
  <2> QED
    BY <2>1, <2>2
<1>8. Distinct(w)
  BY <1>1, <1>6 DEF Distinct
<1> QED
  BY <1>1, <1>7, <1>8 DEF w

LEMMA SuffixParts ==
  ASSUME NEW S, NEW items \in Seq(S), Distinct(items), NEW n \in 0 .. Len(items)
  PROVE  LET w == SubSeq(items, n + 1, Len(items))
         IN  /\ w \in Seq(S) /\ Distinct(w)
             /\ KeysIn(w) = KeysIn(items) \ {items[i].key : i \in 1 .. n}
             /\ Len(w) = Len(items) - n
<1> DEFINE len == Len(items)
           w == SubSeq(items, n + 1, len)
<1>1. len \in Nat /\ n \in Nat /\ n <= len
  BY LenProperties
<1>2. /\ w \in Seq(S) /\ Len(w) = len - n /\ \A j \in 1 .. len - n : w[j] = items[n + j]
  <2>1. \A j \in n + 1 .. len : items[j] \in S
    <3>1. \A j \in n + 1 .. len : j \in 1 .. len
      BY <1>1
    <3> QED
      BY <3>1, ElementOfSeq
  <2>2. n + 1 \in Int /\ len \in Int
    BY <1>1
  <2>3. /\ w \in Seq(S) /\ Len(w) = IF n + 1 <= len THEN len - (n + 1) + 1 ELSE 0
        /\ \A j \in 1 .. len - (n + 1) + 1 : w[j] = items[(n + 1) + j - 1]
    BY <2>1, <2>2, SubSeqProperties
  <2>4. len - (n + 1) + 1 = len - n /\ \A j \in 1 .. len - n : (n + 1) + j - 1 = n + j
    BY <1>1
  <2> HIDE DEF w
  <2>5. Len(w) = len - n
    BY <1>1, <2>3
  <2> QED
    BY <2>3, <2>4, <2>5
<1> HIDE DEF w
<1>3. \A j \in 1 .. len - n : n + j \in 1 .. len /\ n + j \notin 1 .. n
  BY <1>1
<1>4. \A i, j \in 1 .. len - n : n + i = n + j => i = j
  BY <1>1
<1>5. Distinct(w)
  BY <1>2, <1>3, <1>4 DEF Distinct
<1>6. ASSUME NEW x \in KeysIn(w) PROVE x \in KeysIn(items) \ {items[i].key : i \in 1 .. n}
  <2>1. PICK j \in 1 .. len - n : x = items[n + j].key
    BY <1>2 DEF KeysIn
  <2>2. n + j \in 1 .. len /\ \A i \in 1 .. n : i \in 1 .. len /\ i # n + j
    BY <1>1, <1>3
  <2> QED
    BY <2>1, <2>2 DEF KeysIn, Distinct
<1>7. ASSUME NEW x \in KeysIn(items) \ {items[i].key : i \in 1 .. n} PROVE x \in KeysIn(w)
  <2>1. PICK j \in 1 .. len : x = items[j].key
    BY DEF KeysIn
  <2>2. j \notin 1 .. n
    BY <2>1
  <2>3. j - n \in 1 .. len - n /\ n + (j - n) = j
    BY <1>1, <2>2
  <2> QED
    BY <1>2, <2>1, <2>3 DEF KeysIn
<1> QED
  BY <1>2, <1>5, <1>6, <1>7 DEF w

(* The keys of G leave the sizes, and the sum with them.                   *)
Rest(K, G) == K \ G
Less(f, G) == Restrict(f, DOMAIN f \ G)

LEMMA Subtracted ==
  ASSUME NEW K, IsFiniteSet(K), NEW f \in [K -> Nat], NEW G \in SUBSET K
  PROVE  /\ Less(f, G) \in [Rest(K, G) -> Nat]
         /\ SumFunctionOnSet(f, G) \in Nat
         /\ SumFunctionOnSet(Less(f, G), Rest(K, G))
              = SumFunctionOnSet(f, K) - SumFunctionOnSet(f, G)
<1> DEFINE L == Rest(K, G)
           r == Less(f, G)
           x == SumFunctionOnSet(f, K)
           y == SumFunctionOnSet(f, G)
           z == SumFunctionOnSet(f, L)
<1>1. IsFiniteSet(G) /\ IsFiniteSet(L) /\ L \in SUBSET K
  BY FS_Subset DEF Rest
<1>2. r \in [L -> Nat] /\ DOMAIN r = L /\ \A k \in L : r[k] = f[k] /\ f[k] \in Int
  BY DEF Rest, Less, Restrict
<1>3. x = y + z
  BY SumSplits DEF Rest
<1>4. y \in Nat /\ z \in Nat
  <2>1. \A k \in K : f[k] \in Nat
    OBVIOUS
  <2>2. y \in Nat
    BY <1>1, <2>1, SumNatural
  <2>3. \A k \in L : f[k] \in Nat
    BY <1>1, <2>1
  <2> HIDE DEF L
  <2>4. z \in Nat
    BY <1>1, <2>3, SumNatural
  <2> QED
    BY <2>2, <2>4
<1> HIDE DEF L, r
<1>5. SumFunctionOnSet(r, L) = z
  BY <1>1, <1>2, SumAgrees
<1> HIDE DEF x, y, z
<1>6. z = x - y
  BY <1>3, <1>4
<1> QED
  BY <1>2, <1>4, <1>5, <1>6 DEF L, r, x, y, z

LEMMA SubtractedOne ==
  ASSUME NEW K, IsFiniteSet(K), NEW f \in [K -> Nat], NEW k \in K
  PROVE  /\ Less(f, {k}) \in [Rest(K, {k}) -> Nat]
         /\ SumFunctionOnSet(Less(f, {k}), Rest(K, {k})) = SumFunctionOnSet(f, K) - f[k]
<1> DEFINE G == {k}
           none == G \ {k}
<1>1. G \in SUBSET K /\ k \in G /\ none = {} /\ \A j \in G : f[j] \in Int
  OBVIOUS
<1>2. IsFiniteSet(G)
  BY FS_Singleton
<1>3. SumFunctionOnSet(f, G) = f[k] + SumFunctionOnSet(f, none)
  BY <1>1, <1>2, SumStep
<1>4. f[k] \in Nat
  OBVIOUS
<1>5. /\ Less(f, G) \in [Rest(K, G) -> Nat]
      /\ SumFunctionOnSet(Less(f, G), Rest(K, G))
           = SumFunctionOnSet(f, K) - SumFunctionOnSet(f, G)
  <2> HIDE DEF G
  <2> QED
    BY <1>1, Subtracted
<1> HIDE DEF G, none
<1>6. SumFunctionOnSet(f, G) = f[k] + SumFunctionOnSet(f, {})
  BY <1>1, <1>3
<1>7. SumFunctionOnSet(f, G) = f[k]
  BY <1>4, <1>6, SumOfNone
<1>8. /\ Less(f, G) \in [Rest(K, G) -> Nat]
      /\ SumFunctionOnSet(Less(f, G), Rest(K, G)) = SumFunctionOnSet(f, K) - f[k]
  BY <1>5, <1>7
<1> QED
  BY <1>8 DEF G

LEMMA RemoveBooked ==
  ASSUME NEW S, NEW s, Booked(s, S), NEW k
  PROVE  /\ Booked(Remove(s, k), S)
         /\ KeysIn(Remove(s, k).items) = KeysIn(s.items) \ {k}
         /\ Fits(s) => Fits(Remove(s, k))
         /\ Len(Remove(s, k).items) <= Len(s.items)
<1> DEFINE K == KeysIn(s.items)
           r == Remove(s, k)
<1>1. s.items \in Seq(S) /\ Distinct(s.items) /\ s.sizes \in [K -> Nat] /\ Len(s.items) \in Nat
      /\ s.bytes = SumFunctionOnSet(s.sizes, K) /\ IsFiniteSet(K) /\ K = KeysOf(s)
  BY KeysAre, KeysCounted DEF Booked, StoreOf
<1>2. /\ Without(s, k) \in Seq(S) /\ Distinct(Without(s, k))
      /\ KeysIn(Without(s, k)) = K \ {k}
      /\ Len(Without(s, k)) = IF k \in K THEN Len(s.items) - 1 ELSE Len(s.items)
  BY <1>1, WithoutParts
<1>3. r = [items |-> Without(s, k), sizes |-> Restrict(s.sizes, DOMAIN s.sizes \ {k}),
           bytes |-> s.bytes - SizeOf(s, k)]
  BY DEF Remove
<1> HIDE DEF K, r
<1> DEFINE L == Rest(K, {k})
           f == Less(s.sizes, {k})
<1>4. k \notin K => L = K /\ f = s.sizes
  BY <1>1 DEF Restrict, Rest, Less
<1>5. KeysIn(Without(s, k)) = L
  BY <1>2 DEF Rest
<1>6. r.items = Without(s, k) /\ r.sizes = f /\ r.bytes = s.bytes - SizeOf(s, k)
      /\ r = [items |-> r.items, sizes |-> r.sizes, bytes |-> r.bytes]
  BY <1>3 DEF Less
<1>12. k \in K => /\ f \in [L -> Nat]
                  /\ SumFunctionOnSet(f, L) = SumFunctionOnSet(s.sizes, K) - s.sizes[k]
  BY <1>1, SubtractedOne
<1> HIDE DEF L, f
<1>11. /\ f \in [L -> Nat] /\ SizeOf(s, k) \in Nat /\ s.bytes \in Int
       /\ SumFunctionOnSet(f, L) = s.bytes - SizeOf(s, k)
  <2>1. s.bytes \in Int
    BY <1>1, SumStep
  <2>2. CASE k \in K
    <3>1. SizeOf(s, k) = s.sizes[k] /\ s.sizes[k] \in Nat
      BY <1>1, <2>2 DEF SizeOf
    <3>2. f \in [L -> Nat] /\ SumFunctionOnSet(f, L) = s.bytes - s.sizes[k]
      BY <1>1, <1>12, <2>2
    <3> QED
      BY <2>1, <3>1, <3>2
  <2>3. CASE k \notin K
    <3>1. SizeOf(s, k) = 0
      BY <1>1, <2>3 DEF SizeOf
    <3>2. f \in [L -> Nat] /\ SumFunctionOnSet(f, L) = s.bytes
      BY <1>1, <1>4, <2>3
    <3> QED
      BY <2>1, <3>1, <3>2
  <2> QED
    BY <2>2, <2>3
<1>7. Booked(r, S)
  BY <1>2, <1>5, <1>6, <1>11 DEF Booked, StoreOf
<1>8. Fits(s) => Fits(r)
  <2>1. Len(r.items) <= Len(s.items) /\ Len(r.items) \in Nat /\ r.bytes <= s.bytes /\ r.bytes \in Int
    <3>1. Len(r.items) \in Nat
      BY <1>2, <1>6, LenProperties
    <3> QED
      BY <1>1, <1>2, <1>6, <1>11, <3>1
  <2>2. MaxEntries \in Nat /\ MaxBytes \in Nat
    BY StoreConfig
  <2> QED
    BY <1>1, <1>11, <2>1, <2>2 DEF Fits
<1>9. KeysIn(r.items) = K \ {k}
  BY <1>2, <1>6
<1>10. Len(r.items) <= Len(s.items)
  BY <1>1, <1>2, <1>6
<1> QED
  BY <1>7, <1>8, <1>9, <1>10 DEF r, K

LEMMA TouchBooked ==
  ASSUME NEW S, NEW s, Booked(s, S), Fits(s), NEW k
  PROVE  Booked(Touch(s, k), S) /\ Fits(Touch(s, k))
<1>1. CASE ~Fresh(s, k)
  BY <1>1, RemoveBooked DEF Touch
<1>2. CASE Fresh(s, k)
  <2>1. s.items \in Seq(S) /\ Distinct(s.items) /\ k \in KeysOf(s) /\ Len(s.items) \in Nat
        /\ KeysOf(s) = KeysIn(s.items)
        /\ s = [items |-> s.items, sizes |-> s.sizes, bytes |-> s.bytes]
        /\ s.sizes \in [KeysIn(s.items) -> Nat]
        /\ s.bytes = SumFunctionOnSet(s.sizes, KeysIn(s.items))
    BY <1>2, KeysAre DEF Booked, StoreOf, Fresh
  <2> DEFINE w == Append(Without(s, k), Found(s, k))
  <2>2. Found(s, k) \in S /\ Found(s, k).key = k
    BY <2>1, PlaceOf
  <2>3. /\ Without(s, k) \in Seq(S) /\ Distinct(Without(s, k))
        /\ KeysIn(Without(s, k)) = KeysIn(s.items) \ {k}
        /\ Len(Without(s, k)) = Len(s.items) - 1
    BY <2>1, WithoutParts
  <2>4. /\ w \in Seq(S) /\ Distinct(w) /\ Len(w) = Len(Without(s, k)) + 1
        /\ KeysIn(w) = (KeysIn(s.items) \ {k}) \cup {k}
    BY <2>2, <2>3, AppendParts
  <2> HIDE DEF w
  <2>5. KeysIn(w) = KeysIn(s.items) /\ Len(w) = Len(s.items)
    BY <2>1, <2>3, <2>4
  <2>6. Touch(s, k) = [s EXCEPT !.items = w]
    BY <1>2 DEF Touch, w
  <2>7. Touch(s, k) = [items |-> w, sizes |-> s.sizes, bytes |-> s.bytes]
    BY <2>1, <2>6
  <2> DEFINE r == Touch(s, k)
  <2>8. r.items = w /\ r.sizes = s.sizes /\ r.bytes = s.bytes
        /\ r = [items |-> r.items, sizes |-> r.sizes, bytes |-> r.bytes]
    BY <2>7
  <2> HIDE DEF r
  <2>9. Booked(r, S) /\ Fits(r)
    BY <2>1, <2>4, <2>5, <2>8 DEF Booked, StoreOf, Fits
  <2> QED
    BY <2>9 DEF r
<1> QED
  BY <1>1, <1>2

LEMMA DropFirstBooked ==
  ASSUME NEW S, NEW s, Booked(s, S), NEW n \in 0 .. Len(s.items)
  PROVE  Booked(DropFirst(s, n), S)
<1> DEFINE K == KeysIn(s.items)
           G == {s.items[i].key : i \in 1 .. n}
           r == DropFirst(s, n)
<1>1. s.items \in Seq(S) /\ Distinct(s.items) /\ s.sizes \in [K -> Nat] /\ Len(s.items) \in Nat
      /\ s.bytes = SumFunctionOnSet(s.sizes, K) /\ IsFiniteSet(K)
  BY KeysAre, KeysCounted DEF Booked, StoreOf
<1>2. G \in SUBSET K
  <2>1. \A i \in 1 .. n : i \in 1 .. Len(s.items)
    BY <1>1
  <2> QED
    BY <2>1 DEF KeysIn
<1> DEFINE w == SubSeq(s.items, n + 1, Len(s.items))
<1>3. w \in Seq(S) /\ Distinct(w) /\ KeysIn(w) = K \ G
  BY <1>1, SuffixParts
<1> DEFINE h == [k \in G |-> SizeOf(s, k)]
<1>4. SumFunction(h) = SumFunctionOnSet(s.sizes, G)
  <2>1. IsFiniteSet(G)
    BY <1>1, <1>2, FS_Subset
  <2>2. DOMAIN h = G /\ \A k \in G : h[k] = s.sizes[k]
    BY <1>1, <1>2 DEF SizeOf
  <2> HIDE DEF G, h
  <2>3. SumFunctionOnSet(h, G) = SumFunctionOnSet(s.sizes, G)
    BY <2>1, <2>2, SumAgrees
  <2> QED
    BY <2>2, <2>3 DEF SumFunction
<1>5. r = [items |-> w, sizes |-> Restrict(s.sizes, DOMAIN s.sizes \ G),
           bytes |-> s.bytes - SumFunction(h)]
  BY DEF DropFirst
<1> DEFINE L == Rest(K, G)
           f == Less(s.sizes, G)
<1>6. KeysIn(w) = L
  BY <1>3 DEF Rest
<1>7. /\ r.items = w /\ r.sizes = f /\ r.bytes = s.bytes - SumFunctionOnSet(s.sizes, G)
      /\ r = [items |-> r.items, sizes |-> r.sizes, bytes |-> r.bytes]
  <2>1. r = [items |-> w, sizes |-> f, bytes |-> s.bytes - SumFunctionOnSet(s.sizes, G)]
    BY <1>4, <1>5 DEF Less
  <2> HIDE DEF r, w, f, G
  <2> QED
    BY <2>1
<1> HIDE DEF w, h, r, G, K
<1>9. f \in [L -> Nat] /\ SumFunctionOnSet(f, L) = s.bytes - SumFunctionOnSet(s.sizes, G)
  BY <1>1, <1>2, Subtracted
<1> HIDE DEF L, f
<1>8. Booked(r, S)
  BY <1>3, <1>6, <1>7, <1>9 DEF Booked, StoreOf
<1> QED
  BY <1>8 DEF r

(* Eviction ends within the limits.                                        *)
LEMMA EvictedBooked ==
  ASSUME NEW S, NEW s, Booked(s, S)
  PROVE  Booked(Evicted(s), S) /\ Fits(Evicted(s))
<1> DEFINE len == Len(s.items)
           N == {n \in 0 .. len : Fits(DropFirst(s, n))}
<1>1. len \in Nat /\ s.items \in Seq(S) /\ Distinct(s.items)
  BY KeysAre DEF Booked, StoreOf
<1>2. len \in N
  <2>1. len \in 0 .. len
    BY <1>1
  <2>2. Len(SubSeq(s.items, len + 1, len)) = 0
    BY <1>1, <2>1, SuffixParts
  <2>3. Len(DropFirst(s, len).items) = 0
    BY <2>2 DEF DropFirst
  <2> QED
    BY <2>1, <2>3, StoreConfig DEF Fits, StoreConfig
<1>3. Min(N) \in N
  <2>1. N \in SUBSET Nat /\ N # {}
    BY <1>1, <1>2
  <2> HIDE DEF N
  <2>2. \E m \in N : \A n \in N : m <= n
    BY <2>1, LeastNatural
  <2> QED
    BY <2>2 DEF Min
<1> QED
  BY <1>3, DropFirstBooked DEF Evicted

LEMMA PutBooked ==
  ASSUME NEW S, NEW s, Booked(s, S), NEW e \in S, NEW size \in Nat
  PROVE  Booked(Put(s, e, size), S) /\ Fits(Put(s, e, size))
<1> DEFINE o == Remove(s, e.key)
           K == KeysIn(o.items)
           k == e.key
           w == Append(o.items, e)
           f == [j \in DOMAIN o.sizes \cup {k} |-> IF j = k THEN size ELSE o.sizes[j]]
           r == [items |-> w, sizes |-> f, bytes |-> o.bytes + size]
<1>1. Booked(o, S) /\ k \notin K
  BY RemoveBooked
<1>2. Put(s, e, size) = Evicted(r)
  BY DEF Put
<1> HIDE DEF o
<1>3. /\ o.items \in Seq(S) /\ Distinct(o.items) /\ o.sizes \in [K -> Nat]
      /\ o.bytes = SumFunctionOnSet(o.sizes, K) /\ IsFiniteSet(K)
  BY <1>1, KeysCounted DEF Booked, StoreOf
<1>4. w \in Seq(S) /\ Distinct(w) /\ KeysIn(w) = K \cup {k}
  BY <1>1, <1>3, AppendParts
<1> HIDE DEF w, K, k
<1>5. f \in [K \cup {k} -> Nat] /\ f[k] = size /\ \A j \in K : f[j] = o.sizes[j]
  BY <1>1, <1>3
<1> HIDE DEF f
<1>6. SumFunctionOnSet(f, K \cup {k}) = o.bytes + size
  <2>1. IsFiniteSet(K \cup {k}) /\ (K \cup {k}) \ {k} = K
    BY <1>1, <1>3, FS_AddElement
  <2>2. SumFunctionOnSet(f, K \cup {k}) = f[k] + SumFunctionOnSet(f, (K \cup {k}) \ {k})
    <3>1. \A j \in K \cup {k} : f[j] \in Int
      BY <1>5
    <3>2. k \in K \cup {k}
      OBVIOUS
    <3> QED
      BY <2>1, <3>1, <3>2, SumStep
  <2>3. SumFunctionOnSet(f, K) = SumFunctionOnSet(o.sizes, K)
    BY <1>3, <1>5, SumAgrees
  <2>4. SumFunctionOnSet(o.sizes, K) \in Int
    BY <1>3, SumStep
  <2> QED
    <3>1. SumFunctionOnSet(f, (K \cup {k}) \ {k}) = SumFunctionOnSet(f, K)
      BY <2>1, Zenon
    <3> QED
      BY <1>3, <1>5, <2>2, <2>3, <2>4, <3>1
<1>7. Booked(r, S)
  <2>1. r.items = w /\ r.sizes = f /\ r.bytes = o.bytes + size
        /\ r = [items |-> r.items, sizes |-> r.sizes, bytes |-> r.bytes]
    OBVIOUS
  <2> HIDE DEF r
  <2> QED
    BY <1>4, <1>5, <1>6, <2>1 DEF Booked, StoreOf
<1> QED
  BY <1>2, <1>7, EvictedBooked

LEMMA OlderBooked ==
  ASSUME NEW S, NEW s, Booked(s, S), Fits(s),
         \A e \in S : Aged(e) \in S /\ Aged(e).key = e.key
  PROVE  Booked(Older(s), S) /\ Fits(Older(s))
<1> DEFINE r == Older(s)
           w == [i \in DOMAIN s.items |-> Aged(s.items[i])]
<1>1. StoreOf(r, S)
  BY OlderIn DEF Booked
<1>2. s = [items |-> s.items, sizes |-> s.sizes, bytes |-> s.bytes] /\ s.items \in Seq(S)
      /\ DOMAIN s.items = 1 .. Len(s.items) /\ Len(s.items) \in Nat
  BY LenProperties DEF Booked, StoreOf
<1>3. r = [s EXCEPT !.items = w]
  BY DEF Older
<1>4. r.items = w /\ r.sizes = s.sizes /\ r.bytes = s.bytes
  BY <1>2, <1>3
<1>5. w \in Seq(S) /\ DOMAIN w = 1 .. Len(s.items)
  BY <1>1, <1>2, <1>4 DEF StoreOf
<1>6. \A i \in 1 .. Len(s.items) : w[i].key = s.items[i].key
  BY <1>2, ElementOfSeq
<1> HIDE DEF w, r
<1>7. Len(w) = Len(s.items)
  BY <1>2, <1>5, LenProperties
<1>8. KeysIn(w) = KeysIn(s.items) /\ Distinct(w)
  BY <1>6, <1>7 DEF KeysIn, Distinct, Booked
<1>9. Booked(r, S) /\ Fits(r)
  BY <1>1, <1>4, <1>7, <1>8 DEF Booked, Fits
<1> QED
  BY <1>9 DEF r

LEMMA EmptyBooked ==
  ASSUME NEW S
  PROVE  Booked(EmptyStore, S) /\ Fits(EmptyStore)
<1>1. EmptyStore.items = <<>> /\ EmptyStore.sizes = <<>> /\ EmptyStore.bytes = 0
  BY DEF EmptyStore
<1>2. Len(<<>>) = 0 /\ DOMAIN <<>> = {} /\ 1 .. 0 = {}
  OBVIOUS
<1>3. KeysIn(<<>>) = {} /\ Distinct(<<>>)
  BY <1>2 DEF KeysIn, Distinct
<1>4. <<>> \in [{} -> Nat]
  OBVIOUS
<1>5. SumFunctionOnSet(<<>>, {}) = 0
  BY SumOfNone
<1>6. Booked(EmptyStore, S)
  BY <1>1, <1>3, <1>4, <1>5, EmptyIn DEF Booked
<1> QED
  BY <1>1, <1>2, <1>6, StoreConfig DEF Fits, StoreConfig

LEMMA BookedAccounts ==
  ASSUME NEW S, NEW s, Booked(s, S), Fits(s)
  PROVE  Accounts(s)
<1>1. /\ s.items \in Seq(S) /\ Distinct(s.items) /\ DOMAIN s.sizes = KeysIn(s.items)
      /\ s.bytes = SumFunctionOnSet(s.sizes, KeysIn(s.items))
  BY DEF Booked, StoreOf
<1>2. KeysOf(s) = KeysIn(s.items) /\ Cardinality(KeysIn(s.items)) = Len(s.items)
  BY <1>1, KeysAre, KeysCounted
<1> QED
  BY <1>1, <1>2 DEF Accounts, SumFunction

-----------------------------------------------------------------------------

LEMMA MaxPair == ASSUME NEW a \in Int, NEW b \in Int
                 PROVE  Max({a, b}) \in {a, b} /\ Max({a, b}) >= a /\ Max({a, b}) >= b
<1>1. \E x \in {a, b} : \A y \in {a, b} : x >= y
  OBVIOUS
<1> QED
  BY <1>1 DEF Max

LEMMA MinPair == ASSUME NEW a \in Int, NEW b \in Int PROVE Min({a, b}) \in {a, b}
<1>1. \E x \in {a, b} : \A y \in {a, b} : x <= y
  OBVIOUS
<1> QED
  BY <1>1 DEF Min

LEMMA Config ==
    /\ Ttl \in Nat /\ Ttl > 0 /\ Flight \in Nat /\ Flight > 0
    /\ Rails \in Nat /\ Rails > 0 /\ RailLag \in Nat /\ RailLag > 0
    /\ MaxVersion \in Nat
    /\ OneLife \in Nat /\ OneLife = Flight + Ttl
    /\ Behind \in Nat /\ Behind >= OneLife /\ Behind >= RailLag
    /\ Longest \in Nat /\ Longest >= Flight /\ Longest >= Rails
    /\ ExactLife \in Nat /\ ExactLife = Flight + Ttl + Behind - 1
    /\ SlotLife \in Nat /\ SlotLife = RailLag + Flight + Rails + Ttl - 1
    /\ Settled \in Nat
<1>1. /\ Ttl \in Nat /\ Ttl > 0 /\ Flight \in Nat /\ Flight > 0
      /\ Rails \in Nat /\ Rails > 0 /\ RailLag \in Nat /\ RailLag > 0
      /\ MaxVersion \in Nat
  BY CachesConfig DEF CachesConfig
<1>2. OneLife \in Nat /\ OneLife = Flight + Ttl
  BY <1>1 DEF OneLife, StructuredBound
<1>3. Behind \in {OneLife, RailLag} /\ Behind >= OneLife /\ Behind >= RailLag
  BY <1>1, <1>2, MaxPair DEF Behind, OneLife
<1>4. Longest \in {Flight, Rails} /\ Longest >= Flight /\ Longest >= Rails
  BY <1>1, MaxPair DEF Longest
<1>5. ExactBound = Flight + Ttl + Behind /\ SlotBound = RailLag + Flight + Rails + Ttl
  BY DEF ExactBound, SlotBound, Behind
<1>6. ExactBound \in Nat /\ SlotBound \in Nat
  BY <1>1, <1>2, <1>3, <1>5
<1>7. Settled \in {ExactBound, SlotBound}
  BY <1>6, MaxPair DEF Settled
<1> QED
  BY <1>1, <1>2, <1>3, <1>4, <1>5, <1>6, <1>7 DEF ExactLife, SlotLife

LEMMA LimitsStand ==
    /\ OneLife' = OneLife /\ ExactLife' = ExactLife /\ SlotLife' = SlotLife
    /\ Behind' = Behind /\ Longest' = Longest /\ EntrySet' = EntrySet
  BY DEF OneLife, ExactLife, SlotLife, Behind, Longest, EntrySet, StructuredBound,
         ExactBound, SlotBound

LEMMA Numbers ==
  ASSUME Typed
  PROVE  /\ version \in Nat /\ quiet \in Nat /\ slot.left \in Nat /\ slot.left <= Ttl
         /\ \A r \in Requests : seen[r] \in Nat /\ age[r] \in Nat
<1>1. /\ version \in Versions /\ quiet \in 0 .. Settled /\ slot.left \in 0 .. Ttl
      /\ \A r \in Requests : seen[r] \in Versions /\ age[r] \in 0 .. Longest
  BY DEF Typed
<1> QED
  BY <1>1, Config DEF Versions

LEMMA InitCachesInv == Init => CachesInv
<1> SUFFICES ASSUME Init PROVE CachesInv
  OBVIOUS
<1>1. 0 \in Versions /\ 0 \in 0 .. Ttl /\ 0 \in 0 .. Longest /\ Settled \in 0 .. Settled
  BY Config DEF Versions
<1>2. Typed
  BY <1>1 DEF Init, Typed, Places
<1>3. StoreOf(exact, Bounded(ExactLife)) /\ StoreOf(structured, Bounded(OneLife))
  BY EmptyIn DEF Init
<1>4. \A r \in Requests : InTime(r) /\ ReadBounded(r)
  BY DEF Init, InTime, ReadBounded, Searching
<1>5. ~(slot.left > 0)
  BY DEF Init
<1> QED
  BY <1>2, <1>3, <1>4, <1>5 DEF CachesInv

(* A step of a search leaves the other searches and the registry alone.    *)
LEMMA SearchStep ==
  ASSUME CachesInv, NEW r \in Requests, UNCHANGED registryVars,
         StoreOf(exact', Bounded(ExactLife)), StoreOf(structured', Bounded(OneLife)),
         slot' \in [seen : Versions, left : 0 .. Ttl],
         slot'.left > 0 /\ slot'.seen < version => quiet + slot'.left <= SlotLife,
         NEW place \in Places, Goto(r, place),
         NEW v \in Versions, Read(r, v),
         \/ Restart(r)
         \/ age' = age /\ at[r] \in Searching \cup {"idle"} /\ place \in Searching,
         query' \in [Requests -> Queries],
         v < version =>
            /\ place = "fetching" => quiet <= age'[r]
            /\ place = "fusing" => quiet < age'[r] + OneLife
            /\ place = "merging" => quiet < age'[r] + Behind
            /\ place = "railing" => quiet < age'[r] + RailLag + Flight
  PROVE  CachesInv'
<1>1. version' = version /\ quiet' = quiet
  BY DEF registryVars
<1>2. at' = [at EXCEPT ![r] = place] /\ seen' = [seen EXCEPT ![r] = v]
  BY DEF Goto, Read
<1>3. /\ age' \in [Requests -> 0 .. Longest]
      /\ \A q \in Requests : q # r => age'[q] = age[q]
      /\ \/ age'[r] = 0
         \/ age'[r] = age[r] /\ at[r] \in Searching \cup {"idle"} /\ place \in Searching
  <2>1. 0 \in 0 .. Longest
    BY Config
  <2>2. age \in [Requests -> 0 .. Longest]
    BY DEF CachesInv, Typed
  <2>3. CASE Restart(r)
    <3>1. age' = [age EXCEPT ![r] = 0]
      BY <2>3 DEF Restart
    <3>2. age' \in [Requests -> 0 .. Longest]
      BY <2>1, <2>2, <3>1
    <3>3. age'[r] = 0 /\ \A q \in Requests : q # r => age'[q] = age[q]
      BY <2>2, <3>1
    <3> QED
      BY <3>2, <3>3
  <2>4. CASE age' = age /\ at[r] \in Searching \cup {"idle"} /\ place \in Searching
    BY <2>2, <2>4
  <2> QED
    BY <2>3, <2>4
<1>4. Typed'
  BY <1>1, <1>2, <1>3, LimitsStand DEF CachesInv, Typed
<1>5. \A q \in Requests :
         /\ at'[q] = IF q = r THEN place ELSE at[q]
         /\ seen'[q] = IF q = r THEN v ELSE seen[q]
         /\ q # r => age'[q] = age[q]
  BY <1>2, <1>3 DEF CachesInv, Typed
<1>6. \A q \in Requests : ReadBounded(q)'
  BY <1>1, <1>5, LimitsStand DEF CachesInv, ReadBounded
<1>7. \A q \in Requests : InTime(q)'
  <2>1. InTime(r)'
    <3>1. CASE age'[r] = 0
      BY <1>5, <3>1, Config DEF InTime
    <3>2. CASE age'[r] = age[r] /\ at[r] \in Searching \cup {"idle"} /\ place \in Searching
      <4>1. age[r] <= Flight
        BY <3>2, Config DEF CachesInv, InTime
      <4> QED
        BY <1>5, <3>2, <4>1 DEF InTime, Searching
    <3> QED
      BY <1>3, <3>1, <3>2
  <2> QED
    BY <1>5, <2>1 DEF CachesInv, InTime
<1>8. StoreOf(exact, Bounded(ExactLife))' /\ StoreOf(structured, Bounded(OneLife))'
  BY <1>1, LimitsStand DEF Bounded, StoreOf
<1>9. (slot.left > 0 /\ slot.seen < version => quiet + slot.left <= SlotLife)'
  BY <1>1, LimitsStand
<1> QED
  BY <1>4, <1>6, <1>7, <1>8, <1>9 DEF CachesInv

(* What lags and was found fresh has been left behind for less than a      *)
(* flight and a life.                                                      *)
LEMMA FoundIn ==
  ASSUME CachesInv, NEW bound \in Nat, NEW s, StoreOf(s, Bounded(bound)),
         NEW q, Fresh(s, q)
  PROVE  /\ Found(s, q).seen \in Versions
         /\ Found(s, q).seen < version => quiet < bound
<1>1. Found(s, q) \in Bounded(bound) /\ Found(s, q).left > 0
  BY PlaceOf DEF Fresh, StoreOf
<1>2. Found(s, q).seen \in Versions /\ Found(s, q).left \in 0 .. Ttl
      /\ (Found(s, q).seen < version => quiet + Found(s, q).left <= bound)
  BY <1>1 DEF Bounded, EntrySet
<1> QED
  BY <1>1, <1>2, Numbers, Config DEF CachesInv

LEMMA NewEntryIn ==
  ASSUME CachesInv, NEW bound \in Nat, NEW q \in Queries, NEW v \in Versions,
         v < version => quiet + Ttl <= bound
  PROVE  Entry(q, v) \in Bounded(bound)
<1>1. Ttl \in 0 .. Ttl /\ version \in Versions
  BY Config DEF CachesInv, Typed
<1> QED
  BY <1>1 DEF Bounded, EntrySet, Entry

-----------------------------------------------------------------------------

LEMMA Unchanged ==
  ASSUME CachesInv
  PROVE  /\ exact' = exact => StoreOf(exact', Bounded(ExactLife))
         /\ structured' = structured => StoreOf(structured', Bounded(OneLife))
         /\ slot' = slot =>
               /\ slot' \in [seen : Versions, left : 0 .. Ttl]
               /\ slot'.left > 0 /\ slot'.seen < version => quiet + slot'.left <= SlotLife
         /\ query' = query => query' \in [Requests -> Queries]
         /\ version \in Versions /\ 0 \in Versions /\ ~(version < version)
         /\ \A r \in Requests : query[r] \in Queries /\ seen[r] \in Versions
         /\ \A r \in Requests : seen' = seen => Read(r, seen[r])
<1>1. 0 \in Versions /\ ~(version < version)
  BY Config, Numbers DEF Versions, CachesInv
<1> QED
  BY <1>1 DEF CachesInv, Typed, Read

LEMMA BeginPreserves ==
  ASSUME CachesInv, NEW r \in Requests, Begin(r)
  PROVE  CachesInv'
<1>1. /\ at[r] = "idle" /\ Goto(r, "preparing") /\ exact' = exact /\ structured' = structured
      /\ slot' = slot /\ seen' = seen /\ age' = age /\ UNCHANGED registryVars
  BY DEF Begin, cacheVars
<1>2. query' \in [Requests -> Queries]
  BY DEF Begin, CachesInv, Typed
<1>3. "preparing" \in Places /\ "preparing" \in Searching
  BY DEF Places, Searching
<1> QED
  BY <1>1, <1>2, <1>3, Unchanged, SearchStep

LEMMA LookUpPreserves ==
  ASSUME CachesInv, NEW r \in Requests, LookUp(r)
  PROVE  CachesInv'
<1>1. /\ at[r] = "preparing" /\ exact' = Touch(exact, query[r]) /\ structured' = structured
      /\ slot' = slot /\ query' = query /\ UNCHANGED registryVars
  BY DEF LookUp
<1>2. StoreOf(exact', Bounded(ExactLife))
  BY <1>1, TouchIn DEF CachesInv
<1>3. {"replying", "planning"} \subseteq Places /\ {"preparing", "planning"} \subseteq Searching
  BY DEF Places, Searching
<1>4. CASE Fresh(exact, query[r])
  <2>1. Goto(r, "replying") /\ Read(r, Found(exact, query[r]).seen) /\ Restart(r)
    BY <1>4 DEF LookUp
  <2>2. Found(exact, query[r]).seen \in Versions
    BY <1>4, FoundIn, Config DEF CachesInv
  <2> QED
    BY <1>1, <1>2, <1>3, <2>1, <2>2, Unchanged, SearchStep
<1>5. CASE ~Fresh(exact, query[r])
  <2>1. Goto(r, "planning") /\ seen' = seen /\ age' = age
    BY <1>5 DEF LookUp
  <2> QED
    BY <1>1, <1>2, <1>3, <2>1, Unchanged, SearchStep
<1> QED
  BY <1>4, <1>5

LEMMA GatherPreserves ==
  ASSUME CachesInv, NEW r \in Requests, Gather(r)
  PROVE  CachesInv'
<1> DEFINE q == query[r]
           hit == Fresh(structured, q) /\ Found(structured, q).tag >= version
<1>1. /\ at[r] = "planning" /\ exact' = exact /\ slot' = slot /\ age' = age
      /\ query' = query /\ UNCHANGED registryVars
  BY DEF Gather
<1>2. /\ {"fusing", "fetching"} \subseteq Places
      /\ {"planning", "fusing", "fetching"} \subseteq Searching
  BY DEF Places, Searching
<1>3. CASE /\ hit /\ structured' = Touch(structured, q) /\ Goto(r, "fusing")
           /\ Read(r, Found(structured, q).seen)
  <2>1. StoreOf(structured', Bounded(OneLife))
    BY <1>3, TouchIn DEF CachesInv
  <2>2. Found(structured, q).seen \in Versions
        /\ (Found(structured, q).seen < version => quiet < OneLife)
    BY <1>3, FoundIn, Config DEF CachesInv
  <2>3. quiet < OneLife => quiet < age'[r] + OneLife
    BY <1>1, Config, Numbers DEF CachesInv
  <2> QED
    BY <1>1, <1>2, <1>3, <2>1, <2>2, <2>3, Unchanged, SearchStep
<1>4. CASE structured' = Remove(structured, q) /\ Goto(r, "fetching") /\ Read(r, version)
  <2>1. StoreOf(structured', Bounded(OneLife))
    BY <1>4, RemoveIn DEF CachesInv
  <2> QED
    BY <1>1, <1>2, <1>4, <2>1, Unchanged, SearchStep
<1>5. CASE structured' = structured /\ Goto(r, "fusing") /\ Read(r, version)
  BY <1>1, <1>2, <1>5, Unchanged, SearchStep
<1> QED
  BY <1>3, <1>4, <1>5 DEF Gather

LEMMA RetrievedPreserves ==
  ASSUME CachesInv, NEW r \in Requests, Retrieved(r)
  PROVE  CachesInv'
<1>1. /\ at[r] = "fetching" /\ Goto(r, "fusing") /\ "fusing" \in Places
      /\ {"fetching", "fusing"} \subseteq Searching
      /\ exact' = exact /\ slot' = slot /\ age' = age /\ query' = query
      /\ UNCHANGED registryVars
  BY DEF Retrieved, Places, Searching
<1>2. PICK v \in seen[r] .. version :
         /\ Read(r, v)
         /\ structured' \in {structured, Put(structured, Entry(query[r], v), Bytes[query[r]])}
  BY DEF Retrieved
<1>3. version \in Nat /\ quiet \in Nat /\ seen[r] \in Nat /\ age[r] \in Nat
      /\ age[r] <= Flight /\ version <= MaxVersion
  BY <1>1, Numbers, Config DEF CachesInv, InTime, Typed, Versions
<1>4. v \in Versions /\ seen[r] <= v
  BY <1>2, <1>3, Config DEF Versions
<1>5. v < version => quiet <= age[r]
  BY <1>1, <1>3, <1>4, Config DEF CachesInv, ReadBounded
<1>6. v < version => quiet < age'[r] + OneLife
  BY <1>1, <1>3, <1>5, Config
<1>7. v < version => quiet + Ttl <= OneLife
  BY <1>3, <1>5, Config
<1>8. Entry(query[r], v) \in Bounded(OneLife)
  BY <1>4, <1>7, Unchanged, NewEntryIn, Config
<1>9. StoreOf(structured', Bounded(OneLife))
  BY <1>2, <1>8, PutIn DEF CachesInv
<1> QED
  BY <1>1, <1>2, <1>4, <1>6, <1>9, Unchanged, SearchStep

LEMMA ComplementPreserves ==
  ASSUME CachesInv, NEW r \in Requests, Complement(r)
  PROVE  CachesInv'
<1>1. /\ at[r] = "fusing" /\ Goto(r, "merging") /\ "merging" \in Places
      /\ {"fusing", "merging"} \subseteq Searching
      /\ exact' = exact /\ structured' = structured /\ slot' = slot /\ age' = age
      /\ query' = query /\ UNCHANGED registryVars
  BY DEF Complement, cacheVars, Places, Searching
<1>2. PICK v \in RailsOf(0) : Read(r, Min({seen[r], v}))
  BY DEF Complement
<1>3. /\ version \in Nat /\ quiet \in Nat /\ seen[r] \in Nat /\ age[r] \in Nat
      /\ version <= MaxVersion /\ seen[r] \in Versions
  BY Numbers, Config DEF CachesInv, Typed, Versions
<1>4. v \in Versions /\ v \in Int /\ (v < version => quiet < RailLag)
  BY <1>3, Config DEF RailsOf, Versions
<1>5. Min({seen[r], v}) \in {seen[r], v}
  BY <1>3, <1>4, MinPair
<1>6. seen[r] < version => quiet < age[r] + OneLife
  BY <1>1 DEF CachesInv, ReadBounded
<1> DEFINE w == Min({seen[r], v})
<1>7. w \in Versions
  BY <1>3, <1>4, <1>5
<1>8. ASSUME w < version PROVE quiet < age'[r] + Behind
  <2>1. quiet < age[r] + OneLife \/ quiet < RailLag
    BY <1>4, <1>5, <1>6, <1>8
  <2> QED
    BY <1>1, <1>3, <2>1, Config
<1> HIDE DEF w
<1> QED
  BY <1>1, <1>2, <1>7, <1>8, Unchanged, SearchStep DEF w

LEMMA FusePreserves ==
  ASSUME CachesInv, NEW r \in Requests, Fuse(r)
  PROVE  CachesInv'
<1>1. /\ at[r] \in {"fusing", "merging"} /\ Goto(r, "replying") /\ "replying" \in Places
      /\ exact' \in {exact, Put(exact, Entry(query[r], seen[r]), Bytes[query[r]])}
      /\ structured' = structured /\ slot' = slot /\ query' = query
      /\ seen' = seen /\ Restart(r) /\ UNCHANGED registryVars
  BY DEF Fuse, Places
<1>2. quiet \in Nat /\ age[r] \in Nat /\ age[r] <= Flight
  BY <1>1, Numbers DEF CachesInv, InTime, Searching
<1>3. ASSUME seen[r] < version PROVE quiet + Ttl <= ExactLife
  <2>1. quiet < age[r] + OneLife \/ quiet < age[r] + Behind
    BY <1>1, <1>3 DEF CachesInv, ReadBounded
  <2> QED
    BY <1>2, <2>1, Config
<1>4. Entry(query[r], seen[r]) \in Bounded(ExactLife)
  BY <1>3, Unchanged, NewEntryIn, Config
<1>5. StoreOf(exact', Bounded(ExactLife))
  BY <1>1, <1>4, PutIn DEF CachesInv
<1> QED
  BY <1>1, <1>5, Unchanged, SearchStep

(* A search that is over starts from nothing.                              *)
LEMMA LeavePreserves ==
  ASSUME CachesInv, NEW r \in Requests, Leave(r),
         UNCHANGED <<registryVars, cacheVars, query>>
  PROVE  CachesInv'
<1>1. /\ exact' = exact /\ structured' = structured /\ slot' = slot /\ query' = query
      /\ UNCHANGED registryVars
  BY DEF cacheVars
<1>2. "idle" \in Places
  BY DEF Places
<1> QED
  BY <1>1, <1>2, Unchanged, SearchStep DEF Leave

(* What a fallback starts with has been read within the search it follows. *)
LEMMA StartRailsPreserves ==
  ASSUME CachesInv, NEW r \in Requests, StartRails(r),
         UNCHANGED <<registryVars, cacheVars, query>>
  PROVE  CachesInv'
<1>1. /\ exact' = exact /\ structured' = structured /\ slot' = slot /\ query' = query
      /\ UNCHANGED registryVars /\ Goto(r, "railing") /\ Restart(r)
  BY DEF cacheVars, StartRails
<1>2. "railing" \in Places
  BY DEF Places
<1> DEFINE since == IF at[r] \in Searching THEN age[r] ELSE 0
<1>3. PICK v \in RailsOf(since) : Read(r, v)
  BY DEF StartRails
<1>4. since \in Nat /\ since <= Flight
  BY Numbers, Config DEF CachesInv, InTime
<1> HIDE DEF since
<1>5. /\ version \in Nat /\ quiet \in Nat /\ version <= MaxVersion
  BY Numbers, Config DEF CachesInv, Typed, Versions
<1>6. v \in Versions /\ (v < version => quiet < RailLag + since)
  BY <1>5, Config DEF RailsOf, Versions
<1>7. age'[r] = 0
  BY <1>1 DEF Restart, CachesInv, Typed
<1>8. v < version => quiet < age'[r] + RailLag + Flight
  BY <1>4, <1>5, <1>6, <1>7, Config
<1> QED
  BY <1>1, <1>2, <1>3, <1>6, <1>8, Unchanged, SearchStep

LEMMA RailsEndPreserves ==
  ASSUME CachesInv, NEW r \in Requests, RailsEnd(r)
  PROVE  CachesInv'
<1>1. /\ at[r] = "railing" /\ Goto(r, "idle") /\ Read(r, 0) /\ Restart(r)
      /\ exact' = exact /\ structured' = structured /\ query' = query
      /\ UNCHANGED registryVars /\ "idle" \in Places
  BY DEF RailsEnd, Leave, Places
<1>2. CASE slot' = slot
  BY <1>1, <1>2, Unchanged, SearchStep
<1>3. CASE \E v \in seen[r] .. version : slot' = [seen |-> v, left |-> Ttl]
  <2>1. PICK v \in seen[r] .. version : slot' = [seen |-> v, left |-> Ttl]
    BY <1>3
  <2>2. version \in Nat /\ quiet \in Nat /\ seen[r] \in Nat /\ age[r] \in Nat
        /\ age[r] <= Rails /\ version <= MaxVersion
    BY <1>1, Numbers, Config DEF CachesInv, InTime, Typed, Versions
  <2>3. v \in Versions /\ seen[r] <= v /\ Ttl \in 0 .. Ttl
    BY <2>2, Config DEF Versions
  <2>4. ASSUME v < version PROVE quiet + Ttl <= SlotLife
    <3>1. quiet < age[r] + RailLag + Flight
      BY <1>1, <2>2, <2>3, <2>4 DEF CachesInv, ReadBounded
    <3> QED
      BY <2>2, <3>1, Config
  <2>5. slot' \in [seen : Versions, left : 0 .. Ttl] /\ slot'.seen = v /\ slot'.left = Ttl
    BY <2>1, <2>3
  <2> QED
    BY <1>1, <2>4, <2>5, Unchanged, SearchStep
<1> QED
  BY <1>2, <1>3 DEF RailsEnd

LEMMA BumpPreserves ==
  ASSUME CachesInv, Bump
  PROVE  CachesInv'
<1>1. /\ version < MaxVersion /\ version' = version + 1 /\ quiet' = 0
      /\ exact' = EmptyStore /\ structured' = EmptyStore /\ slot' = slot
      /\ at' = at /\ query' = query /\ seen' = seen /\ age' = age
  BY DEF Bump, searchVars
<1>2. version' \in Versions /\ 0 \in 0 .. Settled
  BY <1>1, Numbers, Config DEF CachesInv, Versions
<1>3. Typed'
  BY <1>1, <1>2, LimitsStand DEF CachesInv, Typed
<1>4. \A S : StoreOf(exact', S) /\ StoreOf(structured', S)
  BY <1>1, EmptyIn
<1>5. StoreOf(exact, Bounded(ExactLife))' /\ StoreOf(structured, Bounded(OneLife))'
  BY <1>4 DEF StoreOf
<1>6. 0 + slot.left <= SlotLife
  BY Numbers, Config DEF CachesInv
<1>7. \A r \in Requests : InTime(r)' /\ ReadBounded(r)'
  <2> SUFFICES ASSUME NEW r \in Requests PROVE InTime(r)' /\ ReadBounded(r)'
    OBVIOUS
  <2>1. /\ 0 <= age[r] /\ 0 < age[r] + OneLife /\ 0 < age[r] + Behind
        /\ 0 < age[r] + RailLag + Flight
    BY Numbers, Config DEF CachesInv
  <2>2. InTime(r)'
    BY <1>1 DEF CachesInv, InTime
  <2> QED
    BY <1>1, <2>1, <2>2, LimitsStand DEF ReadBounded
<1>8. (slot.left > 0 /\ slot.seen < version => quiet + slot.left <= SlotLife)'
  BY <1>1, <1>6, LimitsStand
<1> QED
  BY <1>3, <1>5, <1>7, <1>8 DEF CachesInv

(* Time makes the time since the bump longer and the time left shorter.    *)
LEMMA AgedIn ==
  ASSUME CachesInv, NEW bound \in Nat, NEW e \in Bounded(bound),
         version' = version, quiet' \in {quiet, quiet + 1}
  PROVE  Aged(e) \in Bounded(bound)'
<1>1. /\ e \in EntrySet /\ e.tag = version
      /\ e.left > 0 /\ e.seen < version => quiet + e.left <= bound
  BY DEF Bounded
<1>2. e.left \in 0 .. Ttl /\ quiet \in Nat /\ version \in Nat /\ e.seen \in Versions
  BY <1>1, Numbers DEF EntrySet, CachesInv
<1> DEFINE left == IF e.left > 0 THEN e.left - 1 ELSE 0
<1>3. left \in 0 .. Ttl /\ (left > 0 => e.left > 0 /\ quiet' + left <= quiet + e.left)
  BY <1>2, Config
<1>4. Aged(e) = [e EXCEPT !.left = left]
  BY DEF Aged
<1> HIDE DEF left
<1>5. /\ Aged(e) \in EntrySet /\ Aged(e).left = left
      /\ Aged(e).seen = e.seen /\ Aged(e).tag = version
  BY <1>1, <1>3, <1>4 DEF EntrySet
<1>6. ASSUME left > 0, e.seen < version PROVE quiet' + left <= bound
  <2>1. quiet + e.left <= bound /\ quiet' + left <= quiet + e.left
    BY <1>1, <1>3, <1>6
  <2>2. quiet' \in Nat /\ quiet \in Nat /\ e.left \in Nat /\ left \in Nat
    BY <1>2, <1>3, Config
  <2>3. quiet' + left \in Int /\ quiet + e.left \in Int
    BY <2>2
  <2>4. \A x, y, z \in Int : x <= y /\ y <= z => x <= z
    OBVIOUS
  <2> QED
    BY <2>1, <2>3, <2>4
<1> QED
  BY <1>5, <1>6 DEF Bounded, EntrySet

LEMMA TickPreserves ==
  ASSUME CachesInv, Tick
  PROVE  CachesInv'
<1>1. /\ \A r \in Requests :
            /\ at[r] \in Searching => age[r] < Flight
            /\ at[r] = "railing" => age[r] < Rails
      /\ exact' = Older(exact) /\ structured' = Older(structured)
      /\ slot' = [slot EXCEPT !.left = IF @ > 0 THEN @ - 1 ELSE 0]
      /\ age' = [r \in Requests |-> IF Timed(r) THEN age[r] + 1 ELSE age[r]]
      /\ version' = version /\ at' = at /\ query' = query /\ seen' = seen
  BY DEF Tick
<1>2. quiet' \in 0 .. Settled /\ quiet' \in {quiet, quiet + 1} /\ quiet \in Nat
  <2>1. quiet' = IF quiet < Settled THEN quiet + 1 ELSE quiet
    BY DEF Tick
  <2>2. quiet \in 0 .. Settled
    BY DEF CachesInv, Typed
  <2> QED
    BY <2>1, <2>2, Config
<1>3. age' \in [Requests -> 0 .. Longest] /\ \A r \in Requests : InTime(r)'
  <2>1. ASSUME NEW r \in Requests
        PROVE  age'[r] \in 0 .. Longest /\ InTime(r)'
    <3>1. age[r] \in 0 .. Longest /\ age[r] \in Nat
      BY Numbers DEF CachesInv, Typed
    <3>2. CASE Timed(r)
      <4>1. age'[r] = age[r] + 1 /\ at'[r] = at[r]
        BY <1>1, <3>2
      <4>2. at[r] \in Searching => age[r] + 1 <= Flight
        BY <1>1, <3>1, Config
      <4>3. at[r] = "railing" => age[r] + 1 <= Rails
        BY <1>1, <3>1, Config
      <4>4. age[r] + 1 \in 0 .. Longest
        BY <3>1, <3>2, <4>2, <4>3, Config DEF Timed
      <4> QED
        BY <3>2, <4>1, <4>2, <4>3, <4>4 DEF InTime, Timed, Searching
    <3>3. CASE ~Timed(r)
      BY <1>1, <3>1, <3>3 DEF CachesInv, InTime
    <3> QED
      BY <3>2, <3>3
  <2> QED
    BY <1>1, <2>1
<1>4. /\ slot' \in [seen : Versions, left : 0 .. Ttl] /\ slot'.seen = slot.seen
      /\ slot'.left = IF slot.left > 0 THEN slot.left - 1 ELSE 0
  <2>1. slot \in [seen : Versions, left : 0 .. Ttl] /\ slot.left \in 0 .. Ttl
    BY DEF CachesInv, Typed
  <2>2. (IF slot.left > 0 THEN slot.left - 1 ELSE 0) \in 0 .. Ttl
    BY <2>1, Config
  <2> QED
    BY <1>1, <2>1, <2>2
<1>5. Typed'
  BY <1>1, <1>2, <1>3, <1>4, LimitsStand DEF CachesInv, Typed
<1>6. StoreOf(exact, Bounded(ExactLife))'
  <2>1. \A e \in Bounded(ExactLife) : Aged(e) \in Bounded(ExactLife)'
    BY <1>1, <1>2, AgedIn, Config, LimitsStand
  <2> QED
    BY <1>1, <2>1, OlderIn DEF CachesInv, StoreOf
<1>7. StoreOf(structured, Bounded(OneLife))'
  <2>1. \A e \in Bounded(OneLife) : Aged(e) \in Bounded(OneLife)'
    BY <1>1, <1>2, AgedIn, Config, LimitsStand
  <2> QED
    BY <1>1, <2>1, OlderIn DEF CachesInv, StoreOf
<1>8. (slot.left > 0 /\ slot.seen < version => quiet + slot.left <= SlotLife)'
  <2>1. slot.left \in Nat
    BY Numbers DEF CachesInv
  <2>2. slot'.left > 0 => slot.left > 0 /\ quiet' + slot'.left <= quiet + slot.left
    BY <1>2, <1>4, <2>1
  <2>3. slot'.left \in Nat /\ SlotLife \in Nat
    BY <1>4, <2>1, Config
  <2> QED
    BY <1>1, <1>2, <1>4, <2>1, <2>2, <2>3, LimitsStand DEF CachesInv
<1>9. \A r \in Requests : ReadBounded(r)'
  <2> SUFFICES ASSUME NEW r \in Requests, seen[r] < version, Timed(r)
               PROVE  /\ at[r] = "fetching" => quiet' <= age'[r]
                      /\ at[r] = "fusing" => quiet' < age'[r] + OneLife
                      /\ at[r] = "merging" => quiet' < age'[r] + Behind
                      /\ at[r] = "railing" => quiet' < age'[r] + RailLag + Flight
    BY <1>1, LimitsStand DEF ReadBounded, Timed, Searching
  <2>1. age'[r] = age[r] + 1 /\ age[r] \in Nat
    BY <1>1, Numbers DEF CachesInv
  <2>2. /\ at[r] = "fetching" => quiet <= age[r]
        /\ at[r] = "fusing" => quiet < age[r] + OneLife
        /\ at[r] = "merging" => quiet < age[r] + Behind
        /\ at[r] = "railing" => quiet < age[r] + RailLag + Flight
    BY DEF CachesInv, ReadBounded
  <2>3. /\ quiet \in Nat /\ OneLife \in Nat /\ Behind \in Nat
        /\ RailLag \in Nat /\ Flight \in Nat
    BY <1>2, Config
  <2> QED
    BY <1>2, <2>1, <2>2, <2>3
<1> QED
  BY <1>3, <1>5, <1>6, <1>7, <1>8, <1>9 DEF CachesInv

LEMMA NextCachesInv ==
  ASSUME CachesInv, [Next]_vars
  PROVE  CachesInv'
<1>1. ASSUME NEW r \in Requests, Search(r) PROVE CachesInv'
  <2>1. CASE Begin(r)
    BY <2>1, BeginPreserves
  <2>2. CASE LookUp(r)
    BY <2>2, LookUpPreserves
  <2>3. CASE Gather(r)
    BY <2>3, GatherPreserves
  <2>4. CASE Retrieved(r)
    BY <2>4, RetrievedPreserves
  <2>5. CASE Fuse(r)
    BY <2>5, FusePreserves
  <2>6. CASE Reply(r) \/ FallBack(r) \/ Scope(r)
    BY <2>6, LeavePreserves, StartRailsPreserves DEF Reply, FallBack, Scope
  <2>7. CASE RailsEnd(r)
    BY <2>7, RailsEndPreserves
  <2>8. CASE Complement(r)
    BY <2>8, ComplementPreserves
  <2> QED
    BY <1>1, <2>1, <2>2, <2>3, <2>4, <2>5, <2>6, <2>7, <2>8 DEF Search
<1>2. CASE Bump
  BY <1>2, BumpPreserves
<1>3. CASE Tick
  BY <1>3, TickPreserves
<1>4. CASE UNCHANGED vars
  <2>1. /\ version' = version /\ quiet' = quiet /\ exact' = exact
        /\ structured' = structured /\ slot' = slot
        /\ at' = at /\ query' = query /\ seen' = seen /\ age' = age
    BY <1>4 DEF vars, registryVars, cacheVars, searchVars
  <2>2. Typed' /\ \A r \in Requests : InTime(r)' /\ ReadBounded(r)'
    BY <2>1, LimitsStand DEF CachesInv, Typed, InTime, ReadBounded
  <2>3. StoreOf(exact, Bounded(ExactLife))' /\ StoreOf(structured, Bounded(OneLife))'
    BY <2>1, LimitsStand DEF CachesInv, Bounded, StoreOf
  <2>4. (slot.left > 0 /\ slot.seen < version => quiet + slot.left <= SlotLife)'
    BY <2>1, LimitsStand DEF CachesInv
  <2> QED
    BY <2>2, <2>3, <2>4 DEF CachesInv
<1> QED
  BY <1>1, <1>2, <1>3, <1>4 DEF Next

LEMMA CachesAreConsistent == Spec => []CachesInv
<1>1. CachesInv /\ [Next]_vars => CachesInv'
  BY NextCachesInv
<1> QED
  BY InitCachesInv, <1>1, PTL DEF Spec

LEMMA CachesHold ==
  ASSUME CachesInv
  PROVE  /\ Entries(exact) \subseteq Bounded(ExactLife)
         /\ Entries(structured) \subseteq Bounded(OneLife)
  BY EntriesIn DEF CachesInv

-----------------------------------------------------------------------------

(* Every variable of the shared caches and of the searches keeps to its    *)
(* type, and so does every entry either cache holds.                       *)
THEOREM CachesTypeCorrect == Spec => []TypeOK
<1>1. CachesInv => TypeOK
  <2> SUFFICES ASSUME CachesInv PROVE TypeOK
    OBVIOUS
  <2>1. \A e \in Entries(exact) \cup Entries(structured) : e \in EntrySet
    BY CachesHold DEF Bounded
  <2>2. \A e \in Entries(exact) \cup Entries(structured) : EntryOK(e)
    BY <2>1 DEF EntrySet, EntryOK
  <2> QED
    BY <2>2 DEF CachesInv, Typed, TypeOK, Longest
<1> QED
  BY CachesAreConsistent, <1>1, PTL

(* Whatever searches are under way across a bump, no entry of the exact or *)
(* the structured cache carries the tag of an older snapshot version.      *)
THEOREM TagsStayCurrent == Spec => []TagsAreCurrent
<1>1. CachesInv => TagsAreCurrent
  BY CachesHold DEF Bounded, TagsAreCurrent
<1> QED
  BY CachesAreConsistent, <1>1, PTL

(* What was read before a bump is gone from the structured cache a flight  *)
(* and a life after it; from the exact cache a flight and a life after     *)
(* that, or after the time a rail may be behind if that is longer; and     *)
(* from the slot a flight, a fallback and a life after that time.          *)
THEOREM StalenessIsBounded == Spec => []StalenessBounded
<1>1. CachesInv => StalenessBounded
  <2> SUFFICES ASSUME CachesInv PROVE StalenessBounded
    OBVIOUS
  <2>1. quiet \in Nat /\ slot.left \in Nat
    BY Numbers DEF CachesInv
  <2>2. ASSUME NEW bound \in Nat, NEW e \in Bounded(bound), e.left > 0, e.seen < version
        PROVE  quiet < bound
    <3>1. e.left \in Nat /\ quiet + e.left <= bound
      BY <2>2, Config DEF Bounded, EntrySet
    <3> QED
      BY <2>1, <2>2, <3>1
  <2>3. \A e \in Entries(structured) : e.left > 0 /\ e.seen < version => quiet < OneLife
    BY <2>2, CachesHold, Config
  <2>4. \A e \in Entries(exact) : e.left > 0 /\ e.seen < version => quiet < ExactLife
    BY <2>2, CachesHold, Config
  <2>5. slot.left > 0 /\ slot.seen < version => quiet < SlotLife
    BY <2>1, Config DEF CachesInv
  <2>6. ExactBound = ExactLife + 1 /\ SlotBound = SlotLife + 1
    <3>1. ExactBound = Flight + Ttl + Behind /\ SlotBound = RailLag + Flight + Rails + Ttl
      BY DEF ExactBound, SlotBound, Behind
    <3> QED
      BY <3>1, Config
  <2>7. /\ quiet < ExactLife => quiet < ExactBound
        /\ quiet < SlotLife => quiet < SlotBound
    BY <2>1, <2>6, Config
  <2> QED
    BY <2>3, <2>4, <2>5, <2>7 DEF StalenessBounded, OneLife
<1> QED
  BY CachesAreConsistent, <1>1, PTL

-----------------------------------------------------------------------------
(* The books, whatever the operation                                       *)

Kept(s) == Booked(s, EntrySet) /\ Fits(s)

BooksInv == Kept(exact) /\ Kept(structured)

LEMMA EntryInSet ==
  ASSUME CachesInv, NEW r \in Requests, NEW v \in Versions
  PROVE  Entry(query[r], v) \in EntrySet /\ Bytes[query[r]] \in Nat
<1>1. Ttl \in 0 .. Ttl /\ version \in Versions /\ query[r] \in Queries
  BY Config DEF CachesInv, Typed
<1> QED
  BY <1>1, CachesConfig DEF EntrySet, Entry, CachesConfig

LEMMA AgedInSet ==
  ASSUME NEW e \in EntrySet
  PROVE  Aged(e) \in EntrySet /\ Aged(e).key = e.key
<1> DEFINE left == IF e.left > 0 THEN e.left - 1 ELSE 0
<1>1. left \in 0 .. Ttl
  BY Config DEF EntrySet
<1>2. Aged(e) = [e EXCEPT !.left = left]
  BY DEF Aged
<1> HIDE DEF left
<1> QED
  BY <1>1, <1>2 DEF EntrySet

LEMMA InitBooks == Init => BooksInv
  BY EmptyBooked DEF Init, BooksInv, Kept

(* The seven ways a store changes.                                         *)
LEMMA Keeps ==
  ASSUME NEW s, Kept(s)
  PROVE  /\ \A k : Kept(Touch(s, k)) /\ Kept(Remove(s, k))
         /\ \A e \in EntrySet, size \in Nat : Kept(Put(s, e, size))
         /\ Kept(Older(s)) /\ Kept(EmptyStore)
<1>1. \A k : Kept(Touch(s, k)) /\ Kept(Remove(s, k))
  BY TouchBooked, RemoveBooked DEF Kept
<1>2. \A e \in EntrySet, size \in Nat : Kept(Put(s, e, size))
  BY PutBooked DEF Kept
<1>3. Kept(Older(s)) /\ Kept(EmptyStore)
  BY OlderBooked, AgedInSet, EmptyBooked DEF Kept
<1> QED
  BY <1>1, <1>2, <1>3

LEMMA NextBooks ==
  ASSUME CachesInv, BooksInv, [Next]_vars
  PROVE  BooksInv'
<1> SUFFICES Kept(exact') /\ Kept(structured')
  BY DEF BooksInv, Kept, Booked, StoreOf, EntrySet
<1>1. Kept(exact) /\ Kept(structured)
  BY DEF BooksInv
<1>2. ASSUME NEW r \in Requests, Search(r) PROVE Kept(exact') /\ Kept(structured')
  <2>1. CASE LookUp(r)
    BY <1>1, <2>1, Keeps DEF LookUp
  <2>2. CASE Gather(r)
    BY <1>1, <2>2, Keeps DEF Gather
  <2>3. CASE Retrieved(r)
    <3>1. /\ exact' = exact
          /\ \E v \in seen[r] .. version :
                structured' \in {structured, Put(structured, Entry(query[r], v), Bytes[query[r]])}
      BY <2>3 DEF Retrieved
    <3>2. seen[r] .. version \subseteq Versions
      BY Numbers, Config DEF CachesInv, Typed, Versions
    <3> QED
      BY <1>1, <3>1, <3>2, EntryInSet, Keeps
  <2>4. CASE Fuse(r)
    <3>1. /\ structured' = structured
          /\ exact' \in {exact, Put(exact, Entry(query[r], seen[r]), Bytes[query[r]])}
      BY <2>4 DEF Fuse
    <3>2. seen[r] \in Versions
      BY DEF CachesInv, Typed
    <3> QED
      BY <1>1, <3>1, <3>2, EntryInSet, Keeps
  <2>5. CASE Begin(r) \/ Complement(r) \/ Reply(r) \/ FallBack(r) \/ Scope(r) \/ RailsEnd(r)
    BY <1>1, <2>5 DEF Begin, Complement, Reply, FallBack, Scope, RailsEnd, cacheVars
  <2> QED
    BY <1>2, <2>1, <2>2, <2>3, <2>4, <2>5 DEF Search
<1>3. CASE Bump
  BY <1>1, <1>3, Keeps DEF Bump
<1>4. CASE Tick
  BY <1>1, <1>4, Keeps DEF Tick
<1>5. CASE UNCHANGED vars
  BY <1>1, <1>5 DEF vars, cacheVars
<1> QED
  BY <1>2, <1>3, <1>4, <1>5 DEF Next

(* Through every mixture of hits, expiries, replacements, evictions and    *)
(* flushes, both caches hold one entry per key, count the bytes of exactly *)
(* the entries they hold, and stay within both limits.                     *)
THEOREM StoresKeepAccounts == Spec => []StoresAccount
<1>1. CachesInv /\ BooksInv /\ [Next]_vars => BooksInv'
  BY NextBooks
<1>2. BooksInv => StoresAccount
  BY BookedAccounts DEF BooksInv, Kept, StoresAccount
<1>3. Spec => []BooksInv
  BY CachesAreConsistent, InitBooks, <1>1, PTL DEF Spec
<1> QED
  BY <1>2, <1>3, PTL

=============================================================================
