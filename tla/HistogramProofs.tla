--------------------------- MODULE HistogramProofs ---------------------------
(***************************************************************************)
(* Proofs about Histogram, for any number of observers, any values, buckets *)
(* and limits: no observation is lost or counted twice however observations,*)
(* resets, wider zero buckets, doublings and Write interleave (RestIsExact),*)
(* what Write reports are the observations of one moment                    *)
(* (ImplementsAtomicCut), a count goes down only with a new created         *)
(* timestamp (ResetShows), and what has cooled is whole, each observation of *)
(* it in its bucket (CoolIsWhole).                                          *)
(***************************************************************************)
EXTENDS Histogram, SumTheorems, FiniteSetTheorems, NaturalsInduction, TLAPS

-----------------------------------------------------------------------------
(* Keys and sparse buckets *)

\* A power of two is the number of subsets of a set.
LEMMA PowerType ==
    ASSUME NEW l \in Nat
    PROVE  2^l \in Nat /\ 2^l > 0
<1>1. IsFiniteSet(1..l) /\ Cardinality(1..l) = l  BY FS_Interval
<1>2. IsFiniteSet(SUBSET (1..l)) /\ Cardinality(SUBSET (1..l)) = 2^l  BY <1>1, FS_SUBSET
<1>3. Cardinality(SUBSET (1..l)) \in Nat  BY <1>2, FS_CardinalityType
<1>4. SUBSET (1..l) # {}  OBVIOUS
<1>5. Cardinality(SUBSET (1..l)) # 0  BY <1>2, <1>4, FS_EmptySet
<1> QED  BY <1>2, <1>3, <1>5

LEMMA KeyType ==
    ASSUME NEW v \in Values, NEW l \in Nat
    PROVE  SparseKey(v, l) \in SparseKeys
<1>1. FineKey[v] \in Int /\ 2^l \in Nat /\ 2^l > 0  BY PowerType, ValuesAssumption
<1>2. KeyAt(v, l) \in Int  BY <1>1 DEF KeyAt
<1> QED  BY <1>2 DEF SparseKey, SparseKeys

LEMMA LeType ==
    ASSUME NEW key \in Int, NEW l \in Nat
    PROVE  Le(key, l) \in Int
<1>1. 2^l \in Nat  BY PowerType
<1> QED  BY <1>1 DEF Le

\* A finite set of integers that is not empty has a least element.
LEMMA MinExists ==
    ASSUME NEW T \in SUBSET Int, IsFiniteSet(T), T # {}
    PROVE  Min(T) \in Int
<1> DEFINE R == OpToRel(<, Nat)
           Below(x) == {y \in T : y < x}
           N == {n \in Nat : \E x \in T : Cardinality(Below(x)) = n}
<1>1. \A m, n \in Nat : <<m, n>> \in R <=> m < n  BY DEF OpToRel
<1>2. IsWellFoundedOn(R, Nat)  BY NatLessThanWellFounded
<1>3. ASSUME NEW x \in T PROVE IsFiniteSet(Below(x)) /\ Cardinality(Below(x)) \in Nat
  BY FS_Subset, FS_CardinalityType
<1>4. N # {} /\ N \subseteq Nat  BY <1>3
<1> HIDE DEF R
<1>5. \E n \in N : \A m \in N : ~(<<m, n>> \in R)
  <2> HIDE DEF N
  <2> QED  BY <1>2, <1>4, WFMin
<1>6. PICK x \in T : \A m \in N : ~(m < Cardinality(Below(x)))
  BY <1>1, <1>3, <1>5
<1>7. ASSUME NEW y \in T, y < x PROVE FALSE
  <2>0. x \in Int /\ y \in Int /\ \A z \in T : z \in Int  OBVIOUS
  <2>1. Below(y) \in SUBSET Below(x) /\ y \in Below(x) /\ y \notin Below(y)
    <3>1. ASSUME NEW z \in T, z < y PROVE z < x  BY <1>7, <2>0, <3>1
    <3>2. ~(y < y)  BY <2>0
    <3> QED  BY <1>7, <3>1, <3>2, Zenon
  <2>2. Cardinality(Below(y)) <= Cardinality(Below(x)) /\ Cardinality(Below(y)) # Cardinality(Below(x))
    <3> HIDE DEF Below
    <3> QED  BY <2>1, <1>3, FS_Subset
  <2>3. Cardinality(Below(y)) \in N  BY <1>3
  <2>4. Cardinality(Below(x)) \in Nat /\ Cardinality(Below(y)) \in Nat  BY <1>3
  <2> HIDE DEF N, Below
  <2> QED  BY <1>6, <2>2, <2>3, <2>4
<1>8. \A y \in T : x <= y  BY <1>7
<1> QED  BY <1>8 DEF Min

LEMMA BucketsAre ==
    ASSUME NEW b
    PROVE  b \in Buckets <=> \E K \in SUBSET SparseKeys : IsFiniteSet(K) /\ b \in [K -> Nat]
  BY DEF Buckets

\* What addToBucket leaves.
LEMMA AddType ==
    ASSUME NEW b \in Buckets, NEW k \in SparseKeys, NEW n \in Nat
    PROVE  /\ AddToBucket(b, k, n) \in Buckets
           /\ DOMAIN AddToBucket(b, k, n) = DOMAIN b \cup {k}
           /\ Cardinality(DOMAIN b \cup {k}) =
                Cardinality(DOMAIN b) + (IF Creates(b, k) THEN 1 ELSE 0)
<1>1. PICK K \in SUBSET SparseKeys : IsFiniteSet(K) /\ b \in [K -> Nat]  BY BucketsAre
<1>2. AddToBucket(b, k, n) \in [K \cup {k} -> Nat]  BY <1>1 DEF AddToBucket
<1>3. IsFiniteSet(K \cup {k}) /\ K \cup {k} \in SUBSET SparseKeys
      /\ Cardinality(K \cup {k}) = IF k \in K THEN Cardinality(K) ELSE Cardinality(K) + 1
  BY <1>1, FS_AddElement
<1>4. AddToBucket(b, k, n) \in Buckets  BY <1>2, <1>3, BucketsAre
<1>5. Cardinality(K) \in Nat  BY <1>1, FS_CardinalityType
<1> QED  BY <1>1, <1>2, <1>3, <1>4, <1>5 DEF Creates

LEMMA EmptyType ==
    NoBuckets \in Buckets /\ DOMAIN NoBuckets = {} /\ Cardinality(DOMAIN NoBuckets) = 0
<1>1. NoBuckets \in [{} -> Nat] /\ {} \in SUBSET SparseKeys  BY DEF NoBuckets
<1>2. IsFiniteSet({}) /\ Cardinality({}) = 0  BY FS_EmptySet
<1>3. NoBuckets \in Buckets  BY <1>1, <1>2, BucketsAre
<1> QED  BY <1>1, <1>2, <1>3

\* Fewer buckets, or one emptied.
LEMMA FewerType ==
    ASSUME NEW b \in Buckets, NEW S
    PROVE  /\ [x \in DOMAIN b \ S |-> b[x]] \in Buckets
           /\ DOMAIN [x \in DOMAIN b \ S |-> b[x]] = DOMAIN b \ S
<1>1. PICK K \in SUBSET SparseKeys : IsFiniteSet(K) /\ b \in [K -> Nat]  BY BucketsAre
<1>2. [x \in DOMAIN b \ S |-> b[x]] \in [K \ S -> Nat]  BY <1>1
<1>3. IsFiniteSet(K \ S) /\ K \ S \in SUBSET SparseKeys  BY <1>1, FS_Subset
<1> QED  BY <1>2, <1>3, BucketsAre

LEMMA ZeroedType ==
    ASSUME NEW b \in Buckets, NEW k \in DOMAIN b
    PROVE  [b EXCEPT ![k] = 0] \in Buckets /\ DOMAIN [b EXCEPT ![k] = 0] = DOMAIN b
<1>1. PICK K \in SUBSET SparseKeys : IsFiniteSet(K) /\ b \in [K -> Nat]  BY BucketsAre
<1>2. [b EXCEPT ![k] = 0] \in [K -> Nat]  BY <1>1
<1> QED  BY <1>1, <1>2, BucketsAre

\* The buckets there are.
LEMMA BucketFacts ==
    ASSUME NEW b \in Buckets
    PROVE  /\ DOMAIN b \subseteq SparseKeys /\ IsFiniteSet(DOMAIN b)
           /\ Cardinality(DOMAIN b) \in Nat /\ \A k \in DOMAIN b : b[k] \in Nat
<1>1. PICK K \in SUBSET SparseKeys : IsFiniteSet(K) /\ b \in [K -> Nat]  BY BucketsAre
<1> QED  BY <1>1, FS_CardinalityType

-----------------------------------------------------------------------------
(* The counts that each step of the code leaves *)

LEMMA CountsFacts ==
    ASSUME NEW x \in Counts
    PROVE  /\ x.count \in Nat /\ x.sum \in Bags /\ x.classic \in [1..NumBuckets -> Nat]
           /\ x.zero \in Nat /\ x.thr \in Int /\ x.lvl \in 0..MaxLevel /\ x.num \in Nat
           /\ x.sparse \in Buckets
  BY DEF Counts

LEMMA FreshFacts ==
    /\ Fresh \in Counts /\ NoValues \in Bags
    /\ Fresh.count = 0 /\ Fresh.sum = NoValues /\ Fresh.thr = ZeroThreshold /\ Fresh.lvl = 0
    /\ Fresh.num = 0 /\ Fresh.sparse = NoBuckets
<1>1. NoValues \in Bags  BY DEF NoValues, Bags
<1>2. [b \in 1..NumBuckets |-> 0] \in [1..NumBuckets -> Nat]  OBVIOUS
<1>3. ZeroThreshold \in Int /\ 0 \in 0..MaxLevel  BY OptionsAssumption
<1>4. NoBuckets \in Buckets  BY EmptyType
<1> QED  BY <1>1, <1>2, <1>3, <1>4 DEF Fresh, Counts

LEMMA ClassicFacts ==
    ASSUME NEW x \in Counts, NEW v \in Values, NEW y, y = ObserveClassic(x, v)
    PROVE  /\ y \in Counts
           /\ y.count = x.count /\ y.sum = [x.sum EXCEPT ![v] = @ + 1] /\ y.num = x.num
           /\ y.thr = x.thr /\ y.lvl = x.lvl /\ y.sparse = x.sparse
<1> DEFINE cl == [b \in 1..NumBuckets |-> x.classic[b] + (IF b = Bucket[v] THEN 1 ELSE 0)]
           su == [x.sum EXCEPT ![v] = @ + 1]
<1>0. x.classic \in [1..NumBuckets -> Nat] /\ x.sum \in Bags  BY CountsFacts
<1>1. cl \in [1..NumBuckets -> Nat]
  <2> DEFINE f == x.classic
             S == 1..NumBuckets
  <2>1. f \in [S -> Nat]  BY <1>0
  <2> HIDE DEF f, S
  <2>2. [b \in S |-> f[b] + (IF b = Bucket[v] THEN 1 ELSE 0)] \in [S -> Nat]  BY <2>1
  <2> QED  BY <2>2 DEF f, S
<1>2. su \in Bags  BY <1>0 DEF Bags
<1>3. y = [x EXCEPT !.classic = cl, !.sum = su]  BY DEF ObserveClassic
<1> HIDE DEF cl
<1>4. y.sum = su /\ y \in Counts  
  <2> HIDE DEF su
  <2> QED  BY <1>1, <1>2, <1>3 DEF Counts
<1> HIDE DEF su
<1>5. /\ y.count = x.count /\ y.num = x.num
      /\ y.thr = x.thr /\ y.lvl = x.lvl /\ y.sparse = x.sparse
  BY <1>3 DEF Counts
<1> QED  BY <1>4, <1>5 DEF su

LEMMA SparseFacts ==
    ASSUME NEW x \in Counts, NEW n \in Nat, NEW b \in Buckets,
           NEW y, y = [x EXCEPT !.num = n, !.sparse = b]
    PROVE  /\ y \in Counts
           /\ y.count = x.count /\ y.sum = x.sum /\ y.num = n
           /\ y.thr = x.thr /\ y.lvl = x.lvl /\ y.sparse = b
  BY DEF Counts

LEMMA CountFacts ==
    ASSUME NEW x \in Counts, NEW y, y = [x EXCEPT !.count = @ + 1]
    PROVE  /\ y \in Counts
           /\ y.count = x.count + 1 /\ y.sum = x.sum /\ y.num = x.num
           /\ y.thr = x.thr /\ y.lvl = x.lvl /\ y.sparse = x.sparse
  BY DEF Counts

LEMMA NumFacts ==
    ASSUME NEW x \in Counts, NEW y, y = [x EXCEPT !.num = @ + 1]
    PROVE  /\ y \in Counts
           /\ y.count = x.count /\ y.sum = x.sum /\ y.num = x.num + 1
           /\ y.thr = x.thr /\ y.lvl = x.lvl /\ y.sparse = x.sparse
  BY DEF Counts

LEMMA PlaceFacts ==
    ASSUME NEW x \in Counts, NEW v \in Values, NEW s \in [lvl : 0..MaxLevel, thr : Int],
           NEW y, y = ObservePlace(x, v, s)
    PROVE  /\ y \in Counts
           /\ y.count = x.count /\ y.sum = x.sum /\ y.num = x.num
           /\ y.thr = x.thr /\ y.lvl = x.lvl
           /\ y.sparse = IF InZero(v, s.thr) THEN x.sparse
                                             ELSE AddToBucket(x.sparse, SparseKey(v, s.lvl), 1)
<1>1. CASE InZero(v, s.thr)
  <2>1. y = [x EXCEPT !.zero = @ + 1]  BY <1>1 DEF ObservePlace
  <2> QED  BY <1>1, <2>1 DEF Counts
<1>2. CASE ~InZero(v, s.thr)
  <2> DEFINE b == AddToBucket(x.sparse, SparseKey(v, s.lvl), 1)
  <2>1. y = [x EXCEPT !.sparse = b]  BY <1>2 DEF ObservePlace
  <2>2. s.lvl \in Nat  BY OptionsAssumption
  <2>3. SparseKey(v, s.lvl) \in SparseKeys  BY <2>2, KeyType
  <2>4. b \in Buckets  BY <2>3, AddType, CountsFacts
  <2> HIDE DEF b
  <2>5. /\ y \in Counts
        /\ y.count = x.count /\ y.sum = x.sum /\ y.num = x.num
        /\ y.thr = x.thr /\ y.lvl = x.lvl /\ y.sparse = b
    BY <2>1, <2>4 DEF Counts
  <2> QED  BY <1>2, <2>5 DEF b
<1> QED  BY <1>1, <1>2

\* The new hot counts of a reset: the one observation it repeats.
LEMMA RepeatFacts ==
    ASSUME NEW v \in Values, NEW y, y = ObserveAll(Fresh, v)
    PROVE  /\ y \in Counts
           /\ y.count = 1 /\ y.sum = [NoValues EXCEPT ![v] = 1]
           /\ y.thr = ZeroThreshold /\ y.lvl = 0
           /\ y.num = Cardinality(DOMAIN y.sparse)
<1> DEFINE x == ObserveClassic(Fresh, v)
           s == [lvl |-> Fresh.lvl, thr |-> Fresh.thr]
           z == ObservePlace(x, v, s)
           n == IF InZero(v, s.thr) THEN z.num ELSE z.num + 1
<1>1. /\ x \in Counts /\ x.count = 0 /\ x.num = 0 /\ x.sparse = NoBuckets
      /\ x.sum = [Fresh.sum EXCEPT ![v] = @ + 1] /\ x.thr = ZeroThreshold /\ x.lvl = 0
  BY ClassicFacts, FreshFacts
<1>2. s \in [lvl : 0..MaxLevel, thr : Int] /\ s.lvl = 0 /\ s.thr = Fresh.thr
  BY FreshFacts, CountsFacts
<1> HIDE DEF x, s
<1>3. /\ z \in Counts /\ z.count = 0 /\ z.num = 0 /\ z.sum = x.sum
      /\ z.thr = ZeroThreshold /\ z.lvl = 0
      /\ z.sparse = IF InZero(v, s.thr) THEN NoBuckets ELSE AddToBucket(NoBuckets, SparseKey(v, 0), 1)
  BY <1>1, <1>2, PlaceFacts
<1>4. y = [z EXCEPT !.num = n, !.count = @ + 1]
  BY FreshFacts, <1>2 DEF ObserveAll, x, s
<1> HIDE DEF z
<1>5. n \in Nat /\ n = Cardinality(DOMAIN z.sparse)
  <2>1. SparseKey(v, 0) \in SparseKeys  BY KeyType
  <2>2. Cardinality(DOMAIN AddToBucket(NoBuckets, SparseKey(v, 0), 1)) = 1
    <3>1. Creates(NoBuckets, SparseKey(v, 0))  BY EmptyType DEF Creates
    <3>2. 1 \in Nat /\ NoBuckets \in Buckets  BY EmptyType
    <3>3. DOMAIN AddToBucket(NoBuckets, SparseKey(v, 0), 1) = DOMAIN NoBuckets \cup {SparseKey(v, 0)}
      BY <2>1, <3>2, AddType
    <3>4. Cardinality(DOMAIN NoBuckets \cup {SparseKey(v, 0)}) = Cardinality(DOMAIN NoBuckets) + 1
      BY <2>1, <3>1, <3>2, AddType, Zenon
    <3> QED  BY <3>3, <3>4, EmptyType
  <2> QED  BY <1>3, <2>2, EmptyType
<1> HIDE DEF n
<1>6. /\ y \in Counts /\ y.count = 1 /\ y.sum = z.sum /\ y.thr = z.thr /\ y.lvl = z.lvl
      /\ y.num = n /\ y.sparse = z.sparse
  <2>1. z \in Counts /\ n \in Nat /\ y = [z EXCEPT !.num = n, !.count = 1]  BY <1>3, <1>4, <1>5
  <2>2. y.count = 1 /\ y.num = n  BY <2>1 DEF Counts
  <2>3. y.sum = z.sum /\ y.thr = z.thr /\ y.lvl = z.lvl /\ y.sparse = z.sparse  BY <2>1 DEF Counts
  <2> DEFINE w == [z EXCEPT !.num = n]
  <2>4. w \in Counts /\ y = [w EXCEPT !.count = 1]  BY <2>1 DEF Counts
  <2> HIDE DEF w
  <2>5. y \in Counts  BY <2>4 DEF Counts
  <2> QED  BY <2>2, <2>3, <2>5
<1>7. [Fresh.sum EXCEPT ![v] = @ + 1] = [NoValues EXCEPT ![v] = 1]
  BY FreshFacts DEF NoValues
<1> QED  BY <1>1, <1>3, <1>5, <1>6, <1>7

LEMMA MergedFacts ==
    ASSUME NEW x \in Counts, NEW d \in Counts, NEW y, y = MergedInto(x, d)
    PROVE  /\ y \in Counts
           /\ y.count = x.count + d.count /\ y.num = x.num /\ y.sparse = x.sparse
           /\ \A v \in Values : y.sum[v] = x.sum[v] + d.sum[v]
           /\ y.thr = x.thr /\ y.lvl = x.lvl
<1> DEFINE cl == [b \in 1..NumBuckets |-> x.classic[b] + d.classic[b]]
           su == [v \in Values |-> x.sum[v] + d.sum[v]]
<1>0. /\ x.classic \in [1..NumBuckets -> Nat] /\ x.sum \in Bags
      /\ d.classic \in [1..NumBuckets -> Nat] /\ d.sum \in Bags
      /\ x.count + d.count \in Nat /\ x.zero + d.zero \in Nat
  BY CountsFacts
<1>1. cl \in [1..NumBuckets -> Nat]
  <2> DEFINE f == x.classic
             g == d.classic
             S == 1..NumBuckets
  <2>1. f \in [S -> Nat] /\ g \in [S -> Nat]  BY <1>0
  <2> HIDE DEF f, g, S
  <2>2. [b \in S |-> f[b] + g[b]] \in [S -> Nat]  BY <2>1
  <2> QED  BY <2>2 DEF f, g, S
<1>2. su \in Bags  BY <1>0 DEF Bags
<1>3. y = [x EXCEPT !.count = @ + d.count, !.zero = @ + d.zero, !.sum = su, !.classic = cl]
  BY DEF MergedInto
<1>4. \A v \in Values : su[v] = x.sum[v] + d.sum[v]  OBVIOUS
<1> HIDE DEF cl, su
<1>5. y.sum = su /\ y \in Counts  BY <1>0, <1>1, <1>2, <1>3 DEF Counts
<1>6. /\ y.count = x.count + d.count /\ y.num = x.num
      /\ y.thr = x.thr /\ y.lvl = x.lvl /\ y.sparse = x.sparse
  BY <1>3 DEF Counts
<1> QED  BY <1>4, <1>5, <1>6

LEMMA IntoFacts ==
    ASSUME NEW x \in Counts, NEW k \in SparseKeys, NEW n \in Nat, NEW y, y = SparseInto(x, k, n)
    PROVE  /\ y \in Counts
           /\ y.count = x.count /\ y.sum = x.sum /\ y.thr = x.thr /\ y.lvl = x.lvl
           /\ y.num - x.num = Cardinality(DOMAIN y.sparse) - Cardinality(DOMAIN x.sparse)
<1> DEFINE m == IF Creates(x.sparse, k) THEN x.num + 1 ELSE x.num
           b == AddToBucket(x.sparse, k, n)
<1>1. m \in Nat  BY CountsFacts
<1>2. /\ b \in Buckets /\ DOMAIN b = DOMAIN x.sparse \cup {k}
      /\ Cardinality(DOMAIN b) = Cardinality(DOMAIN x.sparse) + (IF Creates(x.sparse, k) THEN 1 ELSE 0)
  BY CountsFacts, AddType
<1>3. y = [x EXCEPT !.num = m, !.sparse = b]  BY DEF SparseInto
<1>4. Cardinality(DOMAIN x.sparse) \in Nat /\ x.num \in Nat  BY CountsFacts, BucketFacts
<1>5. m - x.num = Cardinality(DOMAIN b) - Cardinality(DOMAIN x.sparse)  BY <1>2, <1>4
<1> HIDE DEF m, b
<1>6. /\ y \in Counts
      /\ y.count = x.count /\ y.sum = x.sum /\ y.num = m
      /\ y.thr = x.thr /\ y.lvl = x.lvl /\ y.sparse = b
  BY <1>1, <1>2, <1>3 DEF Counts
<1> QED  BY <1>5, <1>6

\* What the merge of a widened zero bucket, and each bucket of the merge, leave behind.
Widened(x, key, t) == [Removed(x, key) EXCEPT !.thr = t]
Doubled(x, l) == [x EXCEPT !.lvl = l, !.num = 0, !.sparse = NoBuckets]
MergedOut(x, t, l) == [Emptied(x) EXCEPT !.thr = t, !.lvl = l]
TakenOut(x, k) == [x EXCEPT !.sparse = Without(@, k), !.num = @ - 1]
EmptiedAt(x, k) == [x EXCEPT !.sparse[k] = 0]
ZeroPlus(x, n) == [x EXCEPT !.zero = @ + n]

LEMMA RemovedFacts ==
    ASSUME NEW x \in Counts, x.num = Cardinality(DOMAIN x.sparse), NEW key, NEW t \in Int,
           NEW y, y = Widened(x, key, t)
    PROVE  /\ y \in Counts
           /\ y.count = x.count /\ y.sum = x.sum /\ y.thr = t /\ y.lvl = x.lvl
           /\ y.num = Cardinality(DOMAIN y.sparse)
           /\ DOMAIN y.sparse \subseteq DOMAIN x.sparse
           /\ \A k \in DOMAIN y.sparse : y.sparse[k] = x.sparse[k]
<1> DEFINE there == {k \in DOMAIN x.sparse : k.key = key}
           b == [k \in DOMAIN x.sparse \ there |-> x.sparse[k]]
           n == x.num - Cardinality(there)
<1>1. /\ b \in Buckets /\ DOMAIN b = DOMAIN x.sparse \ there
      /\ \A k \in DOMAIN b : b[k] = x.sparse[k]
  <2> HIDE DEF there
  <2>1. x.sparse \in Buckets  BY CountsFacts
  <2>2. b \in Buckets /\ DOMAIN b = DOMAIN x.sparse \ there  BY <2>1, FewerType
  <2> QED  BY <2>2
<1>2. n = Cardinality(DOMAIN b) /\ n \in Nat
  <2>1. IsFiniteSet(DOMAIN x.sparse)  BY CountsFacts, BucketFacts
  <2>2. there = DOMAIN x.sparse \cap there  OBVIOUS
  <2>3. Cardinality(DOMAIN x.sparse \ there) = Cardinality(DOMAIN x.sparse) - Cardinality(there)
    <3> HIDE DEF there
    <3> DEFINE D == DOMAIN x.sparse
    <3>1. IsFiniteSet(D) /\ there = D \cap there  BY <2>1, <2>2
    <3> HIDE DEF D
    <3>2. Cardinality(D \ there) = Cardinality(D) - Cardinality(D \cap there)  BY <3>1, FS_Difference
    <3> QED  BY <3>1, <3>2 DEF D
  <2>4. Cardinality(DOMAIN b) \in Nat  BY <1>1, BucketFacts
  <2> QED  BY <1>1, <2>3, <2>4
<1>3. y = [x EXCEPT !.num = n, !.sparse = b, !.thr = t]  BY DEF Removed, Widened
<1> HIDE DEF there, b, n
<1> DEFINE w == [x EXCEPT !.num = n, !.sparse = b]
<1>4. /\ w \in Counts /\ w.count = x.count /\ w.sum = x.sum /\ w.num = n
      /\ w.lvl = x.lvl /\ w.sparse = b
  <2>1. n \in Nat  BY <1>2
  <2>2. b \in Buckets  BY <1>1
  <2> QED  BY <2>1, <2>2 DEF Counts
<1>5. y = [w EXCEPT !.thr = t]  BY <1>3
<1> HIDE DEF w
<1>6. /\ y \in Counts /\ y.count = x.count /\ y.sum = x.sum /\ y.num = n
      /\ y.lvl = x.lvl /\ y.sparse = b /\ y.thr = t
  <2>1. y \in Counts  BY <1>4, <1>5 DEF Counts
  <2> QED  BY <1>4, <1>5, <2>1 DEF Counts
<1> QED  BY <1>1, <1>2, <1>6

LEMMA EmptiedFacts ==
    ASSUME NEW x \in Counts, NEW t \in Int, NEW l \in 0..MaxLevel,
           NEW y, y = MergedOut(x, t, l)
    PROVE  /\ y \in Counts
           /\ y.count = 0 /\ y.sum = NoValues /\ y.num = x.num /\ y.sparse = x.sparse
           /\ y.thr = t /\ y.lvl = l
<1>1. NoValues \in Bags  BY FreshFacts
<1>2. [b \in 1..NumBuckets |-> 0] \in [1..NumBuckets -> Nat]  OBVIOUS
<1> QED  BY <1>1, <1>2 DEF Emptied, MergedOut, Counts

LEMMA IntoZeroFacts ==
    ASSUME NEW x \in Counts, x.num = Cardinality(DOMAIN x.sparse), NEW k \in DOMAIN x.sparse,
           NEW y, y = TakenOut(x, k)
    PROVE  /\ y \in Counts
           /\ y.count = x.count /\ y.sum = x.sum /\ y.thr = x.thr /\ y.lvl = x.lvl
           /\ y.num = Cardinality(DOMAIN y.sparse)
           /\ DOMAIN y.sparse = DOMAIN x.sparse \ {k}
           /\ \A j \in DOMAIN y.sparse : y.sparse[j] = x.sparse[j]
<1> DEFINE b == [j \in DOMAIN x.sparse \ {k} |-> x.sparse[j]]
           n == x.num - 1
<1>1. x.sparse \in Buckets  BY CountsFacts
<1>2. b \in Buckets /\ DOMAIN b = DOMAIN x.sparse \ {k}  BY <1>1, FewerType
<1>3. \A j \in DOMAIN b : b[j] = x.sparse[j]  BY <1>2
<1>4. n = Cardinality(DOMAIN b) /\ n \in Nat
  <2>1. IsFiniteSet(DOMAIN x.sparse)  BY <1>1, BucketFacts
  <2>2. Cardinality(DOMAIN x.sparse \ {k}) = Cardinality(DOMAIN x.sparse) - 1
    BY <2>1, FS_RemoveElement
  <2>3. Cardinality(DOMAIN b) \in Nat  BY <1>2, BucketFacts
  <2> QED  BY <1>2, <2>2, <2>3
<1>5. y = [x EXCEPT !.sparse = b, !.num = n]  BY DEF Without, TakenOut
<1> HIDE DEF b, n
<1>6. /\ y \in Counts /\ y.count = x.count /\ y.sum = x.sum /\ y.num = n
      /\ y.lvl = x.lvl /\ y.sparse = b /\ y.thr = x.thr
  <2>1. n \in Nat  BY <1>4
  <2>2. b \in Buckets  BY <1>2
  <2> QED  BY <1>5, <2>1, <2>2 DEF Counts
<1> QED  BY <1>2, <1>3, <1>4, <1>6

LEMMA RefilledFacts ==
    ASSUME NEW x \in Counts, NEW k \in DOMAIN x.sparse, NEW y, y = EmptiedAt(x, k)
    PROVE  /\ y \in Counts
           /\ y.count = x.count /\ y.sum = x.sum /\ y.thr = x.thr /\ y.lvl = x.lvl
           /\ y.num = x.num /\ DOMAIN y.sparse = DOMAIN x.sparse
           /\ \A j \in DOMAIN y.sparse : y.sparse[j] = IF j = k THEN 0 ELSE x.sparse[j]
<1> DEFINE b == [x.sparse EXCEPT ![k] = 0]
<1>1. b \in Buckets /\ DOMAIN b = DOMAIN x.sparse  BY CountsFacts, ZeroedType
<1>2. \A j \in DOMAIN b : b[j] = IF j = k THEN 0 ELSE x.sparse[j]  OBVIOUS
<1>3. y = [x EXCEPT !.sparse = b]  BY DEF EmptiedAt
<1> HIDE DEF b
<1>4. /\ y \in Counts /\ y.count = x.count /\ y.sum = x.sum /\ y.num = x.num
      /\ y.lvl = x.lvl /\ y.sparse = b /\ y.thr = x.thr
  <2>1. b \in Buckets  BY <1>1
  <2> QED  BY <1>3, <2>1 DEF Counts
<1> QED  BY <1>1, <1>2, <1>4

\* The hot zero bucket takes a bucket in.
LEMMA ZeroFacts ==
    ASSUME NEW x \in Counts, NEW n \in Nat, NEW y, y = ZeroPlus(x, n)
    PROVE  /\ y \in Counts
           /\ y.count = x.count /\ y.sum = x.sum /\ y.num = x.num
           /\ y.thr = x.thr /\ y.lvl = x.lvl /\ y.sparse = x.sparse
  BY DEF Counts, ZeroPlus

\* The wider buckets start from none.
LEMMA WiderFacts ==
    ASSUME NEW x \in Counts, NEW l \in 0..MaxLevel,
           NEW y, y = Doubled(x, l)
    PROVE  /\ y \in Counts
           /\ y.count = x.count /\ y.sum = x.sum /\ y.num = 0
           /\ y.thr = x.thr /\ y.lvl = l /\ y.sparse = NoBuckets
<1>1. NoBuckets \in Buckets  BY EmptyType
<1> QED  BY <1>1 DEF Counts, Doubled

-----------------------------------------------------------------------------
(* The observations under way *)

LEMMA ObserverSet ==
    ASSUME NEW S \in SUBSET Observers
    PROVE  IsFiniteSet(S) /\ Cardinality(S) \in Nat /\ (Cardinality(S) = 0 <=> S = {})
  BY ProcsAssumption, FS_Subset, FS_CardinalityType, FS_EmptySet

\* A step of one observer changes a count of observers by that observer at most.
LEMMA Moves ==
    ASSUME NEW S \in SUBSET Observers, NEW T \in SUBSET Observers, NEW o \in Observers,
           \A q \in Observers \ {o} : q \in S <=> q \in T
    PROVE  Cardinality(T) = Cardinality(S) + (IF o \in T THEN 1 ELSE 0) - (IF o \in S THEN 1 ELSE 0)
<1>1. S \ {o} = T \ {o}  OBVIOUS
<1>2. IsFiniteSet(S) /\ IsFiniteSet(T) /\ Cardinality(S) \in Nat /\ Cardinality(T) \in Nat
  BY ObserverSet
<1>3. Cardinality(S \ {o}) = IF o \in S THEN Cardinality(S) - 1 ELSE Cardinality(S)
  BY <1>2, FS_RemoveElement
<1>4. Cardinality(T \ {o}) = IF o \in T THEN Cardinality(T) - 1 ELSE Cardinality(T)
  BY <1>2, FS_RemoveElement
<1>5. CASE o \in S /\ o \in T  BY <1>1, <1>2, <1>3, <1>4, <1>5
<1>6. CASE o \in S /\ o \notin T
  <2>1. Cardinality(T) = Cardinality(S) - 1  BY <1>1, <1>3, <1>4, <1>6
  <2> QED  BY <1>2, <1>6, <2>1
<1>7. CASE o \notin S /\ o \in T  BY <1>1, <1>2, <1>3, <1>4, <1>7
<1>8. CASE o \notin S /\ o \notin T  BY <1>1, <1>2, <1>3, <1>4, <1>8
<1> QED  BY <1>5, <1>6, <1>7, <1>8

LEMMA FlightSets ==
    ASSUME NEW c, NEW v
    PROVE  /\ InFlight(c) \in SUBSET Observers /\ InFlight(c)' \in SUBSET Observers
           /\ Coming(c, v) \in SUBSET Observers /\ Coming(c, v)' \in SUBSET Observers
           /\ Numbering(c) \in SUBSET Observers /\ Numbering(c)' \in SUBSET Observers
           /\ Numbering(c) \subseteq InFlight(c) /\ Coming(c, v) \subseteq InFlight(c)
  BY DEF InFlight, Coming, Numbering, Observing

\* What a step of observe changes in them.
LEMMA FlightMoves ==
    ASSUME NEW o \in Observers, NEW c,
           \A q \in Observers \ {o} : pc'[q] = pc[q] /\ side'[q] = side[q] /\ val'[q] = val[q]
    PROVE  Cardinality(InFlight(c))' = Cardinality(InFlight(c))
             + (IF pc'[o] \in Observing /\ side'[o] = c THEN 1 ELSE 0)
             - (IF pc[o] \in Observing /\ side[o] = c THEN 1 ELSE 0)
<1>1. /\ \A q \in Observers \ {o} : q \in InFlight(c) <=> q \in InFlight(c)'
      /\ o \in InFlight(c)' <=> (pc'[o] \in Observing /\ side'[o] = c)
      /\ o \in InFlight(c) <=> (pc[o] \in Observing /\ side[o] = c)
  BY DEF InFlight
<1>2. InFlight(c) \in SUBSET Observers /\ InFlight(c)' \in SUBSET Observers  BY FlightSets
<1>3. Cardinality(InFlight(c)') = Cardinality(InFlight(c))
        + (IF o \in InFlight(c)' THEN 1 ELSE 0) - (IF o \in InFlight(c) THEN 1 ELSE 0)
  BY <1>1, <1>2, Moves
<1> QED  BY <1>1, <1>3

LEMMA ComingMoves ==
    ASSUME NEW o \in Observers, NEW c, NEW v,
           \A q \in Observers \ {o} : pc'[q] = pc[q] /\ side'[q] = side[q] /\ val'[q] = val[q]
    PROVE  Cardinality(Coming(c, v))' = Cardinality(Coming(c, v))
             + (IF pc'[o] = "classic" /\ side'[o] = c /\ val'[o] = v THEN 1 ELSE 0)
             - (IF pc[o] = "classic" /\ side[o] = c /\ val[o] = v THEN 1 ELSE 0)
<1>1. /\ \A q \in Observers \ {o} : q \in Coming(c, v) <=> q \in Coming(c, v)'
      /\ o \in Coming(c, v)' <=> (pc'[o] = "classic" /\ side'[o] = c /\ val'[o] = v)
      /\ o \in Coming(c, v) <=> (pc[o] = "classic" /\ side[o] = c /\ val[o] = v)
  BY DEF Coming
<1>2. Coming(c, v) \in SUBSET Observers /\ Coming(c, v)' \in SUBSET Observers  BY FlightSets
<1>3. Cardinality(Coming(c, v)') = Cardinality(Coming(c, v))
        + (IF o \in Coming(c, v)' THEN 1 ELSE 0) - (IF o \in Coming(c, v) THEN 1 ELSE 0)
  BY <1>1, <1>2, Moves
<1> QED  BY <1>1, <1>3

LEMMA NumberingMoves ==
    ASSUME NEW o \in Observers, NEW c,
           \A q \in Observers \ {o} : pc'[q] = pc[q] /\ side'[q] = side[q] /\ val'[q] = val[q]
    PROVE  Cardinality(Numbering(c))' = Cardinality(Numbering(c))
             + (IF pc'[o] = "number" /\ side'[o] = c THEN 1 ELSE 0)
             - (IF pc[o] = "number" /\ side[o] = c THEN 1 ELSE 0)
<1>1. /\ \A q \in Observers \ {o} : q \in Numbering(c) <=> q \in Numbering(c)'
      /\ o \in Numbering(c)' <=> (pc'[o] = "number" /\ side'[o] = c)
      /\ o \in Numbering(c) <=> (pc[o] = "number" /\ side[o] = c)
  BY DEF Numbering
<1>2. Numbering(c) \in SUBSET Observers /\ Numbering(c)' \in SUBSET Observers  BY FlightSets
<1>3. Cardinality(Numbering(c)') = Cardinality(Numbering(c))
        + (IF o \in Numbering(c)' THEN 1 ELSE 0) - (IF o \in Numbering(c) THEN 1 ELSE 0)
  BY <1>1, <1>2, Moves
<1> QED  BY <1>1, <1>3

\* What the holder of mtx does changes nothing in them.
LEMMA FlightsKept ==
    ASSUME NEW c, side' = side,
           \A q \in Observers : pc'[q] = pc[q] \/ (pc'[q] \notin Observing /\ pc[q] \notin Observing)
    PROVE  InFlight(c)' = InFlight(c) /\ Numbering(c)' = Numbering(c)
<1>1. \A q \in Observers : /\ pc'[q] \in Observing <=> pc[q] \in Observing
                           /\ pc'[q] = "number" <=> pc[q] = "number"
  BY DEF Observing
<1> QED  BY <1>1 DEF InFlight, Numbering

LEMMA ComingKept ==
    ASSUME NEW c, NEW v, side' = side, val' = val,
           \A q \in Observers : pc'[q] = pc[q] \/ (pc'[q] \notin Observing /\ pc[q] \notin Observing)
    PROVE  Coming(c, v)' = Coming(c, v)
<1>1. \A q \in Observers : pc'[q] = "classic" <=> pc[q] = "classic"  BY DEF Observing
<1> QED  BY <1>1 DEF Coming

LEMMA BegunType ==
    ASSUME Types, NEW c \in 0..1, NEW v \in Values
    PROVE  /\ counts[c] \in Counts /\ counts[c].count \in Nat /\ counts[c].sum[v] \in Nat
           /\ Cardinality(InFlight(c)) \in Nat /\ Cardinality(Coming(c, v)) \in Nat
           /\ Cardinality(Numbering(c)) \in Nat
           /\ Begun(c) \in Nat /\ BegunOf(c, v) \in Nat
<1>1. counts[c] \in Counts  BY DEF Types
<1>2. counts[c].count \in Nat /\ counts[c].sum \in Bags  BY <1>1, CountsFacts
<1>3. counts[c].sum[v] \in Nat  BY <1>2 DEF Bags
<1>4. /\ Cardinality(InFlight(c)) \in Nat /\ Cardinality(Coming(c, v)) \in Nat
      /\ Cardinality(Numbering(c)) \in Nat
  BY FlightSets, ObserverSet
<1> QED  BY <1>1, <1>2, <1>3, <1>4 DEF Begun, BegunOf

-----------------------------------------------------------------------------
(* Who is in mtx *)

LEMMA ObserverOutside ==
    ASSUME Types, MutexInv, NEW o \in Observers, pc[o] \notin Holding, pc'[o] \notin Holding,
           \A q \in Procs \ {o} : pc'[q] = pc[q], mtx' = mtx, plan' = plan
    PROVE  MutexInv' /\ phase' = phase /\ mtx # o /\ pc'[Scraper] = pc[Scraper]
<1>1. o \in Procs /\ o # Scraper /\ o # Timer  BY ProcsAssumption DEF Procs
<1>2. pc'[o] \notin Holding /\ \A q \in Procs : q # o => pc'[q] = pc[q]  BY <1>1
<1>3. mtx # o  BY <1>1 DEF MutexInv
<1>4. phase' = phase  BY <1>2, <1>3 DEF phase, Types
<1>5. Scraper \in Procs /\ Timer \in Procs  BY DEF Procs
<1> QED  BY <1>1, <1>2, <1>3, <1>4, <1>5 DEF MutexInv

LEMMA MutexTaken ==
    ASSUME Types, MutexInv, NEW p \in Procs, mtx = None, mtx' = p, pc' = [pc EXCEPT ![p] = "swap"],
           (plan' = "write") <=> (p = Scraper), p = Timer => plan' = "reset"
    PROVE  MutexInv' /\ phase' = "swap" /\ phase = "rest"
<1>1. pc'[p] = "swap" /\ \A q \in Procs : q # p => pc'[q] = pc[q]  BY DEF Types
<1>2. "swap" \in Holding /\ "rest" \notin Holding  BY DEF Holding
<1>3. p # None  BY ProcsAssumption
<1>4. \A q \in Procs : q # None  BY ProcsAssumption
<1>5. phase' = "swap" /\ phase = "rest"  BY <1>1, <1>3 DEF phase
<1>6. \A q \in Procs : pc'[q] \in Holding <=> mtx' = q  BY <1>1, <1>2, <1>4 DEF MutexInv
<1> QED  BY <1>1, <1>2, <1>5, <1>6 DEF MutexInv, Procs

LEMMA MutexHeld ==
    ASSUME Types, MutexInv, NEW p \in Procs, pc[p] \in Holding, NEW l \in Holding, mtx' = mtx,
           plan' = plan, pc' = [pc EXCEPT ![p] = l], l \in {"merge", "sparse"} => plan # "reset"
    PROVE  MutexInv' /\ phase' = l /\ phase = pc[p] /\ mtx = p
<1>1. pc'[p] = l /\ \A q \in Procs : q # p => pc'[q] = pc[q]  BY DEF Types
<1>2. p # None  BY ProcsAssumption
<1>3. mtx = p  BY DEF MutexInv
<1>4. phase' = l /\ phase = pc[p]  BY <1>1, <1>2, <1>3 DEF phase
<1>5. \A q \in Procs : pc'[q] \in Holding <=> mtx' = q  BY <1>1, <1>3 DEF MutexInv
<1> QED  BY <1>1, <1>2, <1>3, <1>4, <1>5 DEF MutexInv, Procs

LEMMA MutexFreed ==
    ASSUME Types, MutexInv, NEW p \in Procs, pc[p] \in Holding, mtx' = None,
           plan' = plan, pc' = [pc EXCEPT ![p] = "rest"]
    PROVE  MutexInv' /\ phase' = "rest" /\ phase = pc[p] /\ mtx = p
<1>1. pc'[p] = "rest" /\ \A q \in Procs : q # p => pc'[q] = pc[q]  BY DEF Types
<1>2. "rest" \notin Holding  BY DEF Holding
<1>3. \A q \in Procs : q # None  BY ProcsAssumption
<1>4. mtx = p  BY DEF MutexInv
<1>5. phase' = "rest" /\ phase = pc[p]  BY <1>1, <1>3, <1>4 DEF phase
<1>6. \A q \in Procs : pc'[q] \in Holding <=> mtx' = q  BY <1>1, <1>2, <1>3, <1>4 DEF MutexInv
<1> QED  BY <1>1, <1>2, <1>5, <1>6 DEF MutexInv, Procs

-----------------------------------------------------------------------------
(* A step of observe or limitBuckets outside mtx *)

\* It completes its observation on the side it began on, and nothing else.
OutsideStep(o, s, u, x, y, l) ==
    /\ s = side[o] /\ u = val[o] /\ x = counts[s] /\ y = counts'[s] /\ l = pc'[o]
    /\ pc[o] \notin Holding /\ l \notin Holding /\ l # "classic"
    /\ l \in Observing => pc[o] \in Observing
    /\ pc[o] \notin Observing => y = x
    /\ \A q \in Procs \ {o} : pc'[q] = pc[q]
    /\ \A d \in 0..1 : d # s => counts'[d] = counts[d]
    /\ y.count = x.count + (IF pc[o] \in Observing THEN 1 ELSE 0) - (IF l \in Observing THEN 1 ELSE 0)
    /\ \A v \in Values : y.sum[v] = x.sum[v] + (IF pc[o] = "classic" /\ u = v THEN 1 ELSE 0)
    /\ y.thr = x.thr /\ y.lvl = x.lvl
    /\ DOMAIN x.sparse \subseteq DOMAIN y.sparse
    /\ y.num + (IF l = "number" THEN 1 ELSE 0) + Cardinality(DOMAIN x.sparse)
         = x.num + (IF pc[o] = "number" THEN 1 ELSE 0) + Cardinality(DOMAIN y.sparse)
    /\ UNCHANGED <<hot, begun, mtx, plan, awaited, left, created, side, val, historyVars>>

LEMMA OutsideKeeps ==
    ASSUME HistInv, Types', NEW o \in Observers, NEW s, NEW u, NEW x, NEW y, NEW l,
           OutsideStep(o, s, u, x, y, l)
    PROVE  HistInv'
<1>0. Types /\ MutexInv /\ CountInv /\ SparseInv /\ ReportsInv  BY DEF HistInv
<1>u. /\ hot' = hot /\ begun' = begun /\ mtx' = mtx /\ plan' = plan /\ awaited' = awaited
      /\ left' = left /\ created' = created /\ side' = side /\ val' = val /\ made' = made
      /\ forgotten' = forgotten /\ snap' = snap /\ reported' = reported
  BY DEF OutsideStep, historyVars
<1>1. MutexInv' /\ phase' = phase /\ pc'[Scraper] = pc[Scraper]
  <2>1. pc'[o] \notin Holding /\ pc[o] \notin Holding /\ \A q \in Procs \ {o} : pc'[q] = pc[q]
    BY DEF OutsideStep
  <2> QED  BY <1>0, <1>u, <2>1, ObserverOutside
<1>2. PICK h \in 0..1 : h = hot  BY <1>0 DEF Types
<1>3. PICK c \in 0..1 : c # h /\ c = 1 - h /\ h = 1 - c /\ \A d \in 0..1 : d = h \/ d = c
  <2>1. 1 - h \in 0..1  OBVIOUS
  <2> QED  BY <2>1
<1>4. /\ s = side[o] /\ u = val[o] /\ s \in 0..1 /\ u \in Values
      /\ x = counts[s] /\ y = counts'[s] /\ l = pc'[o]
  BY <1>0 DEF Types, OutsideStep
<1>x. /\ l # "classic" /\ (l \in Observing => pc[o] \in Observing)
      /\ \A q \in Procs \ {o} : pc'[q] = pc[q]
      /\ pc[o] \notin Observing => y = x
      /\ y.count = x.count + (IF pc[o] \in Observing THEN 1 ELSE 0) - (IF l \in Observing THEN 1 ELSE 0)
      /\ y.thr = x.thr /\ y.lvl = x.lvl /\ DOMAIN x.sparse \subseteq DOMAIN y.sparse
      /\ \A v \in Values : y.sum[v] = x.sum[v] + (IF pc[o] = "classic" /\ u = v THEN 1 ELSE 0)
  BY <1>4 DEF OutsideStep
<1>y. y.num + (IF l = "number" THEN 1 ELSE 0) + Cardinality(DOMAIN x.sparse)
        = x.num + (IF pc[o] = "number" THEN 1 ELSE 0) + Cardinality(DOMAIN y.sparse)
  BY <1>4 DEF OutsideStep
<1>5. ASSUME NEW d \in 0..1
      PROVE  /\ s # d => counts'[d] = counts[d]
             /\ s = d => counts'[d] = y
  BY <1>4 DEF OutsideStep
<1>6. ASSUME NEW d \in 0..1, NEW v \in Values
      PROVE  /\ Cardinality(InFlight(d))' = Cardinality(InFlight(d))
                  + (IF l \in Observing /\ s = d THEN 1 ELSE 0)
                  - (IF pc[o] \in Observing /\ s = d THEN 1 ELSE 0)
             /\ Cardinality(Coming(d, v))' = Cardinality(Coming(d, v))
                  - (IF pc[o] = "classic" /\ s = d /\ u = v THEN 1 ELSE 0)
             /\ Cardinality(Numbering(d))' = Cardinality(Numbering(d))
                  + (IF l = "number" /\ s = d THEN 1 ELSE 0)
                  - (IF pc[o] = "number" /\ s = d THEN 1 ELSE 0)
             /\ Cardinality(Coming(d, v)) \in Nat
  <2>1. /\ pc'[o] = l /\ side'[o] = s /\ val'[o] = u /\ side[o] = s /\ val[o] = u
        /\ \A q \in Observers \ {o} : pc'[q] = pc[q] /\ side'[q] = side[q] /\ val'[q] = val[q]
    BY <1>4, <1>u, <1>x DEF Procs
  <2>2. Cardinality(Coming(d, v)) \in Nat  BY <1>0, BegunType
  <2>3. Cardinality(InFlight(d))' = Cardinality(InFlight(d))
             + (IF pc'[o] \in Observing /\ side'[o] = d THEN 1 ELSE 0)
             - (IF pc[o] \in Observing /\ side[o] = d THEN 1 ELSE 0)
    BY <2>1, FlightMoves
  <2>4. Cardinality(Coming(d, v))' = Cardinality(Coming(d, v))
             + (IF pc'[o] = "classic" /\ side'[o] = d /\ val'[o] = v THEN 1 ELSE 0)
             - (IF pc[o] = "classic" /\ side[o] = d /\ val[o] = v THEN 1 ELSE 0)
    BY <2>1, ComingMoves
  <2>5. Cardinality(Numbering(d))' = Cardinality(Numbering(d))
             + (IF pc'[o] = "number" /\ side'[o] = d THEN 1 ELSE 0)
             - (IF pc[o] = "number" /\ side[o] = d THEN 1 ELSE 0)
    BY <2>1, NumberingMoves
  <2> QED  BY <1>x, <2>1, <2>2, <2>3, <2>4, <2>5
<1>7. ASSUME NEW d \in 0..1 PROVE Begun(d)' = Begun(d)
  <2>1. PICK v \in Values : TRUE  BY ValuesAssumption
  <2>2. counts[d].count \in Nat /\ Cardinality(InFlight(d)) \in Nat  BY <1>0, BegunType
  <2>3. CASE s # d  BY <1>5, <1>6, <2>2, <2>3 DEF Begun
  <2>4. CASE s = d
    <3>1. counts'[d].count = counts[d].count + (IF pc[o] \in Observing THEN 1 ELSE 0)
                                             - (IF l \in Observing THEN 1 ELSE 0)
      BY <1>4, <1>5, <1>x, <2>4
    <3> QED  BY <1>6, <2>2, <2>4, <3>1 DEF Begun
  <2> QED  BY <2>3, <2>4
<1>8. ASSUME NEW d \in 0..1, NEW v \in Values PROVE BegunOf(d, v)' = BegunOf(d, v)
  <2>1. counts[d].sum[v] \in Nat  BY <1>0, BegunType
  <2>2. CASE s # d  BY <1>5, <1>6, <2>1, <2>2 DEF BegunOf
  <2>3. CASE s = d
    <3>1. counts'[d].sum[v] = counts[d].sum[v] + (IF pc[o] = "classic" /\ u = v THEN 1 ELSE 0)
      BY <1>4, <1>5, <1>x, <2>3
    <3> QED  BY <1>6, <2>1, <2>3, <3>1 DEF BegunOf
  <2> QED  BY <2>2, <2>3
<1>9. phase # "cool" => InFlight(c)' = {} /\ counts'[c] = counts[c]
  <2>1. SUFFICES ASSUME phase # "cool" PROVE InFlight(c)' = {} /\ counts'[c] = counts[c]  OBVIOUS
  <2>2. InFlight(c) = {}  BY <1>0, <1>2, <1>3, <2>1 DEF CountInv, ColdInv
  <2>3. pc[o] \notin Observing \/ side[o] # c  BY <2>2 DEF InFlight
  <2>4. \A q \in Observers : pc'[q] \in Observing => pc[q] \in Observing
    BY <1>4, <1>x DEF Procs
  <2>5. InFlight(c)' = {}  BY <1>u, <2>2, <2>4 DEF InFlight
  <2>6. counts'[c] = counts[c]  BY <1>4, <1>5, <1>x, <2>3
  <2> QED  BY <2>5, <2>6
<1>10. CountInv'
  <2>1. HotInv(h) /\ ColdInv(c)  BY <1>0, <1>2, <1>3 DEF CountInv
  <2>2. HotInv(h)'  BY <1>1, <1>7, <1>u, <2>1 DEF HotInv, OnBothSides
  <2>3. ASSUME NEW v \in Values PROVE HotSumInv(h, v)'
    <3>1. HotSumInv(h, v)  BY <1>0, <1>2 DEF CountInv
    <3>2. BegunOf(h, v)' = BegunOf(h, v) /\ BegunOf(1 - h, v)' = BegunOf(1 - h, v)
      BY <1>3, <1>8
    <3> QED  BY <1>1, <1>u, <3>1, <3>2 DEF HotSumInv, OnBothSides
  <2>4. ColdInv(c)'
    <3>1. Repeated(mtx)' = Repeated(mtx)  BY <1>u DEF Repeated
    <3> QED  BY <1>1, <1>7, <1>9, <1>u, <2>1, <3>1 DEF ColdInv
  <2> QED  BY <1>2, <1>3, <1>u, <2>2, <2>3, <2>4 DEF CountInv
<1>11. SparseInv'
  <2>1. ASSUME NEW d \in 0..1 PROVE NumberInv(d)'
    <3>1. NumberInv(d)  BY <1>0 DEF SparseInv
    <3>2. PICK v \in Values : TRUE  BY ValuesAssumption
    <3>3. Cardinality(Numbering(d))' = Cardinality(Numbering(d))
            + (IF l = "number" /\ s = d THEN 1 ELSE 0)
            - (IF pc[o] = "number" /\ s = d THEN 1 ELSE 0)
      BY <1>6, <1>x
    <3>4. counts[d] \in Counts /\ counts[d].num \in Nat /\ Cardinality(DOMAIN counts[d].sparse) \in Nat
          /\ y.num \in Nat /\ Cardinality(DOMAIN y.sparse) \in Nat
      <4>1. counts[d] \in Counts /\ y \in Counts  BY <1>0, <1>4 DEF Types
      <4> QED  BY <4>1, CountsFacts, BucketFacts
    <3>5. Cardinality(Numbering(d)) \in Nat  BY FlightSets, ObserverSet
    <3>6. CASE s # d
      <4>1. counts'[d] = counts[d]  BY <1>5, <3>6
      <4> QED  BY <3>1, <3>3, <3>5, <3>6, <4>1 DEF NumberInv
    <3>7. CASE s = d
      <4>1. counts'[d] = y  BY <1>5, <3>7
      <4>2. y.num + (IF l = "number" THEN 1 ELSE 0) + Cardinality(DOMAIN counts[d].sparse)
              = counts[d].num + (IF pc[o] = "number" THEN 1 ELSE 0) + Cardinality(DOMAIN y.sparse)
        BY <1>4, <1>y, <3>7
      <4> DEFINE A == Cardinality(DOMAIN counts[d].sparse)
                 B == Cardinality(DOMAIN y.sparse)
                 N == Cardinality(Numbering(d))
                 M == counts[d].num
                 m == y.num
      <4>3. M + N = A /\ A \in Nat /\ B \in Nat /\ N \in Nat /\ M \in Nat /\ m \in Nat
        BY <3>1, <3>4, <3>5 DEF NumberInv
      <4>4. N' = N + (IF l = "number" THEN 1 ELSE 0) - (IF pc[o] = "number" THEN 1 ELSE 0)
        BY <3>3, <3>7
      <4>5. m + (IF l = "number" THEN 1 ELSE 0) + A = M + (IF pc[o] = "number" THEN 1 ELSE 0) + B
        BY <4>2
      <4>6. m + N' = B
        <5> HIDE DEF A, B, N, M, m
        <5> QED  BY <4>3, <4>4, <4>5
      <4> QED  BY <4>1, <4>6 DEF NumberInv
    <3> QED  BY <3>6, <3>7
  <2>2. LeftInv(c) /\ ResolutionInv(h, c)  BY <1>0, <1>2, <1>3 DEF SparseInv
  <2>3. \A d \in 0..1 : /\ counts'[d].thr = counts[d].thr /\ counts'[d].lvl = counts[d].lvl
                        /\ DOMAIN counts[d].sparse \subseteq DOMAIN counts'[d].sparse
    BY <1>4, <1>5, <1>x
  <2>4. LeftInv(c)'  BY <1>1, <1>9, <1>u, <2>2, <2>3 DEF LeftInv
  <2>5. ResolutionInv(h, c)'  BY <1>1, <1>u, <2>2, <2>3 DEF ResolutionInv
  <2> QED  BY <1>2, <1>3, <1>u, <2>1, <2>4, <2>5 DEF SparseInv, ResolutionInv
<1>12. ReportsInv'
  <2>1. ASSUME NEW v \in Values PROVE ReportInv(c, v)'
    <3>1. ReportInv(c, v)  BY <1>0, <1>2, <1>3 DEF ReportsInv
    <3> QED  BY <1>1, <1>8, <1>u, <3>1 DEF ReportInv, OnBothSides
  <2> QED  BY <1>0, <1>2, <1>3, <1>u, <2>1 DEF ReportsInv
<1> QED  BY <1>1, <1>10, <1>11, <1>12 DEF HistInv

LEMMA ClassicKeeps ==
    ASSUME HistInv, NEW o \in Observers, Classic(o)
    PROVE  HistInv'
<1>1. Types /\ MutexInv  BY DEF HistInv
<1>2. PICK s \in 0..1, u \in Values : s = side[o] /\ u = val[o]  BY <1>1 DEF Types
<1>3. PICK x \in Counts : x = counts[s]  BY <1>1 DEF Types
<1>4. PICK y : y = ObserveClassic(x, u)  OBVIOUS
<1>5. /\ y \in Counts /\ y.count = x.count /\ y.sum = [x.sum EXCEPT ![u] = @ + 1] /\ y.num = x.num
      /\ y.thr = x.thr /\ y.lvl = x.lvl /\ y.sparse = x.sparse
  BY <1>1, <1>2, <1>3, <1>4, ClassicFacts
<1>6. counts' = [counts EXCEPT ![s] = y]  BY <1>2, <1>3, <1>4 DEF Classic, OnCounts
<1>7. counts'[s] = y /\ \A d \in 0..1 : d # s => counts'[d] = counts[d]  BY <1>1, <1>6 DEF Types
<1>8. PICK l : l = IF DoSparse(u) THEN "look" ELSE "count"  OBVIOUS
<1>9. pc' = [pc EXCEPT ![o] = l]  BY <1>2, <1>3, <1>8 DEF Classic, Goto
<1>10. l \in {"look", "count"}  BY <1>8
<1>11. pc[o] = "classic" /\ pc'[o] = l /\ \A q \in Procs \ {o} : pc'[q] = pc[q]
  BY <1>1, <1>9 DEF Classic, Types, Procs
<1>12. /\ hot' = hot /\ begun' = begun /\ mtx' = mtx /\ plan' = plan /\ awaited' = awaited
       /\ left' = left /\ created' = created /\ side' = side /\ val' = val /\ made' = made
       /\ forgotten' = forgotten /\ snap' = snap /\ reported' = reported /\ smallest' = smallest
       /\ elapsed' = elapsed
  BY DEF Classic, hotVars, mtxVars, observerVars, historyVars
<1>13. scheduled' \in BOOLEAN /\ seen' \in [Observers -> [lvl : 0..MaxLevel, thr : Int]]
  BY <1>1 DEF Classic, mtxVars, observerVars, Types
<1>14. Types'
  <2>1. counts' \in [0..1 -> Counts]  BY <1>1, <1>5, <1>6 DEF Types
  <2>2. pc' \in [Procs -> Labels]  BY <1>1, <1>9, <1>10 DEF Types, Labels
  <2> QED  BY <1>1, <1>12, <1>13, <2>1, <2>2 DEF Types
<1>15. OutsideStep(o, s, u, x, y, l)
  <2>1. /\ pc[o] \notin Holding /\ l \notin Holding /\ l # "classic"
        /\ l \in Observing => pc[o] \in Observing
        /\ pc[o] \notin Observing => y = x
    BY <1>4, <1>10, <1>11 DEF Holding, Observing
  <2>2. y.count = x.count + (IF pc[o] \in Observing THEN 1 ELSE 0) - (IF l \in Observing THEN 1 ELSE 0)
    <3>1. x.count \in Nat  BY CountsFacts
    <3> QED  BY <1>5, <1>10, <1>11, <3>1 DEF Observing
  <2>3. \A v \in Values : y.sum[v] = x.sum[v] + (IF pc[o] = "classic" /\ u = v THEN 1 ELSE 0)
    <3>1. x.sum \in [Values -> Nat]  BY CountsFacts DEF Bags
    <3> QED  BY <1>5, <1>11, <3>1
  <2>4. /\ DOMAIN x.sparse \subseteq DOMAIN y.sparse
        /\ y.num + (IF l = "number" THEN 1 ELSE 0) + Cardinality(DOMAIN x.sparse)
             = x.num + (IF pc[o] = "number" THEN 1 ELSE 0) + Cardinality(DOMAIN y.sparse)
    <3>1. x.num \in Nat /\ Cardinality(DOMAIN x.sparse) \in Nat  BY CountsFacts, BucketFacts
    <3> QED  BY <1>5, <1>10, <1>11, <3>1
  <2> QED  BY <1>2, <1>3, <1>5, <1>7, <1>11, <1>12, <2>1, <2>2, <2>3, <2>4 DEF OutsideStep, historyVars
<1> QED  BY <1>14, <1>15, OutsideKeeps

LEMMA LookKeeps ==
    ASSUME HistInv, NEW o \in Observers, Look(o)
    PROVE  HistInv'
<1>1. Types /\ MutexInv  BY DEF HistInv
<1>2. PICK s \in 0..1, u \in Values : s = side[o] /\ u = val[o]  BY <1>1 DEF Types
<1>3. PICK x \in Counts : x = counts[s]  BY <1>1 DEF Types
<1>4. PICK y : y = x  OBVIOUS
<1>5. /\ y \in Counts /\ y.count = x.count /\ y.sum = x.sum /\ y.num = x.num
      /\ y.thr = x.thr /\ y.lvl = x.lvl /\ y.sparse = x.sparse
  BY <1>1, <1>2, <1>3, <1>4
<1>6. counts' = [counts EXCEPT ![s] = y]  BY <1>2, <1>3, <1>4, <1>1 DEF Look, OnCounts, hotVars, Types
<1>7. counts'[s] = y /\ \A d \in 0..1 : d # s => counts'[d] = counts[d]  BY <1>1, <1>6 DEF Types
<1>8. PICK l : l = "place"  OBVIOUS
<1>9. pc' = [pc EXCEPT ![o] = l]  BY <1>2, <1>3, <1>8 DEF Look, Goto
<1>10. l \in {"place"}  BY <1>8
<1>11. pc[o] = "look" /\ pc'[o] = l /\ \A q \in Procs \ {o} : pc'[q] = pc[q]
  BY <1>1, <1>9 DEF Look, Types, Procs
<1>12. /\ hot' = hot /\ begun' = begun /\ mtx' = mtx /\ plan' = plan /\ awaited' = awaited
       /\ left' = left /\ created' = created /\ side' = side /\ val' = val /\ made' = made
       /\ forgotten' = forgotten /\ snap' = snap /\ reported' = reported /\ smallest' = smallest
       /\ elapsed' = elapsed
  BY DEF Look, hotVars, mtxVars, observerVars, historyVars
<1>13. scheduled' \in BOOLEAN /\ seen' \in [Observers -> [lvl : 0..MaxLevel, thr : Int]]
  <2>1. seen' = [seen EXCEPT ![o] = [lvl |-> x.lvl, thr |-> x.thr]]  BY <1>2, <1>3 DEF Look
  <2>2. x.lvl \in 0..MaxLevel /\ x.thr \in Int  BY CountsFacts
  <2> QED  BY <1>1, <2>1, <2>2 DEF Look, mtxVars, Types
<1>14. Types'
  <2>1. counts' \in [0..1 -> Counts]  BY <1>1, <1>5, <1>6 DEF Types
  <2>2. pc' \in [Procs -> Labels]  BY <1>1, <1>9, <1>10 DEF Types, Labels
  <2> QED  BY <1>1, <1>12, <1>13, <2>1, <2>2 DEF Types
<1>15. OutsideStep(o, s, u, x, y, l)
  <2>1. /\ pc[o] \notin Holding /\ l \notin Holding /\ l # "classic"
        /\ l \in Observing => pc[o] \in Observing
        /\ pc[o] \notin Observing => y = x
    BY <1>4, <1>10, <1>11 DEF Holding, Observing
  <2>2. y.count = x.count + (IF pc[o] \in Observing THEN 1 ELSE 0) - (IF l \in Observing THEN 1 ELSE 0)
    <3>1. x.count \in Nat  BY CountsFacts
    <3> QED  BY <1>5, <1>10, <1>11, <3>1 DEF Observing
  <2>3. \A v \in Values : y.sum[v] = x.sum[v] + (IF pc[o] = "classic" /\ u = v THEN 1 ELSE 0)
    <3>1. x.sum \in [Values -> Nat]  BY CountsFacts DEF Bags
    <3> QED  BY <1>5, <1>11, <3>1
  <2>4. /\ DOMAIN x.sparse \subseteq DOMAIN y.sparse
        /\ y.num + (IF l = "number" THEN 1 ELSE 0) + Cardinality(DOMAIN x.sparse)
             = x.num + (IF pc[o] = "number" THEN 1 ELSE 0) + Cardinality(DOMAIN y.sparse)
    <3>1. x.num \in Nat /\ Cardinality(DOMAIN x.sparse) \in Nat  BY CountsFacts, BucketFacts
    <3> QED  BY <1>5, <1>10, <1>11, <3>1
  <2> QED  BY <1>2, <1>3, <1>5, <1>7, <1>11, <1>12, <2>1, <2>2, <2>3, <2>4 DEF OutsideStep, historyVars
<1> QED  BY <1>14, <1>15, OutsideKeeps

LEMMA PlaceKeeps ==
    ASSUME HistInv, NEW o \in Observers, Place(o)
    PROVE  HistInv'
<1>1. Types /\ MutexInv  BY DEF HistInv
<1>2. PICK s \in 0..1, u \in Values : s = side[o] /\ u = val[o]  BY <1>1 DEF Types
<1>3. PICK x \in Counts : x = counts[s]  BY <1>1 DEF Types
<1>4. PICK w \in [lvl : 0..MaxLevel, thr : Int] : w = seen[o]  BY <1>1 DEF Types
<1>5. w.lvl \in Nat /\ SparseKey(u, w.lvl) \in SparseKeys
  <2>1. w.lvl \in Nat  BY OptionsAssumption
  <2> QED  BY <2>1, KeyType
<1>6. PICK y : y = ObservePlace(x, u, w)  OBVIOUS
<1>7. /\ y \in Counts /\ y.count = x.count /\ y.sum = x.sum /\ y.num = x.num
      /\ y.thr = x.thr /\ y.lvl = x.lvl 
      /\ y.sparse = IF InZero(u, w.thr) THEN x.sparse
                                         ELSE AddToBucket(x.sparse, SparseKey(u, w.lvl), 1)
  BY <1>6, PlaceFacts
<1>8. counts' = [counts EXCEPT ![s] = y]  BY <1>2, <1>3, <1>6, <1>4 DEF Place, OnCounts
<1>9. counts'[s] = y /\ \A d \in 0..1 : d # s => counts'[d] = counts[d]  BY <1>1, <1>8 DEF Types
<1>10. PICK l : l = IF /\ ~InZero(u, w.thr)
                 /\ Creates(x.sparse, SparseKey(u, w.lvl)) THEN "number" ELSE "count"  OBVIOUS
<1>11. pc' = [pc EXCEPT ![o] = l]  BY <1>2, <1>3, <1>10, <1>4 DEF Place, Goto
<1>12. l \in {"number", "count"}  BY <1>10
<1>13. pc[o] = "place" /\ pc'[o] = l /\ \A q \in Procs \ {o} : pc'[q] = pc[q]
  BY <1>1, <1>11 DEF Place, Types, Procs
<1>14. /\ hot' = hot /\ begun' = begun /\ mtx' = mtx /\ plan' = plan /\ awaited' = awaited
       /\ left' = left /\ created' = created /\ side' = side /\ val' = val /\ made' = made
       /\ forgotten' = forgotten /\ snap' = snap /\ reported' = reported /\ smallest' = smallest
       /\ elapsed' = elapsed
  BY DEF Place, hotVars, mtxVars, observerVars, historyVars
<1>15. scheduled' \in BOOLEAN /\ seen' \in [Observers -> [lvl : 0..MaxLevel, thr : Int]]
  BY <1>1 DEF Place, mtxVars, observerVars, Types
<1>16. Types'
  <2>1. counts' \in [0..1 -> Counts]  BY <1>1, <1>7, <1>8 DEF Types
  <2>2. pc' \in [Procs -> Labels]  BY <1>1, <1>11, <1>12 DEF Types, Labels
  <2> QED  BY <1>1, <1>14, <1>15, <2>1, <2>2 DEF Types
<1>17. OutsideStep(o, s, u, x, y, l)
  <2>1. /\ pc[o] \notin Holding /\ l \notin Holding /\ l # "classic"
        /\ l \in Observing => pc[o] \in Observing
        /\ pc[o] \notin Observing => y = x
    BY <1>6, <1>12, <1>13 DEF Holding, Observing
  <2>2. y.count = x.count + (IF pc[o] \in Observing THEN 1 ELSE 0) - (IF l \in Observing THEN 1 ELSE 0)
    <3>1. x.count \in Nat  BY CountsFacts
    <3> QED  BY <1>7, <1>12, <1>13, <3>1 DEF Observing
  <2>3. \A v \in Values : y.sum[v] = x.sum[v] + (IF pc[o] = "classic" /\ u = v THEN 1 ELSE 0)
    <3>1. x.sum \in [Values -> Nat]  BY CountsFacts DEF Bags
    <3> QED  BY <1>7, <1>13, <3>1
  <2>4. /\ DOMAIN x.sparse \subseteq DOMAIN y.sparse
        /\ y.num + (IF l = "number" THEN 1 ELSE 0) + Cardinality(DOMAIN x.sparse)
             = x.num + (IF pc[o] = "number" THEN 1 ELSE 0) + Cardinality(DOMAIN y.sparse)
    <3>1. /\ x.num \in Nat /\ Cardinality(DOMAIN x.sparse) \in Nat /\ x.sparse \in Buckets
      BY CountsFacts, BucketFacts
    <3>2. CASE InZero(u, w.thr)  BY <1>7, <1>10, <1>13, <3>1, <3>2
    <3>3. CASE ~InZero(u, w.thr)
      <4> DEFINE k == SparseKey(u, w.lvl)
      <4>1. y.sparse = AddToBucket(x.sparse, k, 1)  BY <1>7, <3>3
      <4>2. k \in SparseKeys /\ 1 \in Nat /\ (l = IF Creates(x.sparse, k) THEN "number" ELSE "count")
        BY <1>10, <1>5, <3>3
      <4> HIDE DEF k
      <4>3. /\ DOMAIN AddToBucket(x.sparse, k, 1) = DOMAIN x.sparse \cup {k}
            /\ Cardinality(DOMAIN x.sparse \cup {k}) =
                 Cardinality(DOMAIN x.sparse) + (IF Creates(x.sparse, k) THEN 1 ELSE 0)
        BY <3>1, <4>2, AddType
      <4>4. Cardinality(DOMAIN y.sparse) =
                 Cardinality(DOMAIN x.sparse) + (IF Creates(x.sparse, k) THEN 1 ELSE 0)
        BY <4>1, <4>3
      <4>5. DOMAIN x.sparse \subseteq DOMAIN y.sparse  BY <4>1, <4>3
      <4>6. y.num = x.num /\ pc[o] # "number"  BY <1>7, <1>13
      <4>7. CASE Creates(x.sparse, k)
        <5>1. l = "number" /\ Cardinality(DOMAIN y.sparse) = Cardinality(DOMAIN x.sparse) + 1
          BY <4>2, <4>4, <4>7
        <5> QED  BY <3>1, <4>5, <4>6, <5>1
      <4>8. CASE ~Creates(x.sparse, k)
        <5>1. l = "count" /\ Cardinality(DOMAIN y.sparse) = Cardinality(DOMAIN x.sparse)
          BY <3>1, <4>2, <4>4, <4>8
        <5> QED  BY <3>1, <4>5, <4>6, <5>1
      <4> QED  BY <4>7, <4>8
    <3> QED  BY <3>2, <3>3
  <2> QED  BY <1>2, <1>3, <1>7, <1>9, <1>13, <1>14, <2>1, <2>2, <2>3, <2>4 DEF OutsideStep, historyVars
<1> QED  BY <1>16, <1>17, OutsideKeeps

LEMMA NumberKeeps ==
    ASSUME HistInv, NEW o \in Observers, Number(o)
    PROVE  HistInv'
<1>1. Types /\ MutexInv  BY DEF HistInv
<1>2. PICK s \in 0..1, u \in Values : s = side[o] /\ u = val[o]  BY <1>1 DEF Types
<1>3. PICK x \in Counts : x = counts[s]  BY <1>1 DEF Types
<1>4. PICK y : y = [x EXCEPT !.num = @ + 1]  OBVIOUS
<1>5. /\ y \in Counts /\ y.count = x.count /\ y.sum = x.sum /\ y.num = x.num + 1
      /\ y.thr = x.thr /\ y.lvl = x.lvl /\ y.sparse = x.sparse
  BY <1>1, <1>2, <1>3, <1>4, NumFacts
<1>6. counts' = [counts EXCEPT ![s] = y]  BY <1>2, <1>3, <1>4 DEF Number, OnCounts
<1>7. counts'[s] = y /\ \A d \in 0..1 : d # s => counts'[d] = counts[d]  BY <1>1, <1>6 DEF Types
<1>8. PICK l : l = "count"  OBVIOUS
<1>9. pc' = [pc EXCEPT ![o] = l]  BY <1>2, <1>3, <1>8 DEF Number, Goto
<1>10. l \in {"count"}  BY <1>8
<1>11. pc[o] = "number" /\ pc'[o] = l /\ \A q \in Procs \ {o} : pc'[q] = pc[q]
  BY <1>1, <1>9 DEF Number, Types, Procs
<1>12. /\ hot' = hot /\ begun' = begun /\ mtx' = mtx /\ plan' = plan /\ awaited' = awaited
       /\ left' = left /\ created' = created /\ side' = side /\ val' = val /\ made' = made
       /\ forgotten' = forgotten /\ snap' = snap /\ reported' = reported /\ smallest' = smallest
       /\ elapsed' = elapsed
  BY DEF Number, hotVars, mtxVars, observerVars, historyVars
<1>13. scheduled' \in BOOLEAN /\ seen' \in [Observers -> [lvl : 0..MaxLevel, thr : Int]]
  BY <1>1 DEF Number, mtxVars, observerVars, Types
<1>14. Types'
  <2>1. counts' \in [0..1 -> Counts]  BY <1>1, <1>5, <1>6 DEF Types
  <2>2. pc' \in [Procs -> Labels]  BY <1>1, <1>9, <1>10 DEF Types, Labels
  <2> QED  BY <1>1, <1>12, <1>13, <2>1, <2>2 DEF Types
<1>15. OutsideStep(o, s, u, x, y, l)
  <2>1. /\ pc[o] \notin Holding /\ l \notin Holding /\ l # "classic"
        /\ l \in Observing => pc[o] \in Observing
        /\ pc[o] \notin Observing => y = x
    BY <1>4, <1>10, <1>11 DEF Holding, Observing
  <2>2. y.count = x.count + (IF pc[o] \in Observing THEN 1 ELSE 0) - (IF l \in Observing THEN 1 ELSE 0)
    <3>1. x.count \in Nat  BY CountsFacts
    <3> QED  BY <1>5, <1>10, <1>11, <3>1 DEF Observing
  <2>3. \A v \in Values : y.sum[v] = x.sum[v] + (IF pc[o] = "classic" /\ u = v THEN 1 ELSE 0)
    <3>1. x.sum \in [Values -> Nat]  BY CountsFacts DEF Bags
    <3> QED  BY <1>5, <1>11, <3>1
  <2>4. /\ DOMAIN x.sparse \subseteq DOMAIN y.sparse
        /\ y.num + (IF l = "number" THEN 1 ELSE 0) + Cardinality(DOMAIN x.sparse)
             = x.num + (IF pc[o] = "number" THEN 1 ELSE 0) + Cardinality(DOMAIN y.sparse)
    <3>1. x.num \in Nat /\ Cardinality(DOMAIN x.sparse) \in Nat  BY CountsFacts, BucketFacts
    <3> QED  BY <1>5, <1>10, <1>11, <3>1
  <2> QED  BY <1>2, <1>3, <1>5, <1>7, <1>11, <1>12, <2>1, <2>2, <2>3, <2>4 DEF OutsideStep, historyVars
<1> QED  BY <1>14, <1>15, OutsideKeeps

LEMMA CountKeeps ==
    ASSUME HistInv, NEW o \in Observers, Count(o)
    PROVE  HistInv'
<1>1. Types /\ MutexInv  BY DEF HistInv
<1>2. PICK s \in 0..1, u \in Values : s = side[o] /\ u = val[o]  BY <1>1 DEF Types
<1>3. PICK x \in Counts : x = counts[s]  BY <1>1 DEF Types
<1>4. PICK y : y = [x EXCEPT !.count = @ + 1]  OBVIOUS
<1>5. /\ y \in Counts /\ y.count = x.count + 1 /\ y.sum = x.sum /\ y.num = x.num
      /\ y.thr = x.thr /\ y.lvl = x.lvl /\ y.sparse = x.sparse
  BY <1>1, <1>2, <1>3, <1>4, CountFacts
<1>6. counts' = [counts EXCEPT ![s] = y]  BY <1>2, <1>3, <1>4 DEF Count, OnCounts
<1>7. counts'[s] = y /\ \A d \in 0..1 : d # s => counts'[d] = counts[d]  BY <1>1, <1>6 DEF Types
<1>8. PICK l : l = IF DoSparse(u) THEN "limit" ELSE "rest"  OBVIOUS
<1>9. pc' = [pc EXCEPT ![o] = l]  BY <1>2, <1>3, <1>8 DEF Count, Goto
<1>10. l \in {"limit", "rest"}  BY <1>8
<1>11. pc[o] = "count" /\ pc'[o] = l /\ \A q \in Procs \ {o} : pc'[q] = pc[q]
  BY <1>1, <1>9 DEF Count, Types, Procs
<1>12. /\ hot' = hot /\ begun' = begun /\ mtx' = mtx /\ plan' = plan /\ awaited' = awaited
       /\ left' = left /\ created' = created /\ side' = side /\ val' = val /\ made' = made
       /\ forgotten' = forgotten /\ snap' = snap /\ reported' = reported /\ smallest' = smallest
       /\ elapsed' = elapsed
  BY DEF Count, hotVars, mtxVars, observerVars, historyVars
<1>13. scheduled' \in BOOLEAN /\ seen' \in [Observers -> [lvl : 0..MaxLevel, thr : Int]]
  BY <1>1 DEF Count, mtxVars, observerVars, Types
<1>14. Types'
  <2>1. counts' \in [0..1 -> Counts]  BY <1>1, <1>5, <1>6 DEF Types
  <2>2. pc' \in [Procs -> Labels]  BY <1>1, <1>9, <1>10 DEF Types, Labels
  <2> QED  BY <1>1, <1>12, <1>13, <2>1, <2>2 DEF Types
<1>15. OutsideStep(o, s, u, x, y, l)
  <2>1. /\ pc[o] \notin Holding /\ l \notin Holding /\ l # "classic"
        /\ l \in Observing => pc[o] \in Observing
        /\ pc[o] \notin Observing => y = x
    BY <1>4, <1>10, <1>11 DEF Holding, Observing
  <2>2. y.count = x.count + (IF pc[o] \in Observing THEN 1 ELSE 0) - (IF l \in Observing THEN 1 ELSE 0)
    <3>1. x.count \in Nat  BY CountsFacts
    <3> QED  BY <1>5, <1>10, <1>11, <3>1 DEF Observing
  <2>3. \A v \in Values : y.sum[v] = x.sum[v] + (IF pc[o] = "classic" /\ u = v THEN 1 ELSE 0)
    <3>1. x.sum \in [Values -> Nat]  BY CountsFacts DEF Bags
    <3> QED  BY <1>5, <1>11, <3>1
  <2>4. /\ DOMAIN x.sparse \subseteq DOMAIN y.sparse
        /\ y.num + (IF l = "number" THEN 1 ELSE 0) + Cardinality(DOMAIN x.sparse)
             = x.num + (IF pc[o] = "number" THEN 1 ELSE 0) + Cardinality(DOMAIN y.sparse)
    <3>1. x.num \in Nat /\ Cardinality(DOMAIN x.sparse) \in Nat  BY CountsFacts, BucketFacts
    <3> QED  BY <1>5, <1>10, <1>11, <3>1
  <2> QED  BY <1>2, <1>3, <1>5, <1>7, <1>11, <1>12, <2>1, <2>2, <2>3, <2>4 DEF OutsideStep, historyVars
<1> QED  BY <1>14, <1>15, OutsideKeeps

LEMMA LimitCheckKeeps ==
    ASSUME HistInv, NEW o \in Observers, LimitCheck(o)
    PROVE  HistInv'
<1>1. Types /\ MutexInv  BY DEF HistInv
<1>2. PICK s \in 0..1, u \in Values : s = side[o] /\ u = val[o]  BY <1>1 DEF Types
<1>3. PICK x \in Counts : x = counts[s]  BY <1>1 DEF Types
<1>4. PICK y : y = x  OBVIOUS
<1>5. /\ y \in Counts /\ y.count = x.count /\ y.sum = x.sum /\ y.num = x.num
      /\ y.thr = x.thr /\ y.lvl = x.lvl /\ y.sparse = x.sparse
  BY <1>1, <1>2, <1>3, <1>4
<1>6. counts' = [counts EXCEPT ![s] = y]  BY <1>2, <1>3, <1>4, <1>1 DEF LimitCheck, OnCounts, hotVars, Types
<1>7. counts'[s] = y /\ \A d \in 0..1 : d # s => counts'[d] = counts[d]  BY <1>1, <1>6 DEF Types
<1>8. PICK l : l = IF WithinLimit(s) THEN "rest" ELSE "lock"  OBVIOUS
<1>9. pc' = [pc EXCEPT ![o] = l]  BY <1>2, <1>3, <1>8 DEF LimitCheck, Goto
<1>10. l \in {"rest", "lock"}  BY <1>8
<1>11. pc[o] = "limit" /\ pc'[o] = l /\ \A q \in Procs \ {o} : pc'[q] = pc[q]
  BY <1>1, <1>9 DEF LimitCheck, Types, Procs
<1>12. /\ hot' = hot /\ begun' = begun /\ mtx' = mtx /\ plan' = plan /\ awaited' = awaited
       /\ left' = left /\ created' = created /\ side' = side /\ val' = val /\ made' = made
       /\ forgotten' = forgotten /\ snap' = snap /\ reported' = reported /\ smallest' = smallest
       /\ elapsed' = elapsed
  BY DEF LimitCheck, hotVars, mtxVars, observerVars, historyVars
<1>13. scheduled' \in BOOLEAN /\ seen' \in [Observers -> [lvl : 0..MaxLevel, thr : Int]]
  BY <1>1 DEF LimitCheck, mtxVars, observerVars, Types
<1>14. Types'
  <2>1. counts' \in [0..1 -> Counts]  BY <1>1, <1>5, <1>6 DEF Types
  <2>2. pc' \in [Procs -> Labels]  BY <1>1, <1>9, <1>10 DEF Types, Labels
  <2> QED  BY <1>1, <1>12, <1>13, <2>1, <2>2 DEF Types
<1>15. OutsideStep(o, s, u, x, y, l)
  <2>1. /\ pc[o] \notin Holding /\ l \notin Holding /\ l # "classic"
        /\ l \in Observing => pc[o] \in Observing
        /\ pc[o] \notin Observing => y = x
    BY <1>4, <1>10, <1>11 DEF Holding, Observing
  <2>2. y.count = x.count + (IF pc[o] \in Observing THEN 1 ELSE 0) - (IF l \in Observing THEN 1 ELSE 0)
    <3>1. x.count \in Nat  BY CountsFacts
    <3> QED  BY <1>5, <1>10, <1>11, <3>1 DEF Observing
  <2>3. \A v \in Values : y.sum[v] = x.sum[v] + (IF pc[o] = "classic" /\ u = v THEN 1 ELSE 0)
    <3>1. x.sum \in [Values -> Nat]  BY CountsFacts DEF Bags
    <3> QED  BY <1>5, <1>11, <3>1
  <2>4. /\ DOMAIN x.sparse \subseteq DOMAIN y.sparse
        /\ y.num + (IF l = "number" THEN 1 ELSE 0) + Cardinality(DOMAIN x.sparse)
             = x.num + (IF pc[o] = "number" THEN 1 ELSE 0) + Cardinality(DOMAIN y.sparse)
    <3>1. x.num \in Nat /\ Cardinality(DOMAIN x.sparse) \in Nat  BY CountsFacts, BucketFacts
    <3> QED  BY <1>5, <1>10, <1>11, <3>1
  <2> QED  BY <1>2, <1>3, <1>5, <1>7, <1>11, <1>12, <2>1, <2>2, <2>3, <2>4 DEF OutsideStep, historyVars
<1> QED  BY <1>14, <1>15, OutsideKeeps

LEMMA LimitKeptKeeps ==
    ASSUME HistInv, NEW o \in Observers, LimitKept(o)
    PROVE  HistInv'
<1>1. Types /\ MutexInv  BY DEF HistInv
<1>2. PICK s \in 0..1, u \in Values : s = side[o] /\ u = val[o]  BY <1>1 DEF Types
<1>3. PICK x \in Counts : x = counts[s]  BY <1>1 DEF Types
<1>4. PICK y : y = x  OBVIOUS
<1>5. /\ y \in Counts /\ y.count = x.count /\ y.sum = x.sum /\ y.num = x.num
      /\ y.thr = x.thr /\ y.lvl = x.lvl /\ y.sparse = x.sparse
  BY <1>1, <1>2, <1>3, <1>4
<1>6. counts' = [counts EXCEPT ![s] = y]  BY <1>2, <1>3, <1>4, <1>1 DEF LimitKept, OnCounts, hotVars, Types
<1>7. counts'[s] = y /\ \A d \in 0..1 : d # s => counts'[d] = counts[d]  BY <1>1, <1>6 DEF Types
<1>8. PICK l : l = "rest"  OBVIOUS
<1>9. pc' = [pc EXCEPT ![o] = l]  BY <1>2, <1>3, <1>8 DEF LimitKept, Goto
<1>10. l \in {"rest"}  BY <1>8
<1>11. pc[o] = "lock" /\ pc'[o] = l /\ \A q \in Procs \ {o} : pc'[q] = pc[q]
  BY <1>1, <1>9 DEF LimitKept, Types, Procs
<1>12. /\ hot' = hot /\ begun' = begun /\ mtx' = mtx /\ plan' = plan /\ awaited' = awaited
       /\ left' = left /\ created' = created /\ side' = side /\ val' = val /\ made' = made
       /\ forgotten' = forgotten /\ snap' = snap /\ reported' = reported /\ smallest' = smallest
       /\ elapsed' = elapsed
  BY DEF LimitKept, hotVars, mtxVars, observerVars, historyVars
<1>13. scheduled' \in BOOLEAN /\ seen' \in [Observers -> [lvl : 0..MaxLevel, thr : Int]]
  BY <1>1 DEF LimitKept, mtxVars, observerVars, Types
<1>14. Types'
  <2>1. counts' \in [0..1 -> Counts]  BY <1>1, <1>5, <1>6 DEF Types
  <2>2. pc' \in [Procs -> Labels]  BY <1>1, <1>9, <1>10 DEF Types, Labels
  <2> QED  BY <1>1, <1>12, <1>13, <2>1, <2>2 DEF Types
<1>15. OutsideStep(o, s, u, x, y, l)
  <2>1. /\ pc[o] \notin Holding /\ l \notin Holding /\ l # "classic"
        /\ l \in Observing => pc[o] \in Observing
        /\ pc[o] \notin Observing => y = x
    BY <1>4, <1>10, <1>11 DEF Holding, Observing
  <2>2. y.count = x.count + (IF pc[o] \in Observing THEN 1 ELSE 0) - (IF l \in Observing THEN 1 ELSE 0)
    <3>1. x.count \in Nat  BY CountsFacts
    <3> QED  BY <1>5, <1>10, <1>11, <3>1 DEF Observing
  <2>3. \A v \in Values : y.sum[v] = x.sum[v] + (IF pc[o] = "classic" /\ u = v THEN 1 ELSE 0)
    <3>1. x.sum \in [Values -> Nat]  BY CountsFacts DEF Bags
    <3> QED  BY <1>5, <1>11, <3>1
  <2>4. /\ DOMAIN x.sparse \subseteq DOMAIN y.sparse
        /\ y.num + (IF l = "number" THEN 1 ELSE 0) + Cardinality(DOMAIN x.sparse)
             = x.num + (IF pc[o] = "number" THEN 1 ELSE 0) + Cardinality(DOMAIN y.sparse)
    <3>1. x.num \in Nat /\ Cardinality(DOMAIN x.sparse) \in Nat  BY CountsFacts, BucketFacts
    <3> QED  BY <1>5, <1>10, <1>11, <3>1
  <2> QED  BY <1>2, <1>3, <1>5, <1>7, <1>11, <1>12, <2>1, <2>2, <2>3, <2>4 DEF OutsideStep, historyVars
<1> QED  BY <1>14, <1>15, OutsideKeeps

LEMMA LimitLowestKeeps ==
    ASSUME HistInv, NEW o \in Observers, LimitLowest(o)
    PROVE  HistInv'
<1>1. Types /\ MutexInv  BY DEF HistInv
<1>2. PICK s \in 0..1, u \in Values : s = side[o] /\ u = val[o]  BY <1>1 DEF Types
<1>3. PICK x \in Counts : x = counts[s]  BY <1>1 DEF Types
<1>4. PICK y : y = x  OBVIOUS
<1>5. /\ y \in Counts /\ y.count = x.count /\ y.sum = x.sum /\ y.num = x.num
      /\ y.thr = x.thr /\ y.lvl = x.lvl /\ y.sparse = x.sparse
  BY <1>1, <1>2, <1>3, <1>4
<1>6. counts' = [counts EXCEPT ![s] = y]  BY <1>2, <1>3, <1>4, <1>1 DEF LimitLowest, OnCounts, hotVars, Types
<1>7. counts'[s] = y /\ \A d \in 0..1 : d # s => counts'[d] = counts[d]  BY <1>1, <1>6 DEF Types
<1>8. PICK l : l = "rest"  OBVIOUS
<1>9. pc' = [pc EXCEPT ![o] = l]  BY <1>2, <1>3, <1>8 DEF LimitLowest, Goto
<1>10. l \in {"rest"}  BY <1>8
<1>11. pc[o] = "lock" /\ pc'[o] = l /\ \A q \in Procs \ {o} : pc'[q] = pc[q]
  BY <1>1, <1>9 DEF LimitLowest, Limits, Types, Procs
<1>12. /\ hot' = hot /\ begun' = begun /\ mtx' = mtx /\ plan' = plan /\ awaited' = awaited
       /\ left' = left /\ created' = created /\ side' = side /\ val' = val /\ made' = made
       /\ forgotten' = forgotten /\ snap' = snap /\ reported' = reported /\ smallest' = smallest
       /\ elapsed' = elapsed
  BY DEF LimitLowest, hotVars, mtxVars, observerVars, historyVars
<1>13. scheduled' \in BOOLEAN /\ seen' \in [Observers -> [lvl : 0..MaxLevel, thr : Int]]
  BY <1>1, OptionsAssumption DEF LimitLowest, Schedule, observerVars, Types
<1>14. Types'
  <2>1. counts' \in [0..1 -> Counts]  BY <1>1, <1>5, <1>6 DEF Types
  <2>2. pc' \in [Procs -> Labels]  BY <1>1, <1>9, <1>10 DEF Types, Labels
  <2> QED  BY <1>1, <1>12, <1>13, <2>1, <2>2 DEF Types
<1>15. OutsideStep(o, s, u, x, y, l)
  <2>1. /\ pc[o] \notin Holding /\ l \notin Holding /\ l # "classic"
        /\ l \in Observing => pc[o] \in Observing
        /\ pc[o] \notin Observing => y = x
    BY <1>4, <1>10, <1>11 DEF Holding, Observing
  <2>2. y.count = x.count + (IF pc[o] \in Observing THEN 1 ELSE 0) - (IF l \in Observing THEN 1 ELSE 0)
    <3>1. x.count \in Nat  BY CountsFacts
    <3> QED  BY <1>5, <1>10, <1>11, <3>1 DEF Observing
  <2>3. \A v \in Values : y.sum[v] = x.sum[v] + (IF pc[o] = "classic" /\ u = v THEN 1 ELSE 0)
    <3>1. x.sum \in [Values -> Nat]  BY CountsFacts DEF Bags
    <3> QED  BY <1>5, <1>11, <3>1
  <2>4. /\ DOMAIN x.sparse \subseteq DOMAIN y.sparse
        /\ y.num + (IF l = "number" THEN 1 ELSE 0) + Cardinality(DOMAIN x.sparse)
             = x.num + (IF pc[o] = "number" THEN 1 ELSE 0) + Cardinality(DOMAIN y.sparse)
    <3>1. x.num \in Nat /\ Cardinality(DOMAIN x.sparse) \in Nat  BY CountsFacts, BucketFacts
    <3> QED  BY <1>5, <1>10, <1>11, <3>1
  <2> QED  BY <1>2, <1>3, <1>5, <1>7, <1>11, <1>12, <2>1, <2>2, <2>3, <2>4 DEF OutsideStep, historyVars
<1> QED  BY <1>14, <1>15, OutsideKeeps

\* A new observation begins on the hot side.
LEMMA BeginKeeps ==
    ASSUME HistInv, NEW o \in Observers, NEW u \in Values, Begin(o, u)
    PROVE  HistInv'
<1>1. Types /\ MutexInv /\ CountInv /\ SparseInv /\ ReportsInv  BY DEF HistInv
<1>2. PICK h \in 0..1 : h = hot  BY <1>1 DEF Types
<1>3. PICK c \in 0..1 : c # h /\ c = 1 - h /\ h = 1 - c /\ \A d \in 0..1 : d = h \/ d = c
  <2>1. 1 - h \in 0..1  OBVIOUS
  <2> QED  BY <2>1
<1>4. /\ hot' = hot /\ counts' = counts /\ mtx' = mtx /\ plan' = plan /\ awaited' = awaited
      /\ left' = left /\ created' = created /\ forgotten' = forgotten /\ snap' = snap
      /\ reported' = reported /\ smallest' = smallest /\ elapsed' = elapsed
      /\ scheduled' = scheduled /\ seen' = seen
      /\ begun' = begun + 1 /\ made' = [made EXCEPT ![u] = @ + 1]
  BY DEF Begin, mtxVars
<1>5. /\ pc[o] = "rest" /\ pc' = [pc EXCEPT ![o] = "classic"]
      /\ side' = [side EXCEPT ![o] = h] /\ val' = [val EXCEPT ![o] = u]
  BY <1>2 DEF Begin, Goto
<1>6. /\ pc'[o] = "classic" /\ side'[o] = h /\ val'[o] = u
      /\ \A q \in Procs \ {o} : pc'[q] = pc[q]
      /\ \A q \in Observers \ {o} : side'[q] = side[q] /\ val'[q] = val[q]
  BY <1>1, <1>5 DEF Types, Procs
<1>7. \A q \in Observers \ {o} : pc'[q] = pc[q] /\ side'[q] = side[q] /\ val'[q] = val[q]
  BY <1>6 DEF Procs
<1>8. Types'
  <2>1. pc' \in [Procs -> Labels]  BY <1>1, <1>5 DEF Types, Labels
  <2>2. side' \in [Observers -> 0..1] /\ val' \in [Observers -> Values]  BY <1>1, <1>5 DEF Types
  <2>3. begun' \in Nat /\ made' \in Bags  BY <1>1, <1>4 DEF Types, Bags
  <2> QED  BY <1>1, <1>4, <2>1, <2>2, <2>3 DEF Types
<1>9. MutexInv' /\ phase' = phase /\ pc'[Scraper] = pc[Scraper] /\ mtx # o
  <2>1. pc[o] \notin Holding /\ pc'[o] \notin Holding  BY <1>5, <1>6 DEF Holding
  <2> QED  BY <1>1, <1>4, <1>6, <2>1, ObserverOutside
<1>10. "classic" \in Observing /\ "rest" \notin Observing  BY DEF Observing
<1>11. ASSUME NEW d \in 0..1
       PROVE  Begun(d)' = Begun(d) + (IF d = h THEN 1 ELSE 0)
  <2>1. Cardinality(InFlight(d))' = Cardinality(InFlight(d))
             + (IF pc'[o] \in Observing /\ side'[o] = d THEN 1 ELSE 0)
             - (IF pc[o] \in Observing /\ side[o] = d THEN 1 ELSE 0)
    BY <1>7, FlightMoves
  <2>2. counts[d].count \in Nat /\ Cardinality(InFlight(d)) \in Nat
    <3>1. counts[d] \in Counts  BY <1>1 DEF Types
    <3> QED  BY <3>1, CountsFacts, FlightSets, ObserverSet
  <2>3. Cardinality(InFlight(d))' = Cardinality(InFlight(d)) + (IF d = h THEN 1 ELSE 0)
    BY <1>5, <1>6, <1>10, <2>1, <2>2
  <2> QED  BY <1>4, <2>2, <2>3 DEF Begun
<1>12. ASSUME NEW d \in 0..1, NEW v \in Values
       PROVE  BegunOf(d, v)' = BegunOf(d, v) + (IF d = h /\ u = v THEN 1 ELSE 0)
  <2>1. Cardinality(Coming(d, v))' = Cardinality(Coming(d, v))
             + (IF pc'[o] = "classic" /\ side'[o] = d /\ val'[o] = v THEN 1 ELSE 0)
             - (IF pc[o] = "classic" /\ side[o] = d /\ val[o] = v THEN 1 ELSE 0)
    BY <1>7, ComingMoves
  <2>2. counts[d].sum[v] \in Nat /\ Cardinality(Coming(d, v)) \in Nat  BY <1>1, BegunType
  <2>3. Cardinality(Coming(d, v))' = Cardinality(Coming(d, v)) + (IF d = h /\ u = v THEN 1 ELSE 0)
    BY <1>5, <1>6, <2>1, <2>2
  <2> QED  BY <1>4, <2>2, <2>3 DEF BegunOf
<1>13. ASSUME NEW v \in Values
       PROVE  made'[v] = made[v] + (IF u = v THEN 1 ELSE 0) /\ made[v] \in Nat
  BY <1>1, <1>4 DEF Types, Bags
<1>14. CountInv'
  <2>1. HotInv(h) /\ ColdInv(c)  BY <1>1, <1>2, <1>3 DEF CountInv
  <2>2. HotInv(h)'
    <3>1. Begun(h)' = Begun(h) + 1  BY <1>11
    <3>2. begun \in Nat /\ awaited \in Nat  BY <1>1 DEF Types
    <3>3. Begun(h) \in Nat
      <4>1. PICK v \in Values : TRUE  BY ValuesAssumption
      <4> QED  BY <1>1, BegunType
    <3> QED  BY <1>4, <1>9, <2>1, <3>1, <3>2, <3>3 DEF HotInv, OnBothSides
  <2>3. ASSUME NEW v \in Values PROVE HotSumInv(h, v)'
    <3>1. HotSumInv(h, v)  BY <1>1, <1>2 DEF CountInv
    <3>2. BegunOf(h, v)' = BegunOf(h, v) + (IF u = v THEN 1 ELSE 0) /\ BegunOf(1 - h, v)' = BegunOf(1 - h, v)
      <4>1. BegunOf(c, v)' = BegunOf(c, v)
        <5>1. BegunOf(c, v) \in Nat  BY <1>1, BegunType
        <5> QED  BY <1>3, <1>12, <5>1
      <4> QED  BY <1>3, <1>12, <4>1
    <3>3. BegunOf(h, v) \in Nat /\ BegunOf(1 - h, v) \in Nat  BY <1>1, <1>3, BegunType
    <3> QED  BY <1>4, <1>9, <1>13, <3>1, <3>2, <3>3 DEF HotSumInv, OnBothSides
  <2>4. ColdInv(c)'
    <3>1. mtx \in Observers => val'[mtx] = val[mtx]  BY <1>6, <1>9
    <3>2. phase = "swap" /\ plan = "reset" => Repeated(mtx)' = Repeated(mtx)
      <4>1. SUFFICES ASSUME phase = "swap", plan = "reset" PROVE Repeated(mtx)' = Repeated(mtx)  OBVIOUS
      <4>2. mtx # None /\ mtx # Scraper  BY <1>1, <4>1 DEF phase, MutexInv
      <4>3. mtx \in Observers \/ mtx = Timer  BY <1>1, <4>2 DEF Types, Procs
      <4> QED  BY <1>4, <3>1, <4>3 DEF Repeated
    <3>3. InFlight(c)' = InFlight(c)
      BY <1>3, <1>5, <1>6, <1>7, <1>10 DEF InFlight
    <3>4. Begun(c)' = Begun(c)  BY <1>4, <3>3 DEF Begun
    <3> QED  BY <1>4, <1>9, <2>1, <3>2, <3>3, <3>4 DEF ColdInv
  <2> QED  BY <1>2, <1>3, <1>4, <2>2, <2>3, <2>4 DEF CountInv
<1>15. SparseInv'
  <2>1. ASSUME NEW d \in 0..1 PROVE NumberInv(d)'
    <3>1. NumberInv(d)  BY <1>1 DEF SparseInv
    <3>2. \A q \in Observers : q \in Numbering(d)' <=> q \in Numbering(d)
      BY <1>5, <1>6, <1>7 DEF Numbering
    <3>3. Numbering(d)' = Numbering(d)
      <4>1. Numbering(d) \in SUBSET Observers /\ Numbering(d)' \in SUBSET Observers  BY FlightSets
      <4> QED  BY <3>2, <4>1
    <3> QED  BY <1>4, <3>1, <3>3 DEF NumberInv
  <2>2. LeftInv(c) /\ ResolutionInv(h, c)  BY <1>1, <1>2, <1>3 DEF SparseInv
  <2>3. LeftInv(c)'  BY <1>4, <1>9, <2>2 DEF LeftInv
  <2>4. ResolutionInv(h, c)'  BY <1>4, <1>9, <2>2 DEF ResolutionInv
  <2> QED  BY <1>2, <1>3, <1>4, <2>1, <2>3, <2>4 DEF SparseInv, ResolutionInv
<1>16. ReportsInv'
  <2>1. ASSUME NEW v \in Values PROVE ReportInv(c, v)'
    <3>1. ReportInv(c, v)  BY <1>1, <1>2, <1>3 DEF ReportsInv
    <3>2. BegunOf(c, v)' = BegunOf(c, v)
      <4>1. BegunOf(c, v) \in Nat  BY <1>1, BegunType
      <4> QED  BY <1>3, <1>12, <4>1
    <3>3. reported.sum[v] \in Nat  BY <1>1 DEF Types, Bags
    <3> QED  BY <1>4, <1>9, <1>13, <3>1, <3>2, <3>3 DEF ReportInv, OnBothSides
  <2> QED  BY <1>1, <1>2, <1>3, <1>4, <2>1 DEF ReportsInv
<1> QED  BY <1>8, <1>9, <1>14, <1>15, <1>16 DEF HistInv

-----------------------------------------------------------------------------
(* mtx is taken *)

\* The cold counts are made ready to become the hot ones.
PrepareStep(p, h, c, y) ==
    /\ h = hot /\ c # h /\ mtx = None /\ mtx' = p
    /\ pc' = [pc EXCEPT ![p] = "swap"] /\ pc[p] \notin Observing
    /\ counts' = [counts EXCEPT ![c] = y]
    /\ (plan' = "write") <=> (p = Scraper)
    /\ p = Timer => plan' = "reset"
    /\ plan' # "reset" => /\ y.count = 0 /\ y.sum = NoValues
                          /\ \A k \in DOMAIN y.sparse : y.sparse[k] = 0
    /\ plan' = "reset" => /\ y.count = (IF p = Timer THEN 0 ELSE 1) /\ y.sum = Repeated(p)
                          /\ y.thr = ZeroThreshold /\ y.lvl = 0
    /\ plan' \in {"write", "double"} => y.thr = counts[h].thr
    /\ plan' \in {"write", "widen"} => y.lvl = counts[h].lvl
    /\ y.num = Cardinality(DOMAIN y.sparse)
    /\ UNCHANGED <<hot, begun, awaited, created, left, side, val, historyVars>>

LEMMA PrepareKeeps ==
    ASSUME HistInv, Types', NEW p \in Procs, NEW h \in 0..1, NEW c \in 0..1, NEW y,
           PrepareStep(p, h, c, y)
    PROVE  HistInv'
<1>1. Types /\ MutexInv /\ CountInv /\ SparseInv /\ ReportsInv  BY DEF HistInv
<1>2. /\ hot' = hot /\ begun' = begun /\ awaited' = awaited
      /\ left' = left /\ created' = created /\ side' = side /\ val' = val /\ made' = made
      /\ forgotten' = forgotten /\ snap' = snap /\ reported' = reported
      /\ h = hot /\ c # h /\ mtx = None /\ mtx' = p
  BY DEF PrepareStep, historyVars
<1>3. c = 1 - h /\ h = 1 - c /\ \A d \in 0..1 : d = h \/ d = c  BY <1>2
<1>4. MutexInv' /\ phase' = "swap" /\ phase = "rest"  BY <1>1, MutexTaken DEF PrepareStep
<1>5. counts'[h] = counts[h] /\ counts'[c] = y  BY <1>1, <1>2 DEF Types, PrepareStep
<1>6. \A q \in Observers : pc'[q] = pc[q] \/ (pc'[q] \notin Observing /\ pc[q] \notin Observing)
  BY <1>1 DEF Types, Procs, PrepareStep, Observing
<1>7. ~OnBothSides /\ ~OnBothSides'  BY <1>4 DEF OnBothSides
<1>8. ASSUME NEW d \in 0..1 PROVE InFlight(d)' = InFlight(d) /\ Numbering(d)' = Numbering(d)
  BY <1>2, <1>6, FlightsKept
<1>9. ASSUME NEW d \in 0..1, NEW v \in Values PROVE Coming(d, v)' = Coming(d, v)
  BY <1>2, <1>6, ComingKept
<1>10. InFlight(c) = {}  BY <1>1, <1>2, <1>4 DEF CountInv, ColdInv
<1>11. CountInv'
  <2>1. HotInv(h)  BY <1>1, <1>2 DEF CountInv
  <2>2. HotInv(h)'  BY <1>2, <1>5, <1>7, <1>8, <2>1 DEF HotInv, Begun
  <2>3. ASSUME NEW v \in Values PROVE HotSumInv(h, v)'
    <3>1. HotSumInv(h, v)  BY <1>1, <1>2 DEF CountInv
    <3> QED  BY <1>2, <1>5, <1>7, <1>9, <3>1 DEF HotSumInv, BegunOf
  <2>4. ColdInv(c)'
    <3>1. Repeated(p)' = Repeated(p)  BY <1>2 DEF Repeated
    <3>2. InFlight(c)' = {}  BY <1>8, <1>10
    <3> QED  BY <1>2, <1>4, <1>5, <3>1, <3>2 DEF ColdInv, PrepareStep, Repeated
  <2> QED  BY <1>2, <1>3, <2>2, <2>3, <2>4 DEF CountInv
<1>12. SparseInv'
  <2>1. NumberInv(h) /\ LeftInv(c)  BY <1>1, <1>2 DEF SparseInv
  <2>2. NumberInv(h)'  BY <1>5, <1>8, <2>1 DEF NumberInv
  <2>3. NumberInv(c)'
    <3>1. Numbering(c) = {}  BY <1>10, FlightSets
    <3>2. Numbering(c)' = {}  BY <1>8, <3>1
    <3>3. Cardinality(Numbering(c)') = 0  BY <3>2, FS_EmptySet
    <3>4. y \in Counts  BY <1>5 DEF Types
    <3>5. y.num \in Nat /\ y.num = Cardinality(DOMAIN y.sparse)  BY <3>4, CountsFacts DEF PrepareStep
    <3> QED  BY <1>5, <3>3, <3>5 DEF NumberInv
  <2>4. LeftInv(c)'
    <3>1. left = {}  BY <1>4, <2>1 DEF LeftInv
    <3> QED  BY <1>2, <1>4, <1>5, <3>1 DEF LeftInv, PrepareStep
  <2>5. ResolutionInv(h, c)'  BY <1>2, <1>4, <1>5 DEF ResolutionInv, PrepareStep
  <2> QED  BY <1>2, <1>3, <2>2, <2>3, <2>4, <2>5 DEF SparseInv, ResolutionInv
<1>13. ReportsInv'
  <2>1. pc'[Scraper] # "cool"
    <3>1. Scraper \in Procs /\ Scraper # None  BY ProcsAssumption DEF Procs
    <3>2. pc[Scraper] # "cool"  BY <1>1, <1>2, <3>1 DEF MutexInv, Holding
    <3> QED  BY <1>1, <3>1, <3>2 DEF PrepareStep, Types
  <2>2. ASSUME NEW v \in Values PROVE ReportInv(c, v)'
    <3>1. ReportInv(c, v)  BY <1>1, <1>2 DEF ReportsInv
    <3> QED  BY <1>2, <1>4, <1>7, <2>1, <3>1 DEF ReportInv
  <2> QED  BY <1>1, <1>2, <1>3, <2>2 DEF ReportsInv
<1> QED  BY <1>4, <1>11, <1>12, <1>13 DEF HistInv

\* With mtx free the cold counts are empty, in the resolution of the hot ones.
LEMMA ColdAtRest ==
    ASSUME HistInv, mtx = None, NEW h \in 0..1, NEW c \in 0..1, h = hot, c # h
    PROVE  /\ counts[c] \in Counts /\ counts[h] \in Counts /\ cold = c
           /\ counts[c].count = 0 /\ counts[c].sum = NoValues
           /\ \A k \in DOMAIN counts[c].sparse : counts[c].sparse[k] = 0
           /\ counts[c].num = Cardinality(DOMAIN counts[c].sparse)
           /\ counts[c].thr = counts[h].thr /\ counts[c].lvl = counts[h].lvl
<1>1. Types /\ MutexInv /\ CountInv /\ SparseInv  BY DEF HistInv
<1>2. phase = "rest"  BY DEF phase
<1>3. ColdInv(c) /\ NumberInv(c) /\ LeftInv(c) /\ ResolutionInv(h, c)
  <2>1. h = 1 - c  OBVIOUS
  <2> QED  BY <1>1, <2>1 DEF CountInv, SparseInv
<1>4. counts[c] \in Counts /\ counts[h] \in Counts /\ cold = c  BY <1>1 DEF Types, cold
<1>5. counts[c].num = Cardinality(DOMAIN counts[c].sparse)
  <2>1. Numbering(c) = {}  BY <1>2, <1>3, FlightSets DEF ColdInv
  <2>2. Cardinality(Numbering(c)) = 0  BY <2>1, FS_EmptySet
  <2>3. counts[c].num \in Nat  BY <1>4, CountsFacts
  <2> QED  BY <1>3, <2>2, <2>3 DEF NumberInv
<1> QED  BY <1>2, <1>3, <1>4, <1>5 DEF ColdInv, LeftInv, ResolutionInv

\* The shape of the new cold counts that each way into mtx prepares.
LEMMA WriteLockKeeps ==
    ASSUME HistInv, WriteLock
    PROVE  HistInv'
<1>1. Types /\ MutexInv  BY DEF HistInv
<1>2. PICK h \in 0..1, c \in 0..1 : h = hot /\ c # h  BY <1>1 DEF Types
<1>3. /\ mtx = None /\ mtx' = Scraper /\ plan' = "write" /\ pc[Scraper] = "rest"
      /\ pc' = [pc EXCEPT ![Scraper] = "swap"]
  BY DEF WriteLock, Prepare, Goto
<1>4. PICK y \in Counts : y = counts[c]  BY <1>1 DEF Types
<1>5. /\ cold = c /\ y.count = 0 /\ y.sum = NoValues /\ y.num = Cardinality(DOMAIN y.sparse)
      /\ \A k \in DOMAIN y.sparse : y.sparse[k] = 0
      /\ y.thr = counts[h].thr /\ y.lvl = counts[h].lvl
  BY <1>2, <1>3, <1>4, ColdAtRest
<1>6. counts' = [counts EXCEPT ![c] = y]  BY <1>4, <1>5 DEF WriteLock, Prepare
<1>7. Types'
  <2>1. counts' \in [0..1 -> Counts]  BY <1>1, <1>6 DEF Types
  <2>2. pc' \in [Procs -> Labels]  BY <1>1, <1>3 DEF Types, Labels
  <2>3. mtx' \in Procs \cup {None}  BY <1>3 DEF Procs
  <2> QED  BY <1>1, <1>3, <2>1, <2>2, <2>3 DEF Types, WriteLock, observerVars, historyVars
<1>8. pc[Scraper] \notin Observing  BY <1>3 DEF Observing
<1>9. Scraper \in Procs /\ Scraper # Timer  BY ProcsAssumption DEF Procs
<1>10. PrepareStep(Scraper, h, c, y)
  BY <1>2, <1>3, <1>5, <1>6, <1>8, <1>9 DEF PrepareStep, WriteLock, observerVars
<1> QED  BY <1>7, <1>9, <1>10, PrepareKeeps

LEMMA TimerResetKeeps ==
    ASSUME HistInv, TimerReset
    PROVE  HistInv'
<1>1. Types /\ MutexInv  BY DEF HistInv
<1>2. PICK h \in 0..1, c \in 0..1 : h = hot /\ c # h  BY <1>1 DEF Types
<1>3. /\ mtx = None /\ mtx' = Timer /\ plan' = "reset" /\ pc[Timer] = "rest"
      /\ pc' = [pc EXCEPT ![Timer] = "swap"]
  BY DEF TimerReset, Prepare, Goto
<1>4. PICK y \in Counts : y = Fresh  BY FreshFacts
<1>5. /\ y.count = 0 /\ y.sum = NoValues /\ y.num = Cardinality(DOMAIN y.sparse)
      /\ y.thr = ZeroThreshold /\ y.lvl = 0
  BY <1>4, FreshFacts, EmptyType
<1>6. cold = c  BY <1>2, <1>3, ColdAtRest
<1>7. counts' = [counts EXCEPT ![c] = y]  BY <1>4, <1>6 DEF TimerReset, Prepare
<1>8. Types'
  <2>1. counts' \in [0..1 -> Counts]  BY <1>1, <1>7 DEF Types
  <2>2. pc' \in [Procs -> Labels]  BY <1>1, <1>3 DEF Types, Labels
  <2>3. mtx' \in Procs \cup {None}  BY <1>3 DEF Procs
  <2> QED  BY <1>1, <1>3, <2>1, <2>2, <2>3 DEF Types, TimerReset, observerVars, historyVars
<1>9. pc[Timer] \notin Observing  BY <1>3 DEF Observing
<1>10. Timer \in Procs /\ Scraper # Timer  BY ProcsAssumption DEF Procs
<1>11. y.sum = Repeated(Timer)  BY <1>5 DEF Repeated
<1>12. PrepareStep(Timer, h, c, y)
  BY <1>2, <1>3, <1>5, <1>7, <1>9, <1>10, <1>11 DEF PrepareStep, TimerReset, observerVars
<1> QED  BY <1>8, <1>10, <1>12, PrepareKeeps

LEMMA LimitResetKeeps ==
    ASSUME HistInv, NEW o \in Observers, LimitReset(o)
    PROVE  HistInv'
<1>1. Types /\ MutexInv  BY DEF HistInv
<1>2. PICK h \in 0..1, c \in 0..1 : h = hot /\ c # h  BY <1>1 DEF Types
<1>3. /\ mtx = None /\ mtx' = o /\ plan' = "reset" /\ pc[o] = "lock"
      /\ pc' = [pc EXCEPT ![o] = "swap"]
  BY DEF LimitReset, Limits, Prepare, Goto
<1>4. PICK u \in Values : u = val[o]  BY <1>1 DEF Types
<1>5. PICK y : y = ObserveAll(Fresh, u)  OBVIOUS
<1>6. /\ y \in Counts /\ y.count = 1 /\ y.sum = [NoValues EXCEPT ![u] = 1]
      /\ y.num = Cardinality(DOMAIN y.sparse) /\ y.thr = ZeroThreshold /\ y.lvl = 0
  BY <1>5, RepeatFacts
<1>7. cold = c  BY <1>2, <1>3, ColdAtRest
<1>8. counts' = [counts EXCEPT ![c] = y]  BY <1>4, <1>5, <1>7 DEF LimitReset, Prepare
<1>9. o \in Procs /\ o # Scraper /\ o # Timer  BY ProcsAssumption DEF Procs
<1>10. Types'
  <2>1. counts' \in [0..1 -> Counts]  BY <1>1, <1>6, <1>8 DEF Types
  <2>2. pc' \in [Procs -> Labels]  BY <1>1, <1>3 DEF Types, Labels
  <2>3. mtx' \in Procs \cup {None}  BY <1>3, <1>9
  <2> QED  BY <1>1, <1>3, <2>1, <2>2, <2>3 DEF Types, LimitReset, observerVars, historyVars
<1>11. pc[o] \notin Observing  BY <1>3 DEF Observing
<1>12. y.sum = Repeated(o)  BY <1>4, <1>6, <1>9 DEF Repeated
<1>13. PrepareStep(o, h, c, y)
  BY <1>2, <1>3, <1>6, <1>8, <1>9, <1>11, <1>12 DEF PrepareStep, LimitReset, observerVars
<1> QED  BY <1>9, <1>10, <1>13, PrepareKeeps

LEMMA LimitWidenKeeps ==
    ASSUME HistInv, NEW o \in Observers, LimitWiden(o)
    PROVE  HistInv'
<1>1. Types /\ MutexInv  BY DEF HistInv
<1>2. PICK h \in 0..1, c \in 0..1 : h = hot /\ c # h  BY <1>1 DEF Types
<1>3. /\ mtx = None /\ mtx' = o /\ plan' = "widen" /\ pc[o] = "lock"
      /\ pc' = [pc EXCEPT ![o] = "swap"]
  BY DEF LimitWiden, Limits, Prepare, Goto
<1>4. PICK x \in Counts : x = counts[c]  BY <1>1 DEF Types
<1>5. /\ cold = c /\ x.count = 0 /\ x.sum = NoValues /\ x.num = Cardinality(DOMAIN x.sparse)
      /\ \A k \in DOMAIN x.sparse : x.sparse[k] = 0
      /\ x.lvl = counts[h].lvl /\ counts[h] \in Counts
  BY <1>2, <1>3, <1>4, ColdAtRest
<1>6. smallest' \in Int
  <2>1. smallest' = Min(KeysOf(h)) /\ KeysOf(h) # {}  BY <1>2 DEF LimitWiden, MayWiden
  <2>2. PICK b \in Buckets : b = counts[h].sparse  BY <1>5, CountsFacts
  <2>3. DOMAIN b \subseteq SparseKeys /\ IsFiniteSet(DOMAIN b)  BY BucketFacts
  <2>4. KeysOf(h) = {k.key : k \in DOMAIN b}  BY <2>2 DEF KeysOf
  <2>5. IsFiniteSet(KeysOf(h))
    <3>1. IsFiniteSet({k.key : k \in DOMAIN b})
      <4> DEFINE F == [k \in DOMAIN b |-> k.key]
                 I == {k.key : k \in DOMAIN b}
      <4>1. F \in Surjection(DOMAIN b, I)  BY DEF Surjection
      <4> HIDE DEF F, I
      <4>2. IsFiniteSet(I)  BY <2>3, <4>1, FS_Surjection
      <4> QED  BY <4>2 DEF I
    <3> QED  BY <2>4, <3>1
  <2>6. KeysOf(h) \in SUBSET Int  BY <2>3, <2>4 DEF SparseKeys
  <2> QED  BY <2>1, <2>5, <2>6, MinExists
<1>7. PICK t \in Int : t = Le(smallest', counts[h].lvl)
  <2>1. counts[h].lvl \in Nat  BY <1>5, CountsFacts, OptionsAssumption
  <2> QED  BY <1>6, <2>1, LeType
<1>8. PICK key : key = smallest'  OBVIOUS
<1>9. PICK y : y = Widened(x, key, t)  OBVIOUS
<1>10. /\ y \in Counts
       /\ y.count = x.count /\ y.sum = x.sum /\ y.thr = t /\ y.lvl = x.lvl
       /\ y.num = Cardinality(DOMAIN y.sparse)
       /\ DOMAIN y.sparse \subseteq DOMAIN x.sparse
       /\ \A k \in DOMAIN y.sparse : y.sparse[k] = x.sparse[k]
  <2>1. x.num = Cardinality(DOMAIN x.sparse)  BY <1>5
  <2> QED  BY <1>9, <2>1, RemovedFacts
<1>11. counts' = [counts EXCEPT ![c] = y]
  BY <1>2, <1>4, <1>5, <1>7, <1>8, <1>9 DEF LimitWiden, Prepare, Widened
<1>12. o \in Procs /\ o # Scraper /\ o # Timer  BY ProcsAssumption DEF Procs
<1>13. Types'
  <2>1. counts' \in [0..1 -> Counts]  BY <1>1, <1>10, <1>11 DEF Types
  <2>2. pc' \in [Procs -> Labels]  BY <1>1, <1>3 DEF Types, Labels
  <2>3. mtx' \in Procs \cup {None}  BY <1>3, <1>12
  <2>4. scheduled' \in BOOLEAN  BY <1>1, OptionsAssumption DEF Types, LimitWiden, Schedule
  <2> QED  BY <1>1, <1>3, <1>6, <2>1, <2>2, <2>3, <2>4 DEF Types, LimitWiden, observerVars, historyVars
<1>14. pc[o] \notin Observing  BY <1>3 DEF Observing
<1>15. y.count = 0 /\ y.sum = NoValues /\ (\A k \in DOMAIN y.sparse : y.sparse[k] = 0) /\ y.lvl = counts[h].lvl
  BY <1>5, <1>10
<1>16. PrepareStep(o, h, c, y)
  BY <1>2, <1>3, <1>10, <1>11, <1>12, <1>14, <1>15 DEF PrepareStep, LimitWiden, observerVars
<1> QED  BY <1>12, <1>13, <1>16, PrepareKeeps

LEMMA LimitDoubleKeeps ==
    ASSUME HistInv, NEW o \in Observers, LimitDouble(o)
    PROVE  HistInv'
<1>1. Types /\ MutexInv  BY DEF HistInv
<1>2. PICK h \in 0..1, c \in 0..1 : h = hot /\ c # h  BY <1>1 DEF Types
<1>3. /\ mtx = None /\ mtx' = o /\ plan' = "double" /\ pc[o] = "lock"
      /\ pc' = [pc EXCEPT ![o] = "swap"]
  BY DEF LimitDouble, Limits, Prepare, Goto
<1>4. PICK x \in Counts : x = counts[c]  BY <1>1 DEF Types
<1>5. /\ cold = c /\ x.count = 0 /\ x.sum = NoValues /\ x.thr = counts[h].thr
  BY <1>2, <1>3, <1>4, ColdAtRest
<1>6. PICK l \in 0..MaxLevel : l = x.lvl + 1
  <2>1. x.lvl < MaxLevel  BY <1>4, <1>5 DEF LimitDouble
  <2>2. x.lvl \in 0..MaxLevel /\ MaxLevel \in Nat  BY CountsFacts, OptionsAssumption
  <2> QED  BY <2>1, <2>2
<1>7. PICK y : y = Doubled(x, l)  OBVIOUS
<1>8. /\ y \in Counts /\ y.count = 0 /\ y.sum = NoValues /\ y.num = 0
      /\ y.thr = counts[h].thr /\ y.sparse = NoBuckets
  <2>1. /\ y \in Counts
        /\ y.count = x.count /\ y.sum = x.sum /\ y.num = 0
        /\ y.thr = x.thr /\ y.lvl = l /\ y.sparse = NoBuckets
    BY <1>7, WiderFacts
  <2> QED  BY <1>5, <2>1
<1>9. counts' = [counts EXCEPT ![c] = y]
  BY <1>4, <1>5, <1>6, <1>7 DEF LimitDouble, Prepare, Doubled
<1>10. o \in Procs /\ o # Scraper /\ o # Timer  BY ProcsAssumption DEF Procs
<1>11. Types'
  <2>1. counts' \in [0..1 -> Counts]  BY <1>1, <1>8, <1>9 DEF Types
  <2>2. pc' \in [Procs -> Labels]  BY <1>1, <1>3 DEF Types, Labels
  <2>3. mtx' \in Procs \cup {None}  BY <1>3, <1>10
  <2>4. scheduled' \in BOOLEAN  BY <1>1, OptionsAssumption DEF Types, LimitDouble, Schedule
  <2> QED  BY <1>1, <1>3, <2>1, <2>2, <2>3, <2>4 DEF Types, LimitDouble, observerVars, historyVars
<1>12. pc[o] \notin Observing  BY <1>3 DEF Observing
<1>13. y.num = Cardinality(DOMAIN y.sparse) /\ \A k \in DOMAIN y.sparse : y.sparse[k] = 0
  BY <1>8, EmptyType
<1>14. PrepareStep(o, h, c, y)
  BY <1>2, <1>3, <1>8, <1>9, <1>10, <1>12, <1>13 DEF PrepareStep, LimitDouble, observerVars
<1> QED  BY <1>10, <1>11, <1>14, PrepareKeeps

-----------------------------------------------------------------------------
(* In mtx: the swap *)

LEMMA RepeatedType ==
    ASSUME Types, NEW p \in Observers \cup {Timer}
    PROVE  Repeated(p) \in Bags
<1>1. p \in Observers => val[p] \in Values  BY DEF Types
<1> QED  BY <1>1, FreshFacts DEF Repeated, Bags, NoValues

LEMMA SwapKeeps ==
    ASSUME HistInv, NEW p \in Procs, Swap(p)
    PROVE  HistInv'
<1>1. Types /\ MutexInv /\ CountInv /\ SparseInv /\ ReportsInv  BY DEF HistInv
<1>2. PICK h \in 0..1, c \in 0..1 : h = hot /\ c # h  BY <1>1 DEF Types
<1>3. c = 1 - h /\ h = 1 - c /\ cold = c /\ \A d \in 0..1 : d = h \/ d = c  BY <1>2 DEF cold
<1>4. pc[p] = "swap" /\ pc' = [pc EXCEPT ![p] = "cool"]  BY DEF Swap, Goto
<1>5. /\ hot' = c /\ awaited' = begun /\ counts' = counts /\ mtx' = mtx /\ plan' = plan
      /\ left' = left /\ created' = created /\ side' = side /\ val' = val /\ reported' = reported
      /\ smallest' = smallest /\ elapsed' = elapsed /\ scheduled' = scheduled /\ seen' = seen
  BY <1>3 DEF Swap, observerVars
<1>6. MutexInv' /\ phase' = "cool" /\ phase = "swap" /\ mtx = p
  <2>1. pc[p] \in Holding /\ "cool" \in Holding  BY <1>4 DEF Holding
  <2> QED  BY <1>1, <1>4, <1>5, <2>1, MutexHeld
<1>7. \A q \in Observers : pc'[q] = pc[q] \/ (pc'[q] \notin Observing /\ pc[q] \notin Observing)
  BY <1>1, <1>4, <1>5 DEF Types, Procs, Observing, Holding
<1>8. ASSUME NEW d \in 0..1 PROVE InFlight(d)' = InFlight(d) /\ Numbering(d)' = Numbering(d)
  BY <1>5, <1>7, FlightsKept
<1>9. ASSUME NEW d \in 0..1, NEW v \in Values PROVE Coming(d, v)' = Coming(d, v)
  BY <1>5, <1>7, ComingKept
<1>10. HotInv(h) /\ ColdInv(c) /\ NumberInv(h) /\ NumberInv(c) /\ LeftInv(c) /\ ResolutionInv(h, c)
  BY <1>1, <1>2, <1>3 DEF CountInv, SparseInv
<1>11. ~OnBothSides /\ (OnBothSides' <=> plan # "reset")  BY <1>5, <1>6 DEF OnBothSides
<1>12. InFlight(c) = {} /\ InFlight(c)' = {}
       /\ Cardinality(InFlight(c)) = 0 /\ Cardinality(InFlight(c))' = 0
  BY <1>6, <1>8, <1>10, FS_EmptySet DEF ColdInv
<1>13. ASSUME NEW v \in Values
       PROVE  /\ Cardinality(Coming(c, v)) = 0 /\ BegunOf(c, v) = counts[c].sum[v]
              /\ BegunOf(h, v) = made[v] /\ made[v] \in Nat /\ forgotten[v] \in Nat
              /\ counts[c].sum[v] \in Nat
              /\ BegunOf(c, v)' = BegunOf(c, v) /\ BegunOf(h, v)' = BegunOf(h, v)
  <2>1. Coming(c, v) = {}  BY <1>12, FlightSets
  <2>2. Cardinality(Coming(c, v)) = 0  BY <2>1, FS_EmptySet
  <2>3. HotSumInv(h, v)  BY <1>1, <1>2 DEF CountInv
  <2>4. counts[c].sum[v] \in Nat  BY <1>1, BegunType
  <2>5. BegunOf(c, v)' = BegunOf(c, v) /\ BegunOf(h, v)' = BegunOf(h, v)  BY <1>5, <1>9 DEF BegunOf
  <2>6. made[v] \in Nat /\ forgotten[v] \in Nat  BY <1>1 DEF Types, Bags
  <2> QED  BY <1>11, <2>2, <2>3, <2>4, <2>5, <2>6 DEF HotSumInv, BegunOf
<1>14. Begun(h) = begun /\ Begun(h)' = Begun(h) /\ Begun(c)' = counts[c].count
  <2>1. counts[c].count \in Nat
    <3>1. counts[c] \in Counts  BY <1>1 DEF Types
    <3> QED  BY <3>1, CountsFacts
  <2> QED  BY <1>5, <1>8, <1>10, <1>11, <1>12, <2>1 DEF HotInv, Begun
<1>15. plan = "reset" => /\ begun' = (IF p = Timer THEN 0 ELSE 1) /\ made' = Repeated(p)
                         /\ forgotten' = Both(forgotten, made)
  BY DEF Swap
<1>16. plan # "reset" => begun' = begun /\ made' = made /\ forgotten' = forgotten  BY DEF Swap
<1>17. plan = "reset" => p \in Observers \cup {Timer}
  <2>1. mtx # None  BY <1>6, ProcsAssumption
  <2> QED  BY <1>1, <1>6, <2>1 DEF MutexInv, Procs
<1>18. plan = "write" <=> p = Scraper  BY <1>1, <1>6, ProcsAssumption DEF MutexInv
<1>19. Both(forgotten, made) \in Bags /\ \A v \in Values : Both(forgotten, made)[v] = forgotten[v] + made[v]
  BY <1>1 DEF Both, Types, Bags
<1>20. Types'
  <2>1. pc' \in [Procs -> Labels]  BY <1>1, <1>4 DEF Types, Labels
  <2>2. begun' \in Nat /\ awaited' \in Nat  BY <1>1, <1>5, <1>15, <1>16 DEF Types
  <2>3. made' \in Bags /\ forgotten' \in Bags
    BY <1>1, <1>15, <1>16, <1>17, <1>19, RepeatedType DEF Types
  <2>4. snap' \in Bags  BY <1>1, <1>19 DEF Types, Swap
  <2> QED  BY <1>1, <1>5, <2>1, <2>2, <2>3, <2>4 DEF Types
<1>21. CountInv'
  <2>1. HotInv(c)'
    <3>1. CASE plan = "reset"
      <4>1. counts[c].count = (IF p = Timer THEN 0 ELSE 1)  BY <1>6, <1>10, <3>1 DEF ColdInv
      <4> QED  BY <1>11, <1>14, <1>15, <3>1, <4>1 DEF HotInv
    <3>2. CASE plan # "reset"
      <4>1. counts[c].count = 0  BY <1>6, <1>10, <3>2 DEF ColdInv
      <4>2. begun \in Nat  BY <1>1 DEF Types
      <4> QED  BY <1>5, <1>11, <1>14, <1>16, <3>2, <4>1, <4>2 DEF HotInv
    <3> QED  BY <3>1, <3>2
  <2>2. ASSUME NEW v \in Values PROVE HotSumInv(c, v)'
    <3>1. CASE plan = "reset"
      <4>1. counts[c].sum = Repeated(p)  BY <1>6, <1>10, <3>1 DEF ColdInv
      <4> QED  BY <1>11, <1>13, <1>15, <3>1, <4>1 DEF HotSumInv
    <3>2. CASE plan # "reset"
      <4>1. counts[c].sum[v] = 0  BY <1>6, <1>10, <3>2 DEF ColdInv, NoValues
      <4>2. BegunOf(1 - c, v)' = made[v]
        <5>1. BegunOf(1 - c, v)' = BegunOf(h, v)'  BY <1>3
        <5> QED  BY <1>13, <5>1
      <4> QED  BY <1>11, <1>13, <1>16, <3>2, <4>1, <4>2 DEF HotSumInv
    <3> QED  BY <3>1, <3>2
  <2>3. ColdInv(h)'  BY <1>5, <1>6, <1>14 DEF ColdInv
  <2> QED  BY <1>2, <1>3, <1>5, <2>1, <2>2, <2>3 DEF CountInv
<1>22. SparseInv'
  <2>1. NumberInv(h)' /\ NumberInv(c)'  BY <1>5, <1>8, <1>10 DEF NumberInv
  <2>2. LeftInv(h)'
    <3>1. left = {}  BY <1>6, <1>10 DEF LeftInv
    <3> QED  BY <1>5, <1>6, <3>1 DEF LeftInv
  <2>3. ResolutionInv(c, h)'  BY <1>5, <1>6, <1>10 DEF ResolutionInv
  <2> QED  BY <1>2, <1>3, <1>5, <2>1, <2>2, <2>3 DEF SparseInv, ResolutionInv
<1>23. ReportsInv'
  <2>1. ASSUME NEW v \in Values PROVE ReportInv(h, v)'
    <3>1. ReportInv(c, v)  BY <1>1, <1>2 DEF ReportsInv
    <3>2. pc'[Scraper] = "cool" => p = Scraper
      BY <1>1, <1>4, <1>6, ProcsAssumption DEF Types, MutexInv, Procs, Holding
    <3>3. p = Scraper => snap'[v] = forgotten'[v] + made[v]
      <4>1. p = Scraper => snap' = Both(forgotten, made) /\ forgotten' = forgotten
        BY <1>16, <1>18 DEF Swap
      <4> QED  BY <1>19, <4>1
    <3> QED  BY <1>5, <1>6, <1>11, <1>13, <3>1, <3>2, <3>3 DEF ReportInv
  <2> QED  BY <1>1, <1>2, <1>3, <1>5, <2>1 DEF ReportsInv
<1> QED  BY <1>6, <1>20, <1>21, <1>22, <1>23 DEF HistInv

-----------------------------------------------------------------------------
(* In mtx: the cooldown *)

\* waitForCooldown returns when nobody observes on the cold side any more.
LEMMA CooledIsEmpty ==
    ASSUME HistInv, NEW c \in 0..1, c # hot, phase = "cool", counts[c].count = awaited
    PROVE  InFlight(c) = {}
<1>1. Types /\ CountInv  BY DEF HistInv
<1>2. Begun(c) = awaited  BY <1>1 DEF CountInv, ColdInv
<1>3. counts[c].count \in Nat
  <2>1. counts[c] \in Counts  BY <1>1 DEF Types
  <2> QED  BY <2>1, CountsFacts
<1>4. InFlight(c) \in SUBSET Observers  BY FlightSets
<1>5. Cardinality(InFlight(c)) \in Nat  BY <1>4, ObserverSet
<1>6. Cardinality(InFlight(c)) = 0  BY <1>2, <1>3, <1>5 DEF Begun
<1> QED  BY <1>4, <1>6, ObserverSet

LEMMA CoolKeeps ==
    ASSUME HistInv, NEW p \in Procs, Cool(p)
    PROVE  HistInv'
<1>1. Types /\ MutexInv /\ CountInv /\ SparseInv /\ ReportsInv  BY DEF HistInv
<1>2. PICK h \in 0..1, c \in 0..1 : h = hot /\ c # h  BY <1>1 DEF Types
<1>3. c = 1 - h /\ h = 1 - c /\ cold = c /\ \A d \in 0..1 : d = h \/ d = c  BY <1>2 DEF cold
<1>4. pc[p] = "cool" /\ pc' = [pc EXCEPT ![p] = "merge"] /\ plan # "reset"  BY DEF Cool, Goto
<1>5. /\ hot' = hot /\ begun' = begun /\ awaited' = awaited /\ counts' = counts /\ mtx' = mtx
      /\ plan' = plan /\ left' = left /\ created' = created /\ side' = side /\ val' = val
      /\ smallest' = smallest /\ elapsed' = elapsed /\ scheduled' = scheduled /\ seen' = seen
      /\ made' = made /\ forgotten' = forgotten /\ snap' = snap
  BY DEF Cool, hotVars, mtxVars, observerVars
<1>6. MutexInv' /\ phase' = "merge" /\ phase = "cool" /\ mtx = p
  <2>1. pc[p] \in Holding /\ "merge" \in Holding  BY <1>4 DEF Holding
  <2> QED  BY <1>1, <1>4, <1>5, <2>1, MutexHeld
<1>7. \A q \in Observers : pc'[q] = pc[q] \/ (pc'[q] \notin Observing /\ pc[q] \notin Observing)
  BY <1>1, <1>4, <1>5 DEF Types, Procs, Observing, Holding
<1>8. ASSUME NEW d \in 0..1 PROVE InFlight(d)' = InFlight(d) /\ Numbering(d)' = Numbering(d)
  BY <1>5, <1>7, FlightsKept
<1>9. ASSUME NEW d \in 0..1, NEW v \in Values PROVE Coming(d, v)' = Coming(d, v)
  BY <1>5, <1>7, ComingKept
<1>10. HotInv(h) /\ ColdInv(c) /\ NumberInv(h) /\ NumberInv(c) /\ LeftInv(c) /\ ResolutionInv(h, c)
  BY <1>1, <1>2, <1>3 DEF CountInv, SparseInv
<1>11. OnBothSides /\ OnBothSides'  BY <1>4, <1>5, <1>6 DEF OnBothSides
<1>12. counts[c].count = awaited  BY <1>3 DEF Cool, Cooled
<1>13. InFlight(c) = {}  BY <1>2, <1>6, <1>12, CooledIsEmpty
<1>14. reported' = IF plan # "write" THEN reported
                   ELSE [sum |-> counts[c].sum, created |-> created, forgotten |-> forgotten]
  BY <1>3 DEF Cool
<1>15. Types'
  <2>1. pc' \in [Procs -> Labels]  BY <1>1, <1>4 DEF Types, Labels
  <2>2. reported' \in [sum : Bags, created : Nat, forgotten : Bags]
    <3>1. counts[c] \in Counts  BY <1>1 DEF Types
    <3>2. counts[c].sum \in Bags  BY <3>1, CountsFacts
    <3> QED  BY <1>1, <1>14, <3>2 DEF Types
  <2> QED  BY <1>1, <1>5, <2>1, <2>2 DEF Types
<1>16. CountInv'
  <2>1. HotInv(h)'  BY <1>5, <1>8, <1>10, <1>11 DEF HotInv, Begun
  <2>2. ASSUME NEW v \in Values PROVE HotSumInv(h, v)'
    <3>1. HotSumInv(h, v)  BY <1>1, <1>2 DEF CountInv
    <3>2. BegunOf(h, v)' = BegunOf(h, v) /\ BegunOf(c, v)' = BegunOf(c, v)  BY <1>5, <1>9 DEF BegunOf
    <3> QED  BY <1>3, <1>5, <1>11, <3>1, <3>2 DEF HotSumInv
  <2>3. ColdInv(c)'  BY <1>5, <1>6, <1>8, <1>10, <1>13 DEF ColdInv, Begun
  <2> QED  BY <1>2, <1>3, <1>5, <2>1, <2>2, <2>3 DEF CountInv
<1>17. SparseInv'
  <2>1. NumberInv(h)' /\ NumberInv(c)'  BY <1>5, <1>8, <1>10 DEF NumberInv
  <2>2. LeftInv(c)'  BY <1>5, <1>6, <1>10 DEF LeftInv
  <2>3. ResolutionInv(h, c)'  BY <1>4, <1>5, <1>6, <1>10 DEF ResolutionInv
  <2> QED  BY <1>2, <1>3, <1>5, <2>1, <2>2, <2>3 DEF SparseInv, ResolutionInv
<1>18. ReportsInv'
  <2>1. ASSUME NEW v \in Values PROVE ReportInv(c, v)'
    <3>1. ReportInv(c, v)  BY <1>1, <1>2 DEF ReportsInv
    <3>2. pc'[Scraper] # "cool"
      BY <1>1, <1>4, <1>6, ProcsAssumption DEF Types, MutexInv, Procs, Holding
    <3>3. BegunOf(c, v)' = BegunOf(c, v)  BY <1>5, <1>9 DEF BegunOf
    <3>4. counts[c].sum[v] <= BegunOf(c, v)
      <4>1. counts[c].sum[v] \in Nat /\ Cardinality(Coming(c, v)) \in Nat  BY <1>1, BegunType
      <4> QED  BY <4>1 DEF BegunOf
    <3>5. CASE plan # "write"
      <4>1. reported' = reported  BY <1>14, <3>5
      <4> QED  BY <1>5, <1>6, <1>11, <3>1, <3>2, <3>3, <4>1 DEF ReportInv
    <3>6. CASE plan = "write"
      <4>1. reported'.sum = counts[c].sum  BY <1>14, <3>6
      <4> QED  BY <1>5, <1>6, <3>2, <3>3, <3>4, <4>1 DEF ReportInv
    <3> QED  BY <3>5, <3>6
  <2>2. reported'.created <= created'
    <3>1. created \in Nat  BY <1>1 DEF Types
    <3> QED  BY <1>1, <1>5, <1>14, <3>1 DEF ReportsInv
  <2> QED  BY <1>2, <1>3, <1>5, <2>1, <2>2 DEF ReportsInv
<1> QED  BY <1>6, <1>15, <1>16, <1>17, <1>18 DEF HistInv

LEMMA CoolResetKeeps ==
    ASSUME HistInv, NEW p \in Procs, CoolReset(p)
    PROVE  HistInv'
<1>1. Types /\ MutexInv /\ CountInv /\ SparseInv /\ ReportsInv  BY DEF HistInv
<1>2. PICK h \in 0..1, c \in 0..1 : h = hot /\ c # h  BY <1>1 DEF Types
<1>3. c = 1 - h /\ h = 1 - c /\ cold = c /\ \A d \in 0..1 : d = h \/ d = c  BY <1>2 DEF cold
<1>4. pc[p] = "cool" /\ pc' = [pc EXCEPT ![p] = "rest"] /\ plan = "reset"  BY DEF CoolReset, Goto
<1>5. /\ hot' = hot /\ begun' = begun /\ awaited' = awaited /\ mtx' = None
      /\ plan' = plan /\ left' = left /\ created' = created + 1 /\ side' = side /\ val' = val
      /\ smallest' = smallest /\ seen' = seen /\ reported' = reported
      /\ made' = made /\ forgotten' = forgotten /\ snap' = snap
  BY DEF CoolReset, NextCreated, observerVars, historyVars
<1>6. MutexInv' /\ phase' = "rest" /\ phase = "cool" /\ mtx = p
  <2>1. pc[p] \in Holding  BY <1>4 DEF Holding
  <2> QED  BY <1>1, <1>4, <1>5, <2>1, MutexFreed
<1>7. \A q \in Observers : pc'[q] = pc[q] \/ (pc'[q] \notin Observing /\ pc[q] \notin Observing)
  BY <1>1, <1>4, <1>5 DEF Types, Procs, Observing, Holding
<1>8. ASSUME NEW d \in 0..1 PROVE InFlight(d)' = InFlight(d) /\ Numbering(d)' = Numbering(d)
  BY <1>5, <1>7, FlightsKept
<1>9. ASSUME NEW d \in 0..1, NEW v \in Values PROVE Coming(d, v)' = Coming(d, v)
  BY <1>5, <1>7, ComingKept
<1>10. HotInv(h) /\ ColdInv(c) /\ NumberInv(h) /\ NumberInv(c) /\ LeftInv(c) /\ ResolutionInv(h, c)
  BY <1>1, <1>2, <1>3 DEF CountInv, SparseInv
<1>11. ~OnBothSides /\ ~OnBothSides'  BY <1>4, <1>6 DEF OnBothSides
<1>12. counts[c].count = awaited  BY <1>3 DEF CoolReset, Cooled
<1>13. InFlight(c) = {}  BY <1>2, <1>6, <1>12, CooledIsEmpty
<1>14. counts' = [counts EXCEPT ![c] = Fresh]  BY <1>3 DEF CoolReset
<1>15. counts'[c] = Fresh /\ counts'[h] = counts[h]  BY <1>1, <1>2, <1>14 DEF Types
<1>16. Types'
  <2>1. pc' \in [Procs -> Labels]  BY <1>1, <1>4 DEF Types, Labels
  <2>2. counts' \in [0..1 -> Counts]  BY <1>1, <1>14, FreshFacts DEF Types
  <2>3. scheduled' \in BOOLEAN /\ elapsed' \in BOOLEAN  BY <1>1 DEF Types, CoolReset
  <2>4. created' \in Nat  BY <1>1, <1>5 DEF Types
  <2> QED  BY <1>1, <1>5, <2>1, <2>2, <2>3, <2>4 DEF Types
<1>17. CountInv'
  <2>1. HotInv(h)'  BY <1>5, <1>8, <1>10, <1>11, <1>15 DEF HotInv, Begun
  <2>2. ASSUME NEW v \in Values PROVE HotSumInv(h, v)'
    <3>1. HotSumInv(h, v)  BY <1>1, <1>2 DEF CountInv
    <3> QED  BY <1>5, <1>9, <1>11, <1>15, <3>1 DEF HotSumInv, BegunOf
  <2>3. ColdInv(c)'  BY <1>6, <1>8, <1>13, <1>15, FreshFacts DEF ColdInv
  <2> QED  BY <1>2, <1>3, <1>5, <2>1, <2>2, <2>3 DEF CountInv
<1>18. SparseInv'
  <2>1. NumberInv(h)'  BY <1>8, <1>10, <1>15 DEF NumberInv
  <2>2. NumberInv(c)'
    <3>1. Numbering(c)' = {}  BY <1>8, <1>13, FlightSets
    <3>2. Cardinality(Numbering(c)') = 0  BY <3>1, FS_EmptySet
    <3> QED  BY <1>15, <3>2, FreshFacts, EmptyType DEF NumberInv
  <2>3. LeftInv(c)'
    <3>1. left = {}  BY <1>6, <1>10 DEF LeftInv
    <3>2. DOMAIN counts'[c].sparse = {}  BY <1>15, FreshFacts, EmptyType
    <3> QED  BY <1>5, <1>6, <3>1, <3>2 DEF LeftInv
  <2>4. ResolutionInv(h, c)'
    BY <1>4, <1>5, <1>6, <1>10, <1>15, FreshFacts DEF ResolutionInv
  <2> QED  BY <1>2, <1>3, <1>5, <2>1, <2>2, <2>3, <2>4 DEF SparseInv, ResolutionInv
<1>19. ReportsInv'
  <2>1. reported.created \in Nat /\ created \in Nat /\ reported.created <= created
    BY <1>1 DEF Types, ReportsInv
  <2>2. pc'[Scraper] # "cool"
    BY <1>1, <1>4, <1>6, ProcsAssumption DEF Types, MutexInv, Procs, Holding
  <2>3. ASSUME NEW v \in Values PROVE ReportInv(c, v)'  BY <1>5, <2>1, <2>2 DEF ReportInv
  <2> QED  BY <1>2, <1>3, <1>5, <2>1, <2>3 DEF ReportsInv
<1> QED  BY <1>6, <1>16, <1>17, <1>18, <1>19 DEF HistInv

-----------------------------------------------------------------------------
(* In mtx: the merge *)

LEMMA MergeKeeps ==
    ASSUME HistInv, NEW p \in Procs, Merge(p)
    PROVE  HistInv'
<1>1. Types /\ MutexInv /\ CountInv /\ SparseInv /\ ReportsInv  BY DEF HistInv
<1>2. PICK h \in 0..1, c \in 0..1 : h = hot /\ c # h  BY <1>1 DEF Types
<1>3. c = 1 - h /\ h = 1 - c /\ cold = c /\ \A d \in 0..1 : d = h \/ d = c  BY <1>2 DEF cold
<1>4. pc[p] = "merge" /\ pc' = [pc EXCEPT ![p] = "sparse"]  BY DEF Merge, Goto
<1>5. /\ hot' = hot /\ begun' = begun /\ awaited' = awaited /\ mtx' = mtx
      /\ plan' = plan /\ created' = created /\ side' = side /\ val' = val
      /\ smallest' = smallest /\ elapsed' = elapsed /\ scheduled' = scheduled /\ seen' = seen
      /\ made' = made /\ forgotten' = forgotten /\ snap' = snap /\ reported' = reported
      /\ left' = DOMAIN counts[c].sparse
  BY <1>3 DEF Merge, observerVars, historyVars
<1>6. MutexInv' /\ phase' = "sparse" /\ phase = "merge" /\ mtx = p /\ plan # "reset"
  <2>1. pc[p] \in Holding /\ "sparse" \in Holding  BY <1>4 DEF Holding
  <2>2. mtx = p /\ p # None  BY <1>1, <2>1, ProcsAssumption DEF MutexInv
  <2>3. plan # "reset"  BY <1>1, <1>4, <2>2 DEF MutexInv, phase
  <2>4. Types /\ MutexInv /\ mtx' = mtx /\ plan' = plan  BY <1>1, <1>5
  <2>5. MutexInv' /\ phase' = "sparse" /\ phase = pc[p] /\ mtx = p
    BY <1>4, <2>1, <2>3, <2>4, MutexHeld
  <2> QED  BY <1>4, <2>3, <2>5
<1>7. \A q \in Observers : pc'[q] = pc[q] \/ (pc'[q] \notin Observing /\ pc[q] \notin Observing)
  BY <1>1, <1>4, <1>5 DEF Types, Procs, Observing, Holding
<1>8. ASSUME NEW d \in 0..1 PROVE InFlight(d)' = InFlight(d) /\ Numbering(d)' = Numbering(d)
  BY <1>5, <1>7, FlightsKept
<1>9. ASSUME NEW d \in 0..1, NEW v \in Values PROVE Coming(d, v)' = Coming(d, v)
  BY <1>5, <1>7, ComingKept
<1>10. HotInv(h) /\ ColdInv(c) /\ NumberInv(h) /\ NumberInv(c) /\ LeftInv(c) /\ ResolutionInv(h, c)
  BY <1>1, <1>2, <1>3 DEF CountInv, SparseInv
<1>11. OnBothSides /\ ~OnBothSides'  BY <1>6 DEF OnBothSides
<1>12. InFlight(c) = {} /\ InFlight(c)' = {}  BY <1>6, <1>8, <1>10 DEF ColdInv
<1>13. PICK x \in Counts, z \in Counts : x = counts[h] /\ z = counts[c]  BY <1>1 DEF Types
<1>14. PICK t \in Int, l \in 0..MaxLevel : /\ t = (IF plan = "widen" THEN x.thr ELSE z.thr)
                                           /\ l = (IF plan = "double" THEN x.lvl ELSE z.lvl)
  BY CountsFacts
<1>15. PICK y, w : y = MergedInto(x, z) /\ w = MergedOut(z, t, l)  OBVIOUS
<1>16. counts' = [counts EXCEPT ![h] = y, ![c] = w]
  <2>1. /\ Emptied(z).thr = z.thr /\ Emptied(z).lvl = z.lvl  BY DEF Emptied, Counts
  <2>2. w = [Emptied(z) EXCEPT !.thr = IF plan = "widen" THEN x.thr ELSE @,
                               !.lvl = IF plan = "double" THEN x.lvl ELSE @]
    BY <1>14, <1>15, <2>1 DEF MergedOut, Emptied, Counts
  <2> QED  BY <1>2, <1>3, <1>13, <1>15, <2>2 DEF Merge
<1>17. counts'[h] = y /\ counts'[c] = w  BY <1>1, <1>2, <1>16 DEF Types
<1>18. /\ y \in Counts
       /\ y.count = x.count + z.count /\ y.num = x.num /\ y.sparse = x.sparse
       /\ \A v \in Values : y.sum[v] = x.sum[v] + z.sum[v]
       /\ y.thr = x.thr /\ y.lvl = x.lvl
  BY <1>15, MergedFacts
<1>19. /\ w \in Counts
       /\ w.count = 0 /\ w.sum = NoValues /\ w.num = z.num /\ w.sparse = z.sparse
       /\ w.thr = t /\ w.lvl = l
  BY <1>15, EmptiedFacts
<1>20. Types'
  <2>1. pc' \in [Procs -> Labels]  BY <1>1, <1>4 DEF Types, Labels
  <2>2. counts' \in [0..1 -> Counts]  BY <1>1, <1>16, <1>18, <1>19 DEF Types
  <2> QED  BY <1>1, <1>5, <2>1, <2>2 DEF Types
<1>21. CountInv'
  <2>1. HotInv(h)'
    <3>1. x.count \in Nat /\ z.count \in Nat /\ begun \in Nat /\ awaited \in Nat
      BY <1>1, CountsFacts DEF Types
    <3>2. Cardinality(InFlight(h)) \in Nat  BY FlightSets, ObserverSet
    <3>3. Cardinality(InFlight(c)) = 0  BY <1>12, FS_EmptySet
    <3>4. z.count = awaited  BY <1>6, <1>10, <1>13, <3>1, <3>3 DEF ColdInv, Begun
    <3>5. x.count + Cardinality(InFlight(h)) = begun - awaited
      BY <1>10, <1>11, <1>13 DEF HotInv, Begun
    <3>6. (x.count + z.count) + Cardinality(InFlight(h)) = begun  BY <3>1, <3>2, <3>4, <3>5
    <3> QED  BY <1>5, <1>8, <1>11, <1>17, <1>18, <3>6 DEF HotInv, Begun
  <2>2. ASSUME NEW v \in Values PROVE HotSumInv(h, v)'
    <3>1. HotSumInv(h, v)  BY <1>1, <1>2 DEF CountInv
    <3>2. Coming(c, v) = {}  BY <1>12, FlightSets
    <3>3. Cardinality(Coming(c, v)) = 0  BY <3>2, FS_EmptySet
    <3>4. x.sum[v] \in Nat /\ z.sum[v] \in Nat /\ Cardinality(Coming(h, v)) \in Nat /\ made[v] \in Nat
      BY <1>1, <1>13, BegunType DEF Types, Bags
    <3>5. BegunOf(c, v) = z.sum[v]  BY <1>13, <3>3, <3>4 DEF BegunOf
    <3>6. x.sum[v] + Cardinality(Coming(h, v)) + z.sum[v] = made[v]
      <4>1. BegunOf(h, v) + BegunOf(1 - h, v) = made[v]  BY <1>11, <3>1 DEF HotSumInv
      <4>2. BegunOf(1 - h, v) = BegunOf(c, v)  BY <1>3
      <4>3. BegunOf(h, v) = x.sum[v] + Cardinality(Coming(h, v))  BY <1>13 DEF BegunOf
      <4> QED  BY <3>5, <4>1, <4>2, <4>3
    <3>7. (x.sum[v] + z.sum[v]) + Cardinality(Coming(h, v)) = made[v]  BY <3>4, <3>6
    <3> QED  BY <1>5, <1>9, <1>11, <1>17, <1>18, <3>7 DEF HotSumInv, BegunOf
  <2>3. ColdInv(c)'  BY <1>6, <1>12, <1>17, <1>19 DEF ColdInv
  <2> QED  BY <1>2, <1>3, <1>5, <2>1, <2>2, <2>3 DEF CountInv
<1>22. SparseInv'
  <2>1. NumberInv(h)' /\ NumberInv(c)'  BY <1>8, <1>10, <1>13, <1>17, <1>18, <1>19 DEF NumberInv
  <2>2. LeftInv(c)'  BY <1>5, <1>6, <1>13, <1>17, <1>19 DEF LeftInv
  <2>3. plan \in {"write", "widen", "double"}  BY <1>1, <1>6 DEF Types
  <2>4. w.thr = y.thr /\ w.lvl = y.lvl
    BY <1>6, <1>10, <1>13, <1>14, <1>18, <1>19, <2>3 DEF ResolutionInv
  <2>5. ResolutionInv(h, c)'  BY <1>5, <1>6, <1>17, <2>4 DEF ResolutionInv
  <2> QED  BY <1>2, <1>3, <1>5, <2>1, <2>2, <2>5 DEF SparseInv, ResolutionInv
<1>23. ReportsInv'
  <2>1. pc'[Scraper] # "cool"
    BY <1>1, <1>4, <1>6, ProcsAssumption DEF Types, MutexInv, Procs, Holding
  <2>2. ASSUME NEW v \in Values PROVE ReportInv(c, v)'
    <3>1. ReportInv(c, v) /\ HotSumInv(h, v)  BY <1>1, <1>2 DEF ReportsInv, CountInv
    <3>2. BegunOf(c, v) \in Nat /\ BegunOf(h, v) \in Nat /\ reported.sum[v] \in Nat /\ made[v] \in Nat
      BY <1>1, BegunType DEF Types, Bags
    <3>3. BegunOf(c, v) <= made[v]  BY <1>3, <1>11, <3>1, <3>2 DEF HotSumInv
    <3>4. reported.created = created => reported.sum[v] <= made[v]
      BY <1>11, <3>1, <3>2, <3>3 DEF ReportInv
    <3> QED  BY <1>5, <1>11, <2>1, <3>4 DEF ReportInv
  <2> QED  BY <1>1, <1>2, <1>3, <1>5, <2>2 DEF ReportsInv
<1> QED  BY <1>6, <1>20, <1>21, <1>22, <1>23 DEF HistInv

\* The steps of the merge after that leave the counts and sums alone.
SparseStep(h, c, y, w) ==
    /\ h = hot /\ c # h /\ phase = "sparse" /\ phase' \in {"sparse", "rest"}
    /\ y = counts'[h] /\ w = counts'[c]
    /\ y.count = counts[h].count /\ y.sum = counts[h].sum
    /\ w.count = counts[c].count /\ w.sum = counts[c].sum
    /\ y.thr = counts[h].thr /\ y.lvl = counts[h].lvl
    /\ w.thr = counts[c].thr /\ w.lvl = counts[c].lvl
    /\ y.num + Cardinality(DOMAIN counts[h].sparse) = counts[h].num + Cardinality(DOMAIN y.sparse)
    /\ w.num = Cardinality(DOMAIN w.sparse)
    /\ left' \subseteq DOMAIN w.sparse /\ (phase' = "rest" => left' = {})
    /\ phase' = "rest" \/ plan # "double" => \A k \in DOMAIN w.sparse \ left' : w.sparse[k] = 0
    /\ \A q \in Observers : pc'[q] = pc[q] \/ (pc'[q] \notin Observing /\ pc[q] \notin Observing)
    /\ pc'[Scraper] # "cool"
    /\ UNCHANGED <<hot, begun, awaited, plan, created, side, val, historyVars>>

LEMMA SparseKeeps ==
    ASSUME HistInv, Types', MutexInv', NEW h \in 0..1, NEW c \in 0..1, NEW y, NEW w,
           SparseStep(h, c, y, w)
    PROVE  HistInv'
<1>1. Types /\ MutexInv /\ CountInv /\ SparseInv /\ ReportsInv  BY DEF HistInv
<1>2. /\ h = hot /\ c # h /\ phase = "sparse" /\ phase' \in {"sparse", "rest"}
      /\ y = counts'[h] /\ w = counts'[c]
      /\ hot' = hot /\ begun' = begun /\ awaited' = awaited /\ plan' = plan /\ created' = created
      /\ side' = side /\ val' = val /\ made' = made /\ forgotten' = forgotten /\ snap' = snap
      /\ reported' = reported /\ pc'[Scraper] # "cool"
  BY DEF SparseStep, historyVars
<1>3. c = 1 - h /\ h = 1 - c /\ \A d \in 0..1 : d = h \/ d = c  BY <1>2
<1>4. \A q \in Observers : pc'[q] = pc[q] \/ (pc'[q] \notin Observing /\ pc[q] \notin Observing)
  BY DEF SparseStep
<1>5. ASSUME NEW d \in 0..1 PROVE InFlight(d)' = InFlight(d) /\ Numbering(d)' = Numbering(d)
  BY <1>2, <1>4, FlightsKept
<1>6. ASSUME NEW d \in 0..1, NEW v \in Values PROVE Coming(d, v)' = Coming(d, v)
  BY <1>2, <1>4, ComingKept
<1>7. HotInv(h) /\ ColdInv(c) /\ NumberInv(h) /\ NumberInv(c) /\ LeftInv(c) /\ ResolutionInv(h, c)
  BY <1>1, <1>2, <1>3 DEF CountInv, SparseInv
<1>8. ~OnBothSides /\ ~OnBothSides'  BY <1>2 DEF OnBothSides
<1>9. InFlight(c) = {} /\ InFlight(c)' = {}  BY <1>2, <1>5, <1>7 DEF ColdInv
<1>10. plan \in {"write", "widen", "double"}
  <2>1. plan # "reset"  BY <1>1, <1>2 DEF MutexInv
  <2> QED  BY <1>1, <2>1 DEF Types
<1>11. CountInv'
  <2>1. HotInv(h)'  BY <1>2, <1>5, <1>7, <1>8 DEF HotInv, Begun, SparseStep
  <2>2. ASSUME NEW v \in Values PROVE HotSumInv(h, v)'
    <3>1. HotSumInv(h, v)  BY <1>1, <1>2 DEF CountInv
    <3>2. BegunOf(h, v)' = BegunOf(h, v)  BY <1>2, <1>6 DEF BegunOf, SparseStep
    <3> QED  BY <1>2, <1>8, <3>1, <3>2 DEF HotSumInv
  <2>3. ColdInv(c)'  BY <1>2, <1>7, <1>9 DEF ColdInv, SparseStep
  <2> QED  BY <1>2, <1>3, <2>1, <2>2, <2>3 DEF CountInv
<1>12. SparseInv'
  <2>1. NumberInv(h)'
    <3>1. counts[h] \in Counts /\ y \in Counts  BY <1>1, <1>2 DEF Types
    <3>2. /\ counts[h].num \in Nat /\ y.num \in Nat /\ Cardinality(DOMAIN y.sparse) \in Nat
          /\ Cardinality(DOMAIN counts[h].sparse) \in Nat
      BY <3>1, CountsFacts, BucketFacts
    <3>3. Cardinality(Numbering(h)) \in Nat  BY FlightSets, ObserverSet
    <3>4. /\ y.num + Cardinality(DOMAIN counts[h].sparse) = counts[h].num + Cardinality(DOMAIN y.sparse)
          /\ counts[h].num + Cardinality(Numbering(h)) = Cardinality(DOMAIN counts[h].sparse)
      BY <1>7 DEF NumberInv, SparseStep
    <3>5. y.num + Cardinality(Numbering(h)) = Cardinality(DOMAIN y.sparse)  BY <3>2, <3>3, <3>4
    <3> QED  BY <1>2, <1>5, <3>5 DEF NumberInv
  <2>2. NumberInv(c)'
    <3>1. Numbering(c)' = {}  BY <1>5, <1>9, FlightSets
    <3>2. Cardinality(Numbering(c)') = 0  BY <3>1, FS_EmptySet
    <3>3. w \in Counts  BY <1>2 DEF Types
    <3>4. w.num \in Nat /\ w.num = Cardinality(DOMAIN w.sparse)  BY <3>3, CountsFacts DEF SparseStep
    <3> QED  BY <1>2, <3>2, <3>4 DEF NumberInv
  <2>3. LeftInv(c)'  BY <1>2 DEF LeftInv, SparseStep
  <2>4. ResolutionInv(h, c)'  BY <1>2, <1>7, <1>10 DEF ResolutionInv, SparseStep
  <2> QED  BY <1>2, <1>3, <2>1, <2>2, <2>3, <2>4 DEF SparseInv, ResolutionInv
<1>13. ReportsInv'
  <2>1. ASSUME NEW v \in Values PROVE ReportInv(c, v)'
    <3>1. ReportInv(c, v)  BY <1>1, <1>2 DEF ReportsInv
    <3> QED  BY <1>2, <1>8, <3>1 DEF ReportInv
  <2> QED  BY <1>1, <1>2, <1>3, <2>1 DEF ReportsInv
<1> QED  BY <1>11, <1>12, <1>13 DEF HistInv

\* One bucket of the Range: into the hot bucket of its key, into the zero bucket, or into the
\* wider bucket that covers it.
LEMMA MergeSparseKeeps ==
    ASSUME HistInv, NEW p \in Procs, MergeSparse(p)
    PROVE  HistInv'
<1>1. Types /\ MutexInv /\ CountInv /\ SparseInv  BY DEF HistInv
<1>2. PICK h \in 0..1, c \in 0..1 : h = hot /\ c # h  BY <1>1 DEF Types
<1>3. c = 1 - h /\ h = 1 - c /\ cold = c /\ \A d \in 0..1 : d = h \/ d = c  BY <1>2 DEF cold
<1>4. /\ pc[p] = "sparse" /\ pc' = pc /\ mtx' = mtx /\ plan' = plan
      /\ hot' = hot /\ begun' = begun /\ awaited' = awaited /\ created' = created /\ side' = side
      /\ val' = val /\ smallest' = smallest /\ elapsed' = elapsed /\ scheduled' = scheduled
      /\ seen' = seen /\ made' = made /\ forgotten' = forgotten /\ snap' = snap
      /\ reported' = reported
  BY DEF MergeSparse, observerVars, historyVars
<1>5. MutexInv' /\ phase = "sparse" /\ phase' = "sparse" /\ mtx = p /\ plan # "reset"
  <2>1. mtx = p /\ p # None  BY <1>1, <1>4, ProcsAssumption DEF MutexInv, Holding
  <2>2. phase = "sparse" /\ phase' = "sparse"  BY <1>4, <2>1 DEF phase
  <2> QED  BY <1>1, <1>4, <2>1, <2>2 DEF MutexInv
<1>6. PICK x \in Counts, z \in Counts : x = counts[h] /\ z = counts[c]  BY <1>1 DEF Types
<1>7. PICK k \in left :
        /\ left' = left \ {k}
        /\ counts' = CASE plan = "write" -> Refilled(k)
                       [] plan = "widen" -> IF k.key = smallest THEN IntoZero(k) ELSE Refilled(k)
                       [] plan = "double" -> IntoWider(k)
  BY DEF MergeSparse
<1>8. NumberInv(h) /\ NumberInv(c) /\ LeftInv(c) /\ ColdInv(c)
  BY <1>1, <1>2, <1>3 DEF CountInv, SparseInv
<1>9. k \in DOMAIN z.sparse /\ k \in SparseKeys /\ z.sparse[k] \in Nat /\ left \subseteq DOMAIN z.sparse
  <2>1. left \subseteq DOMAIN z.sparse  BY <1>6, <1>8 DEF LeftInv
  <2>2. z.sparse \in Buckets  BY CountsFacts
  <2> QED  BY <2>1, <2>2, BucketFacts
<1>10. PICK n \in Nat : n = z.sparse[k]  BY <1>9
<1>11. z.num = Cardinality(DOMAIN z.sparse)
  <2>1. InFlight(c) = {}  BY <1>5, <1>8 DEF ColdInv
  <2>2. Numbering(c) = {}  BY <2>1, FlightSets
  <2>3. Cardinality(Numbering(c)) = 0 /\ z.num \in Nat  BY <2>2, FS_EmptySet, CountsFacts
  <2> QED  BY <1>6, <1>8, <2>3 DEF NumberInv
<1>12. plan # "double" => \A j \in DOMAIN z.sparse \ left : z.sparse[j] = 0
  BY <1>5, <1>6, <1>8 DEF LeftInv
<1>13. x.num \in Nat /\ Cardinality(DOMAIN x.sparse) \in Nat /\ x.sparse \in Buckets
  BY CountsFacts, BucketFacts
<1>14. SUFFICES ASSUME NEW y \in Counts, NEW w \in Counts, counts' = [counts EXCEPT ![h] = y, ![c] = w],
                       y.count = x.count, y.sum = x.sum, y.thr = x.thr, y.lvl = x.lvl,
                       w.count = z.count, w.sum = z.sum, w.thr = z.thr, w.lvl = z.lvl,
                       y.num + Cardinality(DOMAIN x.sparse) = x.num + Cardinality(DOMAIN y.sparse),
                       w.num = Cardinality(DOMAIN w.sparse), left \ {k} \subseteq DOMAIN w.sparse,
                       plan # "double" => \A j \in DOMAIN w.sparse \ (left \ {k}) : w.sparse[j] = 0
                PROVE  HistInv'
  <2>1. CASE plan = "write" \/ (plan = "widen" /\ k.key # smallest)
    <3>1. PICK y, w : y = SparseInto(x, k, n) /\ w = EmptiedAt(z, k)  OBVIOUS
    <3>2. counts' = Refilled(k)  BY <1>7, <2>1
    <3>3. counts' = [counts EXCEPT ![h] = y, ![c] = w]
      BY <1>1, <1>2, <1>3, <1>6, <1>10, <3>1, <3>2 DEF Refilled, EmptiedAt, Types
    <3>4. /\ y \in Counts
          /\ y.count = x.count /\ y.sum = x.sum /\ y.thr = x.thr /\ y.lvl = x.lvl
          /\ y.num - x.num = Cardinality(DOMAIN y.sparse) - Cardinality(DOMAIN x.sparse)
      BY <1>9, <3>1, IntoFacts
    <3>5. /\ w \in Counts
          /\ w.count = z.count /\ w.sum = z.sum /\ w.thr = z.thr /\ w.lvl = z.lvl
          /\ w.num = z.num /\ DOMAIN w.sparse = DOMAIN z.sparse
          /\ \A j \in DOMAIN w.sparse : w.sparse[j] = IF j = k THEN 0 ELSE z.sparse[j]
      BY <1>9, <3>1, RefilledFacts
    <3>6. y.num + Cardinality(DOMAIN x.sparse) = x.num + Cardinality(DOMAIN y.sparse)
      <4>1. y.num \in Nat /\ Cardinality(DOMAIN y.sparse) \in Nat  BY <3>4, CountsFacts, BucketFacts
      <4> QED  BY <1>13, <3>4, <4>1
    <3>7. w.num = Cardinality(DOMAIN w.sparse) /\ left \ {k} \subseteq DOMAIN w.sparse
      BY <1>9, <1>11, <3>5
    <3>8. \A j \in DOMAIN w.sparse \ (left \ {k}) : w.sparse[j] = 0  BY <1>12, <2>1, <3>5
    <3> QED  BY <1>14, <3>3, <3>4, <3>5, <3>6, <3>7, <3>8
  <2>2. CASE plan = "widen" /\ k.key = smallest
    <3>1. PICK y, w : y = ZeroPlus(x, n) /\ w = TakenOut(z, k)  OBVIOUS
    <3>2. counts' = IntoZero(k)  BY <1>7, <2>2
    <3>3. counts' = [counts EXCEPT ![h] = y, ![c] = w]
      BY <1>1, <1>2, <1>3, <1>6, <1>10, <3>1, <3>2 DEF IntoZero, ZeroPlus, TakenOut, Types
    <3>4. /\ y \in Counts
          /\ y.count = x.count /\ y.sum = x.sum /\ y.num = x.num
          /\ y.thr = x.thr /\ y.lvl = x.lvl /\ y.sparse = x.sparse
      BY <3>1, ZeroFacts
    <3>5. /\ w \in Counts
          /\ w.count = z.count /\ w.sum = z.sum /\ w.thr = z.thr /\ w.lvl = z.lvl
          /\ w.num = Cardinality(DOMAIN w.sparse)
          /\ DOMAIN w.sparse = DOMAIN z.sparse \ {k}
          /\ \A j \in DOMAIN w.sparse : w.sparse[j] = z.sparse[j]
      BY <1>9, <1>11, <3>1, IntoZeroFacts
    <3>6. left \ {k} \subseteq DOMAIN w.sparse  BY <1>9, <3>5
    <3>7. \A j \in DOMAIN w.sparse \ (left \ {k}) : w.sparse[j] = 0  BY <1>12, <2>2, <3>5
    <3> QED  BY <1>14, <3>3, <3>4, <3>5, <3>6, <3>7
  <2>3. CASE plan = "double"
    <3>1. PICK j : j = [k EXCEPT !.key = Halve(@)]  OBVIOUS
    <3>2. j \in SparseKeys
      <4>1. Halve(k.key) \in Int  BY <1>9 DEF Halve, SparseKeys
      <4> QED  BY <1>9, <3>1, <4>1 DEF SparseKeys
    <3>3. PICK y : y = SparseInto(x, j, n)  OBVIOUS
    <3>4. counts' = IntoWider(k)  BY <1>7, <2>3
    <3>5. counts' = [counts EXCEPT ![h] = y, ![c] = z]
      BY <1>1, <1>2, <1>3, <1>6, <1>10, <3>1, <3>3, <3>4 DEF IntoWider, Types
    <3>6. /\ y \in Counts
          /\ y.count = x.count /\ y.sum = x.sum /\ y.thr = x.thr /\ y.lvl = x.lvl
          /\ y.num - x.num = Cardinality(DOMAIN y.sparse) - Cardinality(DOMAIN x.sparse)
      BY <3>2, <3>3, IntoFacts
    <3>7. y.num + Cardinality(DOMAIN x.sparse) = x.num + Cardinality(DOMAIN y.sparse)
      <4>1. y.num \in Nat /\ Cardinality(DOMAIN y.sparse) \in Nat  BY <3>6, CountsFacts, BucketFacts
      <4> QED  BY <1>13, <3>6, <4>1
    <3>8. left \ {k} \subseteq DOMAIN z.sparse  BY <1>9
    <3> QED  BY <1>11, <1>14, <2>3, <3>5, <3>6, <3>7, <3>8
  <2> QED  BY <1>1, <1>5, <2>1, <2>2, <2>3 DEF Types
<1>15. counts'[h] = y /\ counts'[c] = w  BY <1>1, <1>2, <1>14 DEF Types
<1>16. Types'
  <2>1. counts' \in [0..1 -> Counts]  BY <1>1, <1>14 DEF Types
  <2> QED  BY <1>1, <1>4, <2>1 DEF Types
<1>17. pc'[Scraper] # "cool"
  BY <1>1, <1>4, <1>5, ProcsAssumption DEF MutexInv, Procs, Holding
<1>18. SparseStep(h, c, y, w)
  <2>1. left' = left \ {k}  BY <1>7
  <2> QED  BY <1>2, <1>4, <1>5, <1>6, <1>14, <1>15, <1>17, <2>1 DEF SparseStep, historyVars
<1> QED  BY <1>5, <1>16, <1>18, SparseKeeps

LEMMA MergeDoneKeeps ==
    ASSUME HistInv, NEW p \in Procs, MergeDone(p)
    PROVE  HistInv'
<1>1. Types /\ MutexInv /\ CountInv /\ SparseInv  BY DEF HistInv
<1>2. PICK h \in 0..1, c \in 0..1 : h = hot /\ c # h  BY <1>1 DEF Types
<1>3. c = 1 - h /\ h = 1 - c /\ cold = c /\ \A d \in 0..1 : d = h \/ d = c  BY <1>2 DEF cold
<1>4. /\ pc[p] = "sparse" /\ pc' = [pc EXCEPT ![p] = "rest"] /\ mtx' = None /\ plan' = plan
      /\ hot' = hot /\ begun' = begun /\ awaited' = awaited /\ created' = created /\ side' = side
      /\ val' = val /\ smallest' = smallest /\ elapsed' = elapsed /\ scheduled' = scheduled
      /\ seen' = seen /\ made' = made /\ forgotten' = forgotten /\ snap' = snap
      /\ reported' = reported /\ left = {} /\ left' = left
  BY DEF MergeDone, Goto, observerVars, historyVars
<1>5. MutexInv' /\ phase' = "rest" /\ phase = "sparse" /\ mtx = p
  <2>1. pc[p] \in Holding  BY <1>4 DEF Holding
  <2>2. MutexInv' /\ phase' = "rest" /\ phase = pc[p] /\ mtx = p  BY <1>1, <1>4, <2>1, MutexFreed
  <2> QED  BY <1>4, <2>2
<1>6. PICK x \in Counts, z \in Counts : x = counts[h] /\ z = counts[c]  BY <1>1 DEF Types
<1>7. NumberInv(c) /\ LeftInv(c) /\ ColdInv(c)
  BY <1>1, <1>2, <1>3 DEF CountInv, SparseInv
<1>8. z.num = Cardinality(DOMAIN z.sparse)
  <2>1. InFlight(c) = {}  BY <1>5, <1>7 DEF ColdInv
  <2>2. Numbering(c) = {}  BY <2>1, FlightSets
  <2>3. Cardinality(Numbering(c)) = 0 /\ z.num \in Nat  BY <2>2, FS_EmptySet, CountsFacts
  <2> QED  BY <1>6, <1>7, <2>3 DEF NumberInv
<1>9. PICK w \in Counts :
        /\ counts' = [counts EXCEPT ![c] = w]
        /\ w.count = z.count /\ w.sum = z.sum /\ w.thr = z.thr /\ w.lvl = z.lvl
        /\ w.num = Cardinality(DOMAIN w.sparse)
        /\ \A k \in DOMAIN w.sparse : w.sparse[k] = 0
  <2>1. CASE plan = "double"
    <3>1. PICK w : w = [z EXCEPT !.num = 0, !.sparse = NoBuckets]  OBVIOUS
    <3>2. counts' = [counts EXCEPT ![c] = w]
      BY <1>1, <1>3, <1>6, <2>1, <3>1 DEF MergeDone, Types
    <3>3. NoBuckets \in Buckets /\ DOMAIN NoBuckets = {} /\ Cardinality(DOMAIN NoBuckets) = 0
      BY EmptyType
    <3>4. /\ w \in Counts /\ w.count = z.count /\ w.sum = z.sum /\ w.thr = z.thr /\ w.lvl = z.lvl
          /\ w.num = 0 /\ w.sparse = NoBuckets
      <4>1. NoBuckets \in Buckets  BY <3>3
      <4> QED  BY <3>1, <4>1 DEF Counts
    <3> QED  BY <3>2, <3>3, <3>4
  <2>2. CASE plan # "double"
    <3>1. counts' = [counts EXCEPT ![c] = z]  BY <1>1, <1>6, <2>2 DEF MergeDone, Types
    <3>2. \A k \in DOMAIN z.sparse : z.sparse[k] = 0  BY <1>4, <1>5, <1>6, <1>7, <2>2 DEF LeftInv
    <3> QED  BY <1>8, <3>1, <3>2
  <2> QED  BY <2>1, <2>2
<1>10. counts'[h] = x /\ counts'[c] = w  BY <1>1, <1>2, <1>6, <1>9 DEF Types
<1>11. Types'
  <2>1. counts' \in [0..1 -> Counts]  BY <1>1, <1>9 DEF Types
  <2>2. pc' \in [Procs -> Labels]  BY <1>1, <1>4 DEF Types, Labels
  <2> QED  BY <1>1, <1>4, <2>1, <2>2 DEF Types
<1>12. pc'[Scraper] # "cool"
  BY <1>1, <1>4, <1>5, ProcsAssumption DEF Types, MutexInv, Procs, Holding
<1>13. \A q \in Observers : pc'[q] = pc[q] \/ (pc'[q] \notin Observing /\ pc[q] \notin Observing)
  BY <1>1, <1>4 DEF Types, Procs, Observing
<1>14. SparseStep(h, c, x, w)
  BY <1>2, <1>4, <1>5, <1>6, <1>9, <1>10, <1>12, <1>13 DEF SparseStep, historyVars
<1> QED  BY <1>5, <1>11, <1>14, SparseKeeps

-----------------------------------------------------------------------------
(* The invariant *)

LEMMA StutterKeeps ==
    ASSUME HistInv, Types', UNCHANGED <<hotVars, mtx, created, plan, awaited, left, val, side,
                                        historyVars, pc>>
    PROVE  HistInv'
<1>1. /\ hot' = hot /\ begun' = begun /\ counts' = counts /\ mtx' = mtx /\ created' = created
      /\ plan' = plan /\ awaited' = awaited /\ left' = left /\ val' = val /\ side' = side
      /\ made' = made /\ forgotten' = forgotten /\ snap' = snap /\ reported' = reported /\ pc' = pc
  BY DEF hotVars, historyVars
<1>2. Types /\ MutexInv /\ CountInv /\ SparseInv /\ ReportsInv  BY DEF HistInv
<1>3. phase' = phase /\ (OnBothSides' <=> OnBothSides)  BY <1>1 DEF phase, OnBothSides
<1>4. MutexInv'  BY <1>1, <1>2, <1>3 DEF MutexInv
<1>5. ASSUME NEW d \in 0..1
      PROVE  InFlight(d)' = InFlight(d) /\ Numbering(d)' = Numbering(d) /\ Begun(d)' = Begun(d)
  BY <1>1 DEF InFlight, Numbering, Begun
<1>6. ASSUME NEW d \in 0..1, NEW v \in Values PROVE BegunOf(d, v)' = BegunOf(d, v)
  BY <1>1 DEF Coming, BegunOf
<1>7. PICK h \in 0..1, c \in 0..1 : h = hot /\ c # h  BY <1>2 DEF Types
<1>8. c = 1 - h /\ h = 1 - c /\ \A d \in 0..1 : d = h \/ d = c  BY <1>7
<1>9. HotInv(h) /\ ColdInv(c) /\ NumberInv(h) /\ NumberInv(c) /\ LeftInv(c) /\ ResolutionInv(h, c)
  BY <1>2, <1>7, <1>8 DEF CountInv, SparseInv
<1>10. CountInv'
  <2>1. HotInv(h)'  BY <1>1, <1>3, <1>5, <1>9 DEF HotInv
  <2>2. ASSUME NEW v \in Values PROVE HotSumInv(h, v)'
    <3>1. HotSumInv(h, v)  BY <1>2, <1>7 DEF CountInv
    <3> QED  BY <1>1, <1>3, <1>6, <1>8, <3>1 DEF HotSumInv
  <2>3. ColdInv(c)'
    <3>1. Repeated(mtx)' = Repeated(mtx)  BY <1>1 DEF Repeated
    <3> QED  BY <1>1, <1>3, <1>5, <1>9, <3>1 DEF ColdInv
  <2> QED  BY <1>1, <1>7, <1>8, <2>1, <2>2, <2>3 DEF CountInv
<1>11. SparseInv'
  <2>1. NumberInv(h)' /\ NumberInv(c)'  BY <1>1, <1>5, <1>9 DEF NumberInv
  <2>2. LeftInv(c)'  BY <1>1, <1>3, <1>9 DEF LeftInv
  <2>3. ResolutionInv(h, c)'  BY <1>1, <1>3, <1>9 DEF ResolutionInv
  <2> QED  BY <1>1, <1>7, <1>8, <2>1, <2>2, <2>3 DEF SparseInv, ResolutionInv
<1>12. ReportsInv'
  <2>1. ASSUME NEW v \in Values PROVE ReportInv(c, v)'
    <3>1. ReportInv(c, v)  BY <1>2, <1>7 DEF ReportsInv
    <3> QED  BY <1>1, <1>3, <1>6, <3>1 DEF ReportInv
  <2> QED  BY <1>1, <1>2, <1>7, <1>8, <2>1 DEF ReportsInv
<1> QED  BY <1>4, <1>10, <1>11, <1>12 DEF HistInv

LEMMA HistInit ==
    ASSUME Init
    PROVE  HistInv
<1>1. /\ hot = 0 /\ begun = 0 /\ counts = [c \in 0..1 |-> Fresh] /\ mtx = None
      /\ created = 0 /\ pc = [p \in Procs |-> "rest"] /\ plan = "write" /\ awaited = 0
      /\ smallest = 0 /\ left = {} /\ made = NoValues /\ forgotten = NoValues /\ snap = NoValues
      /\ reported = [sum |-> NoValues, created |-> 0, forgotten |-> NoValues]
      /\ side = [o \in Observers |-> 0]
  BY DEF Init
<1>2. NoValues \in Bags /\ \A v \in Values : NoValues[v] = 0  BY FreshFacts DEF NoValues
<1>3. Types
  <2>1. (CHOOSE v \in Values : TRUE) \in Values  BY ValuesAssumption
  <2>2. val \in [Observers -> Values]  BY <2>1 DEF Init
  <2>3. counts \in [0..1 -> Counts]  BY <1>1, FreshFacts
  <2>4. pc \in [Procs -> Labels]  BY <1>1 DEF Labels
  <2>5. seen \in [Observers -> [lvl : 0..MaxLevel, thr : Int]]
    <3>1. 0 \in 0..MaxLevel /\ ZeroThreshold \in Int  BY OptionsAssumption
    <3> QED  BY <3>1 DEF Init
  <2>6. reported \in [sum : Bags, created : Nat, forgotten : Bags]  BY <1>1, <1>2
  <2>7. scheduled \in BOOLEAN /\ elapsed \in BOOLEAN  BY DEF Init
  <2>8. side \in [Observers -> 0..1]  BY <1>1
  <2> QED  BY <1>1, <1>2, <2>2, <2>3, <2>4, <2>5, <2>6, <2>7, <2>8 DEF Types
<1>4. phase = "rest" /\ ~OnBothSides  BY <1>1 DEF phase, OnBothSides
<1>5. MutexInv
  <2>1. \A p \in Procs : pc[p] \notin Holding /\ mtx # p  BY <1>1, ProcsAssumption DEF Holding
  <2> QED  BY <1>1, <1>4, <2>1 DEF MutexInv, Procs
<1>6. ASSUME NEW d \in 0..1
      PROVE  /\ InFlight(d) = {} /\ Numbering(d) = {} /\ Begun(d) = 0 /\ counts[d] = Fresh
             /\ Cardinality(Numbering(d)) = 0
  <2>1. InFlight(d) = {} /\ Numbering(d) = {}  BY <1>1 DEF InFlight, Numbering, Observing, Procs
  <2>2. counts[d] = Fresh  BY <1>1
  <2> QED  BY <2>1, <2>2, FreshFacts, FS_EmptySet DEF Begun
<1>7. ASSUME NEW d \in 0..1, NEW v \in Values PROVE BegunOf(d, v) = 0
  <2>1. Coming(d, v) = {}  BY <1>1 DEF Coming, Procs
  <2> QED  BY <1>2, <1>6, <2>1, FreshFacts, FS_EmptySet DEF BegunOf
<1>8. \A d \in 0..1 : d = 0 \/ d = 1  OBVIOUS
<1>9. CountInv
  <2>1. HotInv(0)  BY <1>1, <1>4, <1>6 DEF HotInv
  <2>2. ASSUME NEW v \in Values PROVE HotSumInv(0, v)  BY <1>1, <1>2, <1>4, <1>7 DEF HotSumInv
  <2>3. ColdInv(1)  BY <1>4, <1>6, FreshFacts DEF ColdInv
  <2> QED  BY <1>1, <1>8, <2>1, <2>2, <2>3 DEF CountInv
<1>10. SparseInv
  <2>1. ASSUME NEW d \in 0..1 PROVE NumberInv(d)  BY <1>6, FreshFacts, EmptyType DEF NumberInv
  <2>2. LeftInv(1)  BY <1>1, <1>4, <1>6, FreshFacts, EmptyType DEF LeftInv
  <2>3. ResolutionInv(0, 1)  BY <1>4, <1>6, FreshFacts DEF ResolutionInv
  <2> QED  BY <1>1, <1>8, <2>1, <2>2, <2>3 DEF SparseInv
<1>11. ReportsInv
  <2>1. pc[Scraper] = "rest"  BY <1>1 DEF Procs
  <2>2. ASSUME NEW v \in Values PROVE ReportInv(1, v)
    <3>1. reported.sum[v] = 0 /\ made[v] = 0  BY <1>1, <1>2
    <3> QED  BY <1>4, <2>1, <3>1 DEF ReportInv
  <2> QED  BY <1>1, <1>8, <2>2 DEF ReportsInv
<1> QED  BY <1>3, <1>5, <1>9, <1>10, <1>11 DEF HistInv

LEMMA HistStep ==
    ASSUME HistInv, [Next]_vars
    PROVE  HistInv'
<1>1. Types  BY DEF HistInv
<1>2. ASSUME NEW o \in Observers, NEW v \in Values, Begin(o, v) PROVE HistInv'
  BY <1>2, BeginKeeps
<1>3. ASSUME NEW o \in Observers, Observe(o) PROVE HistInv'
  BY <1>3, ClassicKeeps, LookKeeps, PlaceKeeps, NumberKeeps, CountKeeps DEF Observe
<1>4. ASSUME NEW o \in Observers, LimitBuckets(o) PROVE HistInv'
  BY <1>4, LimitCheckKeeps, LimitKeptKeeps, LimitResetKeeps, LimitWidenKeeps, LimitDoubleKeeps,
     LimitLowestKeeps DEF LimitBuckets
<1>5. CASE WriteLock  BY <1>5, WriteLockKeeps
<1>6. CASE TimerReset  BY <1>6, TimerResetKeeps
<1>7. CASE TimePasses
  <2>1. Types'  BY <1>1, <1>7 DEF Types, TimePasses, hotVars, observerVars, historyVars
  <2> QED  BY <1>7, <2>1, StutterKeeps DEF TimePasses, observerVars
<1>8. ASSUME NEW p \in Procs, InMutex(p) PROVE HistInv'
  BY <1>8, SwapKeeps, CoolKeeps, CoolResetKeeps, MergeKeeps, MergeSparseKeeps, MergeDoneKeeps
     DEF InMutex
<1>9. CASE UNCHANGED vars
  <2>1. Types'  BY <1>1, <1>9 DEF Types, vars, hotVars, mtxVars, observerVars, historyVars
  <2> QED  BY <1>9, <2>1, StutterKeeps DEF vars, mtxVars, observerVars
<1>10. CASE Terminating  BY <1>9, <1>10 DEF Terminating
<1> QED  BY <1>2, <1>3, <1>4, <1>5, <1>6, <1>7, <1>8, <1>9, <1>10 DEF Next

\* The inductive invariant of the histogram: where each observation begun since the last reset
\* is counted while observe, limitBuckets, reset and Write interleave.
THEOREM HistInvariance == Spec => []HistInv
<1>1. Init => HistInv  BY HistInit
<1>2. HistInv /\ [Next]_vars => HistInv'  BY HistStep
<1> QED  BY <1>1, <1>2, PTL DEF Spec

-----------------------------------------------------------------------------
(* RestIsExact *)

LEMMA TypesGiveTypeOK ==
    ASSUME HistInv
    PROVE  TypeOK
<1>1. Types /\ MutexInv /\ SparseInv  BY DEF HistInv
<1>2. PICK h \in 0..1, c \in 0..1 : h = hot /\ c # h  BY <1>1 DEF Types
<1>3. cold = c  BY <1>2 DEF cold
<1>4. ASSUME NEW d \in 0..1
      PROVE  /\ {counts[d].count, counts[d].zero, counts[d].num} \subseteq Nat
             /\ counts[d].sum \in [Values -> Nat]
             /\ counts[d].classic \in [1..NumBuckets -> Nat]
             /\ counts[d].thr \in Int /\ counts[d].lvl \in 0..MaxLevel
             /\ \A k \in DOMAIN counts[d].sparse : counts[d].sparse[k] \in Nat
  <2>1. counts[d] \in Counts  BY <1>1 DEF Types
  <2>2. counts[d].sparse \in Buckets  BY <2>1, CountsFacts
  <2>3. \A k \in DOMAIN counts[d].sparse : counts[d].sparse[k] \in Nat  BY <2>2, BucketFacts
  <2> QED  BY <2>1, <2>3, CountsFacts DEF Bags
<1>5. left \subseteq DOMAIN counts[cold].sparse  BY <1>1, <1>2, <1>3 DEF SparseInv, LeftInv
<1>6. \A p \in Procs : pc[p] \in {"swap", "cool", "merge", "sparse"} <=> mtx = p
  BY <1>1 DEF MutexInv, Holding
<1>7. {scheduled, elapsed} \subseteq BOOLEAN  BY <1>1 DEF Types
<1>8. DOMAIN counts = 0..1  BY <1>1 DEF Types
<1> QED  BY <1>1, <1>4, <1>5, <1>6, <1>7, <1>8 DEF TypeOK, Types

\* The observations of a value on their way are those on the two sides.
LEMMA UnderWaySides ==
    ASSUME Types, NEW v \in Values, NEW h \in 0..1, NEW c \in 0..1, c # h
    PROVE  UnderWay(v) = Cardinality(Coming(h, v)) + Cardinality(Coming(c, v))
<1> DEFINE S == Coming(h, v)  T == Coming(c, v)
<1>1. S \in SUBSET Observers /\ T \in SUBSET Observers  BY FlightSets
<1>2. S \cap T = {}  BY DEF Coming
<1>3. {o \in Observers : pc[o] = "classic" /\ val[o] = v} = S \cup T  BY DEF Coming, Types
<1> HIDE DEF S, T
<1>4. IsFiniteSet(S) /\ IsFiniteSet(T) /\ Cardinality(S) \in Nat /\ Cardinality(T) \in Nat
  BY <1>1, ObserverSet
<1>5. Cardinality(S \cup T) = Cardinality(S) + Cardinality(T) - Cardinality(S \cap T)
  BY <1>4, FS_Union
<1>6. Cardinality(S \cap T) = 0  BY <1>2, FS_EmptySet
<1>7. Cardinality(S \cup T) = Cardinality(S) + Cardinality(T)  BY <1>4, <1>5, <1>6
<1> QED  BY <1>3, <1>7 DEF UnderWay, S, T

\* Where the observations of a value are when no reset is being made.
LEMMA SumsOfBothSides ==
    ASSUME HistInv, NEW v \in Values, NEW h \in 0..1, NEW c \in 0..1, h = hot, c # h,
           ~(plan = "reset" /\ mtx # None)
    PROVE  BegunOf(h, v) + BegunOf(c, v) = made[v]
<1>1. Types /\ MutexInv /\ CountInv  BY DEF HistInv
<1>2. HotSumInv(h, v) /\ ColdInv(c)  BY <1>1 DEF CountInv
<1>3. c = 1 - h  OBVIOUS
<1>4. CASE OnBothSides  BY <1>2, <1>3, <1>4 DEF HotSumInv
<1>5. CASE ~OnBothSides
  <2>1. phase \in {"rest", "swap", "sparse"} /\ (phase = "swap" => plan # "reset")
    <3>1. CASE mtx = None  BY <3>1 DEF phase
    <3>2. CASE mtx # None
      <4>1. mtx \in Procs /\ phase = pc[mtx] /\ plan # "reset"  BY <1>1, <3>2 DEF Types, phase
      <4>2. phase \in Holding  BY <1>1, <4>1 DEF MutexInv
      <4> QED  BY <1>5, <4>1, <4>2 DEF Holding, OnBothSides
    <3> QED  BY <3>1, <3>2
  <2>2. counts[c].sum = NoValues /\ InFlight(c) = {}  BY <1>2, <2>1 DEF ColdInv
  <2>3. Coming(c, v) = {}  BY <2>2, FlightSets
  <2>4. Cardinality(Coming(c, v)) = 0  BY <2>3, FS_EmptySet
  <2>5. BegunOf(c, v) = 0  BY <2>2, <2>4 DEF BegunOf, NoValues
  <2>6. BegunOf(h, v) = made[v] /\ made[v] \in Nat
    BY <1>1, <1>2, <1>5 DEF HotSumInv, Types, Bags
  <2> QED  BY <2>5, <2>6
<1> QED  BY <1>4, <1>5

LEMMA CountedOnce ==
    ASSUME HistInv
    PROVE  NoneLost
<1>1. Types  BY DEF HistInv
<1>2. SUFFICES ASSUME ~(plan = "reset" /\ mtx # None), NEW v \in Values
               PROVE  made[v] = counts[0].sum[v] + counts[1].sum[v] + UnderWay(v)
  BY DEF NoneLost
<1>3. PICK h \in 0..1, c \in 0..1 : h = hot /\ c # h  BY <1>1 DEF Types
<1>4. BegunOf(h, v) + BegunOf(c, v) = made[v]  BY <1>2, <1>3, SumsOfBothSides
<1>5. UnderWay(v) = Cardinality(Coming(h, v)) + Cardinality(Coming(c, v))
  BY <1>1, <1>3, UnderWaySides
<1>6. /\ counts[h].sum[v] \in Nat /\ Cardinality(Coming(h, v)) \in Nat
      /\ counts[c].sum[v] \in Nat /\ Cardinality(Coming(c, v)) \in Nat
  BY <1>1, BegunType
<1>7. made[v] = counts[h].sum[v] + counts[c].sum[v] + UnderWay(v)
  BY <1>4, <1>5, <1>6 DEF BegunOf
<1>8. (h = 0 /\ c = 1) \/ (h = 1 /\ c = 0)  BY <1>3
<1> QED  BY <1>5, <1>6, <1>7, <1>8

LEMMA ExactAtRest ==
    ASSUME HistInv, AtRest
    PROVE  /\ \A c \in 0..1 : counts[c].num = Cardinality(DOMAIN counts[c].sparse)
           /\ counts[cold].thr = counts[hot].thr /\ counts[cold].lvl = counts[hot].lvl
           /\ counts[cold].count = 0 /\ counts[hot].count = begun
           /\ \A k \in DOMAIN counts[cold].sparse : counts[cold].sparse[k] = 0
<1>1. Types /\ CountInv /\ SparseInv /\ mtx = None  BY DEF HistInv, AtRest
<1>2. PICK h \in 0..1, c \in 0..1 : h = hot /\ c # h  BY <1>1 DEF Types
<1>3. /\ cold = c /\ counts[c].count = 0 /\ counts[h] \in Counts
      /\ \A k \in DOMAIN counts[c].sparse : counts[c].sparse[k] = 0
      /\ counts[c].num = Cardinality(DOMAIN counts[c].sparse)
      /\ counts[c].thr = counts[h].thr /\ counts[c].lvl = counts[h].lvl
  BY <1>1, <1>2, ColdAtRest
<1>4. InFlight(h) = {} /\ Numbering(h) = {}  BY DEF AtRest, InFlight, Numbering, Observing
<1>5. Cardinality(InFlight(h)) = 0 /\ Cardinality(Numbering(h)) = 0  BY <1>4, FS_EmptySet
<1>6. counts[h].count \in Nat /\ counts[h].num \in Nat  BY <1>3, CountsFacts
<1>7. HotInv(h) /\ NumberInv(h)  BY <1>1, <1>2 DEF CountInv, SparseInv
<1>8. ~OnBothSides  BY <1>1 DEF OnBothSides, phase
<1>9. counts[h].count = begun  BY <1>5, <1>6, <1>7, <1>8 DEF HotInv, Begun
<1>10. counts[h].num = Cardinality(DOMAIN counts[h].sparse)  BY <1>5, <1>6, <1>7 DEF NumberInv
<1>11. \A d \in 0..1 : d = h \/ d = c  BY <1>2
<1> QED  BY <1>2, <1>3, <1>9, <1>10, <1>11

\* No observation is lost or counted twice while hot and cold counts are swapped,
\* merged and reset under observations that never wait, and whenever mtx is free and
\* nobody observes the number of buckets and both counts are exact.
THEOREM ExactCounts == Spec => []RestIsExact
<1>1. HistInv => RestIsExact  BY TypesGiveTypeOK, CountedOnce, ExactAtRest DEF RestIsExact
<1> QED  BY <1>1, HistInvariance, PTL

-----------------------------------------------------------------------------
(* What Write reports *)

\* When waitForCooldown returns, the cold counts are those of the observations begun
\* before the swap.
LEMMA CooledSum ==
    ASSUME HistInv, NEW p \in Procs, Cool(p), NEW v \in Values, NEW c \in 0..1, c # hot
    PROVE  /\ counts[c].sum[v] = BegunOf(c, v) /\ OnBothSides /\ cold = c /\ mtx = p
           /\ InFlight(c) = {}
<1>1. Types /\ MutexInv  BY DEF HistInv
<1>2. cold = c  BY <1>1 DEF Types, cold
<1>3. pc[p] = "cool" /\ plan # "reset" /\ counts[c].count = awaited  BY <1>2 DEF Cool, Cooled
<1>4. mtx = p /\ phase = "cool"
  <2>1. pc[p] \in Holding  BY <1>3 DEF Holding
  <2>2. mtx = p  BY <1>1, <2>1 DEF MutexInv
  <2> QED  BY <1>3, <2>2, ProcsAssumption DEF phase
<1>5. InFlight(c) = {}  BY <1>3, <1>4, CooledIsEmpty
<1>6. Coming(c, v) = {}  BY <1>5, FlightSets
<1>7. Cardinality(Coming(c, v)) = 0  BY <1>6, FS_EmptySet
<1>8. counts[c].sum[v] \in Nat  BY <1>1, BegunType
<1> QED  BY <1>2, <1>3, <1>4, <1>5, <1>7, <1>8 DEF BegunOf, OnBothSides

\* Only the end of Write's cooldown reports.
LEMMA OnlyCoolReports ==
    ASSUME [Next]_vars
    PROVE  reported' = reported \/ \E p \in Procs : Cool(p)
<1>1. ASSUME NEW o \in Observers, NEW v \in Values, Begin(o, v) PROVE reported' = reported
  BY <1>1 DEF Begin
<1>2. ASSUME NEW o \in Observers, Observe(o) PROVE reported' = reported
  BY <1>2 DEF Observe, Classic, Look, Place, Number, Count, historyVars
<1>3. ASSUME NEW o \in Observers, LimitBuckets(o) PROVE reported' = reported
  BY <1>3 DEF LimitBuckets, LimitCheck, LimitKept, LimitReset, LimitWiden, LimitDouble, LimitLowest,
              historyVars
<1>4. CASE WriteLock \/ TimerReset \/ TimePasses
  BY <1>4 DEF WriteLock, TimerReset, TimePasses, historyVars
<1>5. ASSUME NEW p \in Procs, InMutex(p) PROVE reported' = reported \/ Cool(p)
  BY <1>5 DEF InMutex, Swap, CoolReset, Merge, MergeSparse, MergeDone, historyVars
<1>6. CASE UNCHANGED vars  BY <1>6 DEF vars, historyVars
<1> QED  BY <1>1, <1>2, <1>3, <1>4, <1>5, <1>6 DEF Next, Terminating

LEMMA ReportsGrow ==
    ASSUME HistInv, [Next]_vars, reported'.created = reported.created, NEW v \in Values
    PROVE  reported'.sum[v] >= reported.sum[v]
<1>1. Types /\ ReportsInv  BY DEF HistInv
<1>2. reported.sum[v] \in Nat  BY <1>1 DEF Types, Bags
<1>3. CASE reported' = reported  BY <1>2, <1>3
<1>4. ASSUME NEW p \in Procs, Cool(p), reported' # reported
      PROVE  reported'.sum[v] >= reported.sum[v]
  <2>1. PICK c \in 0..1 : c # hot  BY <1>1 DEF Types
  <2>2. counts[c].sum[v] = BegunOf(c, v) /\ OnBothSides /\ cold = c  BY <1>4, <2>1, CooledSum
  <2>3. reported' = [sum |-> counts[c].sum, created |-> created, forgotten |-> forgotten]
    BY <1>4, <2>2 DEF Cool
  <2>4. reported.created = created  BY <2>3
  <2>5. reported.sum[v] <= BegunOf(c, v)  BY <1>1, <2>1, <2>2, <2>4 DEF ReportsInv, ReportInv
  <2>6. BegunOf(c, v) \in Nat  BY <1>1, BegunType
  <2> QED  BY <1>2, <2>2, <2>3, <2>5, <2>6
<1> QED  BY <1>3, <1>4, OnlyCoolReports

\* Write reports a smaller sum than the last Write only with a new created timestamp:
\* a scraper tells a reset from a count that goes down.
THEOREM ResetsShow == Spec => ResetShows
<1>1. HistInv /\ [Next]_vars =>
          [reported'.created = reported.created =>
               \A v \in Values : reported'.sum[v] >= reported.sum[v]]_vars
  BY ReportsGrow
<1> QED  BY <1>1, HistInvariance, PTL DEF Spec, ResetShows

-----------------------------------------------------------------------------
(* Write implements AtomicCut *)

\* A step that begins no observation, forgets none, and neither opens nor ends a Write.
LEMMA HistoryStutter ==
    ASSUME UNCHANGED historyVars, pc[Scraper] = "cool" <=> pc'[Scraper] = "cool"
    PROVE  UNCHANGED AtomicCut!vars
<1>1. /\ made' = made /\ forgotten' = forgotten /\ snap' = snap /\ reported' = reported
  BY DEF historyVars
<1>2. Both(forgotten, made)' = Both(forgotten, made)  BY <1>1 DEF Both
<1>3. Both(reported.forgotten, reported.sum)' = Both(reported.forgotten, reported.sum)
  BY <1>1 DEF Both
<1> QED  BY <1>1, <1>2, <1>3 DEF AtomicCut!vars

\* One observation more, value by value.
LEMMA OneMore ==
    ASSUME NEW f \in Bags, NEW g \in Bags, NEW u \in Values,
           \A v \in Values : g[v] = f[v] + (IF v = u THEN 1 ELSE 0)
    PROVE  g = [f EXCEPT ![u] = @ + 1]
<1>1. [f EXCEPT ![u] = @ + 1] \in Bags  BY DEF Bags
<1>2. ASSUME NEW v \in Values PROVE g[v] = [f EXCEPT ![u] = @ + 1][v]
  BY DEF Bags
<1> QED  BY <1>1, <1>2 DEF Bags

LEMMA BothFacts ==
    ASSUME NEW f \in Bags, NEW g \in Bags
    PROVE  Both(f, g) \in Bags /\ \A v \in Values : Both(f, g)[v] = f[v] + g[v]
  BY DEF Both, Bags

LEMMA BeginIsWrite ==
    ASSUME Types, NEW o \in Observers, NEW v \in Values, Begin(o, v)
    PROVE  AtomicCut!Write(v)
<1>1. made' = [made EXCEPT ![v] = @ + 1] /\ UNCHANGED <<forgotten, snap, reported>>  BY DEF Begin
<1>2. made \in Bags /\ forgotten \in Bags  BY DEF Types
<1>3. Both(forgotten, made)' = [Both(forgotten, made) EXCEPT ![v] = @ + 1]
  <2> DEFINE F == Both(forgotten, made)
             G == Both(forgotten, [made EXCEPT ![v] = @ + 1])
  <2>1. [made EXCEPT ![v] = @ + 1] \in Bags  BY <1>2 DEF Bags
  <2>2. F \in Bags /\ G \in Bags  BY <1>2, <2>1, BothFacts
  <2>3. ASSUME NEW w \in Values PROVE G[w] = F[w] + (IF w = v THEN 1 ELSE 0)
    <3>1. F[w] = forgotten[w] + made[w]  BY <1>2, BothFacts
    <3>2. G[w] = forgotten[w] + (IF w = v THEN made[w] + 1 ELSE made[w])
      <4>1. [made EXCEPT ![v] = @ + 1][w] = IF w = v THEN made[w] + 1 ELSE made[w]
        BY <1>2 DEF Bags
      <4> QED  BY <4>1 DEF Both
    <3>3. made[w] \in Nat /\ forgotten[w] \in Nat  BY <1>2 DEF Bags
    <3> HIDE DEF F, G
    <3> QED  BY <3>1, <3>2, <3>3
  <2>4. Both(forgotten, made)' = G  BY <1>1
  <2> HIDE DEF G
  <2>5. G = [F EXCEPT ![v] = @ + 1]
    <3> HIDE DEF F
    <3> QED  BY <2>2, <2>3, OneMore
  <2> QED  BY <2>4, <2>5
<1>4. Both(reported.forgotten, reported.sum)' = Both(reported.forgotten, reported.sum)
  BY <1>1 DEF Both
<1>5. (pc[Scraper] = "cool")' = (pc[Scraper] = "cool")
  BY ProcsAssumption DEF Begin, Goto, Types, Procs
<1> QED  BY <1>1, <1>3, <1>4, <1>5 DEF AtomicCut!Write

LEMMA SwapIsCut ==
    ASSUME HistInv, NEW p \in Procs, Swap(p)
    PROVE  AtomicCut!Next \/ UNCHANGED AtomicCut!vars
<1>1. Types /\ MutexInv  BY DEF HistInv
<1>2. pc[p] = "swap" /\ pc' = [pc EXCEPT ![p] = "cool"] /\ reported' = reported /\ p # None
  BY ProcsAssumption DEF Swap, Goto
<1>3. mtx = p  BY <1>1, <1>2 DEF MutexInv, Holding
<1>4. plan = "write" <=> p = Scraper  BY <1>1, <1>2, <1>3 DEF MutexInv
<1>5. Both(reported.forgotten, reported.sum)' = Both(reported.forgotten, reported.sum)
  BY <1>2 DEF Both
<1>6. CASE p = Scraper
  <2>1. pc[Scraper] # "cool" /\ pc'[Scraper] = "cool"  BY <1>1, <1>2, <1>6 DEF Types
  <2>2. snap' = Both(forgotten, made) /\ made' = made /\ forgotten' = forgotten
    BY <1>4, <1>6 DEF Swap
  <2>3. Both(forgotten, made)' = Both(forgotten, made)  BY <2>2 DEF Both
  <2>4. AtomicCut!Cut  BY <1>5, <2>1, <2>2, <2>3 DEF AtomicCut!Cut
  <2> QED  BY <2>4 DEF AtomicCut!Next
<1>7. CASE p # Scraper
  <2>1. pc'[Scraper] = pc[Scraper] /\ snap' = snap
    BY <1>1, <1>2, <1>4, <1>7 DEF Types, Procs, Swap
  <2>2. CASE plan # "reset"
    <3>1. made' = made /\ forgotten' = forgotten  BY <2>2 DEF Swap
    <3> QED  BY <1>2, <2>1, <3>1, HistoryStutter DEF historyVars
  <2>3. CASE plan = "reset"
    <3>1. made' = Repeated(p) /\ forgotten' = Both(forgotten, made)  BY <2>3 DEF Swap
    <3>2. made \in [Values -> Nat] /\ forgotten \in [Values -> Nat]  BY <1>1 DEF Types, Bags
    <3>3. Both(forgotten, made)' = [v \in Values |-> forgotten[v] + made[v] + Repeated(p)[v]]
      BY <3>1 DEF Both
    <3>4. CASE p = Timer
      <4>1. Repeated(p) = [v \in Values |-> 0]  BY <3>4 DEF Repeated, NoValues
      <4>2. Both(forgotten, made)' = Both(forgotten, made)  BY <3>2, <3>3, <4>1 DEF Both
      <4> QED  BY <1>5, <2>1, <4>2 DEF AtomicCut!vars
    <3>5. CASE p # Timer
      <4>1. p \in Observers  BY <1>7, <3>5 DEF Procs
      <4>2. PICK u \in Values : u = val[p]  BY <1>1, <4>1 DEF Types
      <4>3. Repeated(p) = [[v \in Values |-> 0] EXCEPT ![u] = 1]  BY <3>5, <4>2 DEF Repeated, NoValues
      <4>4. Both(forgotten, made)' = [Both(forgotten, made) EXCEPT ![u] = @ + 1]
        <5> DEFINE F == Both(forgotten, made)
                   G == [v \in Values |-> F[v] + Repeated(p)[v]]
        <5>1. F \in Bags /\ \A v \in Values : F[v] = forgotten[v] + made[v]
          BY <3>2, BothFacts DEF Bags
        <5>2. Both(forgotten, made)' = G  BY <3>3, <5>1
        <5> HIDE DEF F
        <5>3. ASSUME NEW v \in Values
              PROVE  /\ Repeated(p)[v] = (IF v = u THEN 1 ELSE 0) /\ F[v] \in Nat
                     /\ G[v] = F[v] + Repeated(p)[v]
          BY <4>3, <5>1 DEF Bags
        <5>4. G \in Bags /\ \A v \in Values : G[v] = F[v] + (IF v = u THEN 1 ELSE 0)
          BY <5>3 DEF Bags
        <5> HIDE DEF G
        <5>5. G = [F EXCEPT ![u] = @ + 1]  BY <5>1, <5>4, OneMore
        <5> QED  BY <5>2, <5>5 DEF F
      <4>5. AtomicCut!Write(u)  BY <1>5, <2>1, <4>4 DEF AtomicCut!Write
      <4> QED  BY <4>5 DEF AtomicCut!Next
    <3> QED  BY <3>4, <3>5
  <2> QED  BY <2>2, <2>3
<1> QED  BY <1>6, <1>7

LEMMA CoolIsReport ==
    ASSUME HistInv, NEW p \in Procs, Cool(p)
    PROVE  AtomicCut!Next \/ UNCHANGED AtomicCut!vars
<1>1. Types /\ MutexInv /\ ReportsInv  BY DEF HistInv
<1>2. /\ pc[p] = "cool" /\ pc' = [pc EXCEPT ![p] = "merge"] /\ p # None
      /\ made' = made /\ forgotten' = forgotten /\ snap' = snap
  BY ProcsAssumption DEF Cool, Goto
<1>3. PICK c \in 0..1 : c # hot  BY <1>1 DEF Types
<1>4. cold = c /\ mtx = p
  <2>1. PICK v \in Values : TRUE  BY ValuesAssumption
  <2> QED  BY <1>3, <2>1, CooledSum
<1>5. plan = "write" <=> p = Scraper  BY <1>1, <1>2, <1>4 DEF MutexInv
<1>6. CASE p # Scraper
  <2>1. reported' = reported /\ pc'[Scraper] = pc[Scraper]
    BY <1>1, <1>2, <1>5, <1>6 DEF Types, Procs, Cool
  <2> QED  BY <1>2, <2>1, HistoryStutter DEF historyVars
<1>7. CASE p = Scraper
  <2>1. reported' = [sum |-> counts[c].sum, created |-> created, forgotten |-> forgotten]
    BY <1>4, <1>5, <1>7 DEF Cool
  <2>2. pc[Scraper] = "cool" /\ pc'[Scraper] # "cool"  BY <1>1, <1>2, <1>7 DEF Types
  <2>3. ASSUME NEW v \in Values PROVE snap[v] = forgotten[v] + counts[c].sum[v]
    <3>1. counts[c].sum[v] = BegunOf(c, v)  BY <1>3, CooledSum
    <3>2. ReportInv(c, v)  BY <1>1, <1>3 DEF ReportsInv
    <3> QED  BY <2>2, <3>1, <3>2 DEF ReportInv
  <2>4. Both(reported.forgotten, reported.sum)' = [v \in Values |-> forgotten[v] + counts[c].sum[v]]
    BY <2>1 DEF Both
  <2>5. snap \in [Values -> Nat]  BY <1>1 DEF Types, Bags
  <2>6. Both(reported.forgotten, reported.sum)' = snap  BY <2>3, <2>4, <2>5
  <2>7. Both(forgotten, made)' = Both(forgotten, made)  BY <1>2 DEF Both
  <2>8. AtomicCut!Report  BY <1>2, <2>2, <2>6, <2>7 DEF AtomicCut!Report
  <2> QED  BY <2>8 DEF AtomicCut!Next
<1> QED  BY <1>6, <1>7

\* Every step of the histogram is a step of AtomicCut or leaves its variables alone.
LEMMA HistogramCutStep == HistInv /\ [Next]_vars => [AtomicCut!Next]_(AtomicCut!vars)
<1> SUFFICES ASSUME HistInv, [Next]_vars PROVE AtomicCut!Next \/ UNCHANGED AtomicCut!vars
  OBVIOUS
<1>1. Types /\ MutexInv  BY DEF HistInv
<1>2. ASSUME NEW o \in Observers, NEW v \in Values, Begin(o, v) PROVE AtomicCut!Next
  BY <1>1, <1>2, BeginIsWrite DEF AtomicCut!Next
<1>3. Scraper \in Procs /\ Timer \in Procs /\ Timer # Scraper /\ Scraper # None
      /\ \A o \in Observers : o \in Procs /\ o # Scraper
  BY ProcsAssumption DEF Procs
<1>4. ASSUME NEW o \in Observers, Observe(o) PROVE UNCHANGED AtomicCut!vars
  <2>1. UNCHANGED historyVars  BY <1>4 DEF Observe, Classic, Look, Place, Number, Count
  <2>2. \E l : pc' = [pc EXCEPT ![o] = l]
    BY <1>4 DEF Observe, Classic, Look, Place, Number, Count, Goto
  <2>3. pc'[Scraper] = pc[Scraper]  BY <1>1, <1>3, <2>2 DEF Types
  <2> QED  BY <2>1, <2>3, HistoryStutter
<1>5. ASSUME NEW o \in Observers, LimitBuckets(o) PROVE UNCHANGED AtomicCut!vars
  <2>1. UNCHANGED historyVars
    BY <1>5 DEF LimitBuckets, LimitCheck, LimitKept, LimitReset, LimitWiden, LimitDouble, LimitLowest
  <2>2. \E l : pc' = [pc EXCEPT ![o] = l]
    BY <1>5 DEF LimitBuckets, LimitCheck, LimitKept, LimitReset, LimitWiden, LimitDouble, LimitLowest,
                Prepare, Goto
  <2>3. pc'[Scraper] = pc[Scraper]  BY <1>1, <1>3, <2>2 DEF Types
  <2> QED  BY <2>1, <2>3, HistoryStutter
<1>6. CASE WriteLock
  <2>1. UNCHANGED historyVars /\ pc[Scraper] = "rest" /\ pc' = [pc EXCEPT ![Scraper] = "swap"]
    BY <1>6 DEF WriteLock, Prepare, Goto
  <2>2. pc'[Scraper] = "swap"  BY <1>1, <1>3, <2>1 DEF Types
  <2> QED  BY <2>1, <2>2, HistoryStutter
<1>7. CASE TimerReset
  <2>1. UNCHANGED historyVars /\ pc' = [pc EXCEPT ![Timer] = "swap"]
    BY <1>7 DEF TimerReset, Prepare, Goto
  <2>2. pc'[Scraper] = pc[Scraper]  BY <1>1, <1>3, <2>1 DEF Types
  <2> QED  BY <2>1, <2>2, HistoryStutter
<1>8. CASE TimePasses  BY <1>8, HistoryStutter DEF TimePasses
<1>9. ASSUME NEW p \in Procs, CoolReset(p) PROVE UNCHANGED AtomicCut!vars
  <2>1. UNCHANGED historyVars /\ pc[p] = "cool" /\ plan = "reset" /\ pc' = [pc EXCEPT ![p] = "rest"]
    BY <1>9 DEF CoolReset, Goto
  <2>2. mtx = p  BY <1>1, <2>1 DEF MutexInv, Holding
  <2>3. p # Scraper  BY <1>1, <1>3, <2>1, <2>2 DEF MutexInv
  <2>4. pc'[Scraper] = pc[Scraper]  BY <1>1, <1>3, <2>1, <2>3 DEF Types
  <2> QED  BY <2>1, <2>4, HistoryStutter
<1>10. ASSUME NEW p \in Procs, Merge(p) \/ MergeSparse(p) \/ MergeDone(p)
       PROVE  UNCHANGED AtomicCut!vars
  <2>1. UNCHANGED historyVars  BY <1>10 DEF Merge, MergeSparse, MergeDone
  <2>2. pc' = pc \/ (pc[p] # "cool" /\ \E l \in {"sparse", "rest"} : pc' = [pc EXCEPT ![p] = l])
    BY <1>10 DEF Merge, MergeSparse, MergeDone, Goto
  <2>3. pc[Scraper] = "cool" <=> pc'[Scraper] = "cool"  BY <1>1, <1>3, <2>2 DEF Types
  <2> QED  BY <2>1, <2>3, HistoryStutter
<1>11. ASSUME NEW p \in Procs, InMutex(p) PROVE AtomicCut!Next \/ UNCHANGED AtomicCut!vars
  BY <1>9, <1>10, <1>11, SwapIsCut, CoolIsReport DEF InMutex
<1>12. CASE UNCHANGED vars  BY <1>12, HistoryStutter DEF vars
<1> QED  BY <1>2, <1>4, <1>5, <1>6, <1>7, <1>8, <1>11, <1>12 DEF Next, Terminating

\* Write reports, with what resets have forgotten, the observations begun up to one
\* moment and nothing of a later one, although no observation ever waits for it.
THEOREM WriteIsOneMoment == Spec => ImplementsAtomicCut
<1>1. Init => AtomicCut!Init
  <2> SUFFICES ASSUME Init PROVE AtomicCut!Init  OBVIOUS
  <2>1. /\ made = NoValues /\ forgotten = NoValues /\ snap = NoValues
        /\ reported = [sum |-> NoValues, created |-> 0, forgotten |-> NoValues]
        /\ pc[Scraper] = "rest"
    BY DEF Init, Procs
  <2>2. Both(NoValues, NoValues) = [v \in Values |-> 0]  BY DEF Both, NoValues
  <2>3. Both(forgotten, made) = [v \in Values |-> 0] /\ snap = [v \in Values |-> 0]
        /\ Both(reported.forgotten, reported.sum) = [v \in Values |-> 0]
    BY <2>1, <2>2 DEF NoValues
  <2> QED  BY <2>1, <2>3 DEF AtomicCut!Init
<1> QED  BY <1>1, HistogramCutStep, HistInvariance, PTL
         DEF Spec, ImplementsAtomicCut, AtomicCut!Spec

-----------------------------------------------------------------------------
(* Powers of two, and the halving of keys *)

LEMMA PowerNext ==
    ASSUME NEW l \in Nat
    PROVE  2^(l + 1) = 2 * 2^l
<1> DEFINE A == SUBSET (1..l)
           B == {T \cup {l + 1} : T \in A}
           f == [T \in A |-> T \cup {l + 1}]
<1>1. IsFiniteSet(1..l) /\ Cardinality(1..l) = l  BY FS_Interval
<1>2. IsFiniteSet(1..(l + 1)) /\ Cardinality(1..(l + 1)) = l + 1  BY FS_Interval
<1>3. IsFiniteSet(A) /\ Cardinality(A) = 2^l  BY <1>1, FS_SUBSET
<1>4. Cardinality(SUBSET (1..(l + 1))) = 2^(l + 1)  BY <1>2, FS_SUBSET
<1>5. SUBSET (1..(l + 1)) = A \cup B
  <2>1. 1..(l + 1) = (1..l) \cup {l + 1}  OBVIOUS
  <2>2. ASSUME NEW T \in SUBSET (1..(l + 1)) PROVE T \in A \cup B
    <3>1. CASE l + 1 \in T
      <4>1. T \ {l + 1} \in A /\ T = (T \ {l + 1}) \cup {l + 1}  BY <2>1, <3>1
      <4> QED  BY <4>1
    <3>2. CASE l + 1 \notin T  BY <2>1, <3>2
    <3> QED  BY <3>1, <3>2
  <2>3. ASSUME NEW T \in A \cup B PROVE T \in SUBSET (1..(l + 1))
    <3>1. CASE T \in A  BY <2>1, <3>1
    <3>2. CASE T \in B
      <4>1. PICK U \in A : T = U \cup {l + 1}  BY <3>2
      <4>2. l + 1 \in 1..(l + 1)  OBVIOUS
      <4> QED  BY <2>1, <4>1, <4>2
    <3> QED  BY <2>3, <3>1, <3>2
  <2> HIDE DEF A, B
  <2> QED  BY <2>2, <2>3
<1>6. A \cap B = {}
  <2>1. l + 1 \notin 1..l  OBVIOUS
  <2> QED  BY <2>1
<1>7. f \in Bijection(A, B)
  <2>1. f \in Surjection(A, B)  BY DEF Surjection
  <2>2. ASSUME NEW S \in A, NEW T \in A, f[S] = f[T] PROVE S = T
    <3>1. l + 1 \notin S /\ l + 1 \notin T  OBVIOUS
    <3>2. S \cup {l + 1} = T \cup {l + 1}  BY <2>2
    <3> QED  BY <3>1, <3>2
  <2>3. f \in [A -> B]  OBVIOUS
  <2> QED  BY <2>1, <2>2, <2>3 DEF Bijection, Injection, IsInjective
<1> HIDE DEF A, B, f
<1>8. IsFiniteSet(B) /\ Cardinality(B) = Cardinality(A)
  <2>1. ExistsBijection(A, B)  BY <1>7 DEF ExistsBijection
  <2> QED  BY <1>3, <2>1, FS_Bijection
<1>9. Cardinality(A \cup B) = Cardinality(A) + Cardinality(B) - Cardinality(A \cap B)
  BY <1>3, <1>8, FS_Union
<1>10. Cardinality(A \cap B) = 0  BY <1>6, FS_EmptySet
<1>11. 2^l \in Nat  BY PowerType
<1>12. Cardinality(A \cup B) = 2^(l + 1)  BY <1>4, <1>5
<1>13. PICK n \in Nat : n = 2^l  BY <1>11
<1>14. Cardinality(A \cup B) = 2 * n  BY <1>3, <1>8, <1>9, <1>10, <1>13
<1> QED  BY <1>12, <1>13, <1>14

LEMMA DivIs ==
    ASSUME NEW a \in Int, NEW n \in Nat, n > 0
    PROVE  /\ a \div n \in Int
           /\ (a \div n) * n <= a /\ a < (a \div n) * n + n
<1>1. a = n * (a \div n) + (a % n) /\ a % n \in 0..(n - 1) /\ a \div n \in Int  OBVIOUS
<1>2. (a \div n) * n = n * (a \div n)  BY <1>1
<1> QED  BY <1>1, <1>2

LEMMA MultipleOrder ==
    ASSUME NEW m \in Int, NEW q \in Int, NEW n \in Nat, m <= q
    PROVE  m * n <= q * n
<1>1. PICK d \in Nat : q = m + d
  <2>1. q - m \in Nat /\ q = m + (q - m)  OBVIOUS
  <2> QED  BY <2>1
<1>2. d * n >= 0 /\ d * n \in Int OBVIOUS
<1>3. (m + d) * n = m * n + d * n  OBVIOUS
<1> QED  BY <1>1, <1>2, <1>3

LEMMA DivUnique ==
    ASSUME NEW a \in Int, NEW n \in Nat, n > 0, NEW m \in Int, m * n <= a, a < m * n + n
    PROVE  a \div n = m
<1>1. PICK q \in Int : q = a \div n /\ q * n <= a /\ a < q * n + n  BY DivIs
<1>2. ASSUME q < m PROVE FALSE
  <2>1. (q + 1) * n <= m * n  BY <1>2, MultipleOrder
  <2>2. (q + 1) * n = q * n + n  OBVIOUS
  <2> QED  BY <1>1, <2>1, <2>2
<1>3. ASSUME m < q PROVE FALSE
  <2>1. (m + 1) * n <= q * n  BY <1>3, MultipleOrder
  <2>2. (m + 1) * n = m * n + n  OBVIOUS
  <2> QED  BY <1>1, <2>1, <2>2
<1> QED  BY <1>1, <1>2, <1>3

LEMMA KeyBound ==
    ASSUME NEW v \in Values, NEW l \in Nat
    PROVE  KeyAt(v, l) \in Int /\ FineKey[v] <= Le(KeyAt(v, l), l)
<1>1. PICK n \in Nat : n = 2^l /\ n > 0  BY PowerType
<1>2. PICK a \in Int : a = -FineKey[v] /\ FineKey[v] = -a  BY ValuesAssumption
<1>3. PICK q \in Int : q = a \div n /\ q * n <= a  BY <1>1, DivIs
<1>4. KeyAt(v, l) = -q  BY <1>1, <1>2, <1>3 DEF KeyAt
<1>5. (-q) * n = -(q * n)  OBVIOUS
<1> QED  BY <1>1, <1>2, <1>3, <1>4, <1>5 DEF Le

LEMMA KeyHalves ==
    ASSUME NEW v \in Values, NEW l \in Nat
    PROVE  KeyAt(v, l + 1) = Halve(KeyAt(v, l))
<1>1. PICK n \in Nat : n = 2^l /\ n > 0 /\ 2^(l + 1) = 2 * n  BY PowerType, PowerNext
<1>2. PICK a \in Int : a = -FineKey[v]  BY ValuesAssumption
<1>3. PICK q \in Int : q = a \div n /\ q * n <= a /\ a < q * n + n  BY <1>1, DivIs
<1>4. PICK m \in Int, e \in {0, 1} : q = 2 * m + e
  <2>1. q = 2 * (q \div 2) + (q % 2) /\ q % 2 \in {0, 1} /\ q \div 2 \in Int  OBVIOUS
  <2> QED  BY <2>1
<1>5. a \div (2 * n) = m
  <2>1. PICK k \in Int : k = m * n  OBVIOUS
  <2>2. m * (2 * n) = 2 * k  BY <2>1
  <2>3. q * n = 2 * k + e * n  BY <1>4, <2>1
  <2>4. e * n = 0 \/ e * n = n  BY <1>4
  <2>5. m * (2 * n) <= a /\ a < m * (2 * n) + 2 * n  BY <1>1, <1>3, <2>2, <2>3, <2>4
  <2>6. 2 * n \in Nat /\ 2 * n > 0  BY <1>1
  <2> QED  BY <2>5, <2>6, DivUnique
<1>6. KeyAt(v, l) = -q /\ KeyAt(v, l + 1) = -m  BY <1>1, <1>2, <1>3, <1>5 DEF KeyAt
<1>7. Halve(-q) = -m
  <2>1. CASE e = 0  BY <1>4, <2>1 DEF Halve
  <2>2. CASE e = 1  BY <1>4, <2>2 DEF Halve
  <2> QED  BY <1>4, <2>1, <2>2
<1> QED  BY <1>6, <1>7

-----------------------------------------------------------------------------
(* Sums over values and over sparse buckets *)

LEMMA HighestFacts ==
    Highest \in Int /\ ZeroThreshold <= Highest /\ MaxThreshold <= Highest
<1> DEFINE S == {ZeroThreshold, MaxThreshold}
<1>1. ZeroThreshold \in Int /\ MaxThreshold \in Int  BY OptionsAssumption
<1>2. \E x \in S : \A y \in S : x >= y
  <2>1. ZeroThreshold >= MaxThreshold \/ MaxThreshold >= ZeroThreshold  BY <1>1
  <2>2. CASE ZeroThreshold >= MaxThreshold
    <3>1. \A y \in S : ZeroThreshold >= y  BY <1>1, <2>2
    <3> QED  BY <3>1
  <2>3. CASE MaxThreshold >= ZeroThreshold
    <3>1. \A y \in S : MaxThreshold >= y  BY <1>1, <2>3
    <3> QED  BY <3>1
  <2> QED  BY <2>1, <2>2, <2>3
<1>3. Highest \in S /\ \A y \in S : Highest >= y  BY <1>2 DEF Highest, Max
<1> QED  BY <1>1, <1>3

LEMMA ValueSets ==
    ASSUME NEW k, NEW l
    PROVE  /\ Sparsed \in SUBSET Values
           /\ Here(k, l) \in SUBSET Sparsed /\ Here(k, l) \in SUBSET Values
           /\ Far(k, l) \in SUBSET Here(k, l) /\ Far(k, l) \in SUBSET Values
  BY DEF Sparsed, Here, Far

LEMMA TotalType ==
    ASSUME NEW f \in Bags, NEW S \in SUBSET Values
    PROVE  Total(f, S) \in Nat
<1>1. f \in [Values -> Nat] /\ IsFiniteSet(Values)  BY ValuesAssumption DEF Bags
<1> QED  BY <1>1, SumType DEF Total

LEMMA TotalOneMore ==
    ASSUME NEW f \in Bags, NEW g \in Bags, NEW v \in Values, g[v] = f[v] + 1,
           \A u \in Values \ {v} : g[u] = f[u], NEW S \in SUBSET Values
    PROVE  Total(g, S) = Total(f, S) + (IF v \in S THEN 1 ELSE 0)
<1>1. f \in [Values -> Nat] /\ IsFiniteSet(Values)  BY ValuesAssumption DEF Bags
<1>2. g \in [Values -> Nat]  BY DEF Bags
<1>3. CASE v \in S
  <2>1. PICK R \in SUBSET Values : R = S \ {v}  OBVIOUS
  <2>2. SumFunctionOnSet(f, S) = f[v] + SumFunctionOnSet(f, R)  BY <1>1, <1>3, <2>1, SumRemove
  <2>3. SumFunctionOnSet(g, S) = g[v] + SumFunctionOnSet(g, R)  BY <1>1, <1>2, <1>3, <2>1, SumRemove
  <2>4. SumFunctionOnSet(f, R) = SumFunctionOnSet(g, R)
    <3>1. \A u \in R : f[u] = g[u]  BY <1>2, <2>1
    <3> QED  BY <1>1, <1>2, <3>1, SumAgree
  <2>5. SumFunctionOnSet(f, R) \in Nat /\ f[v] \in Nat  BY <1>1, SumType
  <2> QED  BY <1>2, <1>3, <2>2, <2>3, <2>4, <2>5 DEF Total
<1>4. CASE v \notin S
  <2>1. \A u \in S : f[u] = g[u]  BY <1>2, <1>4
  <2>2. SumFunctionOnSet(f, S) = SumFunctionOnSet(g, S)  BY <1>1, <1>2, <2>1, SumAgree
  <2>3. SumFunctionOnSet(f, S) \in Nat  BY <1>1, SumType
  <2> QED  BY <1>4, <2>2, <2>3 DEF Total
<1> QED  BY <1>3, <1>4

LEMMA TotalNone ==
    ASSUME NEW S \in SUBSET Values
    PROVE  Total(NoValues, S) = 0
<1>1. NoValues \in [Values -> Nat] /\ IsFiniteSet(Values) /\ \A v \in S : NoValues[v] = 0
  BY ValuesAssumption DEF NoValues
<1> QED  BY <1>1, SumZeros DEF Total

LEMMA TotalBoth ==
    ASSUME NEW f \in Bags, NEW g \in Bags, NEW h \in Bags,
           \A v \in Values : h[v] = f[v] + g[v], NEW S \in SUBSET Values
    PROVE  Total(h, S) = Total(f, S) + Total(g, S)
<1>1. /\ f \in [Values -> Nat] /\ g \in [Values -> Nat] /\ h \in [Values -> Nat]
      /\ IsFiniteSet(Values)
  BY ValuesAssumption DEF Bags
<1> QED  BY <1>1, SumAdd DEF Total

LEMMA TotalSubset ==
    ASSUME NEW f \in Bags, NEW S \in SUBSET Values, NEW T \in SUBSET S
    PROVE  Total(f, T) <= Total(f, S)
<1>1. f \in [Values -> Nat] /\ IsFiniteSet(Values)  BY ValuesAssumption DEF Bags
<1> QED  BY <1>1, SumSubset DEF Total

BucketAt(b, k) == IF k \in DOMAIN b THEN b[k] ELSE 0

LEMMA BucketSum ==
    ASSUME NEW b \in Buckets
    PROVE  /\ SumFunction(b) \in Nat /\ SumFunction(b) = Total(b, DOMAIN b)
           /\ \A S \in SUBSET DOMAIN b : Total(b, S) \in Nat
           /\ \A k : BucketAt(b, k) \in Nat
<1>1. b \in [DOMAIN b -> Nat] /\ IsFiniteSet(DOMAIN b)
  <2>1. PICK K \in SUBSET SparseKeys : IsFiniteSet(K) /\ b \in [K -> Nat]  BY BucketsAre
  <2> QED  BY <2>1
<1> QED  BY <1>1, SumFunctionType, SumType DEF Total, BucketAt

LEMMA BucketSumAdd ==
    ASSUME NEW b \in Buckets, NEW k \in SparseKeys, NEW n \in Nat, NEW d, d = AddToBucket(b, k, n)
    PROVE  /\ SumFunction(d) = SumFunction(b) + n
           /\ \A j : BucketAt(d, j) = BucketAt(b, j) + (IF j = k THEN n ELSE 0)
<1>1. PICK D : D = DOMAIN b /\ b \in [D -> Nat] /\ IsFiniteSet(D)
  <2>1. PICK K \in SUBSET SparseKeys : IsFiniteSet(K) /\ b \in [K -> Nat]  BY BucketsAre
  <2> QED  BY <2>1
<1>2. PICK E : E = D \cup {k} /\ IsFiniteSet(E)  BY <1>1, FS_AddElement
<1>3. d \in [E -> Nat] /\ \A j \in E : d[j] = BucketAt(b, j) + (IF j = k THEN n ELSE 0)
  BY <1>1, <1>2 DEF AddToBucket, BucketAt
<1>4. \A j : BucketAt(b, j) \in Nat  BY BucketSum
<1>5. \A j : BucketAt(d, j) = BucketAt(b, j) + (IF j = k THEN n ELSE 0)
  <2> SUFFICES ASSUME NEW j PROVE BucketAt(d, j) = BucketAt(b, j) + (IF j = k THEN n ELSE 0)
    OBVIOUS
  <2>1. CASE j \in E  BY <1>3, <2>1 DEF BucketAt
  <2>2. CASE j \notin E
    <3>1. BucketAt(d, j) = 0 /\ BucketAt(b, j) = 0 /\ j # k  BY <1>1, <1>2, <1>3, <2>2 DEF BucketAt
    <3> QED  BY <3>1
  <2> QED  BY <2>1, <2>2
<1>6. PICK R : R = E \ {k} /\ R \in SUBSET D /\ R \in SUBSET E /\ R = D \ {k}  BY <1>2
<1>7. SumFunctionOnSet(d, E) = d[k] + SumFunctionOnSet(d, R)
  <2>1. k \in E /\ E \in SUBSET E  BY <1>2
  <2> QED  BY <1>2, <1>3, <1>6, <2>1, SumRemove
<1>8. SumFunctionOnSet(d, R) = SumFunctionOnSet(b, R)
  <2>1. \A j \in R : d[j] = b[j]
    <3> SUFFICES ASSUME NEW j \in R PROVE d[j] = b[j]  OBVIOUS
    <3>1. j \in E /\ j # k /\ j \in D  BY <1>6
    <3>2. BucketAt(b, j) = b[j] /\ b[j] \in Nat  BY <1>1, <3>1 DEF BucketAt
    <3> QED  BY <1>3, <3>1, <3>2
  <2> QED  BY <1>1, <1>2, <1>3, <1>6, <2>1, SumAgreeOn
<1>9. SumFunctionOnSet(b, D) = BucketAt(b, k) + SumFunctionOnSet(b, R)
  <2>1. CASE k \in D
    <3>1. SumFunctionOnSet(b, D) = b[k] + SumFunctionOnSet(b, D \ {k})  BY <1>1, <2>1, SumRemove
    <3> QED  BY <1>1, <1>6, <2>1, <3>1 DEF BucketAt
  <2>2. CASE k \notin D
    <3>1. R = D  BY <1>6, <2>2
    <3>2. SumFunctionOnSet(b, R) \in Nat  BY <1>1, <1>6, SumType
    <3> QED  BY <1>1, <2>2, <3>1, <3>2 DEF BucketAt
  <2> QED  BY <2>1, <2>2
<1>10. SumFunction(b) = SumFunctionOnSet(b, D) /\ SumFunction(d) = SumFunctionOnSet(d, E)
  BY <1>1, <1>2, <1>3, SumFunctionType
<1>11. d[k] = BucketAt(b, k) + n  BY <1>2, <1>3
<1>12. SumFunctionOnSet(b, R) \in Nat  BY <1>1, <1>6, SumType
<1>13. SumFunction(d) = SumFunction(b) + n  BY <1>4, <1>7, <1>8, <1>9, <1>10, <1>11, <1>12
<1> QED  BY <1>5, <1>13

-----------------------------------------------------------------------------
(* Files: what each step of the code leaves of it *)

Unfileds == [SUBSET Values -> Nat]
Owings == [SparseKeys -> Nat]

\* The parts of Files.
FilesClassic(hc) == \A b \in 1..NumBuckets : hc.classic[b] = InBucket(hc, b)
FilesSum(hc, unfiled, due) == hc.zero + InSparse(hc) + due + unfiled[Sparsed] = Total(hc.sum, Sparsed)
FilesKey(hc, unfiled, owed, k) ==
    /\ SparseAt(hc, k) + owed[k] + unfiled[Here(k, hc.lvl)] <= Total(hc.sum, Here(k, hc.lvl))
    /\ SparseAt(hc, k) + owed[k] + unfiled[Far(k, hc.lvl)] >= Total(hc.sum, Far(k, hc.lvl))

LEMMA FilesParts ==
    ASSUME NEW hc, NEW unfiled, NEW owed, NEW due
    PROVE  Files(hc, unfiled, owed, due) <=>
             /\ FilesClassic(hc)
             /\ Native => /\ FilesSum(hc, unfiled, due)
                          /\ \A k \in SparseKeys : FilesKey(hc, unfiled, owed, k)
  BY DEF Files, FilesClassic, FilesSum, FilesKey

\* The numbers Files is about.
LEMMA FilesTypes ==
    ASSUME NEW x \in Counts, NEW p \in Unfileds, NEW S \in SUBSET Values, NEW k
    PROVE  /\ x.zero \in Nat /\ InSparse(x) \in Nat /\ SparseAt(x, k) \in Nat
           /\ Total(x.sum, S) \in Nat /\ p[S] \in Nat
           /\ SparseAt(x, k) = BucketAt(x.sparse, k)
<1>1. x.zero \in Nat /\ x.sparse \in Buckets /\ x.sum \in Bags  BY CountsFacts
<1>2. SparseAt(x, k) = BucketAt(x.sparse, k)  BY DEF SparseAt, BucketAt
<1> QED  BY <1>1, <1>2, BucketSum, TotalType DEF InSparse, Unfileds

\* The same counts, but for the numbers that Files is not about.
LEMMA FilesKept ==
    ASSUME NEW x, NEW y, NEW p, NEW owed, NEW due, Files(x, p, owed, due),
           y.classic = x.classic, y.sum = x.sum, y.zero = x.zero, y.sparse = x.sparse, y.lvl = x.lvl
    PROVE  Files(y, p, owed, due)
<1>1. /\ \A b : InBucket(y, b) = InBucket(x, b)
      /\ InSparse(y) = InSparse(x) /\ \A k : SparseAt(y, k) = SparseAt(x, k)
  BY DEF InBucket, InSparse, SparseAt
<1> QED  BY <1>1 DEF Files

\* observe: the classic bucket and the sum.
LEMMA FilesClassicStep ==
    ASSUME NEW x \in Counts, NEW y \in Counts, NEW v \in Values, NEW p \in Unfileds, NEW q \in Unfileds,
           NEW owed \in Owings, NEW due \in Nat, Files(x, p, owed, due),
           y.sum[v] = x.sum[v] + 1, \A u \in Values \ {v} : y.sum[u] = x.sum[u],
           \A b \in 1..NumBuckets : y.classic[b] = x.classic[b] + (IF b = Bucket[v] THEN 1 ELSE 0),
           y.zero = x.zero, y.sparse = x.sparse, y.lvl = x.lvl,
           \A S \in SUBSET Values : q[S] = p[S] + (IF DoSparse(v) /\ v \in S THEN 1 ELSE 0)
    PROVE  Files(y, q, owed, due)
<1>1. ASSUME NEW S \in SUBSET Values
      PROVE  Total(y.sum, S) = Total(x.sum, S) + (IF v \in S THEN 1 ELSE 0)
  <2>1. x.sum \in Bags /\ y.sum \in Bags  BY CountsFacts
  <2> QED  BY <2>1, TotalOneMore
<1>2. FilesClassic(y)
  <2> SUFFICES ASSUME NEW b \in 1..NumBuckets PROVE y.classic[b] = InBucket(y, b)
    BY DEF FilesClassic
  <2>1. PICK S \in SUBSET Values : S = {u \in Values : Bucket[u] = b}  OBVIOUS
  <2>2. x.classic[b] = Total(x.sum, S)  BY <2>1, FilesParts DEF FilesClassic, InBucket
  <2>3. InBucket(y, b) = Total(y.sum, S)  BY <2>1 DEF InBucket
  <2>4. v \in S <=> b = Bucket[v]  BY <2>1
  <2> QED  BY <1>1, <2>2, <2>3, <2>4
<1>3. InSparse(y) = InSparse(x) /\ \A k : SparseAt(y, k) = SparseAt(x, k)
  BY DEF InSparse, SparseAt
<1>4. ASSUME Native, NEW S \in SUBSET Sparsed
      PROVE  q[S] - p[S] = Total(y.sum, S) - Total(x.sum, S) /\ q[S] \in Nat /\ p[S] \in Nat
  <2>1. S \in SUBSET Values  BY DEF Sparsed
  <2>2. v \in S => DoSparse(v)  BY <1>4 DEF DoSparse, Sparsed
  <2>3. q[S] = p[S] + (IF v \in S THEN 1 ELSE 0)  BY <2>1, <2>2
  <2>4. Total(y.sum, S) = Total(x.sum, S) + (IF v \in S THEN 1 ELSE 0)  BY <1>1, <2>1
  <2>5. q[S] \in Nat /\ p[S] \in Nat /\ Total(x.sum, S) \in Nat  BY <2>1, FilesTypes
  <2> QED  BY <2>3, <2>4, <2>5
<1>5. ASSUME Native PROVE FilesSum(y, q, due)
  <2>1. FilesSum(x, p, due)  BY <1>5, FilesParts
  <2>2. Sparsed \in SUBSET Values /\ Sparsed \in SUBSET Sparsed  BY ValueSets
  <2>3. q[Sparsed] - p[Sparsed] = Total(y.sum, Sparsed) - Total(x.sum, Sparsed)
    BY <1>4, <1>5, <2>2
  <2>4. /\ x.zero \in Nat /\ InSparse(x) \in Nat /\ Total(x.sum, Sparsed) \in Nat
        /\ Total(y.sum, Sparsed) \in Nat /\ q[Sparsed] \in Nat /\ p[Sparsed] \in Nat
    BY <2>2, FilesTypes
  <2> QED  BY <1>3, <2>1, <2>3, <2>4 DEF FilesSum
<1>6. ASSUME Native, NEW k \in SparseKeys PROVE FilesKey(y, q, owed, k)
  <2>1. FilesKey(x, p, owed, k)  BY <1>6, FilesParts
  <2>2. PICK H \in SUBSET Sparsed, F \in SUBSET Sparsed : H = Here(k, x.lvl) /\ F = Far(k, x.lvl)
    BY ValueSets
  <2>3. H \in SUBSET Values /\ F \in SUBSET Values  BY ValueSets
  <2>4. /\ q[H] - p[H] = Total(y.sum, H) - Total(x.sum, H)
        /\ q[F] - p[F] = Total(y.sum, F) - Total(x.sum, F)
    BY <1>4, <1>6
  <2>5. /\ SparseAt(x, k) \in Nat /\ owed[k] \in Nat /\ q[H] \in Nat /\ p[H] \in Nat
        /\ q[F] \in Nat /\ p[F] \in Nat /\ Total(x.sum, H) \in Nat /\ Total(y.sum, H) \in Nat
        /\ Total(x.sum, F) \in Nat /\ Total(y.sum, F) \in Nat
    BY <2>3, FilesTypes DEF Owings
  <2>6. /\ SparseAt(x, k) + owed[k] + p[H] <= Total(x.sum, H)
        /\ SparseAt(x, k) + owed[k] + p[F] >= Total(x.sum, F)
    BY <2>1, <2>2 DEF FilesKey
  <2>7. /\ SparseAt(x, k) + owed[k] + q[H] <= Total(y.sum, H)
        /\ SparseAt(x, k) + owed[k] + q[F] >= Total(y.sum, F)
    BY <2>4, <2>5, <2>6
  <2> QED  BY <1>3, <2>2, <2>7 DEF FilesKey
<1> QED  BY <1>2, <1>5, <1>6, FilesParts

\* observe: the zero bucket or the sparse bucket.
LEMMA FilesPlaceStep ==
    ASSUME NEW x \in Counts, NEW y \in Counts, NEW v \in Values, DoSparse(v), NEW t \in Int, t <= Highest,
           NEW p \in Unfileds, NEW q \in Unfileds,
           NEW owed \in Owings, NEW due \in Nat, Files(x, p, owed, due),
           y.sum = x.sum, y.classic = x.classic, y.lvl = x.lvl,
           y.zero = IF InZero(v, t) THEN x.zero + 1 ELSE x.zero,
           y.sparse = IF InZero(v, t) THEN x.sparse ELSE AddToBucket(x.sparse, SparseKey(v, x.lvl), 1),
           \A S \in SUBSET Values : p[S] = q[S] + (IF v \in S THEN 1 ELSE 0)
    PROVE  Files(y, q, owed, due)
<1>1. Native /\ v \in Sparsed  BY DEF DoSparse, Sparsed
<1>2. FilesClassic(y)  BY FilesParts DEF FilesClassic, InBucket
<1>3. SparseKey(v, x.lvl) \in SparseKeys
  <2>1. x.lvl \in Nat  BY CountsFacts, OptionsAssumption
  <2> QED  BY <2>1, KeyType
<1>4. PICK key \in SparseKeys : key = SparseKey(v, x.lvl)  BY <1>3
<1>5. PICK add \in {0, 1} : add = IF InZero(v, t) THEN 0 ELSE 1
  <2>1. (IF InZero(v, t) THEN 0 ELSE 1) \in {0, 1}  OBVIOUS
  <2> QED  BY <2>1
<1>6. /\ y.zero = x.zero + 1 - add /\ InSparse(y) = InSparse(x) + add
      /\ \A k : SparseAt(y, k) = SparseAt(x, k) + (IF k = key THEN add ELSE 0)
  <2>0. x.zero \in Nat /\ x.sparse \in Buckets  BY CountsFacts
  <2>1. \A k : SparseAt(y, k) = BucketAt(y.sparse, k) /\ SparseAt(x, k) = BucketAt(x.sparse, k)
    BY DEF SparseAt, BucketAt
  <2>2. InSparse(x) \in Nat /\ \A k : BucketAt(x.sparse, k) \in Nat  BY <2>0, BucketSum DEF InSparse
  <2>3. CASE InZero(v, t)
    <3>1. y.zero = x.zero + 1 /\ y.sparse = x.sparse /\ add = 0  BY <1>5, <2>3
    <3>2. InSparse(y) = InSparse(x)  BY <3>1 DEF InSparse
    <3>3. \A k : SparseAt(y, k) = SparseAt(x, k)  BY <2>1, <3>1
    <3> QED  BY <2>0, <2>1, <2>2, <3>1, <3>2, <3>3
  <2>4. CASE ~InZero(v, t)
    <3>1. y.zero = x.zero /\ y.sparse = AddToBucket(x.sparse, key, 1) /\ add = 1  BY <1>4, <1>5, <2>4
    <3>2. PICK d : d = AddToBucket(x.sparse, key, 1)  OBVIOUS
    <3>3. SumFunction(d) = SumFunction(x.sparse) + 1
          /\ \A j : BucketAt(d, j) = BucketAt(x.sparse, j) + (IF j = key THEN 1 ELSE 0)
      BY <2>0, <3>2, BucketSumAdd
    <3>4. y.sparse = d  BY <3>1, <3>2
    <3>5. InSparse(y) = InSparse(x) + 1  BY <3>3, <3>4 DEF InSparse
    <3> QED  BY <2>0, <2>1, <3>1, <3>3, <3>4, <3>5
  <2> QED  BY <2>3, <2>4
<1>7. FilesSum(y, q, due)
  <2>1. FilesSum(x, p, due)  BY <1>1, FilesParts
  <2>2. Sparsed \in SUBSET Values  BY ValueSets
  <2>3. p[Sparsed] = q[Sparsed] + 1  BY <1>1, <2>2
  <2>4. x.zero \in Nat /\ InSparse(x) \in Nat /\ q[Sparsed] \in Nat  BY <2>2, FilesTypes
  <2> QED  BY <1>5, <1>6, <2>1, <2>3, <2>4 DEF FilesSum
<1>8. ASSUME NEW k \in SparseKeys PROVE FilesKey(y, q, owed, k)
  <2>1. FilesKey(x, p, owed, k)  BY <1>1, FilesParts
  <2>2. PICK H, F : /\ H = Here(k, x.lvl) /\ F = Far(k, x.lvl)
                    /\ H \in SUBSET Values /\ F \in SUBSET H
    BY ValueSets
  <2>3. v \in H <=> k = key  BY <1>1, <1>4, <2>2 DEF Here
  <2>4. v \in F => add = 1
    <3>1. SUFFICES ASSUME v \in F, add = 0 PROVE FALSE  BY <1>5
    <3>2. InZero(v, t) /\ ~InZero(v, Highest)  BY <1>5, <2>2, <3>1 DEF Far
    <3>3. FineKey[v] \in Int  BY ValuesAssumption
    <3> QED  BY <3>2, <3>3, HighestFacts DEF InZero
  <2>5. F \in SUBSET Values /\ H \in SUBSET Values  BY <2>2
  <2>6. /\ SparseAt(x, k) \in Nat /\ owed[k] \in Nat /\ q[H] \in Nat /\ q[F] \in Nat
        /\ Total(x.sum, H) \in Nat /\ Total(x.sum, F) \in Nat
    BY <2>5, FilesTypes DEF Owings
  <2>7. /\ SparseAt(x, k) + owed[k] + p[H] <= Total(x.sum, H)
        /\ SparseAt(x, k) + owed[k] + p[F] >= Total(x.sum, F)
    BY <2>1, <2>2 DEF FilesKey
  <2>8. p[H] = q[H] + (IF v \in H THEN 1 ELSE 0) /\ p[F] = q[F] + (IF v \in F THEN 1 ELSE 0)
    BY <2>5
  <2>9. SparseAt(y, k) = SparseAt(x, k) + (IF v \in H THEN add ELSE 0)  BY <1>6, <2>3
  <2>10. v \in F => v \in H  BY <2>2
  <2>11. /\ SparseAt(y, k) + owed[k] + q[H] <= Total(x.sum, H)
         /\ SparseAt(y, k) + owed[k] + q[F] >= Total(x.sum, F)
    BY <1>5, <2>4, <2>6, <2>7, <2>8, <2>9, <2>10
  <2> QED  BY <2>2, <2>11 DEF FilesKey
<1> QED  BY <1>1, <1>2, <1>7, <1>8, FilesParts

\* Empty counts.
LEMMA FilesNothing ==
    ASSUME NEW x \in Counts, Unused(x), x.sum = NoValues, \A k \in DOMAIN x.sparse : x.sparse[k] = 0,
           NEW p, \A S \in SUBSET Values : p[S] = 0
    PROVE  Files(x, p, NothingOwed, 0)
<1>1. ASSUME NEW S \in SUBSET Values PROVE Total(x.sum, S) = 0  BY TotalNone
<1>2. FilesClassic(x)
  <2> SUFFICES ASSUME NEW b \in 1..NumBuckets PROVE x.classic[b] = InBucket(x, b)
    BY DEF FilesClassic
  <2>1. {u \in Values : Bucket[u] = b} \in SUBSET Values  OBVIOUS
  <2> QED  BY <1>1, <2>1 DEF Unused, InBucket
<1>3. InSparse(x) = 0 /\ \A k : SparseAt(x, k) = 0
  <2>1. x.sparse \in Buckets  BY CountsFacts
  <2>2. PICK K \in SUBSET SparseKeys : IsFiniteSet(K) /\ x.sparse \in [K -> Nat]  BY <2>1, BucketsAre
  <2>3. SumFunction(x.sparse) = 0  BY <2>2, SumFunctionZero
  <2> QED  BY <2>3 DEF InSparse, SparseAt
<1>4. FilesSum(x, p, 0)
  <2>1. Sparsed \in SUBSET Values  BY ValueSets
  <2> QED  BY <1>1, <1>3, <2>1 DEF FilesSum, Unused
<1>5. ASSUME NEW k \in SparseKeys PROVE FilesKey(x, p, NothingOwed, k)
  <2>1. Here(k, x.lvl) \in SUBSET Values /\ Far(k, x.lvl) \in SUBSET Values  BY ValueSets
  <2>2. NothingOwed[k] = 0  BY DEF NothingOwed
  <2> QED  BY <1>1, <1>3, <2>1, <2>2 DEF FilesKey
<1> QED  BY <1>2, <1>4, <1>5, FilesParts


LEMMA TotalHolds ==
    ASSUME NEW f \in Bags, NEW S \in SUBSET Values, NEW v \in S
    PROVE  f[v] <= Total(f, S)
<1>1. f \in [Values -> Nat] /\ IsFiniteSet(Values)  BY ValuesAssumption DEF Bags
<1>2. PICK R \in SUBSET Values : R = S \ {v}  OBVIOUS
<1>3. SumFunctionOnSet(f, S) = f[v] + SumFunctionOnSet(f, R)  BY <1>1, <1>2, SumRemove
<1>4. SumFunctionOnSet(f, R) \in Nat /\ f[v] \in Nat  BY <1>1, SumType
<1> QED  BY <1>3, <1>4 DEF Total

\* Where the merge puts the values of each bucket: dest and gone say it of the buckets,
\* x has the cold counts, l is the hot schema.
MapsTo(x, l, dest, gone) ==
    /\ \A v \in Sparsed : dest[SparseKey(v, x.lvl)] = SparseKey(v, l)
    /\ \A v \in Sparsed : SparseKey(v, x.lvl) \in gone => InZero(v, Highest)
Arriving(x, k, dest, gone) == {j \in DOMAIN x.sparse : dest[j] = k /\ j \notin gone}
KeysBounded(x) ==
    \A j \in SparseKeys : /\ SparseAt(x, j) <= Total(x.sum, Here(j, x.lvl))
                          /\ SparseAt(x, j) >= Total(x.sum, Far(j, x.lvl))

\* What the cold sparse buckets with one destination hold is bounded by the values that
\* belong there.
LEMMA OwedIsBounded ==
    ASSUME NEW x \in Counts, NEW l, NEW k \in SparseKeys, NEW dest, NEW gone,
           KeysBounded(x), MapsTo(x, l, dest, gone), NEW J, J = Arriving(x, k, dest, gone)
    PROVE  /\ Total(x.sparse, J) \in Nat
           /\ Total(x.sparse, J) <= Total(x.sum, Here(k, l))
           /\ Total(x.sparse, J) >= Total(x.sum, Far(k, l))
<1>1. x.sparse \in Buckets /\ x.sum \in Bags /\ x.lvl \in Nat  BY CountsFacts, OptionsAssumption
<1>2. PICK D : D = DOMAIN x.sparse /\ D \in SUBSET SparseKeys /\ IsFiniteSet(D) /\ x.sparse \in [D -> Nat]
  <2>1. PICK K \in SUBSET SparseKeys : IsFiniteSet(K) /\ x.sparse \in [K -> Nat]  BY <1>1, BucketsAre
  <2> QED  BY <2>1
<1>3. x.sum \in [Values -> Nat] /\ IsFiniteSet(Values)  BY <1>1, ValuesAssumption DEF Bags
<1>4. PICK key : key = [v \in Values |-> SparseKey(v, x.lvl)]  OBVIOUS
<1>5. J \in SUBSET D /\ \A j \in D : j \in J <=> dest[j] = k /\ j \notin gone  BY <1>2 DEF Arriving
<1>m. /\ \A v \in Sparsed : dest[SparseKey(v, x.lvl)] = SparseKey(v, l)
      /\ \A v \in Sparsed : SparseKey(v, x.lvl) \in gone => InZero(v, Highest)
      /\ \A j \in SparseKeys : /\ SparseAt(x, j) <= Total(x.sum, Here(j, x.lvl))
                              /\ SparseAt(x, j) >= Total(x.sum, Far(j, x.lvl))
  BY DEF MapsTo, KeysBounded
<1>6. PICK H, F : /\ H = Here(k, l) /\ F = Far(k, l) /\ H \in SUBSET Sparsed /\ F \in SUBSET H
                  /\ H \in SUBSET Values /\ F \in SUBSET Values
  BY ValueSets
<1>7. Sparsed \in SUBSET Values  BY ValueSets
<1>8. Total(x.sparse, J) \in Nat  BY <1>2, <1>5, SumType DEF Total
<1>9. \A j \in J : SparseAt(x, j) = x.sparse[j] /\ j \in SparseKeys  BY <1>2, <1>5 DEF SparseAt
<1>10. Total(x.sparse, J) <= Total(x.sum, H)
  <2>1. ASSUME NEW j \in J PROVE x.sparse[j] <= SumFunctionOnSet(x.sum, Fiber(Sparsed, key, j))
    <3>1. Fiber(Sparsed, key, j) = Here(j, x.lvl)  BY <1>4, <1>7 DEF Fiber, Here
    <3> QED  BY <1>9, <1>m, <3>1 DEF Total
  <2>2. SumFunctionOnSet(x.sparse, J) <= SumFunctionOnSet(x.sum, Fibers(Sparsed, key, J))
    BY <1>2, <1>3, <1>5, <1>7, <2>1, FibersAbove
  <2>3. PICK T : T = Fibers(Sparsed, key, J) /\ T \in SUBSET H
    <3>1. ASSUME NEW v \in Fibers(Sparsed, key, J) PROVE v \in H
      <4>1. v \in Sparsed /\ v \in Values /\ key[v] \in J  BY <1>7 DEF Fibers
      <4>2. dest[SparseKey(v, x.lvl)] = k  BY <1>4, <1>5, <4>1
      <4> QED  BY <1>6, <1>m, <4>1, <4>2 DEF Here
    <3> QED  BY <3>1
  <2>4. Total(x.sum, T) <= Total(x.sum, H)  BY <1>1, <1>6, <2>3, TotalSubset
  <2>5. Total(x.sparse, J) <= Total(x.sum, T)  BY <2>2, <2>3 DEF Total
  <2>6. T \in SUBSET Values  BY <1>6, <2>3
  <2>7. Total(x.sum, T) \in Nat /\ Total(x.sum, H) \in Nat  BY <1>1, <1>6, <2>6, TotalType
  <2> QED  BY <1>8, <2>4, <2>5, <2>7
<1>11. Total(x.sparse, J) >= Total(x.sum, F)
  <2>1. ASSUME NEW v \in F PROVE v \in Sparsed /\ v \in Values /\ ~InZero(v, Highest) /\ SparseKey(v, l) = k
    BY <1>6, <1>7 DEF Far, Here
  <2>2. ASSUME NEW j \in J PROVE x.sparse[j] >= SumFunctionOnSet(x.sum, Fiber(F, key, j))
    <3>1. Fiber(F, key, j) \in SUBSET Far(j, x.lvl)  BY <1>4, <2>1 DEF Fiber, Far, Here
    <3>2. Far(j, x.lvl) \in SUBSET Values  BY ValueSets
    <3>3. Total(x.sum, Fiber(F, key, j)) <= Total(x.sum, Far(j, x.lvl))  BY <1>1, <3>1, <3>2, TotalSubset
    <3>4. SparseAt(x, j) >= Total(x.sum, Far(j, x.lvl))  BY <1>9, <1>m
    <3>5. Fiber(F, key, j) \in SUBSET Values  BY <3>1, <3>2
    <3>6. Total(x.sum, Fiber(F, key, j)) \in Nat /\ Total(x.sum, Far(j, x.lvl)) \in Nat
      BY <1>1, <3>2, <3>5, TotalType
    <3>7. SparseAt(x, j) = x.sparse[j] /\ x.sparse[j] \in Nat  BY <1>2, <1>5, <1>9
    <3> QED  BY <3>3, <3>4, <3>6, <3>7 DEF Total
  <2>3. SumFunctionOnSet(x.sparse, J) >= SumFunctionOnSet(x.sum, Fibers(F, key, J))
    BY <1>2, <1>3, <1>5, <1>6, <2>2, FibersBelow
  <2>4. PICK T, R : /\ T = Fibers(F, key, J) /\ R = F \ T /\ T \in SUBSET Values /\ R \in SUBSET Values
                    /\ T \cup R = F /\ T \cap R = {}
    <3>1. PICK T : T = Fibers(F, key, J)  OBVIOUS
    <3>2. T \in SUBSET F  BY <3>1 DEF Fibers
    <3>3. F \in SUBSET Values  BY <1>6
    <3>4. PICK R : R = F \ T  OBVIOUS
    <3>5. T \in SUBSET Values /\ R \in SUBSET Values /\ T \cup R = F /\ T \cap R = {}
      BY <3>2, <3>3, <3>4
    <3> QED  BY <3>1, <3>4, <3>5
  <2>5. ASSUME NEW v \in R PROVE x.sum[v] = 0
    <3>1. v \in F /\ key[v] \notin J  BY <2>4 DEF Fibers
    <3>2. PICK j \in SparseKeys : j = SparseKey(v, x.lvl)  BY <1>1, <2>1, <3>1, KeyType
    <3>3. key[v] = j /\ dest[j] = k /\ j \notin gone  BY <1>4, <1>m, <2>1, <3>1, <3>2
    <3>4. j \notin DOMAIN x.sparse  BY <1>2, <1>5, <3>1, <3>3
    <3>5. SparseAt(x, j) = 0  BY <3>4 DEF SparseAt
    <3>6. Far(j, x.lvl) \in SUBSET Values /\ v \in Far(j, x.lvl)  BY <2>1, <3>1, <3>2, ValueSets DEF Far, Here
    <3>7. x.sum[v] <= Total(x.sum, Far(j, x.lvl))  BY <1>1, <3>6, TotalHolds
    <3>8. Total(x.sum, Far(j, x.lvl)) <= 0  BY <1>m, <3>5
    <3>9. x.sum[v] \in Nat /\ Total(x.sum, Far(j, x.lvl)) \in Nat  BY <1>1, <1>3, <3>6, TotalType
    <3> QED  BY <3>7, <3>8, <3>9
  <2>6. Total(x.sum, R) = 0  BY <1>3, <2>4, <2>5, SumZeros DEF Total
  <2>7. Total(x.sum, T \cup R) = Total(x.sum, T) + Total(x.sum, R)
    <3>1. T \in SUBSET Values /\ R \in SUBSET Values /\ T \cap R = {}  BY <2>4
    <3> QED  BY <1>3, <3>1, SumDisjoint DEF Total
  <2>8. Total(x.sum, T) \in Nat  BY <1>1, <2>4, TotalType
  <2>9. Total(x.sum, F) = Total(x.sum, T)
    <3>1. Total(x.sum, F) = Total(x.sum, T \cup R)  BY <2>4
    <3> QED  BY <2>6, <2>7, <2>8, <3>1
  <2> QED  BY <2>3, <2>4, <2>9 DEF Total
<1> QED  BY <1>6, <1>8, <1>10, <1>11

\* addAndResetCounts: what is left in the cold sparse buckets is owed to the hot ones.
LEMMA FilesMergeStep ==
    ASSUME NEW h \in Counts, NEW x \in Counts, NEW y \in Counts, NEW p \in Unfileds, NEW r,
           Files(h, p, NothingOwed, 0), Files(x, r, NothingOwed, 0), \A S \in SUBSET Values : r[S] = 0,
           \A v \in Values : y.sum[v] = h.sum[v] + x.sum[v],
           \A b \in 1..NumBuckets : y.classic[b] = h.classic[b] + x.classic[b],
           y.zero = h.zero + x.zero, y.sparse = h.sparse, y.lvl = h.lvl,
           NEW dest, NEW gone, NEW owed,
           Native => MapsTo(x, h.lvl, dest, gone),
           \A k \in SparseKeys : owed[k] = Total(x.sparse, Arriving(x, k, dest, gone))
    PROVE  Files(y, p, owed, Total(x.sparse, DOMAIN x.sparse))
<1>0. h.sum \in Bags /\ x.sum \in Bags /\ y.sum \in Bags /\ x.sparse \in Buckets  BY CountsFacts
<1>1. ASSUME NEW S \in SUBSET Values
      PROVE  /\ Total(y.sum, S) = Total(h.sum, S) + Total(x.sum, S)
             /\ Total(h.sum, S) \in Nat /\ Total(x.sum, S) \in Nat
  BY <1>0, TotalBoth, TotalType
<1>2. FilesClassic(y)
  <2> SUFFICES ASSUME NEW b \in 1..NumBuckets PROVE y.classic[b] = InBucket(y, b)
    BY DEF FilesClassic
  <2>1. PICK S \in SUBSET Values : S = {u \in Values : Bucket[u] = b}  OBVIOUS
  <2>2. x.classic[b] = Total(x.sum, S) /\ h.classic[b] = Total(h.sum, S)
    BY <2>1, FilesParts DEF FilesClassic, InBucket
  <2>3. InBucket(y, b) = Total(y.sum, S)  BY <2>1 DEF InBucket
  <2> QED  BY <1>1, <2>2, <2>3
<1>3. InSparse(y) = InSparse(h) /\ \A k : SparseAt(y, k) = SparseAt(h, k)
  BY DEF InSparse, SparseAt
<1>4. ASSUME Native PROVE FilesSum(y, p, Total(x.sparse, DOMAIN x.sparse))
  <2>1. FilesSum(h, p, 0) /\ FilesSum(x, r, 0)  BY <1>4, FilesParts
  <2>2. Sparsed \in SUBSET Values  BY ValueSets
  <2>3. r[Sparsed] = 0 /\ p[Sparsed] \in Nat  BY <2>2 DEF Unfileds
  <2>4. InSparse(x) = Total(x.sparse, DOMAIN x.sparse) /\ InSparse(x) \in Nat
    BY <1>0, BucketSum DEF InSparse
  <2>5. x.zero \in Nat /\ h.zero \in Nat /\ InSparse(h) \in Nat  BY <2>2, FilesTypes
  <2> QED  BY <1>1, <1>3, <2>1, <2>2, <2>3, <2>4, <2>5 DEF FilesSum
<1>5. ASSUME Native, NEW k \in SparseKeys PROVE FilesKey(y, p, owed, k)
  <2>1. FilesKey(h, p, NothingOwed, k) /\ \A j \in SparseKeys : FilesKey(x, r, NothingOwed, j)
    BY <1>5, FilesParts
  <2>2. \A j \in SparseKeys : NothingOwed[j] = 0  BY DEF NothingOwed
  <2>3. ASSUME NEW j \in SparseKeys
        PROVE  /\ SparseAt(x, j) <= Total(x.sum, Here(j, x.lvl))
               /\ SparseAt(x, j) >= Total(x.sum, Far(j, x.lvl))
    <3>1. Here(j, x.lvl) \in SUBSET Values /\ Far(j, x.lvl) \in SUBSET Values  BY ValueSets
    <3>2. r[Here(j, x.lvl)] = 0 /\ r[Far(j, x.lvl)] = 0  BY <3>1
    <3>3. SparseAt(x, j) \in Nat  BY <1>0, BucketSum DEF SparseAt, BucketAt
    <3> QED  BY <2>1, <2>2, <3>2, <3>3 DEF FilesKey
  <2>4. PICK J : J = Arriving(x, k, dest, gone)  OBVIOUS
  <2>5. /\ Total(x.sparse, J) \in Nat
        /\ Total(x.sparse, J) <= Total(x.sum, Here(k, h.lvl))
        /\ Total(x.sparse, J) >= Total(x.sum, Far(k, h.lvl))
    <3>1. KeysBounded(x)  BY <2>3 DEF KeysBounded
    <3> QED  BY <1>5, <2>4, <3>1, OwedIsBounded
  <2>6. owed[k] = Total(x.sparse, J)  BY <2>4
  <2>7. PICK H, F : H = Here(k, h.lvl) /\ F = Far(k, h.lvl) /\ H \in SUBSET Values /\ F \in SUBSET Values
    BY ValueSets
  <2>8. /\ SparseAt(h, k) + p[H] <= Total(h.sum, H) /\ SparseAt(h, k) + p[F] >= Total(h.sum, F)
        /\ SparseAt(h, k) \in Nat /\ p[H] \in Nat /\ p[F] \in Nat
    <3>1. SparseAt(h, k) \in Nat /\ p[H] \in Nat /\ p[F] \in Nat  BY <2>7, FilesTypes
    <3> QED  BY <2>1, <2>2, <2>7, <3>1 DEF FilesKey
  <2>9. /\ SparseAt(h, k) + owed[k] + p[H] <= Total(y.sum, H)
        /\ SparseAt(h, k) + owed[k] + p[F] >= Total(y.sum, F)
    BY <1>1, <2>5, <2>6, <2>7, <2>8
  <2> QED  BY <1>3, <2>7, <2>9 DEF FilesKey
<1> QED  BY <1>2, <1>4, <1>5, FilesParts


\* One cold bucket of n observations is merged: into the zero bucket, or into a bucket.
LEMMA FilesMoveStep ==
    ASSUME NEW h \in Counts, NEW y \in Counts, NEW p \in Unfileds, NEW owed \in Owings, NEW due \in Nat,
           Files(h, p, owed, due), y.sum = h.sum, y.classic = h.classic, y.lvl = h.lvl,
           NEW n \in Nat, NEW left1 \in Owings, NEW due1 \in Nat, due = due1 + n,
           NEW k \in SparseKeys, NEW into \in BOOLEAN,
           y.zero = IF into THEN h.zero ELSE h.zero + n,
           y.sparse = IF into THEN AddToBucket(h.sparse, k, n) ELSE h.sparse,
           \A j \in SparseKeys : owed[j] = left1[j] + (IF into /\ j = k THEN n ELSE 0)
    PROVE  Files(y, p, left1, due1)
<1>1. FilesClassic(y)  BY FilesParts DEF FilesClassic, InBucket
<1>2. PICK add \in Nat : add = IF into THEN n ELSE 0  OBVIOUS
<1>3. /\ y.zero + add = h.zero + n /\ InSparse(y) = InSparse(h) + add
      /\ \A j : SparseAt(y, j) = SparseAt(h, j) + (IF j = k THEN add ELSE 0)
  <2>0. h.zero \in Nat /\ h.sparse \in Buckets  BY CountsFacts
  <2>1. \A j : SparseAt(y, j) = BucketAt(y.sparse, j) /\ SparseAt(h, j) = BucketAt(h.sparse, j)
    BY DEF SparseAt, BucketAt
  <2>2. InSparse(h) \in Nat /\ \A j : BucketAt(h.sparse, j) \in Nat  BY <2>0, BucketSum DEF InSparse
  <2>3. CASE ~into
    <3>1. y.zero = h.zero + n /\ y.sparse = h.sparse /\ add = 0  BY <1>2, <2>3
    <3>2. InSparse(y) = InSparse(h)  BY <3>1 DEF InSparse
    <3>3. \A j : SparseAt(y, j) = SparseAt(h, j)  BY <2>1, <3>1
    <3> QED  BY <2>0, <2>1, <2>2, <3>1, <3>2, <3>3
  <2>4. CASE into
    <3>1. y.zero = h.zero /\ y.sparse = AddToBucket(h.sparse, k, n) /\ add = n  BY <1>2, <2>4
    <3>2. PICK d : d = AddToBucket(h.sparse, k, n)  OBVIOUS
    <3>3. SumFunction(d) = SumFunction(h.sparse) + n
          /\ \A j : BucketAt(d, j) = BucketAt(h.sparse, j) + (IF j = k THEN n ELSE 0)
      BY <2>0, <3>2, BucketSumAdd
    <3>4. y.sparse = d  BY <3>1, <3>2
    <3>5. InSparse(y) = InSparse(h) + n  BY <3>3, <3>4 DEF InSparse
    <3> QED  BY <2>0, <2>1, <3>1, <3>3, <3>4, <3>5
  <2> QED  BY <2>3, <2>4
<1>4. ASSUME Native PROVE FilesSum(y, p, due1)
  <2>1. FilesSum(h, p, due)  BY <1>4, FilesParts
  <2>2. Sparsed \in SUBSET Values  BY ValueSets
  <2>3. h.zero \in Nat /\ InSparse(h) \in Nat /\ p[Sparsed] \in Nat /\ y.zero \in Nat  BY <2>2, FilesTypes
  <2> QED  BY <1>3, <2>1, <2>3 DEF FilesSum
<1>5. ASSUME Native, NEW j \in SparseKeys PROVE FilesKey(y, p, left1, j)
  <2>1. FilesKey(h, p, owed, j)  BY <1>5, FilesParts
  <2>2. SparseAt(h, j) \in Nat /\ left1[j] \in Nat
    <3>1. {} \in SUBSET Values  OBVIOUS
    <3> QED  BY <3>1, FilesTypes DEF Owings
  <2>3. SparseAt(y, j) + left1[j] = SparseAt(h, j) + owed[j]  BY <1>2, <1>3, <2>2
  <2> QED  BY <2>1, <2>3 DEF FilesKey
<1> QED  BY <1>1, <1>4, <1>5, FilesParts

-----------------------------------------------------------------------------
(* The zero bucket and the classic buckets that each step of the code leaves *)

LEMMA ClassicFields ==
    ASSUME NEW x \in Counts, NEW v \in Values, NEW y, y = ObserveClassic(x, v)
    PROVE  /\ y.zero = x.zero
           /\ \A b \in 1..NumBuckets : y.classic[b] = x.classic[b] + (IF b = Bucket[v] THEN 1 ELSE 0)
<1> DEFINE cl == [b \in 1..NumBuckets |-> x.classic[b] + (IF b = Bucket[v] THEN 1 ELSE 0)]
           su == [x.sum EXCEPT ![v] = @ + 1]
<1>1. y = [x EXCEPT !.classic = cl, !.sum = su]  BY DEF ObserveClassic
<1>2. \A b \in 1..NumBuckets : cl[b] = x.classic[b] + (IF b = Bucket[v] THEN 1 ELSE 0)  OBVIOUS
<1> HIDE DEF cl, su
<1>3. y.classic = cl /\ y.zero = x.zero  BY <1>1 DEF Counts
<1> QED  BY <1>2, <1>3

LEMMA PlaceFields ==
    ASSUME NEW x \in Counts, NEW v \in Values, NEW s, NEW y, y = ObservePlace(x, v, s)
    PROVE  /\ y.classic = x.classic
           /\ y.zero = IF InZero(v, s.thr) THEN x.zero + 1 ELSE x.zero
<1>1. CASE InZero(v, s.thr)
  <2>1. y = [x EXCEPT !.zero = @ + 1]  BY <1>1 DEF ObservePlace
  <2> QED  BY <1>1, <2>1 DEF Counts
<1>2. CASE ~InZero(v, s.thr)
  <2> DEFINE b == AddToBucket(x.sparse, SparseKey(v, s.lvl), 1)
  <2>1. y = [x EXCEPT !.sparse = b]  BY <1>2 DEF ObservePlace
  <2> HIDE DEF b
  <2> QED  BY <1>2, <2>1 DEF Counts
<1> QED  BY <1>1, <1>2

LEMMA CountFields ==
    ASSUME NEW x \in Counts, NEW y, y = [x EXCEPT !.count = @ + 1]
    PROVE  y.classic = x.classic /\ y.zero = x.zero
  BY DEF Counts

LEMMA NumFields ==
    ASSUME NEW x \in Counts, NEW y, y = [x EXCEPT !.num = @ + 1]
    PROVE  y.classic = x.classic /\ y.zero = x.zero
  BY DEF Counts

LEMMA FreshFields == Unused(Fresh)
<1>1. Fresh.zero = 0 /\ Fresh.classic = [b \in 1..NumBuckets |-> 0]  BY DEF Fresh
<1> QED  BY <1>1 DEF Unused

LEMMA MergedFields ==
    ASSUME NEW x \in Counts, NEW d \in Counts, NEW y, y = MergedInto(x, d)
    PROVE  /\ y.zero = x.zero + d.zero
           /\ \A b \in 1..NumBuckets : y.classic[b] = x.classic[b] + d.classic[b]
<1> DEFINE cl == [b \in 1..NumBuckets |-> x.classic[b] + d.classic[b]]
           su == [v \in Values |-> x.sum[v] + d.sum[v]]
<1>1. y = [x EXCEPT !.count = @ + d.count, !.zero = @ + d.zero, !.sum = su, !.classic = cl]
  BY DEF MergedInto
<1>2. \A b \in 1..NumBuckets : cl[b] = x.classic[b] + d.classic[b]  OBVIOUS
<1> HIDE DEF cl, su
<1>3. y.classic = cl /\ y.zero = x.zero + d.zero  BY <1>1 DEF Counts
<1> QED  BY <1>2, <1>3

LEMMA IntoFields ==
    ASSUME NEW x \in Counts, NEW k, NEW n, NEW y, y = SparseInto(x, k, n)
    PROVE  y.classic = x.classic /\ y.zero = x.zero /\ y.sparse = AddToBucket(x.sparse, k, n)
<1> DEFINE m == IF Creates(x.sparse, k) THEN x.num + 1 ELSE x.num
           b == AddToBucket(x.sparse, k, n)
<1>1. y = [x EXCEPT !.num = m, !.sparse = b]  BY DEF SparseInto
<1> HIDE DEF m, b
<1>2. y.classic = x.classic /\ y.zero = x.zero /\ y.sparse = b  BY <1>1 DEF Counts
<1> QED  BY <1>2 DEF b

LEMMA ZeroFields ==
    ASSUME NEW x \in Counts, NEW n, NEW y, y = ZeroPlus(x, n)
    PROVE  y.classic = x.classic /\ y.zero = x.zero + n
  BY DEF Counts, ZeroPlus

LEMMA OutFields ==
    ASSUME NEW x \in Counts, NEW t, NEW l, NEW y, y = MergedOut(x, t, l)
    PROVE  Unused(y)
<1>1. y.zero = 0 /\ y.classic = [b \in 1..NumBuckets |-> 0]  BY DEF MergedOut, Emptied, Counts
<1> QED  BY <1>1 DEF Unused

LEMMA UnusedKept ==
    ASSUME NEW x \in Counts, Unused(x)
    PROVE  /\ \A key, t : Unused(Widened(x, key, t))
           /\ \A l : Unused(Doubled(x, l))
           /\ \A k : Unused(TakenOut(x, k)) /\ Unused(EmptiedAt(x, k))
<1>1. ASSUME NEW key, NEW t PROVE Unused(Widened(x, key, t))
  <2> DEFINE there == {k \in DOMAIN x.sparse : k.key = key}
             b == [k \in DOMAIN x.sparse \ there |-> x.sparse[k]]
             n == x.num - Cardinality(there)
  <2>1. Widened(x, key, t) = [x EXCEPT !.num = n, !.sparse = b, !.thr = t]  BY DEF Removed, Widened
  <2> HIDE DEF there, b, n
  <2>2. Widened(x, key, t).zero = x.zero /\ Widened(x, key, t).classic = x.classic
    BY <2>1 DEF Counts
  <2> QED  BY <2>2 DEF Unused
<1>2. ASSUME NEW l PROVE Unused(Doubled(x, l))
  <2>1. Doubled(x, l).zero = x.zero /\ Doubled(x, l).classic = x.classic  BY DEF Doubled, Counts
  <2> QED  BY <2>1 DEF Unused
<1>3. ASSUME NEW k PROVE Unused(TakenOut(x, k))
  <2> DEFINE b == Without(x.sparse, k)
  <2>1. TakenOut(x, k) = [x EXCEPT !.sparse = b, !.num = @ - 1]  BY DEF TakenOut
  <2> HIDE DEF b
  <2>2. TakenOut(x, k).zero = x.zero /\ TakenOut(x, k).classic = x.classic  BY <2>1 DEF Counts
  <2> QED  BY <2>2 DEF Unused
<1>4. ASSUME NEW k PROVE Unused(EmptiedAt(x, k))
  <2> DEFINE b == [x.sparse EXCEPT ![k] = 0]
  <2>1. EmptiedAt(x, k) = [x EXCEPT !.sparse = b]  BY DEF EmptiedAt
  <2> HIDE DEF b
  <2>2. EmptiedAt(x, k).zero = x.zero /\ EmptiedAt(x, k).classic = x.classic  BY <2>1 DEF Counts
  <2> QED  BY <2>2 DEF Unused
<1> QED  BY <1>1, <1>2, <1>3, <1>4

\* The new hot counts of a reset.
LEMMA FilesFresh ==
    ASSUME NEW p, \A S \in SUBSET Values : p[S] = 0
    PROVE  Files(Fresh, p, NothingOwed, 0) /\ Total(Fresh.sum, Values) = 0
<1>1. \A k \in DOMAIN Fresh.sparse : Fresh.sparse[k] = 0  BY FreshFacts, EmptyType
<1>2. Files(Fresh, p, NothingOwed, 0)  BY <1>1, FreshFacts, FreshFields, FilesNothing
<1>3. Values \in SUBSET Values  OBVIOUS
<1> QED  BY <1>2, <1>3, FreshFacts, TotalNone

LEMMA FilesRepeat ==
    ASSUME NEW v \in Values, DoSparse(v), NEW y, y = ObserveAll(Fresh, v),
           NEW p, \A S \in SUBSET Values : p[S] = 0
    PROVE  Files(y, p, NothingOwed, 0) /\ Total(y.sum, Values) = 1
<1> DEFINE x == ObserveClassic(Fresh, v)
           s == [lvl |-> Fresh.lvl, thr |-> Fresh.thr]
<1>1. PICK none \in Unfileds : none = [S \in SUBSET Values |-> 0]  BY DEF Unfileds
<1>2. PICK one \in Unfileds : one = [S \in SUBSET Values |-> IF v \in S THEN 1 ELSE 0]  BY DEF Unfileds
<1>3. Files(Fresh, none, NothingOwed, 0)  BY <1>1, FilesFresh
<1>4. /\ Fresh \in Counts /\ x \in Counts /\ x.sum = [Fresh.sum EXCEPT ![v] = @ + 1]
      /\ x.lvl = Fresh.lvl /\ x.sparse = Fresh.sparse /\ x.zero = Fresh.zero
      /\ \A b \in 1..NumBuckets : x.classic[b] = Fresh.classic[b] + (IF b = Bucket[v] THEN 1 ELSE 0)
  BY FreshFacts, ClassicFacts, ClassicFields
<1>5. s \in [lvl : 0..MaxLevel, thr : Int] /\ s.lvl = Fresh.lvl /\ s.thr = ZeroThreshold
  BY FreshFacts, CountsFacts
<1>6. PICK z, n : z = ObservePlace(x, v, s) /\ y = [z EXCEPT !.num = n, !.count = @ + 1]
  BY FreshFacts DEF ObserveAll
<1> HIDE DEF x, s
<1>7. /\ z \in Counts /\ z.sum = x.sum /\ z.lvl = x.lvl /\ z.classic = x.classic
      /\ z.zero = IF InZero(v, s.thr) THEN x.zero + 1 ELSE x.zero
      /\ z.sparse = IF InZero(v, s.thr) THEN x.sparse ELSE AddToBucket(x.sparse, SparseKey(v, s.lvl), 1)
  <2>1. x \in Counts /\ s \in [lvl : 0..MaxLevel, thr : Int] /\ z = ObservePlace(x, v, s)
    BY <1>4, <1>5, <1>6
  <2>2. z.classic = x.classic /\ z.zero = IF InZero(v, s.thr) THEN x.zero + 1 ELSE x.zero
    BY <2>1, PlaceFields
  <2> QED  BY <2>1, <2>2, PlaceFacts
<1>8. NothingOwed \in Owings /\ 0 \in Nat  BY DEF NothingOwed, Owings
<1>9. Fresh.sum \in [Values -> Nat]  BY <1>4, CountsFacts DEF Bags
<1>10. x.sum[v] = Fresh.sum[v] + 1 /\ \A u \in Values \ {v} : x.sum[u] = Fresh.sum[u]
  BY <1>4, <1>9
<1>k. /\ Fresh \in Counts /\ x \in Counts
      /\ x.lvl = Fresh.lvl /\ x.sparse = Fresh.sparse /\ x.zero = Fresh.zero
      /\ \A b \in 1..NumBuckets : x.classic[b] = Fresh.classic[b] + (IF b = Bucket[v] THEN 1 ELSE 0)
  BY <1>4
<1>11. Files(x, one, NothingOwed, 0)
  <2>1. \A S \in SUBSET Values : one[S] = none[S] + (IF DoSparse(v) /\ v \in S THEN 1 ELSE 0)
    BY <1>1, <1>2
  <2> QED  BY <1>3, <1>k, <1>8, <1>10, <2>1, FilesClassicStep
<1>12. Files(z, none, NothingOwed, 0)
  <2>1. \A S \in SUBSET Values : one[S] = none[S] + (IF v \in S THEN 1 ELSE 0)
    BY <1>1, <1>2
  <2>2. PICK t \in Int : t = s.thr /\ t <= Highest  BY <1>5, HighestFacts, OptionsAssumption
  <2>3. s.lvl = x.lvl  BY <1>4, <1>5
  <2> QED  BY <1>k, <1>7, <1>8, <1>11, <2>1, <2>2, <2>3, FilesPlaceStep
<1>13. y.classic = z.classic /\ y.sum = z.sum /\ y.zero = z.zero /\ y.sparse = z.sparse /\ y.lvl = z.lvl
  BY <1>6, <1>7 DEF Counts
<1>14. Files(y, none, NothingOwed, 0)  BY <1>12, <1>13, FilesKept
<1>15. Files(y, p, NothingOwed, 0)
  <2>1. \A S \in SUBSET Values : p[S] = none[S]  BY <1>1
  <2>2. \A k : none[Here(k, y.lvl)] = p[Here(k, y.lvl)] /\ none[Far(k, y.lvl)] = p[Far(k, y.lvl)]
    BY <2>1, ValueSets
  <2>3. none[Sparsed] = p[Sparsed]  BY <2>1, ValueSets
  <2> QED  BY <1>14, <2>2, <2>3 DEF Files
<1>16. Total(x.sum, Values) = Total(Fresh.sum, Values) + 1
  <2>1. Values \in SUBSET Values  OBVIOUS
  <2>2. Fresh.sum \in Bags /\ x.sum \in Bags  BY <1>k, CountsFacts
  <2> QED  BY <1>10, <2>1, <2>2, TotalOneMore
<1>17. Total(Fresh.sum, Values) = 0  BY <1>1, FilesFresh
<1>18. y.sum = x.sum  BY <1>7, <1>13
<1> QED  BY <1>15, <1>16, <1>17, <1>18

-----------------------------------------------------------------------------
(* The observations on their way, and what is owed *)

UnfiledOf(c, S) == {o \in Observers : pc[o] \in {"look", "place"} /\ side[o] = c /\ val[o] \in S}

LEMMA UnfiledType ==
    ASSUME NEW c
    PROVE  /\ Unfiled(c) \in Unfileds /\ Unfiled(c)' \in Unfileds
           /\ \A S \in SUBSET Values : /\ Unfiled(c)[S] = Cardinality(UnfiledOf(c, S))
                                       /\ Unfiled(c)'[S] = Cardinality(UnfiledOf(c, S)')
                                       /\ UnfiledOf(c, S) \in SUBSET Observers
                                       /\ UnfiledOf(c, S)' \in SUBSET Observers
<1>1. ASSUME NEW S \in SUBSET Values
      PROVE  /\ UnfiledOf(c, S) \in SUBSET Observers /\ UnfiledOf(c, S)' \in SUBSET Observers
             /\ Cardinality(UnfiledOf(c, S)) \in Nat /\ Cardinality(UnfiledOf(c, S)') \in Nat
  <2>1. UnfiledOf(c, S) \in SUBSET Observers /\ UnfiledOf(c, S)' \in SUBSET Observers
    BY DEF UnfiledOf
  <2> QED  BY <2>1, ObserverSet
<1>2. /\ Unfiled(c) = [S \in SUBSET Values |-> Cardinality(UnfiledOf(c, S))]
      /\ Unfiled(c)' = [S \in SUBSET Values |-> Cardinality(UnfiledOf(c, S)')]
  BY DEF Unfiled, UnfiledOf
<1> QED  BY <1>1, <1>2 DEF Unfileds

\* What a step of observe changes in them.
LEMMA UnfiledMoves ==
    ASSUME NEW o \in Observers, NEW c, NEW S \in SUBSET Values,
           \A q \in Observers \ {o} : pc'[q] = pc[q] /\ side'[q] = side[q] /\ val'[q] = val[q]
    PROVE  Unfiled(c)'[S] = Unfiled(c)[S]
             + (IF pc'[o] \in {"look", "place"} /\ side'[o] = c /\ val'[o] \in S THEN 1 ELSE 0)
             - (IF pc[o] \in {"look", "place"} /\ side[o] = c /\ val[o] \in S THEN 1 ELSE 0)
<1>1. /\ \A q \in Observers \ {o} : q \in UnfiledOf(c, S) <=> q \in UnfiledOf(c, S)'
      /\ o \in UnfiledOf(c, S)' <=> (pc'[o] \in {"look", "place"} /\ side'[o] = c /\ val'[o] \in S)
      /\ o \in UnfiledOf(c, S) <=> (pc[o] \in {"look", "place"} /\ side[o] = c /\ val[o] \in S)
  BY DEF UnfiledOf
<1>2. UnfiledOf(c, S) \in SUBSET Observers /\ UnfiledOf(c, S)' \in SUBSET Observers  BY UnfiledType
<1>3. Cardinality(UnfiledOf(c, S)') = Cardinality(UnfiledOf(c, S))
        + (IF o \in UnfiledOf(c, S)' THEN 1 ELSE 0) - (IF o \in UnfiledOf(c, S) THEN 1 ELSE 0)
  BY <1>1, <1>2, Moves
<1>4. Unfiled(c)'[S] = Cardinality(UnfiledOf(c, S)') /\ Unfiled(c)[S] = Cardinality(UnfiledOf(c, S))
  BY UnfiledType
<1> QED  BY <1>1, <1>3, <1>4

LEMMA SummedMoves ==
    ASSUME NEW o \in Observers, NEW c,
           \A q \in Observers \ {o} : pc'[q] = pc[q] /\ side'[q] = side[q] /\ val'[q] = val[q]
    PROVE  Cardinality(Summed(c))' = Cardinality(Summed(c))
             + (IF pc'[o] \in Observing \ {"classic"} /\ side'[o] = c THEN 1 ELSE 0)
             - (IF pc[o] \in Observing \ {"classic"} /\ side[o] = c THEN 1 ELSE 0)
<1>1. /\ \A q \in Observers \ {o} : q \in Summed(c) <=> q \in Summed(c)'
      /\ o \in Summed(c)' <=> (pc'[o] \in Observing \ {"classic"} /\ side'[o] = c)
      /\ o \in Summed(c) <=> (pc[o] \in Observing \ {"classic"} /\ side[o] = c)
  BY DEF Summed, InFlight
<1>2. Summed(c) \in SUBSET Observers /\ Summed(c)' \in SUBSET Observers  BY DEF Summed, InFlight
<1>3. Cardinality(Summed(c)') = Cardinality(Summed(c))
        + (IF o \in Summed(c)' THEN 1 ELSE 0) - (IF o \in Summed(c) THEN 1 ELSE 0)
  BY <1>1, <1>2, Moves
<1> QED  BY <1>1, <1>3

\* What the other steps change in them: nothing.
LEMMA FilingsKept ==
    ASSUME NEW c, side' = side, val' = val,
           \A q \in Observers : pc'[q] = pc[q] \/ (pc'[q] \notin Observing /\ pc[q] \notin Observing)
    PROVE  Unfiled(c)' = Unfiled(c) /\ Summed(c)' = Summed(c)
<1>1. \A q \in Observers : /\ pc'[q] \in Observing <=> pc[q] \in Observing
                           /\ pc'[q] = "classic" <=> pc[q] = "classic"
                           /\ pc'[q] \in {"look", "place"} <=> pc[q] \in {"look", "place"}
  BY DEF Observing
<1>2. ASSUME NEW S PROVE UnfiledOf(c, S)' = UnfiledOf(c, S)  BY <1>1 DEF UnfiledOf
<1>3. /\ Unfiled(c) = [S \in SUBSET Values |-> Cardinality(UnfiledOf(c, S))]
      /\ Unfiled(c)' = [S \in SUBSET Values |-> Cardinality(UnfiledOf(c, S)')]
  BY DEF Unfiled, UnfiledOf
<1> QED  BY <1>1, <1>2, <1>3 DEF Summed, InFlight

\* A step of an observer, on the side it does not observe on.
LEMMA FilingsElsewhere ==
    ASSUME NEW o \in Observers, NEW c,
           \A q \in Observers \ {o} : pc'[q] = pc[q] /\ side'[q] = side[q] /\ val'[q] = val[q],
           pc[o] \in Observing => side[o] # c, pc'[o] \in Observing => side'[o] # c
    PROVE  Unfiled(c)' = Unfiled(c) /\ Summed(c)' = Summed(c) /\ InFlight(c)' = InFlight(c)
<1>1. ASSUME NEW S PROVE UnfiledOf(c, S)' = UnfiledOf(c, S)
  <2>1. \A q \in Observers : q \in UnfiledOf(c, S)' <=> q \in UnfiledOf(c, S)
    BY DEF UnfiledOf, Observing
  <2> QED  BY <2>1 DEF UnfiledOf
<1>2. /\ Unfiled(c) = [S \in SUBSET Values |-> Cardinality(UnfiledOf(c, S))]
      /\ Unfiled(c)' = [S \in SUBSET Values |-> Cardinality(UnfiledOf(c, S)')]
  BY DEF Unfiled, UnfiledOf
<1>3. \A q \in Observers : q \in InFlight(c)' <=> q \in InFlight(c)  BY DEF InFlight
<1>4. InFlight(c)' = InFlight(c)  BY <1>3 DEF InFlight
<1>5. Summed(c)' = Summed(c)
  <2>1. \A q \in Observers : q \in Summed(c)' <=> q \in Summed(c)  BY DEF Summed, InFlight
  <2> QED  BY <2>1 DEF Summed, InFlight
<1> QED  BY <1>1, <1>2, <1>4, <1>5

\* Nobody on one side.
LEMMA NobodyFiling ==
    ASSUME NEW c, InFlight(c) = {}
    PROVE  /\ \A S \in SUBSET Values : Unfiled(c)[S] = 0
           /\ Summed(c) = {} /\ Cardinality(Summed(c)) = 0
<1>1. ASSUME NEW S \in SUBSET Values PROVE Unfiled(c)[S] = 0
  <2>1. UnfiledOf(c, S) = {}  BY DEF UnfiledOf, InFlight, Observing
  <2> QED  BY <2>1, UnfiledType, FS_EmptySet
<1>2. Summed(c) = {}  BY DEF Summed
<1> QED  BY <1>1, <1>2, FS_EmptySet

LEMMA NoSum ==
    ASSUME NEW b \in Buckets
    PROVE  Total(b, {}) = 0
<1>1. PICK K \in SUBSET SparseKeys : IsFiniteSet(K) /\ b \in [K -> Nat]  BY BucketsAre
<1> QED  BY <1>1, SumEmpty DEF Total

LEMMA NothingType == NothingOwed \in Owings /\ 0 \in Nat /\ \A k \in SparseKeys : NothingOwed[k] = 0
  BY DEF NothingOwed, Owings

\* Nothing is left.
LEMMA OwedNothing == HistInv /\ left = {} => Owed = NothingOwed /\ Due = 0
<1> SUFFICES ASSUME HistInv, left = {} PROVE Owed = NothingOwed /\ Due = 0  OBVIOUS
<1>1. \A k : Owing(k) = {}  BY DEF Owing
<1>2. cold \in 0..1 /\ counts[cold] \in Counts
  <2>1. Types  BY DEF HistInv
  <2>2. cold \in 0..1  BY <2>1 DEF Types, cold
  <2> QED  BY <2>1, <2>2 DEF Types
<1>3. Total(counts[cold].sparse, {}) = 0  BY <1>2, CountsFacts, NoSum
<1> QED  BY <1>1, <1>3 DEF Owed, Due, NothingOwed

\* What is owed is a number.
LEMMA OwedType ==
    ASSUME HistInv
    PROVE  Owed \in Owings /\ Due \in Nat
<1>1. Types /\ SparseInv  BY DEF HistInv
<1>2. PICK c \in 0..1 : c = cold /\ c # hot  BY <1>1 DEF Types, cold
<1>3. PICK b \in Buckets : b = counts[c].sparse
  <2>1. counts[c] \in Counts  BY <1>1 DEF Types
  <2> QED  BY <2>1, CountsFacts
<1>4. left \in SUBSET DOMAIN b  BY <1>1, <1>2, <1>3 DEF SparseInv, LeftInv
<1>5. ASSUME NEW S \in SUBSET left PROVE Total(counts[cold].sparse, S) \in Nat
  <2>1. S \in SUBSET DOMAIN b  BY <1>4
  <2> QED  BY <1>2, <1>3, <2>1, BucketSum
<1>6. \A k : Owing(k) \in SUBSET left  BY DEF Owing
<1> QED  BY <1>5, <1>6 DEF Owed, Due, Owings

\* What is owed stays the same with the buckets that owe it.
LEMMA OwedKept ==
    ASSUME HistInv, HistInv', hot' = hot, plan' = plan, smallest' = smallest, left' = left,
           left = {} \/ counts'[cold] = counts[cold]
    PROVE  Owed' = Owed /\ Due' = Due
<1>1. CASE left = {}
  <2>1. (HistInv /\ left = {})' => (Owed = NothingOwed /\ Due = 0)'  BY OwedNothing, PTL
  <2>2. (Owed = NothingOwed)' => Owed' = NothingOwed  BY DEF NothingOwed
  <2> QED  BY <1>1, <2>1, <2>2, OwedNothing
<1>2. CASE counts'[cold] = counts[cold]
  <2>1. cold' = cold  BY DEF cold
  <2>2. counts'[cold'] = counts[cold]  BY <1>2, <2>1
  <2>3. \A k : Owing(k)' = Owing(k)  BY DEF Owing, Destination, Vanishes
  <2> QED  BY <2>2, <2>3 DEF Owed, Due
<1> QED  BY <1>1, <1>2

-----------------------------------------------------------------------------
(* FilingInv: a step of observe or limitBuckets outside mtx *)

\* The parts of the invariant that are about one observer.
SeenOf(o) ==
    /\ pc[o] \in {"look", "place", "limit", "lock"} => DoSparse(val[o])
    /\ pc[o] = "place" => seen[o].lvl = counts[side[o]].lvl /\ seen[o].thr <= Highest

\* The observation of one observer, on the counts of one side, which become y.
FilingStep(o, s, x, y) ==
    /\ s \in 0..1 /\ x = counts[s] /\ y = counts'[s] /\ s = side'[o]
    /\ pc[o] \notin Holding /\ pc'[o] \notin Holding
    /\ \A q \in Procs \ {o} : pc'[q] = pc[q]
    /\ \A q \in Observers \ {o} : side'[q] = side[q] /\ val'[q] = val[q] /\ seen'[q] = seen[q]
    /\ \A d \in 0..1 : d # s => counts'[d] = counts[d]
    /\ side[o] = s \/ pc[o] \notin Observing
    /\ y = x \/ (pc[o] \in Observing /\ side[o] = s)
    /\ y.thr = x.thr /\ y.lvl = x.lvl
    /\ UNCHANGED <<hot, mtx, plan, smallest, left>>
    /\ SeenOf(o)'
    /\ x.count + Cardinality(Summed(s)) = Total(x.sum, Values)
         => y.count + Cardinality(Summed(s)') = Total(y.sum, Values)
    /\ \A owed \in Owings, due \in Nat :
           Files(x, Unfiled(s), owed, due) => Files(y, Unfiled(s)', owed, due)

LEMMA FilingInvOf ==
    ASSUME HistInv
    PROVE  \E h \in 0..1, c \in 0..1 :
              /\ h = hot /\ c # h /\ c = cold /\ h = 1 - c /\ c = 1 - h
              /\ \A d \in 0..1 : d = h \/ d = c
<1>1. hot \in 0..1  BY DEF HistInv, Types
<1>2. cold \in 0..1 /\ cold # hot /\ cold = 1 - hot /\ hot = 1 - cold  BY <1>1 DEF cold
<1> QED  BY <1>1, <1>2

LEMMA OutsideFiles ==
    ASSUME HistInv, HistInv', FilingInv, NEW o \in Observers, NEW s, NEW x, NEW y,
           FilingStep(o, s, x, y)
    PROVE  FilingInv'
<1>0. Types /\ MutexInv /\ CountInv /\ SparseInv /\ Types'  BY DEF HistInv
<1>1. PICK h \in 0..1, c \in 0..1 :
              /\ h = hot /\ c # h /\ c = cold /\ h = 1 - c /\ c = 1 - h
              /\ \A d \in 0..1 : d = h \/ d = c
  BY FilingInvOf
<1>2. /\ s \in 0..1 /\ x = counts[s] /\ y = counts'[s] /\ s = side'[o]
      /\ pc[o] \notin Holding /\ pc'[o] \notin Holding
      /\ \A q \in Procs \ {o} : pc'[q] = pc[q]
      /\ \A q \in Observers \ {o} : side'[q] = side[q] /\ val'[q] = val[q] /\ seen'[q] = seen[q]
      /\ \A d \in 0..1 : d # s => counts'[d] = counts[d]
      /\ side[o] = s \/ pc[o] \notin Observing
      /\ y = x \/ (pc[o] \in Observing /\ side[o] = s)
      /\ y.thr = x.thr /\ y.lvl = x.lvl
  BY DEF FilingStep
<1>3. hot' = hot /\ mtx' = mtx /\ plan' = plan /\ smallest' = smallest /\ left' = left
  BY DEF FilingStep
<1>4. \A q \in Observers \ {o} : pc'[q] = pc[q] /\ side'[q] = side[q] /\ val'[q] = val[q]
  BY <1>2 DEF Procs
<1>5. phase' = phase  BY <1>0, <1>2, <1>3, ObserverOutside
<1>6. \A d \in 0..1 : counts'[d].thr = counts[d].thr /\ counts'[d].lvl = counts[d].lvl
  BY <1>2
<1>7. SeenInv'
  <2>1. ASSUME NEW q \in Observers PROVE SeenOf(q)'
    <3>1. CASE q = o  BY <3>1 DEF FilingStep
    <3>2. CASE q # o
      <4>1. /\ pc'[q] = pc[q] /\ side'[q] = side[q] /\ val'[q] = val[q] /\ seen'[q] = seen[q]
            /\ side[q] \in 0..1
        BY <1>0, <1>2, <1>4, <3>2 DEF Types
      <4>2. SeenOf(q)  BY DEF FilingInv, SeenInv, SeenOf
      <4>3. counts'[side[q]].lvl = counts[side[q]].lvl  BY <1>6, <4>1
      <4> QED  BY <4>1, <4>2, <4>3 DEF SeenOf, DoSparse
    <3> QED  BY <3>1, <3>2
  <2> QED  BY <2>1 DEF SeenInv, SeenOf
<1>8. PlanInv(h, c) /\ SideInv(h) /\ SideInv(c)  BY <1>1 DEF FilingInv
<1>9. PlanInv(h, c)'  BY <1>3, <1>5, <1>6, <1>8 DEF PlanInv
<1>10. c = s /\ phase # "cool" => y = x
  <2>1. SUFFICES ASSUME c = s, phase # "cool" PROVE y = x  OBVIOUS
  <2>2. InFlight(c) = {}  BY <1>0, <1>1, <2>1 DEF CountInv, ColdInv
  <2> QED  BY <1>2, <2>1, <2>2 DEF InFlight
<1>11. counts'[c] = counts[c] \/ phase = "cool"
  BY <1>2, <1>10
<1>12. Owed' = Owed /\ Due' = Due
  <2>1. phase = "cool" => left = {}  BY <1>0, <1>1 DEF SparseInv, LeftInv
  <2>2. left = {} \/ counts'[cold] = counts[cold]  BY <1>1, <1>11, <2>1
  <2> QED  BY <1>3, <2>2, OwedKept
<1>13. Owed \in Owings /\ Due \in Nat  BY OwedType
<1>14. ASSUME NEW d \in 0..1, d # s
       PROVE  Unfiled(d)' = Unfiled(d) /\ Summed(d)' = Summed(d)
  <2>1. pc[o] \in Observing => side[o] # d  BY <1>2, <1>14
  <2>2. side'[o] # d  BY <1>2, <1>14
  <2> QED  BY <1>4, <2>1, <2>2, FilingsElsewhere
<1>15. ASSUME NEW d \in 0..1
       PROVE  /\ counts[d].count + Cardinality(Summed(d)) = Total(counts[d].sum, Values)
                   => (counts[d].count + Cardinality(Summed(d)) = Total(counts[d].sum, Values))'
              /\ \A owed \in Owings, due \in Nat :
                   Files(counts[d], Unfiled(d), owed, due) => Files(counts'[d], Unfiled(d)', owed, due)
  <2>1. CASE d = s  BY <1>2, <2>1 DEF FilingStep
  <2>2. CASE d # s
    <3>1. counts'[d] = counts[d] /\ Unfiled(d)' = Unfiled(d) /\ Summed(d)' = Summed(d)
      BY <1>2, <1>14, <2>2
    <3> QED  BY <3>1
  <2> QED  BY <2>1, <2>2
<1>16. SideInv(h)'
  <2>1. Files(counts[h], Unfiled(h), Owed, Due)  BY <1>1, <1>8 DEF SideInv
  <2>2. Files(counts'[h], Unfiled(h)', Owed, Due)  BY <1>13, <1>15, <2>1
  <2>3. Files(counts[h], Unfiled(h), Owed, Due)'
    <3>1. PICK ow, du : ow = Owed /\ du = Due  OBVIOUS
    <3>2. Files(counts'[h], Unfiled(h)', ow, du) /\ Owed' = ow /\ Due' = du  BY <1>12, <2>2, <3>1
    <3> QED  BY <3>2
  <2>4. (counts[h].count + Cardinality(Summed(h)) = Total(counts[h].sum, Values))'
    BY <1>8, <1>15 DEF SideInv
  <2> QED  BY <1>1, <1>3, <2>3, <2>4 DEF SideInv
<1>17. SideInv(c)'
  <2>1. (counts[c].count + Cardinality(Summed(c)) = Total(counts[c].sum, Values))'
    BY <1>8, <1>15 DEF SideInv
  <2>2. CASE phase \in {"cool", "merge"} \/ (phase = "swap" /\ plan = "reset")
    <3>1. Files(counts[c], Unfiled(c), NothingOwed, 0)  BY <1>1, <1>8, <2>2 DEF SideInv
    <3>2. Files(counts'[c], Unfiled(c)', NothingOwed, 0)  BY <1>15, <3>1, NothingType
    <3> QED  BY <1>1, <1>3, <1>5, <2>1, <2>2, <3>2 DEF SideInv, NothingOwed
  <2>3. CASE ~(phase \in {"cool", "merge"} \/ (phase = "swap" /\ plan = "reset"))
    <3>1. Unused(counts[c])  BY <1>1, <1>8, <2>3 DEF SideInv
    <3>2. Unused(counts'[c])  BY <1>11, <2>3, <3>1
    <3> QED  BY <1>1, <1>3, <1>5, <2>1, <2>3, <3>2 DEF SideInv
  <2> QED  BY <2>2, <2>3
<1> QED  BY <1>1, <1>3, <1>7, <1>9, <1>16, <1>17 DEF FilingInv, PlanInv

\* The steps that leave the counts alone.
LEMMA QuietFiles ==
    ASSUME HistInv, HistInv', FilingInv, NEW o \in Observers, counts' = counts,
           hot' = hot, mtx' = mtx, plan' = plan, smallest' = smallest, left' = left,
           \A q \in Procs \ {o} : pc'[q] = pc[q],
           \A q \in Observers \ {o} : side'[q] = side[q] /\ val'[q] = val[q] /\ seen'[q] = seen[q],
           (side'[o] = side[o] /\ val'[o] = val[o]) \/ pc[o] \notin Observing,
           pc[o] \notin Holding, pc'[o] \notin Holding, SeenOf(o)',
           (pc'[o] \in Observing \ {"classic"}) <=> (pc[o] \in Observing \ {"classic"}),
           (pc'[o] \in {"look", "place"}) <=> (pc[o] \in {"look", "place"})
    PROVE  FilingInv'
<1>1. Types /\ Types'  BY DEF HistInv
<1>2. PICK s \in 0..1 : s = side'[o]  BY <1>1 DEF Types
<1>3. PICK x : x = counts[s]  OBVIOUS
<1>4. \A q \in Observers \ {o} : pc'[q] = pc[q] /\ side'[q] = side[q] /\ val'[q] = val[q]
  BY DEF Procs
<1>5. pc[o] \in {"look", "place"} => pc[o] \in Observing  BY DEF Observing
<1>6. ASSUME NEW S \in SUBSET Values PROVE UnfiledOf(s, S)' = UnfiledOf(s, S)
  <2>1. \A q \in Observers : q \in UnfiledOf(s, S)' <=> q \in UnfiledOf(s, S)
    BY <1>4, <1>5 DEF UnfiledOf
  <2> QED  BY <2>1 DEF UnfiledOf
<1>7. Unfiled(s)' = Unfiled(s)
  <2>1. /\ Unfiled(s) = [S \in SUBSET Values |-> Cardinality(UnfiledOf(s, S))]
        /\ Unfiled(s)' = [S \in SUBSET Values |-> Cardinality(UnfiledOf(s, S)')]
    BY DEF Unfiled, UnfiledOf
  <2> QED  BY <1>6, <2>1
<1>8. Summed(s)' = Summed(s)
  <2>1. \A q \in Observers : q \in Summed(s)' <=> q \in Summed(s)  BY <1>4 DEF Summed, InFlight
  <2> QED  BY <2>1 DEF Summed, InFlight
<1>9. x = counts'[s]  BY <1>3
<1>10. FilingStep(o, s, x, x)  BY <1>2, <1>3, <1>7, <1>8, <1>9 DEF FilingStep
<1> QED  BY <1>10, OutsideFiles

LEMMA BeginFiles ==
    ASSUME HistInv, FilingInv, NEW o \in Observers, NEW u \in Values, Begin(o, u)
    PROVE  FilingInv'
<1>1. HistInv' /\ Types  BY BeginKeeps DEF HistInv
<1>2. /\ pc[o] = "rest" /\ pc' = [pc EXCEPT ![o] = "classic"] /\ counts' = counts
      /\ hot' = hot /\ mtx' = mtx /\ plan' = plan /\ smallest' = smallest /\ left' = left
      /\ side' = [side EXCEPT ![o] = hot] /\ val' = [val EXCEPT ![o] = u] /\ seen' = seen
  BY DEF Begin, Goto, mtxVars
<1>3. pc'[o] = "classic" /\ \A q \in Procs \ {o} : pc'[q] = pc[q]  BY <1>1, <1>2 DEF Types, Procs
<1>4. \A q \in Observers \ {o} : side'[q] = side[q] /\ val'[q] = val[q] /\ seen'[q] = seen[q]
  BY <1>1, <1>2 DEF Types
<1>5. SeenOf(o)'  BY <1>3 DEF SeenOf
<1>6. /\ pc[o] \notin Observing /\ pc[o] \notin Holding /\ pc'[o] \notin Holding
      /\ pc'[o] \notin Observing \ {"classic"}
      /\ pc[o] \notin {"look", "place"} /\ pc'[o] \notin {"look", "place"}
  BY <1>2, <1>3 DEF Observing, Holding
<1> QED  BY <1>1, <1>2, <1>3, <1>4, <1>5, <1>6, QuietFiles

LEMMA LookFiles ==
    ASSUME HistInv, FilingInv, NEW o \in Observers, Look(o)
    PROVE  FilingInv'
<1>1. HistInv' /\ Types  BY LookKeeps DEF HistInv
<1>2. /\ pc[o] = "look" /\ pc' = [pc EXCEPT ![o] = "place"] /\ counts' = counts
      /\ hot' = hot /\ mtx' = mtx /\ plan' = plan /\ smallest' = smallest /\ left' = left
      /\ side' = side /\ val' = val
      /\ seen' = [seen EXCEPT ![o] = [lvl |-> counts[side[o]].lvl, thr |-> counts[side[o]].thr]]
  BY DEF Look, Goto, mtxVars, hotVars
<1>3. pc'[o] = "place" /\ \A q \in Procs \ {o} : pc'[q] = pc[q]  BY <1>1, <1>2 DEF Types, Procs
<1>4. \A q \in Observers \ {o} : side'[q] = side[q] /\ val'[q] = val[q] /\ seen'[q] = seen[q]
  BY <1>1, <1>2 DEF Types
<1>5. SeenOf(o)'
  <2>1. SeenOf(o)  BY DEF FilingInv, SeenInv, SeenOf
  <2>2. DoSparse(val'[o])  BY <1>2, <2>1 DEF SeenOf
  <2>3. seen'[o].lvl = counts[side[o]].lvl /\ seen'[o].thr = counts[side[o]].thr  BY <1>1, <1>2 DEF Types
  <2>4. counts[side[o]].thr <= Highest
    <3>1. PICK h \in 0..1, c \in 0..1 :
              /\ h = hot /\ c # h /\ c = cold /\ h = 1 - c /\ c = 1 - h
              /\ \A d \in 0..1 : d = h \/ d = c
      BY FilingInvOf
    <3>2. PlanInv(h, c) /\ side[o] \in 0..1  BY <1>1, <3>1 DEF FilingInv, Types
    <3> QED  BY <3>1, <3>2 DEF PlanInv
  <2> QED  BY <1>2, <2>2, <2>3, <2>4 DEF SeenOf, DoSparse
<1>6. /\ pc[o] \notin Holding /\ pc'[o] \notin Holding
      /\ pc'[o] \in Observing \ {"classic"} /\ pc[o] \in Observing \ {"classic"}
      /\ pc[o] \in {"look", "place"} /\ pc'[o] \in {"look", "place"}
  BY <1>2, <1>3 DEF Observing, Holding
<1>7. side'[o] = side[o] /\ val'[o] = val[o]  BY <1>2
<1> QED  BY <1>1, <1>2, <1>3, <1>4, <1>5, <1>6, <1>7, QuietFiles

\* limitBuckets, where it changes nothing.
LEMMA LimitFiles ==
    ASSUME HistInv, FilingInv, NEW o \in Observers, LimitCheck(o) \/ LimitKept(o) \/ LimitLowest(o)
    PROVE  FilingInv'
<1>1. HistInv' /\ Types  BY LimitCheckKeeps, LimitKeptKeeps, LimitLowestKeeps DEF HistInv
<1>2. PICK l : /\ pc[o] \in {"limit", "lock"} /\ l \in {"rest", "lock"} /\ pc' = [pc EXCEPT ![o] = l]
               /\ counts' = counts /\ hot' = hot /\ mtx' = mtx /\ plan' = plan
               /\ smallest' = smallest /\ left' = left /\ side' = side /\ val' = val /\ seen' = seen
  <2>1. CASE LimitCheck(o)  BY <2>1 DEF LimitCheck, Goto, mtxVars, hotVars, observerVars
  <2>2. CASE LimitKept(o)  BY <2>2 DEF LimitKept, Goto, mtxVars, hotVars, observerVars
  <2>3. CASE LimitLowest(o)  BY <2>3 DEF LimitLowest, Limits, Goto, hotVars, observerVars
  <2> QED  BY <2>1, <2>2, <2>3
<1>3. pc'[o] = l /\ \A q \in Procs \ {o} : pc'[q] = pc[q]  BY <1>1, <1>2 DEF Types, Procs
<1>4. \A q \in Observers \ {o} : side'[q] = side[q] /\ val'[q] = val[q] /\ seen'[q] = seen[q]
  BY <1>2
<1>5. SeenOf(o)'
  <2>1. SeenOf(o)  BY DEF FilingInv, SeenInv, SeenOf
  <2>2. DoSparse(val'[o])  BY <1>2, <2>1 DEF SeenOf
  <2> QED  BY <1>2, <1>3, <2>2 DEF SeenOf, DoSparse
<1>6. /\ pc[o] \notin Holding /\ pc'[o] \notin Holding
      /\ pc'[o] \notin Observing \ {"classic"} /\ pc[o] \notin Observing \ {"classic"}
      /\ pc[o] \notin {"look", "place"} /\ pc'[o] \notin {"look", "place"}
  BY <1>2, <1>3 DEF Observing, Holding
<1>7. side'[o] = side[o] /\ val'[o] = val[o]  BY <1>2
<1> QED  BY <1>1, <1>2, <1>3, <1>4, <1>5, <1>6, <1>7, QuietFiles

\* The steps on the counts.
LEMMA ClassicFiles ==
    ASSUME HistInv, FilingInv, NEW o \in Observers, Classic(o)
    PROVE  FilingInv'
<1>1. HistInv' /\ Types  BY ClassicKeeps DEF HistInv
<1>2. PICK s \in 0..1, u \in Values : s = side[o] /\ u = val[o]  BY <1>1 DEF Types
<1>3. PICK x \in Counts : x = counts[s]  BY <1>1 DEF Types
<1>4. PICK y : y = ObserveClassic(x, u)  OBVIOUS
<1>5. /\ y \in Counts /\ y.count = x.count /\ y.sum = [x.sum EXCEPT ![u] = @ + 1]
      /\ y.thr = x.thr /\ y.lvl = x.lvl /\ y.sparse = x.sparse
  BY <1>4, ClassicFacts
<1>6. counts' = [counts EXCEPT ![s] = y]  BY <1>2, <1>3, <1>4 DEF Classic, OnCounts
<1>7. counts'[s] = y /\ \A d \in 0..1 : d # s => counts'[d] = counts[d]  BY <1>1, <1>6 DEF Types
<1>8. PICK l : l = IF DoSparse(u) THEN "look" ELSE "count"  OBVIOUS
<1>9. pc' = [pc EXCEPT ![o] = l]  BY <1>2, <1>8 DEF Classic, Goto
<1>10. pc[o] = "classic" /\ pc'[o] = l /\ \A q \in Procs \ {o} : pc'[q] = pc[q]
  BY <1>1, <1>9 DEF Classic, Types, Procs
<1>11. /\ hot' = hot /\ mtx' = mtx /\ plan' = plan /\ smallest' = smallest /\ left' = left
       /\ side' = side /\ val' = val /\ seen' = seen
  BY DEF Classic, mtxVars, observerVars
<1>12. \A q \in Observers \ {o} : pc'[q] = pc[q] /\ side'[q] = side[q] /\ val'[q] = val[q]
  BY <1>10, <1>11 DEF Procs
<1>13. SeenOf(o)'
  <2>1. pc'[o] \in {"look", "place", "limit", "lock"} => DoSparse(u)  BY <1>8, <1>10
  <2>2. pc'[o] # "place"  BY <1>8, <1>10
  <2> QED  BY <1>2, <1>11, <2>1, <2>2 DEF SeenOf, DoSparse
<1>14. x.sum \in [Values -> Nat] /\ x.sum \in Bags /\ y.sum \in Bags /\ x.count \in Nat
  BY <1>5, CountsFacts DEF Bags
<1>15. y.sum[u] = x.sum[u] + 1 /\ \A v \in Values \ {u} : y.sum[v] = x.sum[v]  BY <1>5, <1>14
<1>16. x.count + Cardinality(Summed(s)) = Total(x.sum, Values)
         => y.count + Cardinality(Summed(s)') = Total(y.sum, Values)
  <2>1. Values \in SUBSET Values  OBVIOUS
  <2>2. Total(y.sum, Values) = Total(x.sum, Values) + 1  BY <1>14, <1>15, <2>1, TotalOneMore
  <2>3. Cardinality(Summed(s))' = Cardinality(Summed(s))
             + (IF pc'[o] \in Observing \ {"classic"} /\ side'[o] = s THEN 1 ELSE 0)
             - (IF pc[o] \in Observing \ {"classic"} /\ side[o] = s THEN 1 ELSE 0)
    BY <1>12, SummedMoves
  <2>4. pc'[o] \in Observing \ {"classic"} /\ side'[o] = s /\ pc[o] \notin Observing \ {"classic"}
    BY <1>2, <1>8, <1>10, <1>11 DEF Observing
  <2>5. Cardinality(Summed(s)) \in Nat
    <3>1. Summed(s) \in SUBSET Observers  BY DEF Summed, InFlight
    <3> QED  BY <3>1, ObserverSet
  <2> QED  BY <1>5, <1>14, <2>2, <2>3, <2>4, <2>5
<1>17. ASSUME NEW owed \in Owings, NEW due \in Nat, Files(x, Unfiled(s), owed, due)
       PROVE  Files(y, Unfiled(s)', owed, due)
  <2>1. PICK p \in Unfileds, q \in Unfileds : p = Unfiled(s) /\ q = Unfiled(s)'  BY UnfiledType
  <2>2. ASSUME NEW S \in SUBSET Values
        PROVE  q[S] = p[S] + (IF DoSparse(u) /\ u \in S THEN 1 ELSE 0)
    <3>1. Unfiled(s)'[S] = Unfiled(s)[S]
             + (IF pc'[o] \in {"look", "place"} /\ side'[o] = s /\ val'[o] \in S THEN 1 ELSE 0)
             - (IF pc[o] \in {"look", "place"} /\ side[o] = s /\ val[o] \in S THEN 1 ELSE 0)
      BY <1>12, UnfiledMoves
    <3>2. /\ pc'[o] \in {"look", "place"} <=> DoSparse(u)
          /\ side'[o] = s /\ val'[o] = u /\ pc[o] \notin {"look", "place"}
      BY <1>2, <1>8, <1>10, <1>11
    <3>3. p[S] \in Nat  BY <2>1 DEF Unfileds
    <3> QED  BY <2>1, <3>1, <3>2, <3>3
  <2>3. /\ y.zero = x.zero
        /\ \A b \in 1..NumBuckets : y.classic[b] = x.classic[b] + (IF b = Bucket[u] THEN 1 ELSE 0)
    BY <1>4, ClassicFields
  <2>4. Files(x, p, owed, due)  BY <1>17, <2>1
  <2>5. y \in Counts /\ y.sparse = x.sparse /\ y.lvl = x.lvl  BY <1>5
  <2>6. Files(y, q, owed, due)  BY <1>15, <2>2, <2>3, <2>4, <2>5, FilesClassicStep
  <2> QED  BY <2>1, <2>6
<1>18. pc[o] \in Observing /\ pc[o] \notin Holding /\ pc'[o] \notin Holding
  BY <1>8, <1>10 DEF Observing, Holding
<1>19. FilingStep(o, s, x, y)
  BY <1>2, <1>3, <1>5, <1>7, <1>10, <1>11, <1>13, <1>16, <1>17, <1>18 DEF FilingStep
<1> QED  BY <1>1, <1>19, OutsideFiles

LEMMA PlaceFiles ==
    ASSUME HistInv, FilingInv, NEW o \in Observers, Place(o)
    PROVE  FilingInv'
<1>1. HistInv' /\ Types  BY PlaceKeeps DEF HistInv
<1>2. PICK s \in 0..1, u \in Values : s = side[o] /\ u = val[o]  BY <1>1 DEF Types
<1>3. PICK x \in Counts : x = counts[s]  BY <1>1 DEF Types
<1>4. PICK w \in [lvl : 0..MaxLevel, thr : Int] : w = seen[o]  BY <1>1 DEF Types
<1>5. pc[o] = "place"  BY DEF Place
<1>6. DoSparse(u) /\ w.lvl = x.lvl /\ w.thr <= Highest /\ w.thr \in Int
  <2>1. SeenOf(o)  BY DEF FilingInv, SeenInv, SeenOf
  <2> QED  BY <1>2, <1>3, <1>4, <1>5, <2>1 DEF SeenOf
<1>7. PICK y : y = ObservePlace(x, u, w)  OBVIOUS
<1>8. /\ y \in Counts /\ y.count = x.count /\ y.sum = x.sum
      /\ y.thr = x.thr /\ y.lvl = x.lvl
      /\ y.sparse = IF InZero(u, w.thr) THEN x.sparse
                                         ELSE AddToBucket(x.sparse, SparseKey(u, w.lvl), 1)
      /\ y.classic = x.classic
      /\ y.zero = IF InZero(u, w.thr) THEN x.zero + 1 ELSE x.zero
  <2>1. /\ y \in Counts /\ y.count = x.count /\ y.sum = x.sum
        /\ y.thr = x.thr /\ y.lvl = x.lvl
        /\ y.sparse = IF InZero(u, w.thr) THEN x.sparse
                                           ELSE AddToBucket(x.sparse, SparseKey(u, w.lvl), 1)
    BY <1>7, PlaceFacts
  <2>2. y.classic = x.classic /\ y.zero = IF InZero(u, w.thr) THEN x.zero + 1 ELSE x.zero
    BY <1>7, PlaceFields
  <2> QED  BY <2>1, <2>2
<1>9. counts' = [counts EXCEPT ![s] = y]  BY <1>2, <1>3, <1>4, <1>7 DEF Place, OnCounts
<1>10. counts'[s] = y /\ \A d \in 0..1 : d # s => counts'[d] = counts[d]  BY <1>1, <1>9 DEF Types
<1>11. PICK l : l \in {"number", "count"} /\ pc' = [pc EXCEPT ![o] = l]  BY DEF Place, Goto
<1>12. pc'[o] = l /\ \A q \in Procs \ {o} : pc'[q] = pc[q]
  BY <1>1, <1>11 DEF Types, Procs
<1>13. /\ hot' = hot /\ mtx' = mtx /\ plan' = plan /\ smallest' = smallest /\ left' = left
       /\ side' = side /\ val' = val /\ seen' = seen
  BY DEF Place, mtxVars, observerVars
<1>14. \A q \in Observers \ {o} : pc'[q] = pc[q] /\ side'[q] = side[q] /\ val'[q] = val[q]
  BY <1>12, <1>13 DEF Procs
<1>15. SeenOf(o)'  BY <1>11, <1>12 DEF SeenOf
<1>16. x.count + Cardinality(Summed(s)) = Total(x.sum, Values)
         => y.count + Cardinality(Summed(s)') = Total(y.sum, Values)
  <2>1. Cardinality(Summed(s))' = Cardinality(Summed(s))
             + (IF pc'[o] \in Observing \ {"classic"} /\ side'[o] = s THEN 1 ELSE 0)
             - (IF pc[o] \in Observing \ {"classic"} /\ side[o] = s THEN 1 ELSE 0)
    BY <1>14, SummedMoves
  <2>2. /\ pc'[o] \in Observing \ {"classic"} /\ side'[o] = s
        /\ pc[o] \in Observing \ {"classic"} /\ side[o] = s
    BY <1>2, <1>5, <1>11, <1>12, <1>13 DEF Observing
  <2>3. Cardinality(Summed(s)) \in Nat
    <3>1. Summed(s) \in SUBSET Observers  BY DEF Summed, InFlight
    <3> QED  BY <3>1, ObserverSet
  <2> QED  BY <1>8, <2>1, <2>2, <2>3
<1>17. ASSUME NEW owed \in Owings, NEW due \in Nat, Files(x, Unfiled(s), owed, due)
       PROVE  Files(y, Unfiled(s)', owed, due)
  <2>1. PICK p \in Unfileds, q \in Unfileds : p = Unfiled(s) /\ q = Unfiled(s)'  BY UnfiledType
  <2>2. ASSUME NEW S \in SUBSET Values PROVE p[S] = q[S] + (IF u \in S THEN 1 ELSE 0)
    <3>1. Unfiled(s)'[S] = Unfiled(s)[S]
             + (IF pc'[o] \in {"look", "place"} /\ side'[o] = s /\ val'[o] \in S THEN 1 ELSE 0)
             - (IF pc[o] \in {"look", "place"} /\ side[o] = s /\ val[o] \in S THEN 1 ELSE 0)
      BY <1>14, UnfiledMoves
    <3>2. /\ pc'[o] \notin {"look", "place"} /\ pc[o] \in {"look", "place"}
          /\ side[o] = s /\ val[o] = u
      BY <1>2, <1>5, <1>11, <1>12
    <3>3. p[S] \in Nat /\ q[S] \in Nat  BY <2>1 DEF Unfileds
    <3> QED  BY <2>1, <3>1, <3>2, <3>3
  <2>3. Files(x, p, owed, due)  BY <1>17, <2>1
  <2>4. PICK t \in Int : t = w.thr /\ t <= Highest  BY <1>6
  <2>5. /\ y \in Counts /\ y.sum = x.sum /\ y.classic = x.classic /\ y.lvl = x.lvl
        /\ y.zero = IF InZero(u, t) THEN x.zero + 1 ELSE x.zero
        /\ y.sparse = IF InZero(u, t) THEN x.sparse ELSE AddToBucket(x.sparse, SparseKey(u, x.lvl), 1)
    BY <1>6, <1>8, <2>4
  <2>6. Files(y, q, owed, due)  BY <1>6, <2>2, <2>3, <2>4, <2>5, FilesPlaceStep
  <2> QED  BY <2>1, <2>6
<1>18. pc[o] \in Observing /\ pc[o] \notin Holding /\ pc'[o] \notin Holding
  BY <1>5, <1>11, <1>12 DEF Observing, Holding
<1>19. FilingStep(o, s, x, y)
  BY <1>2, <1>3, <1>8, <1>10, <1>12, <1>13, <1>15, <1>16, <1>17, <1>18 DEF FilingStep
<1> QED  BY <1>1, <1>19, OutsideFiles

\* The end of observe: the number of buckets, and the count that says it is complete.
EndStep(o, s, u, x, y, n, l) ==
    /\ counts' = [counts EXCEPT ![s] = y] /\ pc' = [pc EXCEPT ![o] = l]
    /\ pc[o] \in {"number", "count"}
    /\ n = 0 => l = "count"
    /\ n = 1 => l \in {"limit", "rest"} /\ (l = "limit" => DoSparse(u))
    /\ y.count = x.count + n /\ y.sum = x.sum /\ y.thr = x.thr /\ y.lvl = x.lvl
    /\ y.sparse = x.sparse /\ y.classic = x.classic /\ y.zero = x.zero
    /\ UNCHANGED <<hot, mtx, plan, smallest, left, side, val, seen>>

LEMMA NumberFiles ==
    ASSUME HistInv, FilingInv, NEW o \in Observers, Number(o) \/ Count(o)
    PROVE  FilingInv'
<1>1. HistInv' /\ Types  BY NumberKeeps, CountKeeps DEF HistInv
<1>2. PICK s \in 0..1, u \in Values : s = side[o] /\ u = val[o]  BY <1>1 DEF Types
<1>3. PICK x \in Counts : x = counts[s]  BY <1>1 DEF Types
<1>e. PICK n \in {0, 1}, l \in Labels, y \in Counts : EndStep(o, s, u, x, y, n, l)
  <2>1. CASE Number(o)
    <3>1. PICK y : y = [x EXCEPT !.num = @ + 1]  OBVIOUS
    <3>2. /\ y \in Counts /\ y.count = x.count /\ y.sum = x.sum
          /\ y.thr = x.thr /\ y.lvl = x.lvl /\ y.sparse = x.sparse
      BY <3>1, NumFacts
    <3>3. y.classic = x.classic /\ y.zero = x.zero  BY <3>1, NumFields
    <3>4. counts' = [counts EXCEPT ![s] = y]  BY <1>2, <1>3, <2>1, <3>1 DEF Number, OnCounts
    <3>5. pc[o] = "number" /\ pc' = [pc EXCEPT ![o] = "count"]  BY <2>1 DEF Number, Goto
    <3>6. /\ hot' = hot /\ mtx' = mtx /\ plan' = plan /\ smallest' = smallest /\ left' = left
          /\ side' = side /\ val' = val /\ seen' = seen
      BY <2>1 DEF Number, mtxVars, observerVars
    <3>7. x.count = x.count + 0  BY CountsFacts
    <3>8. "count" \in Labels  BY DEF Labels
    <3>9. EndStep(o, s, u, x, y, 0, "count")
      BY <3>2, <3>3, <3>4, <3>5, <3>6, <3>7 DEF EndStep
    <3> QED  BY <3>2, <3>8, <3>9
  <2>2. CASE Count(o)
    <3>1. PICK y : y = [x EXCEPT !.count = @ + 1]  OBVIOUS
    <3>2. /\ y \in Counts /\ y.count = x.count + 1 /\ y.sum = x.sum
          /\ y.thr = x.thr /\ y.lvl = x.lvl /\ y.sparse = x.sparse
      BY <3>1, CountFacts
    <3>3. y.classic = x.classic /\ y.zero = x.zero  BY <3>1, CountFields
    <3>4. counts' = [counts EXCEPT ![s] = y]  BY <1>2, <1>3, <2>2, <3>1 DEF Count, OnCounts
    <3>5. PICK l : l \in {"limit", "rest"} /\ (l = "limit" => DoSparse(u)) /\ pc' = [pc EXCEPT ![o] = l]
      BY <1>2, <2>2 DEF Count, Goto
    <3>6. /\ hot' = hot /\ mtx' = mtx /\ plan' = plan /\ smallest' = smallest /\ left' = left
          /\ side' = side /\ val' = val /\ seen' = seen
      BY <2>2 DEF Count, mtxVars, observerVars
    <3>7. pc[o] = "count" /\ l \in Labels  BY <2>2, <3>5 DEF Count, Labels
    <3>8. EndStep(o, s, u, x, y, 1, l)
      BY <3>2, <3>3, <3>4, <3>5, <3>6, <3>7 DEF EndStep
    <3> QED  BY <3>2, <3>7, <3>8
  <2> QED  BY <2>1, <2>2
<1>4. /\ counts' = [counts EXCEPT ![s] = y] /\ pc' = [pc EXCEPT ![o] = l]
      /\ pc[o] \in {"number", "count"}
      /\ n = 0 => l = "count"
      /\ n = 1 => l \in {"limit", "rest"} /\ (l = "limit" => DoSparse(u))
      /\ y.count = x.count + n /\ y.sum = x.sum /\ y.thr = x.thr /\ y.lvl = x.lvl
      /\ y.sparse = x.sparse /\ y.classic = x.classic /\ y.zero = x.zero
      /\ hot' = hot /\ mtx' = mtx /\ plan' = plan /\ smallest' = smallest /\ left' = left
      /\ side' = side /\ val' = val /\ seen' = seen
      /\ y \in Counts
  BY <1>e DEF EndStep
<1>5. counts'[s] = y /\ \A d \in 0..1 : d # s => counts'[d] = counts[d]  BY <1>1, <1>4 DEF Types
<1>6. pc'[o] = l /\ \A q \in Procs \ {o} : pc'[q] = pc[q]  BY <1>1, <1>4 DEF Types, Procs
<1>7. \A q \in Observers \ {o} : pc'[q] = pc[q] /\ side'[q] = side[q] /\ val'[q] = val[q]
  BY <1>4, <1>6 DEF Procs
<1>8. SeenOf(o)'
  <2>1. /\ pc'[o] \in {"look", "place", "limit", "lock"} => DoSparse(u)
        /\ pc'[o] # "place"
    BY <1>4, <1>6
  <2> QED  BY <1>2, <1>4, <2>1 DEF SeenOf, DoSparse
<1>9. x.count + Cardinality(Summed(s)) = Total(x.sum, Values)
         => y.count + Cardinality(Summed(s)') = Total(y.sum, Values)
  <2>1. Cardinality(Summed(s))' = Cardinality(Summed(s))
             + (IF pc'[o] \in Observing \ {"classic"} /\ side'[o] = s THEN 1 ELSE 0)
             - (IF pc[o] \in Observing \ {"classic"} /\ side[o] = s THEN 1 ELSE 0)
    BY <1>7, SummedMoves
  <2>2. /\ pc[o] \in Observing \ {"classic"} /\ side[o] = s /\ side'[o] = s
        /\ n = 0 => pc'[o] \in Observing \ {"classic"}
        /\ n = 1 => pc'[o] \notin Observing \ {"classic"}
    BY <1>2, <1>4, <1>6 DEF Observing
  <2>3. Cardinality(Summed(s)) \in Nat /\ x.count \in Nat
    <3>1. Summed(s) \in SUBSET Observers  BY DEF Summed, InFlight
    <3> QED  BY <3>1, ObserverSet, CountsFacts
  <2>4. y.count = x.count + n /\ y.sum = x.sum  BY <1>4
  <2> QED  BY <2>1, <2>2, <2>3, <2>4
<1>10. ASSUME NEW owed \in Owings, NEW due \in Nat, Files(x, Unfiled(s), owed, due)
       PROVE  Files(y, Unfiled(s)', owed, due)
  <2>1. pc'[o] \notin {"look", "place"} /\ pc[o] \notin {"look", "place"}  BY <1>4, <1>6
  <2>2. ASSUME NEW S \in SUBSET Values PROVE UnfiledOf(s, S)' = UnfiledOf(s, S)
    <3>1. \A q \in Observers : q \in UnfiledOf(s, S)' <=> q \in UnfiledOf(s, S)
      BY <1>7, <2>1 DEF UnfiledOf
    <3> QED  BY <3>1 DEF UnfiledOf
  <2>3. Unfiled(s)' = Unfiled(s)
    <3>1. /\ Unfiled(s) = [S \in SUBSET Values |-> Cardinality(UnfiledOf(s, S))]
          /\ Unfiled(s)' = [S \in SUBSET Values |-> Cardinality(UnfiledOf(s, S)')]
      BY DEF Unfiled, UnfiledOf
    <3> QED  BY <2>2, <3>1
  <2>4. PICK p : p = Unfiled(s)  OBVIOUS
  <2>5. Files(x, p, owed, due)  BY <1>10, <2>4
  <2>6. Files(y, p, owed, due)  BY <1>4, <2>5, FilesKept
  <2> QED  BY <2>3, <2>4, <2>6
<1>11. pc[o] \in Observing /\ pc[o] \notin Holding /\ pc'[o] \notin Holding
  BY <1>4, <1>6 DEF Observing, Holding
<1>12. FilingStep(o, s, x, y)
  BY <1>2, <1>3, <1>4, <1>5, <1>6, <1>8, <1>9, <1>10, <1>11 DEF FilingStep
<1> QED  BY <1>1, <1>12, OutsideFiles

-----------------------------------------------------------------------------
(* FilingInv: the steps in mtx *)

LEMMA OwedNothingNext ==
    ASSUME HistInv', left' = {}
    PROVE  Owed' = NothingOwed /\ Due' = 0
<1>1. (HistInv /\ left = {})' => (Owed = NothingOwed /\ Due = 0)'  BY OwedNothing, PTL
<1>2. (Owed = NothingOwed)' => Owed' = NothingOwed  BY DEF NothingOwed
<1> QED  BY <1>1, <1>2

\* No observation moves on, and no side on which one is under way changes its schema.
LEMMA HeldFiles ==
    ASSUME HistInv, FilingInv, side' = side, val' = val, seen' = seen,
           NEW p \in Procs, NEW l, pc' = [pc EXCEPT ![p] = l],
           pc[p] \notin Observing, l \in Holding \cup {"rest"},
           \A d \in 0..1 : counts'[d].lvl = counts[d].lvl \/ InFlight(d) = {}
    PROVE  /\ SeenInv'
           /\ \A d \in 0..1 : Unfiled(d)' = Unfiled(d) /\ Summed(d)' = Summed(d)
                              /\ InFlight(d)' = InFlight(d)
<1>1. Types  BY DEF HistInv
<1>2. pc'[p] = l /\ \A q \in Procs \ {p} : pc'[q] = pc[q]  BY <1>1 DEF Types
<1>3. l \notin Observing /\ l \notin {"look", "place", "limit", "lock"}  BY DEF Observing, Holding
<1>4. \A q \in Observers : pc'[q] = pc[q] \/ (pc'[q] \notin Observing /\ pc[q] \notin Observing)
  BY <1>2, <1>3 DEF Procs
<1>5. \A d \in 0..1 : /\ Unfiled(d)' = Unfiled(d) /\ Summed(d)' = Summed(d)
                      /\ InFlight(d)' = InFlight(d)
  BY <1>4, FilingsKept, FlightsKept
<1>6. ASSUME NEW q \in Observers PROVE SeenOf(q)'
  <2>1. SeenOf(q) /\ side[q] \in 0..1 /\ q \in Procs  BY <1>1 DEF FilingInv, SeenInv, SeenOf, Types, Procs
  <2>2. CASE q = p  BY <1>2, <1>3, <2>2 DEF SeenOf
  <2>3. CASE q # p
    <3>1. pc'[q] = pc[q] /\ side'[q] = side[q] /\ val'[q] = val[q] /\ seen'[q] = seen[q]
      BY <1>2, <2>1, <2>3
    <3>2. pc[q] = "place" => q \in InFlight(side[q])  BY DEF InFlight, Observing
    <3>3. pc[q] = "place" => counts'[side[q]].lvl = counts[side[q]].lvl  BY <2>1, <3>2
    <3> QED  BY <2>1, <3>1, <3>3 DEF SeenOf, DoSparse
  <2> QED  BY <2>2, <2>3
<1>7. SeenInv'  BY <1>6 DEF SeenInv, SeenOf
<1> QED  BY <1>5, <1>7

LEMMA SidesFiles ==
    ASSUME SeenInv', NEW h \in 0..1, NEW c \in 0..1, h = hot', c # h,
           SideInv(h)', SideInv(c)', PlanInv(h, c)'
    PROVE  FilingInv'
<1>1. h = 1 - c /\ \A d \in 0..1 : d = h \/ d = c  OBVIOUS
<1>2. ASSUME NEW d \in 0..1 PROVE SideInv(d)' /\ (d # hot' => PlanInv(1 - d, d)')
  BY <1>1
<1> QED  BY <1>2 DEF FilingInv

\* mtx is taken.
LEMMA PrepareFiles ==
    ASSUME HistInv, HistInv', FilingInv, NEW p \in Procs, NEW h \in 0..1, NEW c \in 0..1, NEW y,
           PrepareStep(p, h, c, y), seen' = seen, y.thr <= Highest,
           plan' = "reset" =>
               /\ y.count = Total(y.sum, Values)
               /\ \A q : (\A S \in SUBSET Values : q[S] = 0) => Files(y, q, NothingOwed, 0),
           plan' # "reset" => Unused(y),
           plan' = "widen" => Le(smallest', counts[h].lvl) <= MaxThreshold,
           plan' = "double" => y.lvl = counts[h].lvl + 1
    PROVE  FilingInv'
<1>1. Types /\ MutexInv /\ CountInv /\ SparseInv /\ Types'  BY DEF HistInv
<1>2. /\ left' = left /\ side' = side /\ val' = val /\ hot' = hot
      /\ h = hot /\ c # h /\ mtx = None /\ mtx' = p
      /\ pc' = [pc EXCEPT ![p] = "swap"] /\ pc[p] \notin Observing
  BY DEF PrepareStep
<1>3. c = 1 - h /\ h = 1 - c /\ cold = c /\ \A d \in 0..1 : d = h \/ d = c  BY <1>2 DEF cold
<1>4. MutexInv' /\ phase' = "swap" /\ phase = "rest"  BY <1>1, MutexTaken DEF PrepareStep
<1>5. counts'[h] = counts[h] /\ counts'[c] = y  BY <1>1, <1>2 DEF Types, PrepareStep
<1>6. InFlight(c) = {} /\ left = {}
  BY <1>1, <1>2, <1>4 DEF CountInv, ColdInv, SparseInv, LeftInv
<1>7. /\ SeenInv'
      /\ \A d \in 0..1 : Unfiled(d)' = Unfiled(d) /\ Summed(d)' = Summed(d)
                         /\ InFlight(d)' = InFlight(d)
  <2>1. "swap" \in Holding \cup {"rest"}  BY DEF Holding
  <2>2. \A d \in 0..1 : counts'[d].lvl = counts[d].lvl \/ InFlight(d) = {}  BY <1>3, <1>5, <1>6
  <2> QED  BY <1>2, <2>1, <2>2, HeldFiles
<1>8. Owed = NothingOwed /\ Due = 0  BY <1>6, OwedNothing
<1>9. Owed' = NothingOwed /\ Due' = 0  BY <1>2, <1>6, OwedNothingNext
<1>10. SideInv(h) /\ PlanInv(h, c)  BY <1>2, <1>3 DEF FilingInv
<1>11. SideInv(h)'
  <2>1. Files(counts[h], Unfiled(h), NothingOwed, 0)  BY <1>2, <1>8, <1>10 DEF SideInv
  <2>2. PICK nothing : nothing = NothingOwed  OBVIOUS
  <2>3. Owed' = nothing /\ Due' = 0 /\ Files(counts'[h], Unfiled(h)', nothing, 0)
    BY <1>5, <1>7, <1>9, <2>1, <2>2
  <2> QED  BY <1>2, <1>5, <1>7, <1>10, <2>3 DEF SideInv
<1>12. SideInv(c)'
  <2>1. /\ \A S \in SUBSET Values : Unfiled(c)'[S] = 0
        /\ Cardinality(Summed(c))' = 0
    BY <1>6, <1>7, NobodyFiling
  <2>2. y \in Counts /\ y.count \in Nat
    <3>1. y \in Counts  BY <1>1, <1>5 DEF Types
    <3> QED  BY <3>1, CountsFacts
  <2>3. CASE plan' = "reset"
    <3>1. Files(y, Unfiled(c)', NothingOwed, 0)  BY <2>1, <2>3
    <3>2. Files(counts[c], Unfiled(c), NothingOwed, 0)'  BY <1>5, <3>1 DEF NothingOwed
    <3>3. (counts[c].count + Cardinality(Summed(c)) = Total(counts[c].sum, Values))'
      BY <1>5, <2>1, <2>2, <2>3
    <3> QED  BY <1>2, <1>4, <2>3, <3>2, <3>3 DEF SideInv
  <2>4. CASE plan' # "reset"
    <3>1. y.count = 0 /\ y.sum = NoValues  BY <2>4 DEF PrepareStep
    <3>2. Total(y.sum, Values) = 0
      <4>1. Values \in SUBSET Values  OBVIOUS
      <4> QED  BY <3>1, <4>1, TotalNone
    <3>3. (counts[c].count + Cardinality(Summed(c)) = Total(counts[c].sum, Values))'
      BY <1>5, <2>1, <3>1, <3>2
    <3>4. Unused(counts'[c])  BY <1>5, <2>4
    <3> QED  BY <1>2, <1>4, <2>4, <3>3, <3>4 DEF SideInv
  <2> QED  BY <2>3, <2>4
<1>13. PlanInv(h, c)'
  BY <1>4, <1>5, <1>10 DEF PlanInv
<1> QED  BY <1>2, <1>7, <1>11, <1>12, <1>13, SidesFiles

LEMMA WriteLockFiles ==
    ASSUME HistInv, FilingInv, WriteLock
    PROVE  FilingInv'
<1>1. HistInv' /\ Types  BY WriteLockKeeps DEF HistInv
<1>2. PICK h \in 0..1, c \in 0..1 : h = hot /\ c # h  BY <1>1 DEF Types
<1>3. /\ mtx = None /\ mtx' = Scraper /\ plan' = "write" /\ pc[Scraper] = "rest"
      /\ pc' = [pc EXCEPT ![Scraper] = "swap"] /\ seen' = seen
  BY DEF WriteLock, Prepare, Goto, observerVars
<1>4. PICK y \in Counts : y = counts[c]  BY <1>1, <1>2 DEF Types
<1>5. /\ cold = c /\ y.count = 0 /\ y.sum = NoValues /\ y.num = Cardinality(DOMAIN y.sparse)
      /\ \A k \in DOMAIN y.sparse : y.sparse[k] = 0
      /\ y.thr = counts[h].thr /\ y.lvl = counts[h].lvl
  BY <1>2, <1>3, <1>4, ColdAtRest
<1>6. counts' = [counts EXCEPT ![c] = y]  BY <1>4, <1>5 DEF WriteLock, Prepare
<1>7. pc[Scraper] \notin Observing  BY <1>3 DEF Observing
<1>8. Scraper \in Procs /\ Scraper # Timer  BY ProcsAssumption DEF Procs
<1>9. PrepareStep(Scraper, h, c, y)
  BY <1>2, <1>3, <1>5, <1>6, <1>7, <1>8 DEF PrepareStep, WriteLock, observerVars
<1>10. Unused(y) /\ y.thr <= Highest
  <2>1. SideInv(c) /\ PlanInv(1 - c, c)  BY <1>2 DEF FilingInv
  <2>2. phase = "rest"  BY <1>3 DEF phase
  <2> QED  BY <1>2, <1>4, <2>1, <2>2 DEF SideInv, PlanInv
<1> QED  BY <1>1, <1>3, <1>8, <1>9, <1>10, PrepareFiles

LEMMA TimerResetFiles ==
    ASSUME HistInv, FilingInv, TimerReset
    PROVE  FilingInv'
<1>1. HistInv' /\ Types  BY TimerResetKeeps DEF HistInv
<1>2. PICK h \in 0..1, c \in 0..1 : h = hot /\ c # h  BY <1>1 DEF Types
<1>3. /\ mtx = None /\ mtx' = Timer /\ plan' = "reset" /\ pc[Timer] = "rest"
      /\ pc' = [pc EXCEPT ![Timer] = "swap"] /\ seen' = seen
  BY DEF TimerReset, Prepare, Goto, observerVars
<1>4. PICK y \in Counts : y = Fresh  BY FreshFacts
<1>5. /\ y.count = 0 /\ y.sum = NoValues /\ y.num = Cardinality(DOMAIN y.sparse)
      /\ y.thr = ZeroThreshold /\ y.lvl = 0
  BY <1>4, FreshFacts, EmptyType
<1>6. cold = c  BY <1>2, <1>3, ColdAtRest
<1>7. counts' = [counts EXCEPT ![c] = y]  BY <1>4, <1>6 DEF TimerReset, Prepare
<1>8. pc[Timer] \notin Observing  BY <1>3 DEF Observing
<1>9. Timer \in Procs /\ Scraper # Timer  BY ProcsAssumption DEF Procs
<1>10. y.sum = Repeated(Timer)  BY <1>5 DEF Repeated
<1>11. PrepareStep(Timer, h, c, y)
  BY <1>2, <1>3, <1>5, <1>7, <1>8, <1>9, <1>10 DEF PrepareStep, TimerReset, observerVars
<1>12. /\ y.count = Total(y.sum, Values)
       /\ \A q : (\A S \in SUBSET Values : q[S] = 0) => Files(y, q, NothingOwed, 0)
  <2>1. \E q : \A S \in SUBSET Values : q[S] = 0
    <3>1. \A S \in SUBSET Values : [T \in SUBSET Values |-> 0][S] = 0  OBVIOUS
    <3> QED  BY <3>1
  <2> QED  BY <1>4, <1>5, <2>1, FilesFresh
<1>13. y.thr <= Highest  BY <1>5, HighestFacts
<1> QED  BY <1>1, <1>3, <1>9, <1>11, <1>12, <1>13, PrepareFiles

LEMMA LimitResetFiles ==
    ASSUME HistInv, FilingInv, NEW o \in Observers, LimitReset(o)
    PROVE  FilingInv'
<1>1. HistInv' /\ Types  BY LimitResetKeeps DEF HistInv
<1>2. PICK h \in 0..1, c \in 0..1 : h = hot /\ c # h  BY <1>1 DEF Types
<1>3. /\ mtx = None /\ mtx' = o /\ plan' = "reset" /\ pc[o] = "lock"
      /\ pc' = [pc EXCEPT ![o] = "swap"] /\ seen' = seen
  BY DEF LimitReset, Limits, Prepare, Goto, observerVars
<1>4. PICK u \in Values : u = val[o]  BY <1>1 DEF Types
<1>5. DoSparse(u)  BY <1>3, <1>4 DEF FilingInv, SeenInv
<1>6. PICK y : y = ObserveAll(Fresh, u)  OBVIOUS
<1>7. /\ y \in Counts /\ y.count = 1 /\ y.sum = [NoValues EXCEPT ![u] = 1]
      /\ y.num = Cardinality(DOMAIN y.sparse) /\ y.thr = ZeroThreshold /\ y.lvl = 0
  BY <1>6, RepeatFacts
<1>8. cold = c  BY <1>2, <1>3, ColdAtRest
<1>9. counts' = [counts EXCEPT ![c] = y]  BY <1>4, <1>6, <1>8 DEF LimitReset, Prepare
<1>10. o \in Procs /\ o # Scraper /\ o # Timer  BY ProcsAssumption DEF Procs
<1>11. pc[o] \notin Observing  BY <1>3 DEF Observing
<1>12. y.sum = Repeated(o)  BY <1>4, <1>7, <1>10 DEF Repeated
<1>13. PrepareStep(o, h, c, y)
  BY <1>2, <1>3, <1>7, <1>9, <1>10, <1>11, <1>12 DEF PrepareStep, LimitReset, observerVars
<1>14. /\ y.count = Total(y.sum, Values)
       /\ \A q : (\A S \in SUBSET Values : q[S] = 0) => Files(y, q, NothingOwed, 0)
  <2>1. \E q : \A S \in SUBSET Values : q[S] = 0
    <3>1. \A S \in SUBSET Values : [T \in SUBSET Values |-> 0][S] = 0  OBVIOUS
    <3> QED  BY <3>1
  <2>2. y.count = 1  BY <1>7
  <2> QED  BY <1>5, <1>6, <2>1, <2>2, FilesRepeat
<1>15. y.thr <= Highest  BY <1>7, HighestFacts
<1> QED  BY <1>1, <1>3, <1>10, <1>13, <1>14, <1>15, PrepareFiles

LEMMA LimitWidenFiles ==
    ASSUME HistInv, FilingInv, NEW o \in Observers, LimitWiden(o)
    PROVE  FilingInv'
<1>1. HistInv' /\ Types /\ Types'  BY LimitWidenKeeps DEF HistInv
<1>2. PICK h \in 0..1, c \in 0..1 : h = hot /\ c # h  BY <1>1 DEF Types
<1>3. /\ mtx = None /\ mtx' = o /\ plan' = "widen" /\ pc[o] = "lock"
      /\ pc' = [pc EXCEPT ![o] = "swap"] /\ seen' = seen
  BY DEF LimitWiden, Limits, Prepare, Goto, observerVars
<1>4. PICK x \in Counts : x = counts[c]  BY <1>1 DEF Types
<1>5. /\ cold = c /\ x.count = 0 /\ x.sum = NoValues /\ x.num = Cardinality(DOMAIN x.sparse)
      /\ \A k \in DOMAIN x.sparse : x.sparse[k] = 0
      /\ x.lvl = counts[h].lvl /\ counts[h] \in Counts
  BY <1>2, <1>3, <1>4, ColdAtRest
<1>6. smallest' \in Int  BY <1>1 DEF Types
<1>7. PICK t \in Int : t = Le(smallest', counts[h].lvl)
  <2>1. counts[h].lvl \in Nat  BY <1>5, CountsFacts, OptionsAssumption
  <2> QED  BY <1>6, <2>1, LeType
<1>8. PICK key : key = smallest'  OBVIOUS
<1>9. PICK y : y = Widened(x, key, t)  OBVIOUS
<1>10. /\ y.count = x.count /\ y.sum = x.sum /\ y.thr = t /\ y.lvl = x.lvl
       /\ y.num = Cardinality(DOMAIN y.sparse)
       /\ DOMAIN y.sparse \subseteq DOMAIN x.sparse
       /\ \A k \in DOMAIN y.sparse : y.sparse[k] = x.sparse[k]
  <2>1. x.num = Cardinality(DOMAIN x.sparse)  BY <1>5
  <2> QED  BY <1>9, <2>1, RemovedFacts
<1>11. counts' = [counts EXCEPT ![c] = y]
  BY <1>2, <1>4, <1>5, <1>7, <1>8, <1>9 DEF LimitWiden, Prepare, Widened
<1>12. o \in Procs /\ o # Scraper /\ o # Timer  BY ProcsAssumption DEF Procs
<1>13. pc[o] \notin Observing  BY <1>3 DEF Observing
<1>14. y.count = 0 /\ y.sum = NoValues /\ (\A k \in DOMAIN y.sparse : y.sparse[k] = 0) /\ y.lvl = counts[h].lvl
  BY <1>5, <1>10
<1>15. PrepareStep(o, h, c, y)
  BY <1>2, <1>3, <1>10, <1>11, <1>12, <1>13, <1>14 DEF PrepareStep, LimitWiden, observerVars
<1>16. Unused(x)
  <2>1. SideInv(c)  BY <1>2 DEF FilingInv
  <2>2. phase = "rest"  BY <1>3 DEF phase
  <2> QED  BY <1>2, <1>4, <2>1, <2>2 DEF SideInv
<1>17. Unused(y)  BY <1>9, <1>16, UnusedKept
<1>18. Le(smallest', counts[h].lvl) <= MaxThreshold  BY <1>2 DEF LimitWiden, MayWiden
<1>19. y.thr <= Highest  BY <1>7, <1>10, <1>18, HighestFacts, OptionsAssumption
<1> QED  BY <1>1, <1>3, <1>12, <1>15, <1>17, <1>18, <1>19, PrepareFiles

LEMMA LimitDoubleFiles ==
    ASSUME HistInv, FilingInv, NEW o \in Observers, LimitDouble(o)
    PROVE  FilingInv'
<1>1. HistInv' /\ Types  BY LimitDoubleKeeps DEF HistInv
<1>2. PICK h \in 0..1, c \in 0..1 : h = hot /\ c # h  BY <1>1 DEF Types
<1>3. /\ mtx = None /\ mtx' = o /\ plan' = "double" /\ pc[o] = "lock"
      /\ pc' = [pc EXCEPT ![o] = "swap"] /\ seen' = seen
  BY DEF LimitDouble, Limits, Prepare, Goto, observerVars
<1>4. PICK x \in Counts : x = counts[c]  BY <1>1 DEF Types
<1>5. /\ cold = c /\ x.count = 0 /\ x.sum = NoValues /\ x.thr = counts[h].thr
      /\ x.lvl = counts[h].lvl
  BY <1>2, <1>3, <1>4, ColdAtRest
<1>6. PICK l \in 0..MaxLevel : l = x.lvl + 1
  <2>1. x.lvl < MaxLevel  BY <1>4, <1>5 DEF LimitDouble
  <2>2. x.lvl \in 0..MaxLevel /\ MaxLevel \in Nat  BY CountsFacts, OptionsAssumption
  <2> QED  BY <2>1, <2>2
<1>7. PICK y : y = Doubled(x, l)  OBVIOUS
<1>8. /\ y.count = 0 /\ y.sum = NoValues /\ y.num = 0
      /\ y.thr = counts[h].thr /\ y.lvl = l /\ y.sparse = NoBuckets
  <2>1. /\ y.count = x.count /\ y.sum = x.sum /\ y.num = 0
        /\ y.thr = x.thr /\ y.lvl = l /\ y.sparse = NoBuckets
    BY <1>7, WiderFacts
  <2> QED  BY <1>5, <2>1
<1>9. counts' = [counts EXCEPT ![c] = y]
  BY <1>4, <1>5, <1>6, <1>7 DEF LimitDouble, Prepare, Doubled
<1>10. o \in Procs /\ o # Scraper /\ o # Timer  BY ProcsAssumption DEF Procs
<1>11. pc[o] \notin Observing  BY <1>3 DEF Observing
<1>12. y.num = Cardinality(DOMAIN y.sparse) /\ \A k \in DOMAIN y.sparse : y.sparse[k] = 0
  BY <1>8, EmptyType
<1>13. PrepareStep(o, h, c, y)
  BY <1>2, <1>3, <1>8, <1>9, <1>10, <1>11, <1>12 DEF PrepareStep, LimitDouble, observerVars
<1>14. phase = "rest"  BY <1>3 DEF phase
<1>15. Unused(y)
  <2>1. SideInv(c)  BY <1>2 DEF FilingInv
  <2>2. Unused(x)  BY <1>2, <1>4, <1>14, <2>1 DEF SideInv
  <2> QED  BY <1>7, <2>2, UnusedKept
<1>16. y.thr <= Highest
  <2>1. PlanInv(1 - c, c) /\ 1 - c = h  BY <1>2 DEF FilingInv
  <2> QED  BY <1>8, <2>1 DEF PlanInv
<1>17. y.lvl = counts[h].lvl + 1  BY <1>5, <1>6, <1>8
<1> QED  BY <1>1, <1>3, <1>10, <1>13, <1>15, <1>16, <1>17, PrepareFiles

LEMMA SwapFiles ==
    ASSUME HistInv, FilingInv, NEW p \in Procs, Swap(p)
    PROVE  FilingInv'
<1>0. HistInv' /\ Types /\ MutexInv /\ CountInv /\ SparseInv  BY SwapKeeps DEF HistInv
<1>1. PICK h \in 0..1, c \in 0..1 :
              /\ h = hot /\ c # h /\ c = cold /\ h = 1 - c /\ c = 1 - h
              /\ \A d \in 0..1 : d = h \/ d = c
  BY FilingInvOf
<1>2. pc[p] = "swap" /\ pc' = [pc EXCEPT ![p] = "cool"]  BY DEF Swap, Goto
<1>3. /\ hot' = c /\ counts' = counts /\ mtx' = mtx /\ plan' = plan
      /\ left' = left /\ side' = side /\ val' = val /\ smallest' = smallest /\ seen' = seen
  BY <1>1 DEF Swap, observerVars
<1>4. phase' = "cool" /\ phase = "swap" /\ mtx = p
  <2>1. pc[p] \in Holding /\ "cool" \in Holding  BY <1>2 DEF Holding
  <2> QED  BY <1>0, <1>2, <1>3, <2>1, MutexHeld
<1>5. LeftInv(c) /\ ResolutionInv(h, c) /\ ColdInv(c)  BY <1>0, <1>1 DEF SparseInv, CountInv
<1>6. left = {} /\ InFlight(c) = {}  BY <1>4, <1>5 DEF LeftInv, ColdInv
<1>7. /\ SeenInv'
      /\ \A d \in 0..1 : Unfiled(d)' = Unfiled(d) /\ Summed(d)' = Summed(d)
                         /\ InFlight(d)' = InFlight(d)
  <2>1. "cool" \in Holding \cup {"rest"} /\ pc[p] \notin Observing  BY <1>2 DEF Holding, Observing
  <2>2. \A d \in 0..1 : counts'[d].lvl = counts[d].lvl \/ InFlight(d) = {}  BY <1>3
  <2> QED  BY <1>2, <1>3, <2>1, <2>2, HeldFiles
<1>8. Owed = NothingOwed /\ Due = 0  BY <1>6, OwedNothing
<1>9. Owed' = NothingOwed /\ Due' = 0  BY <1>0, <1>3, <1>6, OwedNothingNext
<1>10. SideInv(h) /\ SideInv(c) /\ PlanInv(h, c)  BY <1>1 DEF FilingInv
<1>11. PICK nothing : nothing = NothingOwed  OBVIOUS
<1>12. NothingOwed' = nothing  BY <1>11 DEF NothingOwed
<1>13. Files(counts[c], Unfiled(c), nothing, 0)
  <2>1. CASE plan = "reset"  BY <1>1, <1>4, <1>10, <1>11, <2>1 DEF SideInv
  <2>2. CASE plan # "reset"
    <3>1. Unused(counts[c])  BY <1>1, <1>4, <1>10, <2>2 DEF SideInv
    <3>2. counts[c].sum = NoValues  BY <1>4, <1>5, <2>2 DEF ColdInv
    <3>3. \A k \in DOMAIN counts[c].sparse : counts[c].sparse[k] = 0
      BY <1>4, <1>5, <1>6, <2>2 DEF LeftInv
    <3>4. PICK x \in Counts : x = counts[c]  BY <1>0 DEF Types
    <3>5. \A S \in SUBSET Values : Unfiled(c)[S] = 0  BY <1>6, NobodyFiling
    <3>6. PICK q : q = Unfiled(c)  OBVIOUS
    <3>7. Files(x, q, NothingOwed, 0)  BY <3>1, <3>2, <3>3, <3>4, <3>5, <3>6, FilesNothing
    <3> QED  BY <1>11, <3>4, <3>6, <3>7
  <2> QED  BY <2>1, <2>2
<1>14. SideInv(c)'
  <2>1. Owed' = nothing /\ Due' = 0 /\ Files(counts'[c], Unfiled(c)', nothing, 0)
    BY <1>3, <1>7, <1>9, <1>11, <1>13
  <2> QED  BY <1>3, <1>7, <1>10, <2>1 DEF SideInv
<1>15. SideInv(h)'
  <2>1. Files(counts[h], Unfiled(h), nothing, 0)  BY <1>1, <1>8, <1>10, <1>11 DEF SideInv
  <2>2. Files(counts'[h], Unfiled(h)', nothing, 0)  BY <1>3, <1>7, <2>1
  <2> QED  BY <1>1, <1>3, <1>4, <1>7, <1>10, <1>12, <2>2 DEF SideInv
<1>16. PlanInv(c, h)'
  <2>1. plan = "widen" => counts[c].lvl = counts[h].lvl  BY <1>5 DEF ResolutionInv
  <2> QED  BY <1>3, <1>4, <1>10, <2>1 DEF PlanInv
<1>17. c = hot' /\ h # c  BY <1>1, <1>3
<1> QED  BY <1>7, <1>14, <1>15, <1>16, <1>17, SidesFiles

LEMMA CoolFiles ==
    ASSUME HistInv, FilingInv, NEW p \in Procs, Cool(p)
    PROVE  FilingInv'
<1>0. HistInv' /\ Types /\ MutexInv /\ CountInv /\ SparseInv  BY CoolKeeps DEF HistInv
<1>1. PICK h \in 0..1, c \in 0..1 :
              /\ h = hot /\ c # h /\ c = cold /\ h = 1 - c /\ c = 1 - h
              /\ \A d \in 0..1 : d = h \/ d = c
  BY FilingInvOf
<1>2. pc[p] = "cool" /\ pc' = [pc EXCEPT ![p] = "merge"] /\ plan # "reset"  BY DEF Cool, Goto
<1>3. /\ hot' = hot /\ counts' = counts /\ mtx' = mtx /\ plan' = plan
      /\ left' = left /\ side' = side /\ val' = val /\ smallest' = smallest /\ seen' = seen
  BY DEF Cool, hotVars, mtxVars, observerVars
<1>4. phase' = "merge" /\ phase = "cool" /\ mtx = p
  <2>1. pc[p] \in Holding /\ "merge" \in Holding  BY <1>2 DEF Holding
  <2> QED  BY <1>0, <1>2, <1>3, <2>1, MutexHeld
<1>5. left = {}  BY <1>0, <1>1, <1>4 DEF SparseInv, LeftInv
<1>6. /\ SeenInv'
      /\ \A d \in 0..1 : Unfiled(d)' = Unfiled(d) /\ Summed(d)' = Summed(d)
                         /\ InFlight(d)' = InFlight(d)
  <2>1. "merge" \in Holding \cup {"rest"} /\ pc[p] \notin Observing  BY <1>2 DEF Holding, Observing
  <2>2. \A d \in 0..1 : counts'[d].lvl = counts[d].lvl \/ InFlight(d) = {}  BY <1>3
  <2> QED  BY <1>2, <1>3, <2>1, <2>2, HeldFiles
<1>7. Owed = NothingOwed /\ Due = 0  BY <1>5, OwedNothing
<1>8. Owed' = NothingOwed /\ Due' = 0  BY <1>0, <1>3, <1>5, OwedNothingNext
<1>9. SideInv(h) /\ SideInv(c) /\ PlanInv(h, c)  BY <1>1 DEF FilingInv
<1>10. PICK nothing : nothing = NothingOwed  OBVIOUS
<1>11. NothingOwed' = nothing  BY <1>10 DEF NothingOwed
<1>12. SideInv(h)'
  <2>1. Files(counts[h], Unfiled(h), nothing, 0)  BY <1>1, <1>7, <1>9, <1>10 DEF SideInv
  <2>2. Owed' = nothing /\ Due' = 0 /\ Files(counts'[h], Unfiled(h)', nothing, 0)
    BY <1>3, <1>6, <1>8, <1>10, <2>1
  <2> QED  BY <1>1, <1>3, <1>6, <1>9, <2>2 DEF SideInv
<1>13. SideInv(c)'
  <2>1. Files(counts[c], Unfiled(c), nothing, 0)  BY <1>1, <1>4, <1>9, <1>10 DEF SideInv
  <2>2. Files(counts'[c], Unfiled(c)', nothing, 0)  BY <1>3, <1>6, <2>1
  <2> QED  BY <1>1, <1>3, <1>4, <1>6, <1>9, <1>11, <2>2 DEF SideInv
<1>14. PlanInv(h, c)'  BY <1>3, <1>4, <1>9 DEF PlanInv
<1>15. h = hot'  BY <1>1, <1>3
<1> QED  BY <1>1, <1>6, <1>12, <1>13, <1>14, <1>15, SidesFiles

LEMMA CoolResetFiles ==
    ASSUME HistInv, FilingInv, NEW p \in Procs, CoolReset(p)
    PROVE  FilingInv'
<1>0. HistInv' /\ Types /\ MutexInv /\ CountInv /\ SparseInv  BY CoolResetKeeps DEF HistInv
<1>1. PICK h \in 0..1, c \in 0..1 :
              /\ h = hot /\ c # h /\ c = cold /\ h = 1 - c /\ c = 1 - h
              /\ \A d \in 0..1 : d = h \/ d = c
  BY FilingInvOf
<1>2. pc[p] = "cool" /\ pc' = [pc EXCEPT ![p] = "rest"] /\ plan = "reset"  BY DEF CoolReset, Goto
<1>3. /\ hot' = hot /\ mtx' = None /\ plan' = plan
      /\ left' = left /\ side' = side /\ val' = val /\ smallest' = smallest /\ seen' = seen
      /\ counts' = [counts EXCEPT ![c] = Fresh]
  BY <1>1 DEF CoolReset, observerVars
<1>4. phase' = "rest" /\ phase = "cool" /\ mtx = p
  <2>1. pc[p] \in Holding  BY <1>2 DEF Holding
  <2> QED  BY <1>0, <1>2, <1>3, <2>1, MutexFreed
<1>5. left = {}  BY <1>0, <1>1, <1>4 DEF SparseInv, LeftInv
<1>6. counts'[c] = Fresh /\ counts'[h] = counts[h]  BY <1>0, <1>1, <1>3 DEF Types
<1>7. InFlight(c) = {}
  <2>1. counts[c].count = awaited  BY <1>1 DEF CoolReset, Cooled
  <2> QED  BY <1>1, <1>4, <2>1, CooledIsEmpty
<1>8. /\ SeenInv'
      /\ \A d \in 0..1 : Unfiled(d)' = Unfiled(d) /\ Summed(d)' = Summed(d)
                         /\ InFlight(d)' = InFlight(d)
  <2>1. "rest" \in Holding \cup {"rest"} /\ pc[p] \notin Observing  BY <1>2 DEF Observing
  <2>2. \A d \in 0..1 : counts'[d].lvl = counts[d].lvl \/ InFlight(d) = {}  BY <1>1, <1>6, <1>7
  <2> QED  BY <1>2, <1>3, <2>1, <2>2, HeldFiles
<1>9. Owed = NothingOwed /\ Due = 0  BY <1>5, OwedNothing
<1>10. Owed' = NothingOwed /\ Due' = 0  BY <1>0, <1>3, <1>5, OwedNothingNext
<1>11. SideInv(h) /\ PlanInv(h, c)  BY <1>1 DEF FilingInv
<1>12. PICK nothing : nothing = NothingOwed  OBVIOUS
<1>13. SideInv(h)'
  <2>1. Files(counts[h], Unfiled(h), nothing, 0)  BY <1>1, <1>9, <1>11, <1>12 DEF SideInv
  <2>2. Owed' = nothing /\ Due' = 0 /\ Files(counts'[h], Unfiled(h)', nothing, 0)
    BY <1>6, <1>8, <1>10, <1>12, <2>1
  <2> QED  BY <1>1, <1>3, <1>6, <1>8, <1>11, <2>2 DEF SideInv
<1>14. SideInv(c)'
  <2>1. Summed(c)' = {}  BY <1>7, <1>8, NobodyFiling
  <2>2. Cardinality(Summed(c)') = 0  BY <2>1, FS_EmptySet
  <2>3. Fresh.count = 0 /\ Total(Fresh.sum, Values) = 0
    <3>1. Values \in SUBSET Values  OBVIOUS
    <3> QED  BY <3>1, FreshFacts, TotalNone
  <2>4. counts'[c].count + Cardinality(Summed(c)') = Total(counts'[c].sum, Values)
    BY <1>6, <2>2, <2>3
  <2> QED  BY <1>1, <1>3, <1>4, <1>6, <2>4, FreshFields DEF SideInv
<1>15. PlanInv(h, c)'
  <2>1. counts'[c].thr <= Highest  BY <1>6, FreshFacts, HighestFacts
  <2> QED  BY <1>2, <1>3, <1>4, <1>6, <1>11, <2>1 DEF PlanInv
<1>16. h = hot'  BY <1>1, <1>3
<1> QED  BY <1>1, <1>8, <1>13, <1>14, <1>15, <1>16, SidesFiles


LEMMA MergeFiles ==
    ASSUME HistInv, FilingInv, NEW p \in Procs, Merge(p)
    PROVE  FilingInv'
<1>0. HistInv' /\ Types /\ MutexInv /\ CountInv /\ SparseInv /\ Types'  BY MergeKeeps DEF HistInv
<1>1. PICK h \in 0..1, c \in 0..1 :
              /\ h = hot /\ c # h /\ c = cold /\ h = 1 - c /\ c = 1 - h
              /\ \A d \in 0..1 : d = h \/ d = c
  BY FilingInvOf
<1>2. pc[p] = "merge" /\ pc' = [pc EXCEPT ![p] = "sparse"]  BY DEF Merge, Goto
<1>3. /\ hot' = hot /\ mtx' = mtx /\ plan' = plan
      /\ side' = side /\ val' = val /\ smallest' = smallest /\ seen' = seen
      /\ left' = DOMAIN counts[c].sparse
  BY <1>1 DEF Merge, observerVars
<1>4. phase' = "sparse" /\ phase = "merge" /\ mtx = p /\ plan # "reset"
  <2>1. pc[p] \in Holding /\ "sparse" \in Holding  BY <1>2 DEF Holding
  <2>2. mtx = p /\ p # None  BY <1>0, <2>1, ProcsAssumption DEF MutexInv
  <2>3. plan # "reset"  BY <1>0, <1>2, <2>2 DEF MutexInv, phase
  <2>4. phase' = "sparse" /\ phase = pc[p]
    <3>1. pc'[p] = "sparse" /\ mtx' = p  BY <1>0, <1>2, <1>3, <2>2 DEF Types
    <3> QED  BY <2>2, <3>1 DEF phase
  <2> QED  BY <1>2, <2>2, <2>3, <2>4
<1>5. left = {} /\ InFlight(c) = {} /\ ResolutionInv(h, c)
  BY <1>0, <1>1, <1>4 DEF SparseInv, LeftInv, CountInv, ColdInv
<1>6. PICK x \in Counts, z \in Counts : x = counts[h] /\ z = counts[c]  BY <1>0 DEF Types
<1>7. PICK t \in Int, l \in 0..MaxLevel : /\ t = (IF plan = "widen" THEN x.thr ELSE z.thr)
                                          /\ l = (IF plan = "double" THEN x.lvl ELSE z.lvl)
  BY CountsFacts
<1>8. PICK y, w : y = MergedInto(x, z) /\ w = MergedOut(z, t, l)  OBVIOUS
<1>9. counts' = [counts EXCEPT ![h] = y, ![c] = w]
  <2>1. /\ Emptied(z).thr = z.thr /\ Emptied(z).lvl = z.lvl  BY DEF Emptied, Counts
  <2>2. w = [Emptied(z) EXCEPT !.thr = IF plan = "widen" THEN x.thr ELSE @,
                               !.lvl = IF plan = "double" THEN x.lvl ELSE @]
    BY <1>7, <1>8, <2>1 DEF MergedOut, Emptied, Counts
  <2> QED  BY <1>1, <1>6, <1>8, <2>2 DEF Merge
<1>10. counts'[h] = y /\ counts'[c] = w  BY <1>0, <1>1, <1>9 DEF Types
<1>11. /\ y \in Counts
       /\ y.count = x.count + z.count /\ y.sparse = x.sparse
       /\ \A v \in Values : y.sum[v] = x.sum[v] + z.sum[v]
       /\ y.thr = x.thr /\ y.lvl = x.lvl
  BY <1>8, MergedFacts
<1>12. /\ y.zero = x.zero + z.zero
       /\ \A b \in 1..NumBuckets : y.classic[b] = x.classic[b] + z.classic[b]
  BY <1>8, MergedFields
<1>13. /\ w.count = 0 /\ w.sum = NoValues /\ w.sparse = z.sparse /\ w.thr = t /\ w.lvl = l
  BY <1>8, EmptiedFacts
<1>14. Unused(w)  BY <1>8, OutFields
<1>15. /\ SeenInv'
       /\ \A d \in 0..1 : Unfiled(d)' = Unfiled(d) /\ Summed(d)' = Summed(d)
                          /\ InFlight(d)' = InFlight(d)
  <2>1. "sparse" \in Holding \cup {"rest"} /\ pc[p] \notin Observing  BY <1>2 DEF Holding, Observing
  <2>2. \A d \in 0..1 : counts'[d].lvl = counts[d].lvl \/ InFlight(d) = {}
    BY <1>1, <1>5, <1>6, <1>10, <1>11
  <2> QED  BY <1>2, <1>3, <2>1, <2>2, HeldFiles
<1>16. Owed = NothingOwed /\ Due = 0  BY <1>5, OwedNothing
<1>17. SideInv(h) /\ SideInv(c) /\ PlanInv(h, c)  BY <1>1 DEF FilingInv
<1>18. \A S \in SUBSET Values : Unfiled(c)[S] = 0  BY <1>5, NobodyFiling
<1>19. Cardinality(Summed(c)) = 0  BY <1>5, NobodyFiling
<1>20. plan \in {"write", "widen", "double"}  BY <1>0, <1>4 DEF Types
<1>21. PICK dest, gone : /\ dest = [k \in SparseKeys |-> Destination(k)]
                         /\ gone = {k \in SparseKeys : Vanishes(k)}
  OBVIOUS
<1>22. MapsTo(z, x.lvl, dest, gone)
  <2>1. ASSUME NEW v \in Sparsed
        PROVE  /\ dest[SparseKey(v, z.lvl)] = SparseKey(v, x.lvl)
               /\ SparseKey(v, z.lvl) \in gone => InZero(v, Highest)
    <3>1. v \in Values /\ z.lvl \in Nat /\ x.lvl \in Nat  BY CountsFacts, OptionsAssumption DEF Sparsed
    <3>2. PICK k \in SparseKeys : k = SparseKey(v, z.lvl)  BY <3>1, KeyType
    <3>3. k.neg = (v \in Negatives) /\ k.key = KeyAt(v, z.lvl)
          /\ k = [neg |-> (v \in Negatives), key |-> KeyAt(v, z.lvl)]
      BY <3>2 DEF SparseKey
    <3>4. dest[k] = Destination(k) /\ (k \in gone <=> Vanishes(k))  BY <1>21
    <3>5. CASE plan = "double"
      <4>1. x.lvl = z.lvl + 1  BY <1>4, <1>6, <1>17, <3>5 DEF PlanInv
      <4>2. KeyAt(v, x.lvl) = Halve(KeyAt(v, z.lvl))  BY <3>1, <4>1, KeyHalves
      <4>3. Destination(k) = [neg |-> (v \in Negatives), key |-> Halve(KeyAt(v, z.lvl))]
        BY <3>3, <3>5 DEF Destination
      <4>4. Destination(k) = SparseKey(v, x.lvl)  BY <4>2, <4>3 DEF SparseKey
      <4> QED  BY <3>2, <3>4, <3>5, <4>4 DEF Vanishes
    <3>6. CASE plan # "double"
      <4>1. x.lvl = z.lvl  BY <1>5, <1>6, <1>20, <3>6 DEF ResolutionInv
      <4>2. Destination(k) = k  BY <3>6 DEF Destination
      <4>3. Vanishes(k) => InZero(v, Highest)
        <5> SUFFICES ASSUME Vanishes(k) PROVE InZero(v, Highest)  OBVIOUS
        <5>1. plan = "widen" /\ KeyAt(v, z.lvl) = smallest  BY <3>3 DEF Vanishes
        <5>2. Le(smallest, x.lvl) <= MaxThreshold  BY <1>4, <1>6, <1>17, <5>1 DEF PlanInv
        <5>3. FineKey[v] <= Le(smallest, x.lvl) /\ smallest \in Int  BY <3>1, <4>1, <5>1, KeyBound
        <5>4. FineKey[v] \in Int /\ Le(smallest, x.lvl) \in Int
          BY <3>1, <5>3, LeType, ValuesAssumption
        <5> QED  BY <5>2, <5>3, <5>4, HighestFacts, OptionsAssumption DEF InZero
      <4> QED  BY <3>2, <3>4, <4>1, <4>2, <4>3
    <3> QED  BY <3>5, <3>6
  <2> QED  BY <2>1 DEF MapsTo
<1>23. PICK owed : owed = Owed'  OBVIOUS
<1>24. /\ Due' = Total(z.sparse, DOMAIN z.sparse)
       /\ \A k \in SparseKeys : owed[k] = Total(z.sparse, Arriving(z, k, dest, gone))
  <2>1. cold' = c /\ counts'[cold'].sparse = z.sparse /\ left' = DOMAIN z.sparse
    BY <1>1, <1>3, <1>6, <1>10, <1>13 DEF cold
  <2>2. DOMAIN z.sparse \subseteq SparseKeys  BY CountsFacts, BucketFacts
  <2>3. ASSUME NEW k \in SparseKeys PROVE Owing(k)' = Arriving(z, k, dest, gone)
    <3>1. \A j : (Destination(j)' = Destination(j)) /\ (Vanishes(j)' <=> Vanishes(j))
      BY <1>3 DEF Destination, Vanishes
    <3>2. Owing(k)' = {j \in DOMAIN z.sparse : Destination(j) = k /\ ~Vanishes(j)}
      BY <2>1, <3>1 DEF Owing
    <3>3. \A j \in DOMAIN z.sparse : dest[j] = Destination(j) /\ (j \in gone <=> Vanishes(j))
      BY <1>21, <2>2
    <3> QED  BY <3>2, <3>3 DEF Arriving
  <2>4. \A k \in SparseKeys : owed[k] = Total(counts'[cold'].sparse, Owing(k)')  BY <1>23 DEF Owed
  <2> QED  BY <2>1, <2>3, <2>4 DEF Due
<1>25. SideInv(h)'
  <2>1. PICK q \in Unfileds, r \in Unfileds : q = Unfiled(h) /\ r = Unfiled(c)  BY UnfiledType
  <2>2. Files(x, q, NothingOwed, 0)  BY <1>1, <1>6, <1>16, <1>17, <2>1 DEF SideInv
  <2>3. Files(z, r, NothingOwed, 0)  BY <1>1, <1>4, <1>6, <1>17, <2>1 DEF SideInv
  <2>4. \A S \in SUBSET Values : r[S] = 0  BY <1>18, <2>1
  <2>5. Files(y, q, owed, Total(z.sparse, DOMAIN z.sparse))
    BY <1>11, <1>12, <1>22, <1>24, <2>2, <2>3, <2>4, FilesMergeStep
  <2>6. PICK due : due = Total(z.sparse, DOMAIN z.sparse)  OBVIOUS
  <2>7. Files(counts'[h], Unfiled(h)', owed, due) /\ Owed' = owed /\ Due' = due
    BY <1>10, <1>15, <1>23, <1>24, <2>1, <2>5, <2>6
  <2>8. y.count + Cardinality(Summed(h)) = Total(y.sum, Values)
    <3>1. x.sum \in Bags /\ z.sum \in Bags /\ y.sum \in Bags /\ x.count \in Nat /\ z.count \in Nat
      BY <1>11, CountsFacts
    <3>2. Values \in SUBSET Values  OBVIOUS
    <3>3. Total(y.sum, Values) = Total(x.sum, Values) + Total(z.sum, Values)
      BY <1>11, <3>1, <3>2, TotalBoth
    <3>4. x.count + Cardinality(Summed(h)) = Total(x.sum, Values)  BY <1>6, <1>17 DEF SideInv
    <3>5. z.count + Cardinality(Summed(c)) = Total(z.sum, Values)  BY <1>6, <1>17 DEF SideInv
    <3>6. Cardinality(Summed(h)) \in Nat
      <4>1. Summed(h) \in SUBSET Observers  BY DEF Summed, InFlight
      <4> QED  BY <4>1, ObserverSet
    <3> QED  BY <1>11, <1>19, <3>1, <3>3, <3>4, <3>5, <3>6
  <2>9. counts'[h].count + Cardinality(Summed(h)') = Total(counts'[h].sum, Values)
    BY <1>10, <1>15, <2>8
  <2> QED  BY <1>1, <1>3, <2>7, <2>9 DEF SideInv
<1>26. SideInv(c)'
  <2>1. Total(w.sum, Values) = 0
    <3>1. Values \in SUBSET Values  OBVIOUS
    <3> QED  BY <1>13, <3>1, TotalNone
  <2>2. counts'[c].count + Cardinality(Summed(c)') = Total(counts'[c].sum, Values)
    BY <1>10, <1>13, <1>15, <1>19, <2>1
  <2> QED  BY <1>1, <1>3, <1>4, <1>10, <1>14, <2>2 DEF SideInv
<1>27. PlanInv(h, c)'
  <2>1. counts'[c].thr <= Highest
    <3>1. t <= Highest  BY <1>6, <1>7, <1>17 DEF PlanInv
    <3> QED  BY <1>10, <1>13, <3>1
  <2> QED  BY <1>3, <1>4, <1>6, <1>10, <1>11, <1>17, <2>1 DEF PlanInv
<1>28. h = hot'  BY <1>1, <1>3
<1> QED  BY <1>1, <1>15, <1>25, <1>26, <1>27, <1>28, SidesFiles


\* A step of the Range over the cold sparse buckets, or its end.
RangeStep(p, l, h, c, y, w) ==
    /\ h = hot /\ c # h /\ y = counts'[h] /\ w = counts'[c]
    /\ pc[p] = "sparse" /\ l \in {"sparse", "rest"} /\ pc' = [pc EXCEPT ![p] = l]
    /\ phase = "sparse" /\ phase' = l
    /\ y.count = counts[h].count /\ y.sum = counts[h].sum
    /\ w.count = counts[c].count /\ w.sum = counts[c].sum
    /\ y.thr = counts[h].thr /\ y.lvl = counts[h].lvl
    /\ w.thr = counts[c].thr /\ w.lvl = counts[c].lvl
    /\ Unused(counts[c]) => Unused(w)
    /\ Files(counts[h], Unfiled(h), Owed, Due) => Files(y, Unfiled(h), Owed', Due')
    /\ UNCHANGED <<hot, plan, smallest, side, val, seen>>

LEMMA RangeFiles ==
    ASSUME HistInv, FilingInv, NEW p \in Procs, NEW l, NEW h \in 0..1, NEW c \in 0..1, NEW y, NEW w,
           RangeStep(p, l, h, c, y, w)
    PROVE  FilingInv'
<1>1. /\ h = hot /\ c # h /\ y = counts'[h] /\ w = counts'[c]
      /\ pc[p] = "sparse" /\ l \in {"sparse", "rest"} /\ pc' = [pc EXCEPT ![p] = l]
      /\ phase = "sparse" /\ phase' = l
      /\ y.count = counts[h].count /\ y.sum = counts[h].sum
      /\ w.count = counts[c].count /\ w.sum = counts[c].sum
      /\ y.thr = counts[h].thr /\ y.lvl = counts[h].lvl
      /\ w.thr = counts[c].thr /\ w.lvl = counts[c].lvl
      /\ hot' = hot /\ plan' = plan /\ smallest' = smallest
      /\ side' = side /\ val' = val /\ seen' = seen
  BY DEF RangeStep
<1>2. h = 1 - c /\ \A d \in 0..1 : d = h \/ d = c  BY <1>1
<1>3. /\ SeenInv'
      /\ \A d \in 0..1 : Unfiled(d)' = Unfiled(d) /\ Summed(d)' = Summed(d)
                         /\ InFlight(d)' = InFlight(d)
  <2>1. l \in Holding \cup {"rest"} /\ pc[p] \notin Observing  BY <1>1 DEF Holding, Observing
  <2>2. \A d \in 0..1 : counts'[d].lvl = counts[d].lvl \/ InFlight(d) = {}  BY <1>1, <1>2
  <2> QED  BY <1>1, <2>1, <2>2, HeldFiles
<1>4. SideInv(h) /\ SideInv(c) /\ PlanInv(h, c)  BY <1>1, <1>2 DEF FilingInv
<1>5. SideInv(h)'
  <2>1. Files(counts[h], Unfiled(h), Owed, Due)  BY <1>1, <1>4 DEF SideInv
  <2>2. Files(y, Unfiled(h), Owed', Due')  BY <2>1 DEF RangeStep
  <2>3. PICK q, ow, du : q = Unfiled(h) /\ ow = Owed' /\ du = Due'  OBVIOUS
  <2>4. Files(counts'[h], Unfiled(h)', ow, du) /\ ow = Owed' /\ du = Due'
    BY <1>1, <1>3, <2>2, <2>3
  <2>5. counts'[h].count + Cardinality(Summed(h)') = Total(counts'[h].sum, Values)
    BY <1>1, <1>3, <1>4 DEF SideInv
  <2> QED  BY <1>1, <2>4, <2>5 DEF SideInv
<1>6. SideInv(c)'
  <2>1. Unused(counts'[c])
    <3>1. Unused(counts[c])  BY <1>1, <1>4 DEF SideInv
    <3> QED  BY <1>1, <3>1 DEF RangeStep
  <2>2. counts'[c].count + Cardinality(Summed(c)') = Total(counts'[c].sum, Values)
    BY <1>1, <1>3, <1>4 DEF SideInv
  <2> QED  BY <1>1, <2>1, <2>2 DEF SideInv
<1>7. PlanInv(h, c)'  BY <1>1, <1>4 DEF PlanInv
<1>8. h = hot'  BY <1>1
<1> QED  BY <1>1, <1>3, <1>5, <1>6, <1>7, <1>8, SidesFiles

\* What a sum over the buckets left, L of b, loses with one of them, k: it goes on over the
\* rest, R of d.
OneGoes(b, d, L, k, R) ==
    /\ L \in SUBSET DOMAIN b /\ k \in L
    /\ R = L \ {k} /\ R \subseteq DOMAIN d /\ \A j \in R : d[j] = b[j]
SumsWithout(b, d, L, k) ==
    \A S \in SUBSET L :
        /\ Total(b, S) = Total(d, S \ {k}) + (IF k \in S THEN b[k] ELSE 0)
        /\ Total(d, S \ {k}) \in Nat

LEMMA LeftSums ==
    ASSUME NEW b \in Buckets, NEW d \in Buckets, NEW L, NEW k, NEW R, OneGoes(b, d, L, k, R)
    PROVE  SumsWithout(b, d, L, k)
<1>0. /\ L \in SUBSET DOMAIN b /\ k \in L
      /\ R = L \ {k} /\ R \subseteq DOMAIN d /\ \A j \in R : d[j] = b[j]
  BY DEF OneGoes
<1>1. PICK D : D = DOMAIN b /\ b \in [D -> Nat] /\ IsFiniteSet(D)
  <2>1. PICK K \in SUBSET SparseKeys : IsFiniteSet(K) /\ b \in [K -> Nat]  BY BucketsAre
  <2> QED  BY <2>1
<1>2. PICK E : E = DOMAIN d /\ d \in [E -> Nat] /\ IsFiniteSet(E)
  <2>1. PICK K \in SUBSET SparseKeys : IsFiniteSet(K) /\ d \in [K -> Nat]  BY BucketsAre
  <2> QED  BY <2>1
<1>3. ASSUME NEW S \in SUBSET L
      PROVE  /\ Total(b, S) = Total(d, S \ {k}) + (IF k \in S THEN b[k] ELSE 0)
             /\ Total(d, S \ {k}) \in Nat
  <2>1. PICK T \in SUBSET R : T = S \ {k}  BY <1>0
  <2>2. T \in SUBSET D /\ T \in SUBSET E /\ S \in SUBSET D  BY <1>0, <1>1, <1>2, <2>1
  <2>3. \A j \in T : b[j] = d[j]  BY <1>0, <2>1
  <2>4. SumFunctionOnSet(b, T) = SumFunctionOnSet(d, T)  BY <1>1, <1>2, <2>2, <2>3, SumAgreeOn
  <2>5. SumFunctionOnSet(d, T) \in Nat  BY <1>2, <2>2, SumType
  <2>6. CASE k \in S
    <3>1. SumFunctionOnSet(b, S) = b[k] + SumFunctionOnSet(b, S \ {k})  BY <1>1, <2>2, <2>6, SumRemove
    <3>2. SumFunctionOnSet(b, S) = b[k] + SumFunctionOnSet(b, T)  BY <2>1, <3>1
    <3>3. b[k] \in Nat  BY <1>0, <1>1
    <3> QED  BY <2>1, <2>4, <2>5, <2>6, <3>2, <3>3 DEF Total
  <2>7. CASE k \notin S
    <3>1. S = T /\ S \ {k} = T  BY <2>1, <2>7
    <3>2. PICK n \in Nat : n = SumFunctionOnSet(d, T)  BY <2>5
    <3>3. Total(b, S) = n /\ Total(d, S \ {k}) = n  BY <2>4, <3>1, <3>2 DEF Total
    <3>4. n = n + (IF k \in S THEN b[k] ELSE 0)  BY <2>7, <3>2
    <3> QED  BY <3>2, <3>3, <3>4
  <2> QED  BY <2>6, <2>7
<1> QED  BY <1>3 DEF SumsWithout

\* The bucket of a key moves: the counts it leaves, and the hot counts it comes to.
MoveStep(k, n, x, z, y, w) ==
    /\ y \in Counts /\ y.count = x.count /\ y.sum = x.sum /\ y.thr = x.thr /\ y.lvl = x.lvl
    /\ y.classic = x.classic
    /\ y.zero = IF ~Vanishes(k) THEN x.zero ELSE x.zero + n
    /\ y.sparse = IF ~Vanishes(k) THEN AddToBucket(x.sparse, Destination(k), n) ELSE x.sparse
    /\ w \in Counts /\ w.count = z.count /\ w.sum = z.sum /\ w.thr = z.thr /\ w.lvl = z.lvl
    /\ left \ {k} \subseteq DOMAIN w.sparse
    /\ \A j \in left \ {k} : w.sparse[j] = z.sparse[j]
    /\ Unused(z) => Unused(w)

LEMMA MergeSparseFiles ==
    ASSUME HistInv, FilingInv, NEW p \in Procs, MergeSparse(p)
    PROVE  FilingInv'
<1>0. HistInv' /\ Types /\ MutexInv /\ CountInv /\ SparseInv  BY MergeSparseKeeps DEF HistInv
<1>1. PICK h \in 0..1, c \in 0..1 :
              /\ h = hot /\ c # h /\ c = cold /\ h = 1 - c /\ c = 1 - h
              /\ \A d \in 0..1 : d = h \/ d = c
  BY FilingInvOf
<1>2. /\ pc[p] = "sparse" /\ pc' = pc /\ mtx' = mtx /\ plan' = plan
      /\ hot' = hot /\ side' = side /\ val' = val /\ smallest' = smallest /\ seen' = seen
  BY DEF MergeSparse, observerVars
<1>3. phase = "sparse" /\ phase' = "sparse" /\ mtx = p /\ plan # "reset"
  <2>1. mtx = p /\ p # None  BY <1>0, <1>2, ProcsAssumption DEF MutexInv, Holding
  <2>2. phase = "sparse" /\ phase' = "sparse"  BY <1>2, <2>1 DEF phase
  <2> QED  BY <1>0, <2>1, <2>2 DEF MutexInv
<1>4. PICK x \in Counts, z \in Counts : x = counts[h] /\ z = counts[c]  BY <1>0 DEF Types
<1>5. PICK k \in left :
        /\ left' = left \ {k}
        /\ counts' = CASE plan = "write" -> Refilled(k)
                       [] plan = "widen" -> IF k.key = smallest THEN IntoZero(k) ELSE Refilled(k)
                       [] plan = "double" -> IntoWider(k)
  BY DEF MergeSparse
<1>6. NumberInv(c) /\ LeftInv(c) /\ ColdInv(c)
  BY <1>0, <1>1 DEF CountInv, SparseInv
<1>7. k \in DOMAIN z.sparse /\ k \in SparseKeys /\ z.sparse[k] \in Nat /\ left \subseteq DOMAIN z.sparse
      /\ z.sparse \in Buckets
  <2>1. left \subseteq DOMAIN z.sparse  BY <1>4, <1>6 DEF LeftInv
  <2>2. z.sparse \in Buckets  BY CountsFacts
  <2> QED  BY <2>1, <2>2, BucketFacts
<1>8. PICK n \in Nat : n = z.sparse[k]  BY <1>7
<1>9. z.num = Cardinality(DOMAIN z.sparse)
  <2>1. InFlight(c) = {}  BY <1>3, <1>6 DEF ColdInv
  <2>2. Numbering(c) = {}  BY <2>1, FlightSets
  <2>3. Cardinality(Numbering(c)) = 0 /\ z.num \in Nat  BY <2>2, FS_EmptySet, CountsFacts
  <2> QED  BY <1>4, <1>6, <2>3 DEF NumberInv
<1>10. Destination(k) \in SparseKeys
  <2>1. Halve(k.key) \in Int  BY <1>7 DEF Halve, SparseKeys
  <2> QED  BY <1>7, <2>1 DEF SparseKeys, Destination
<1>11. PICK y, w : counts' = [counts EXCEPT ![h] = y, ![c] = w] /\ MoveStep(k, n, x, z, y, w)
  <2>1. CASE plan = "write" \/ (plan = "widen" /\ k.key # smallest)
    <3>0. ~Vanishes(k) /\ Destination(k) = k  BY <2>1 DEF Vanishes, Destination
    <3>1. PICK y, w : y = SparseInto(x, k, n) /\ w = EmptiedAt(z, k)  OBVIOUS
    <3>2. counts' = Refilled(k)  BY <1>5, <2>1
    <3>3. counts' = [counts EXCEPT ![h] = y, ![c] = w]
      BY <1>0, <1>1, <1>4, <1>8, <3>1, <3>2 DEF Refilled, EmptiedAt, Types
    <3>4. /\ y \in Counts
          /\ y.count = x.count /\ y.sum = x.sum /\ y.thr = x.thr /\ y.lvl = x.lvl
      BY <1>7, <3>1, IntoFacts
    <3>5. y.classic = x.classic /\ y.zero = x.zero /\ y.sparse = AddToBucket(x.sparse, k, n)
      BY <3>1, IntoFields
    <3>6. /\ w \in Counts
          /\ w.count = z.count /\ w.sum = z.sum /\ w.thr = z.thr /\ w.lvl = z.lvl
          /\ DOMAIN w.sparse = DOMAIN z.sparse
          /\ \A j \in DOMAIN w.sparse : w.sparse[j] = IF j = k THEN 0 ELSE z.sparse[j]
      BY <1>7, <3>1, RefilledFacts
    <3>7. left \ {k} \subseteq DOMAIN w.sparse /\ \A j \in left \ {k} : w.sparse[j] = z.sparse[j]
      BY <1>7, <3>6
    <3>8. Unused(z) => Unused(w)  BY <3>1, UnusedKept
    <3>9. MoveStep(k, n, x, z, y, w)  BY <3>0, <3>4, <3>5, <3>6, <3>7, <3>8 DEF MoveStep
    <3> QED  BY <3>3, <3>9
  <2>2. CASE plan = "widen" /\ k.key = smallest
    <3>0. Vanishes(k)  BY <2>2 DEF Vanishes
    <3>1. PICK y, w : y = ZeroPlus(x, n) /\ w = TakenOut(z, k)  OBVIOUS
    <3>2. counts' = IntoZero(k)  BY <1>5, <2>2
    <3>3. counts' = [counts EXCEPT ![h] = y, ![c] = w]
      BY <1>0, <1>1, <1>4, <1>8, <3>1, <3>2 DEF IntoZero, ZeroPlus, TakenOut, Types
    <3>4. /\ y \in Counts
          /\ y.count = x.count /\ y.sum = x.sum
          /\ y.thr = x.thr /\ y.lvl = x.lvl /\ y.sparse = x.sparse
      BY <3>1, ZeroFacts
    <3>5. y.classic = x.classic /\ y.zero = x.zero + n  BY <3>1, ZeroFields
    <3>6. /\ w \in Counts
          /\ w.count = z.count /\ w.sum = z.sum /\ w.thr = z.thr /\ w.lvl = z.lvl
          /\ DOMAIN w.sparse = DOMAIN z.sparse \ {k}
          /\ \A j \in DOMAIN w.sparse : w.sparse[j] = z.sparse[j]
      BY <1>7, <1>9, <3>1, IntoZeroFacts
    <3>7. left \ {k} \subseteq DOMAIN w.sparse /\ \A j \in left \ {k} : w.sparse[j] = z.sparse[j]
      BY <1>7, <3>6
    <3>8. Unused(z) => Unused(w)  BY <3>1, UnusedKept
    <3>9. MoveStep(k, n, x, z, y, w)  BY <3>0, <3>4, <3>5, <3>6, <3>7, <3>8 DEF MoveStep
    <3> QED  BY <3>3, <3>9
  <2>3. CASE plan = "double"
    <3>0. ~Vanishes(k)  BY <2>3 DEF Vanishes
    <3>1. PICK j \in SparseKeys : j = Destination(k) /\ j = [k EXCEPT !.key = Halve(@)]
      BY <1>10, <2>3 DEF Destination
    <3>2. PICK y : y = SparseInto(x, j, n)  OBVIOUS
    <3>3. counts' = IntoWider(k)  BY <1>5, <2>3
    <3>4. counts' = [counts EXCEPT ![h] = y, ![c] = z]
      BY <1>0, <1>1, <1>4, <1>8, <3>1, <3>2, <3>3 DEF IntoWider, Types
    <3>5. /\ y \in Counts
          /\ y.count = x.count /\ y.sum = x.sum /\ y.thr = x.thr /\ y.lvl = x.lvl
      BY <3>2, IntoFacts
    <3>6. y.classic = x.classic /\ y.zero = x.zero /\ y.sparse = AddToBucket(x.sparse, j, n)
      BY <3>2, IntoFields
    <3>7. left \ {k} \subseteq DOMAIN z.sparse  BY <1>7
    <3>8. MoveStep(k, n, x, z, y, z)  BY <3>0, <3>1, <3>5, <3>6, <3>7 DEF MoveStep
    <3> QED  BY <3>4, <3>8
  <2> QED  BY <1>0, <1>3, <2>1, <2>2, <2>3 DEF Types
<1>12. counts'[h] = y /\ counts'[c] = w  BY <1>0, <1>1, <1>11 DEF Types
<1>13. /\ y \in Counts /\ y.count = x.count /\ y.sum = x.sum /\ y.thr = x.thr /\ y.lvl = x.lvl
       /\ y.classic = x.classic
       /\ y.zero = IF ~Vanishes(k) THEN x.zero ELSE x.zero + n
       /\ y.sparse = IF ~Vanishes(k) THEN AddToBucket(x.sparse, Destination(k), n) ELSE x.sparse
       /\ w \in Counts /\ w.count = z.count /\ w.sum = z.sum /\ w.thr = z.thr /\ w.lvl = z.lvl
       /\ left \ {k} \subseteq DOMAIN w.sparse
       /\ \A j \in left \ {k} : w.sparse[j] = z.sparse[j]
       /\ Unused(z) => Unused(w)
  BY <1>11 DEF MoveStep
<1>14. PICK j, into : into \in BOOLEAN /\ j = Destination(k) /\ into = (~Vanishes(k))
  <2>1. (~Vanishes(k)) \in BOOLEAN  BY DEF Vanishes
  <2> QED  BY <2>1
<1>15. PICK ow, du, ow1, du1 : /\ ow \in Owings /\ du \in Nat
                               /\ ow = Owed /\ du = Due /\ ow1 = Owed' /\ du1 = Due'
  BY OwedType
<1>16. ow1 \in Owings /\ du1 \in Nat /\ du = du1 + n
       /\ \A i \in SparseKeys : ow[i] = ow1[i] + (IF into /\ i = j THEN n ELSE 0)
  <2>1. PICK R : R = left \ {k} /\ R = left'  BY <1>5
  <2>2. w.sparse \in Buckets  BY <1>13, CountsFacts
  <2>3. /\ Total(z.sparse, left) = Total(w.sparse, R) + z.sparse[k] /\ Total(w.sparse, R) \in Nat
        /\ \A S \in SUBSET left :
              /\ Total(z.sparse, S) = Total(w.sparse, S \ {k}) + (IF k \in S THEN z.sparse[k] ELSE 0)
              /\ Total(w.sparse, S \ {k}) \in Nat
    <3>1. PICK b \in Buckets, d \in Buckets : b = z.sparse /\ d = w.sparse  BY <1>7, <2>2
    <3>2. PICK L \in SUBSET DOMAIN b : L = left  BY <1>7, <3>1
    <3>3. R \subseteq DOMAIN d /\ \A i \in R : d[i] = b[i]  BY <1>13, <2>1, <3>1
    <3>4. k \in L /\ R = L \ {k}  BY <2>1, <3>2
    <3>5. SumsWithout(b, d, L, k)
      <4>1. OneGoes(b, d, L, k, R)  BY <3>2, <3>3, <3>4 DEF OneGoes
      <4> QED  BY <4>1, LeftSums
    <3>6. ASSUME NEW S \in SUBSET left
          PROVE  /\ Total(z.sparse, S) = Total(w.sparse, S \ {k}) + (IF k \in S THEN z.sparse[k] ELSE 0)
                 /\ Total(w.sparse, S \ {k}) \in Nat
      <4>1. /\ Total(b, S) = Total(d, S \ {k}) + (IF k \in S THEN b[k] ELSE 0)
            /\ Total(d, S \ {k}) \in Nat
        BY <3>2, <3>5 DEF SumsWithout
      <4> QED  BY <3>1, <4>1
    <3>7. Total(z.sparse, left) = Total(w.sparse, R) + z.sparse[k] /\ Total(w.sparse, R) \in Nat
      <4>1. left \in SUBSET left /\ k \in left /\ R = left \ {k}  BY <2>1
      <4> QED  BY <3>6, <4>1
    <3> QED  BY <3>6, <3>7
  <2>4. cold = c /\ cold' = c /\ counts'[cold'] = w /\ counts[cold] = z
    BY <1>1, <1>2, <1>4, <1>12 DEF cold
  <2>5. du = du1 + n /\ du1 \in Nat  BY <1>8, <1>15, <2>1, <2>3, <2>4 DEF Due
  <2>6. ASSUME NEW i \in SparseKeys
        PROVE  ow1[i] \in Nat /\ ow[i] = ow1[i] + (IF into /\ i = j THEN n ELSE 0)
    <3>1. Owing(i) \in SUBSET left  BY DEF Owing
    <3>2. Owing(i)' = Owing(i) \ {k}  BY <1>2, <1>5 DEF Owing, Destination, Vanishes
    <3>3. k \in Owing(i) <=> into /\ i = j  BY <1>14 DEF Owing
    <3>4. ow[i] = Total(z.sparse, Owing(i))  BY <1>15, <2>4 DEF Owed
    <3>5. ow1[i] = Total(w.sparse, Owing(i) \ {k})
      <4>1. Owed'[i] = Total(counts'[cold'].sparse, Owing(i)')  BY DEF Owed
      <4> QED  BY <1>15, <2>4, <3>2, <4>1
    <3> QED  BY <1>8, <2>3, <3>1, <3>3, <3>4, <3>5
  <2>7. ow1 \in Owings
    <3>1. ow1 = [i \in SparseKeys |-> Total(counts'[cold'].sparse, Owing(i)')]  BY <1>15 DEF Owed
    <3> QED  BY <2>6, <3>1 DEF Owings
  <2> QED  BY <2>5, <2>6, <2>7
<1>17. Files(counts[h], Unfiled(h), Owed, Due) => Files(y, Unfiled(h), Owed', Due')
  <2>1. PICK q \in Unfileds : q = Unfiled(h)  BY UnfiledType
  <2>2. SUFFICES ASSUME Files(x, q, ow, du) PROVE Files(y, q, ow1, du1)
    BY <1>4, <1>15, <2>1
  <2>3. j \in SparseKeys /\ ow1 \in Owings /\ du1 \in Nat /\ du = du1 + n
    BY <1>10, <1>14, <1>16
  <2>4. \A i \in SparseKeys : ow[i] = ow1[i] + (IF into /\ i = j THEN n ELSE 0)  BY <1>16
  <2>5. /\ y \in Counts /\ y.sum = x.sum /\ y.classic = x.classic /\ y.lvl = x.lvl
        /\ y.zero = IF into THEN x.zero ELSE x.zero + n
        /\ y.sparse = IF into THEN AddToBucket(x.sparse, j, n) ELSE x.sparse
    BY <1>13, <1>14
  <2>6. into \in BOOLEAN  BY <1>14
  <2>7. ow \in Owings /\ du \in Nat  BY <1>15
  <2> QED  BY <2>2, <2>3, <2>4, <2>5, <2>6, <2>7, FilesMoveStep
<1>18. pc' = [pc EXCEPT ![p] = "sparse"]  BY <1>0, <1>2 DEF Types
<1>19. RangeStep(p, "sparse", h, c, y, w)
  BY <1>1, <1>2, <1>3, <1>4, <1>12, <1>13, <1>17, <1>18 DEF RangeStep
<1> QED  BY <1>19, RangeFiles

LEMMA MergeDoneFiles ==
    ASSUME HistInv, FilingInv, NEW p \in Procs, MergeDone(p)
    PROVE  FilingInv'
<1>0. HistInv' /\ Types /\ MutexInv  BY MergeDoneKeeps DEF HistInv
<1>1. PICK h \in 0..1, c \in 0..1 :
              /\ h = hot /\ c # h /\ c = cold /\ h = 1 - c /\ c = 1 - h
              /\ \A d \in 0..1 : d = h \/ d = c
  BY FilingInvOf
<1>2. /\ pc[p] = "sparse" /\ pc' = [pc EXCEPT ![p] = "rest"] /\ mtx' = None /\ plan' = plan
      /\ hot' = hot /\ side' = side /\ val' = val /\ smallest' = smallest
      /\ seen' = seen /\ left = {} /\ left' = left
  BY DEF MergeDone, Goto, observerVars
<1>3. phase' = "rest" /\ phase = "sparse" /\ mtx = p
  <2>1. pc[p] \in Holding  BY <1>2 DEF Holding
  <2>2. phase' = "rest" /\ phase = pc[p] /\ mtx = p  BY <1>0, <1>2, <2>1, MutexFreed
  <2> QED  BY <1>2, <2>2
<1>4. PICK x \in Counts, z \in Counts : x = counts[h] /\ z = counts[c]  BY <1>0 DEF Types
<1>5. PICK w : /\ counts' = [counts EXCEPT ![c] = w]
               /\ w.count = z.count /\ w.sum = z.sum /\ w.thr = z.thr /\ w.lvl = z.lvl
               /\ Unused(z) => Unused(w)
  <2>1. CASE plan = "double"
    <3>1. PICK w : w = [z EXCEPT !.num = 0, !.sparse = NoBuckets]  OBVIOUS
    <3>2. counts' = [counts EXCEPT ![c] = w]
      BY <1>0, <1>1, <1>4, <2>1, <3>1 DEF MergeDone, Types
    <3>3. /\ w.count = z.count /\ w.sum = z.sum /\ w.thr = z.thr /\ w.lvl = z.lvl
          /\ w.zero = z.zero /\ w.classic = z.classic
      BY <3>1 DEF Counts
    <3>4. Unused(z) => Unused(w)  BY <3>3 DEF Unused
    <3> QED  BY <3>2, <3>3, <3>4
  <2>2. CASE plan # "double"
    <3>1. counts' = [counts EXCEPT ![c] = z]  BY <1>0, <1>4, <2>2 DEF MergeDone, Types
    <3> QED  BY <3>1
  <2> QED  BY <2>1, <2>2
<1>6. counts'[h] = x /\ counts'[c] = w  BY <1>0, <1>1, <1>4, <1>5 DEF Types
<1>7. Owed = NothingOwed /\ Due = 0  BY <1>2, OwedNothing
<1>8. Owed' = NothingOwed /\ Due' = 0  BY <1>0, <1>2, OwedNothingNext
<1>9. Files(counts[h], Unfiled(h), Owed, Due) => Files(x, Unfiled(h), Owed', Due')
  <2>1. Owed' = Owed /\ Due' = Due  BY <1>7, <1>8
  <2> QED  BY <1>4, <2>1
<1>10. RangeStep(p, "rest", h, c, x, w)
  BY <1>1, <1>2, <1>3, <1>4, <1>5, <1>6, <1>9 DEF RangeStep
<1> QED  BY <1>10, RangeFiles


-----------------------------------------------------------------------------
(* FilingInv: the invariant, and CoolIsWhole *)

LEMMA StutterFiles ==
    ASSUME HistInv, HistInv', FilingInv,
           hot' = hot, counts' = counts, mtx' = mtx, pc' = pc, side' = side, val' = val,
           seen' = seen, plan' = plan, smallest' = smallest, left' = left
    PROVE  FilingInv'
<1>1. phase' = phase  BY DEF phase
<1>2. Owed' = Owed /\ Due' = Due  BY OwedKept
<1>3. ASSUME NEW c PROVE Unfiled(c)' = Unfiled(c) /\ Summed(c)' = Summed(c)  BY FilingsKept
<1>4. SeenInv'  BY DEF FilingInv, SeenInv, DoSparse
<1>5. ASSUME NEW c \in 0..1 PROVE SideInv(c)' /\ (c # hot' => PlanInv(1 - c, c)')
  <2>1. SideInv(c) /\ (c # hot => PlanInv(1 - c, c))  BY DEF FilingInv
  <2>2. PICK u, s, ow, du : u = Unfiled(c) /\ s = Summed(c) /\ ow = Owed /\ du = Due  OBVIOUS
  <2>3. Unfiled(c)' = u /\ Summed(c)' = s /\ Owed' = ow /\ Due' = du  BY <1>2, <1>3, <2>2
  <2>4. SideInv(c)'  BY <1>1, <2>1, <2>2, <2>3 DEF SideInv, NothingOwed
  <2>5. c # hot' => PlanInv(1 - c, c)'  BY <1>1, <2>1 DEF PlanInv
  <2> QED  BY <2>4, <2>5
<1> QED  BY <1>4, <1>5 DEF FilingInv, PlanInv

LEMMA FilingInit ==
    ASSUME Init
    PROVE  FilingInv
<1>1. HistInv  BY HistInit
<1>2. /\ hot = 0 /\ counts = [c \in 0..1 |-> Fresh] /\ mtx = None
      /\ pc = [p \in Procs |-> "rest"] /\ plan = "write" /\ left = {}
  BY DEF Init
<1>3. \A o \in Observers : pc[o] = "rest"  BY <1>2 DEF Procs
<1>4. phase = "rest"  BY <1>2 DEF phase
<1>5. SeenInv  BY <1>3 DEF SeenInv
<1>6. ASSUME NEW c \in 0..1 PROVE SideInv(c) /\ (c # hot => PlanInv(1 - c, c))
  <2>1. counts[c] = Fresh /\ counts[1 - c] = Fresh  BY <1>2
  <2>2. InFlight(c) = {}  BY <1>3 DEF InFlight, Observing
  <2>3. (\A S \in SUBSET Values : Unfiled(c)[S] = 0) /\ Cardinality(Summed(c)) = 0
    BY <2>2, NobodyFiling
  <2>4. PICK u : u = Unfiled(c)  OBVIOUS
  <2>5. \A S \in SUBSET Values : u[S] = 0  BY <2>3, <2>4
  <2>6. Files(Fresh, u, NothingOwed, 0) /\ Total(Fresh.sum, Values) = 0  BY <2>5, FilesFresh
  <2>7. Owed = NothingOwed /\ Due = 0  BY <1>1, <1>2, OwedNothing
  <2>8. PICK none : none = NothingOwed  OBVIOUS
  <2>9. Files(Fresh, u, none, 0) /\ Owed = none  BY <2>6, <2>7, <2>8
  <2>10. Fresh.count = 0 /\ Unused(Fresh)  BY FreshFacts, FreshFields
  <2>11. IF c = hot THEN Files(counts[c], Unfiled(c), Owed, Due) ELSE Unused(counts[c])
    BY <2>1, <2>4, <2>7, <2>9, <2>10
  <2>12. counts[c].count + Cardinality(Summed(c)) = Total(counts[c].sum, Values)
    BY <2>1, <2>3, <2>6, <2>10
  <2>13. SideInv(c)  BY <1>4, <2>11, <2>12 DEF SideInv
  <2>14. Fresh.thr <= Highest  BY FreshFacts, HighestFacts
  <2>15. PlanInv(1 - c, c)  BY <1>2, <1>4, <2>1, <2>14 DEF PlanInv
  <2> QED  BY <2>13, <2>15
<1> QED  BY <1>5, <1>6 DEF FilingInv

LEMMA FilingNext ==
    ASSUME HistInv, FilingInv, [Next]_vars
    PROVE  FilingInv'
<1>1. HistInv'  BY HistStep
<1>2. ASSUME NEW o \in Observers, NEW v \in Values, Begin(o, v) PROVE FilingInv'
  BY <1>2, BeginFiles
<1>3. ASSUME NEW o \in Observers, Observe(o) PROVE FilingInv'
  BY <1>3, ClassicFiles, LookFiles, PlaceFiles, NumberFiles DEF Observe
<1>4. ASSUME NEW o \in Observers, LimitBuckets(o) PROVE FilingInv'
  BY <1>4, LimitFiles, LimitResetFiles, LimitWidenFiles, LimitDoubleFiles DEF LimitBuckets
<1>5. CASE WriteLock  BY <1>5, WriteLockFiles
<1>6. CASE TimerReset  BY <1>6, TimerResetFiles
<1>7. CASE TimePasses
  <2>1. /\ hot' = hot /\ counts' = counts /\ mtx' = mtx /\ pc' = pc /\ side' = side /\ val' = val
        /\ seen' = seen /\ plan' = plan /\ smallest' = smallest /\ left' = left
    BY <1>7 DEF TimePasses, hotVars, observerVars
  <2> QED  BY <1>1, <2>1, StutterFiles
<1>8. ASSUME NEW p \in Procs, InMutex(p) PROVE FilingInv'
  BY <1>8, SwapFiles, CoolFiles, CoolResetFiles, MergeFiles, MergeSparseFiles, MergeDoneFiles
     DEF InMutex
<1>9. CASE UNCHANGED vars
  <2>1. /\ hot' = hot /\ counts' = counts /\ mtx' = mtx /\ pc' = pc /\ side' = side /\ val' = val
        /\ seen' = seen /\ plan' = plan /\ smallest' = smallest /\ left' = left
    BY <1>9 DEF vars, hotVars, mtxVars, observerVars
  <2> QED  BY <1>1, <2>1, StutterFiles
<1>10. CASE Terminating  BY <1>9, <1>10 DEF Terminating
<1> QED  BY <1>2, <1>3, <1>4, <1>5, <1>6, <1>7, <1>8, <1>9, <1>10 DEF Next

\* Counts of which nothing is under way are filed.
LEMMA FilesAreFiled ==
    ASSUME NEW x \in Counts, NEW p \in Unfileds, \A S \in SUBSET Values : p[S] = 0,
           Files(x, p, NothingOwed, 0)
    PROVE  Filed(x)
<1>1. PICK none \in Owings : none = NothingOwed /\ \A k \in SparseKeys : none[k] = 0
  BY NothingType
<1>2. Files(x, p, none, 0)  BY <1>1
<1>3. \A b \in 1..NumBuckets : x.classic[b] = InBucket(x, b)  BY <1>2 DEF Files
<1>4. ASSUME Native
      PROVE  /\ x.zero + InSparse(x) = Total(x.sum, Sparsed)
             /\ \A k \in DOMAIN x.sparse \cup {SparseKey(v, x.lvl) : v \in Sparsed} :
                    /\ SparseAt(x, k) <= Total(x.sum, Here(k, x.lvl))
                    /\ SparseAt(x, k) >= Total(x.sum, Far(k, x.lvl))
  <2>1. Sparsed \in SUBSET Values  BY DEF Sparsed
  <2>2. /\ x.zero \in Nat /\ InSparse(x) \in Nat
    BY <2>1, FilesTypes
  <2>3. x.zero + InSparse(x) = Total(x.sum, Sparsed)
    <3>1. x.zero + InSparse(x) + 0 + p[Sparsed] = Total(x.sum, Sparsed)  BY <1>2, <1>4 DEF Files
    <3> QED  BY <2>1, <2>2, <3>1
  <2>4. ASSUME NEW k \in DOMAIN x.sparse \cup {SparseKey(v, x.lvl) : v \in Sparsed}
        PROVE  /\ SparseAt(x, k) <= Total(x.sum, Here(k, x.lvl))
               /\ SparseAt(x, k) >= Total(x.sum, Far(k, x.lvl))
    <3>1. k \in SparseKeys
      <4>1. CASE k \in DOMAIN x.sparse  BY <4>1, CountsFacts, BucketFacts
      <4>2. CASE k \in {SparseKey(v, x.lvl) : v \in Sparsed}
        BY <4>2, CountsFacts, KeyType, <2>1
      <4> QED  BY <4>1, <4>2
    <3>2. Here(k, x.lvl) \in SUBSET Values /\ Far(k, x.lvl) \in SUBSET Values
      BY DEF Here, Far, Sparsed
    <3>3. SparseAt(x, k) \in Nat  BY <2>1, FilesTypes
    <3>4. p[Here(k, x.lvl)] = 0 /\ p[Far(k, x.lvl)] = 0 /\ none[k] = 0  BY <1>1, <3>1, <3>2
    <3>5. /\ SparseAt(x, k) + none[k] + p[Here(k, x.lvl)] <= Total(x.sum, Here(k, x.lvl))
          /\ SparseAt(x, k) + none[k] + p[Far(k, x.lvl)] >= Total(x.sum, Far(k, x.lvl))
      BY <1>2, <1>4, <3>1 DEF Files
    <3>6. SparseAt(x, k) + none[k] + p[Here(k, x.lvl)] = SparseAt(x, k)  BY <3>3, <3>4
    <3>7. SparseAt(x, k) + none[k] + p[Far(k, x.lvl)] = SparseAt(x, k)  BY <3>3, <3>4
    <3> QED  BY <3>5, <3>6, <3>7
  <2> QED  BY <2>3, <2>4
<1> QED  BY <1>3, <1>4 DEF Filed

LEMMA CooledIsFiled ==
    ASSUME HistInv, FilingInv
    PROVE  CoolIsWhole
<1> SUFFICES ASSUME NEW p \in Procs, pc[p] = "merge"
             PROVE  /\ counts[cold].count = Total(counts[cold].sum, Values)
                    /\ Filed(counts[cold])
                    /\ \A o \in Observers :
                           pc[o] \in {"classic", "look", "place", "number", "count"} => side[o] = hot
  BY DEF CoolIsWhole, HasCooled
<1>1. Types /\ MutexInv /\ CountInv  BY DEF HistInv
<1>2. PICK h \in 0..1, c \in 0..1 :
              /\ h = hot /\ c # h /\ c = cold /\ h = 1 - c /\ c = 1 - h
              /\ \A d \in 0..1 : d = h \/ d = c
  BY FilingInvOf
<1>3. phase = "merge"
  <2>1. mtx = p /\ p # None  BY <1>1, ProcsAssumption DEF MutexInv, Holding
  <2> QED  BY <2>1 DEF phase
<1>4. ColdInv(c) /\ SideInv(c)  BY <1>1, <1>2 DEF CountInv, FilingInv
<1>5. InFlight(c) = {}  BY <1>3, <1>4 DEF ColdInv
<1>6. (\A S \in SUBSET Values : Unfiled(c)[S] = 0) /\ Cardinality(Summed(c)) = 0
  BY <1>5, NobodyFiling
<1>7. PICK x \in Counts, u \in Unfileds : x = counts[c] /\ u = Unfiled(c)
  BY <1>1, UnfiledType DEF Types
<1>8. Files(x, u, NothingOwed, 0)  BY <1>2, <1>3, <1>4, <1>7 DEF SideInv
<1>9. \A S \in SUBSET Values : u[S] = 0  BY <1>6, <1>7
<1>10. Filed(x)  BY <1>8, <1>9, FilesAreFiled
<1>11. x.count + Cardinality(Summed(c)) = Total(x.sum, Values)  BY <1>4, <1>7 DEF SideInv
<1>12. x.count = Total(x.sum, Values)  BY <1>6, <1>11, CountsFacts
<1>13. ASSUME NEW o \in Observers, pc[o] \in {"classic", "look", "place", "number", "count"}
       PROVE  side[o] = hot
  <2>1. pc[o] \in Observing /\ side[o] \in 0..1  BY <1>1, <1>13 DEF Observing, Types
  <2>2. side[o] # c  BY <1>5, <2>1 DEF InFlight
  <2> QED  BY <1>2, <2>1, <2>2
<1> QED  BY <1>2, <1>7, <1>10, <1>12, <1>13

\* What waitForCooldown has waited for is whole, however many observers, resets, wider zero
\* buckets and doublings went before: all of each observation begun before the swap and nothing
\* of a later one, in its classic bucket and in the sparse bucket of the schema in force or in
\* the zero bucket. The invariant behind it follows every observation from the sum to its
\* bucket, and every sparse bucket of a merge to where it goes.
THEOREM CooledIsWhole == Spec => []CoolIsWhole
<1>1. Init => HistInv /\ FilingInv  BY HistInit, FilingInit
<1>2. HistInv /\ FilingInv /\ [Next]_vars => (HistInv /\ FilingInv)'  BY HistStep, FilingNext
<1>3. HistInv /\ FilingInv => CoolIsWhole  BY CooledIsFiled
<1> QED  BY <1>1, <1>2, <1>3, PTL DEF Spec

=============================================================================
