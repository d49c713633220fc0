---------------------------- MODULE SumTheorems ----------------------------
(***************************************************************************)
(* Facts about SumFunction and SumFunctionOnSet of the community modules,  *)
(* for functions into Nat: the sums of TrackedExposer.  Both are recursive *)
(* functions over subsets; that the recursion defines anything, and what,  *)
(* follows from a closed form, the number of points below the function.    *)
(***************************************************************************)
EXTENDS Integers, FiniteSets, Functions, FiniteSetTheorems, WellFoundedInduction, TLAPS

\* Induction over the subsets of a finite set, with a set of subsets for the predicate.
LEMMA SubsetInduction ==
    ASSUME NEW D, IsFiniteSet(D), NEW Good \in SUBSET (SUBSET D), {} \in Good,
           \A T \in SUBSET D : T # {} /\ (\A x \in T : T \ {x} \in Good) => T \in Good
    PROVE  \A T \in SUBSET D : T \in Good
<1> DEFINE Bad == (SUBSET D) \ Good
           R == StrictSubsetOrdering(D)
<1>1. SUFFICES ASSUME Bad # {} PROVE FALSE  OBVIOUS
<1>2. IsWellFoundedOn(R, FiniteSubsetsOf(D))  BY FS_StrictSubsetOrderingWellFounded
<1>3. Bad \subseteq FiniteSubsetsOf(D)  BY FS_Subset DEF FiniteSubsetsOf
<1>4. PICK T \in Bad : \A U \in Bad : ~(<<U, T>> \in R)
  <2> HIDE DEF Bad, R
  <2> QED  BY <1>1, <1>2, <1>3, WFMin
<1>5. ASSUME NEW x \in T PROVE T \ {x} \in Good
  <2>1. <<T \ {x}, T>> \in R  BY <1>4 DEF StrictSubsetOrdering
  <2> QED  BY <1>4, <2>1
<1> QED  BY <1>4, <1>5

-----------------------------------------------------------------------------
(* The points below a function *)

Points(f, T) == {p \in T \X Nat : p[2] < f[p[1]]}

LEMMA PointsOfOne ==
    ASSUME NEW f, NEW x, f[x] \in Nat
    PROVE  IsFiniteSet(Points(f, {x})) /\ Cardinality(Points(f, {x})) = f[x]
<1> DEFINE n == f[x]
           b == [k \in 1..n |-> <<x, k - 1>>]
<1>1. n \in Nat /\ IsFiniteSet(1..n) /\ Cardinality(1..n) = n  BY FS_Interval
<1>2. b \in [1..n -> Points(f, {x})]  BY <1>1 DEF Points
<1>3. \A j, k \in 1..n : b[j] = b[k] => j = k  BY <1>1
<1>4. ASSUME NEW p \in Points(f, {x}) PROVE \E k \in 1..n : b[k] = p
  <2>1. PICK m \in Nat : p = <<x, m>> /\ m < n  BY DEF Points
  <2>2. m + 1 \in 1..n /\ b[m + 1] = p  BY <1>1, <2>1
  <2> QED  BY <2>2
<1> HIDE DEF b, n
<1>5. b \in Bijection(1..n, Points(f, {x}))
  BY <1>2, <1>3, <1>4 DEF Bijection, Injection, Surjection, IsInjective
<1>6. ExistsBijection(1..n, Points(f, {x}))  BY <1>5 DEF ExistsBijection
<1> QED  BY <1>1, <1>6, FS_Bijection DEF n

LEMMA PointsOfOneMore ==
    ASSUME NEW f, NEW T, NEW x \in T, f[x] \in Nat, IsFiniteSet(Points(f, T \ {x}))
    PROVE  /\ IsFiniteSet(Points(f, T))
           /\ Cardinality(Points(f, T)) = f[x] + Cardinality(Points(f, T \ {x}))
<1> DEFINE P == Points(f, T \ {x})  Q == Points(f, {x})
<1>1. IsFiniteSet(Q) /\ Cardinality(Q) = f[x]  BY PointsOfOne
<1>2. Points(f, T) = P \cup Q /\ P \cap Q = {}  BY DEF Points
<1>3. IsFiniteSet(P) /\ Cardinality(P) \in Nat  BY FS_CardinalityType
<1> HIDE DEF P, Q
<1>4. IsFiniteSet(P \cup Q) /\ Cardinality(P \cup Q) = Cardinality(P) + Cardinality(Q) - Cardinality(P \cap Q)
  BY <1>1, <1>3, FS_Union
<1>5. Cardinality(P \cap Q) = 0  BY <1>2, FS_EmptySet
<1> QED  BY <1>1, <1>2, <1>3, <1>4, <1>5 DEF P

LEMMA PointsFinite ==
    ASSUME NEW D, IsFiniteSet(D), NEW f \in [D -> Nat]
    PROVE  \A T \in SUBSET D : IsFiniteSet(Points(f, T)) /\ Cardinality(Points(f, T)) \in Nat
<1> DEFINE Good == {T \in SUBSET D : IsFiniteSet(Points(f, T))}
<1>1. {} \in Good
  <2>1. Points(f, {}) = {}  BY DEF Points
  <2> QED  BY <2>1, FS_EmptySet
<1>2. ASSUME NEW T \in SUBSET D, T # {}, \A x \in T : T \ {x} \in Good PROVE T \in Good
  <2>1. PICK x \in T : TRUE  BY <1>2
  <2> QED  BY <1>2, <2>1, PointsOfOneMore
<1>3. \A T \in SUBSET D : T \in Good
  <2>1. Good \in SUBSET (SUBSET D)  OBVIOUS
  <2> HIDE DEF Good
  <2> QED  BY <1>1, <1>2, <2>1, SubsetInduction
<1> QED  BY <1>3, FS_CardinalityType

-----------------------------------------------------------------------------
(* The sum *)

Some(s) == CHOOSE x \in s : TRUE
Sums(g, f, D) == g = [s \in SUBSET D |-> IF s = {} THEN 0 ELSE f[Some(s)] + g[s \ {Some(s)}]]

LEMMA SumUnfolds ==
    ASSUME NEW f, NEW T
    PROVE  SumFunctionOnSet(f, T) = (CHOOSE g : Sums(g, f, T))[T]
  BY DEF SumFunctionOnSet, FoldFunctionOnSet, MapThenFoldSet, Sums, Some

LEMMA SumIsPoints ==
    ASSUME NEW D, IsFiniteSet(D), NEW f \in [D -> Nat], NEW T \in SUBSET D
    PROVE  SumFunctionOnSet(f, T) = Cardinality(Points(f, T))
<1> DEFINE c == [s \in SUBSET T |-> Cardinality(Points(f, s))]
           g == CHOOSE h : Sums(h, f, T)
           Good == {s \in SUBSET T : g[s] = c[s]}
<1>1. IsFiniteSet(T)  BY FS_Subset
<1>2. Points(f, {}) = {} /\ Cardinality(Points(f, {})) = 0  BY FS_EmptySet DEF Points
<1>3. ASSUME NEW s \in SUBSET T, NEW x \in s PROVE c[s] = f[x] + c[s \ {x}]
  <2>1. f[x] \in Nat /\ IsFiniteSet(Points(f, s \ {x}))  BY PointsFinite
  <2> QED  BY <2>1, PointsOfOneMore
<1>4. ASSUME NEW s \in SUBSET T, s # {} PROVE Some(s) \in s  BY <1>4 DEF Some
<1>5. Sums(c, f, T)
  <2>1. c[{}] = 0  BY <1>2
  <2>2. ASSUME NEW s \in SUBSET T
        PROVE  c[s] = IF s = {} THEN 0 ELSE f[Some(s)] + c[s \ {Some(s)}]
    BY <1>3, <1>4, <2>1
  <2>3. c = [s \in SUBSET T |-> c[s]]  OBVIOUS
  <2> HIDE DEF c
  <2> QED  BY <2>2, <2>3 DEF Sums
<1>6. Sums(g, f, T)  BY <1>5
<1> HIDE DEF g, c
<1>7. ASSUME NEW s \in SUBSET T PROVE g[s] = IF s = {} THEN 0 ELSE f[Some(s)] + g[s \ {Some(s)}]
  BY <1>6 DEF Sums
<1>8. {} \in Good
  <2>1. c[{}] = 0  BY <1>2 DEF c
  <2> QED  BY <1>7, <2>1
<1>9. ASSUME NEW s \in SUBSET T, s # {}, s \ {Some(s)} \in Good PROVE s \in Good
  BY <1>3, <1>4, <1>7, <1>9
<1>10. \A s \in SUBSET T : s \in Good
  <2>1. Good \in SUBSET (SUBSET T)  OBVIOUS
  <2>2. ASSUME NEW s \in SUBSET T, s # {}, \A x \in s : s \ {x} \in Good PROVE s \in Good
    BY <1>4, <1>9, <2>2
  <2> HIDE DEF Good
  <2> QED  BY <1>1, <1>8, <2>1, <2>2, SubsetInduction
<1>11. g[T] = c[T]  BY <1>10
<1> QED  BY <1>11, SumUnfolds DEF g, c

LEMMA SumType ==
    ASSUME NEW D, IsFiniteSet(D), NEW f \in [D -> Nat], NEW T \in SUBSET D
    PROVE  SumFunctionOnSet(f, T) \in Nat
  BY PointsFinite, SumIsPoints

LEMMA SumRemove ==
    ASSUME NEW D, IsFiniteSet(D), NEW f \in [D -> Nat], NEW T \in SUBSET D, NEW x \in T
    PROVE  SumFunctionOnSet(f, T) = f[x] + SumFunctionOnSet(f, T \ {x})
<1>1. f[x] \in Nat /\ IsFiniteSet(Points(f, T \ {x}))  BY PointsFinite
<1> QED  BY <1>1, SumIsPoints, PointsOfOneMore

LEMMA SumEmpty ==
    ASSUME NEW D, IsFiniteSet(D), NEW f \in [D -> Nat]
    PROVE  SumFunctionOnSet(f, {}) = 0
<1>1. Points(f, {}) = {}  BY DEF Points
<1> QED  BY <1>1, SumIsPoints, FS_EmptySet

\* Sums of functions that agree, that differ at one argument, and of a pointwise sum.
LEMMA SumAgree ==
    ASSUME NEW D, IsFiniteSet(D), NEW f \in [D -> Nat], NEW g \in [D -> Nat], NEW T \in SUBSET D,
           \A x \in T : f[x] = g[x]
    PROVE  SumFunctionOnSet(f, T) = SumFunctionOnSet(g, T)
<1>1. Points(f, T) = Points(g, T)  BY DEF Points
<1> QED  BY <1>1, SumIsPoints

LEMMA SumAdd ==
    ASSUME NEW D, IsFiniteSet(D), NEW f \in [D -> Nat], NEW g \in [D -> Nat], NEW h \in [D -> Nat],
           \A x \in D : h[x] = f[x] + g[x], NEW T \in SUBSET D
    PROVE  SumFunctionOnSet(h, T) = SumFunctionOnSet(f, T) + SumFunctionOnSet(g, T)
<1> DEFINE Good == {s \in SUBSET D : SumFunctionOnSet(h, s) = SumFunctionOnSet(f, s) + SumFunctionOnSet(g, s)}
<1>1. {} \in Good  BY SumEmpty
<1>2. ASSUME NEW s \in SUBSET D, s # {}, \A x \in s : s \ {x} \in Good PROVE s \in Good
  <2>1. PICK x \in s : TRUE  BY <1>2
  <2> DEFINE r == s \ {x}
  <2>2. SumFunctionOnSet(h, r) = SumFunctionOnSet(f, r) + SumFunctionOnSet(g, r)  BY <1>2, <2>1
  <2>3. /\ SumFunctionOnSet(h, s) = h[x] + SumFunctionOnSet(h, r)
        /\ SumFunctionOnSet(f, s) = f[x] + SumFunctionOnSet(f, r)
        /\ SumFunctionOnSet(g, s) = g[x] + SumFunctionOnSet(g, r)
    BY <2>1, SumRemove
  <2>4. SumFunctionOnSet(f, r) \in Nat /\ SumFunctionOnSet(g, r) \in Nat  BY SumType
  <2>5. h[x] = f[x] + g[x] /\ f[x] \in Nat /\ g[x] \in Nat  BY <2>1
  <2> HIDE DEF r
  <2> QED  BY <2>2, <2>3, <2>4, <2>5
<1>3. Good \in SUBSET (SUBSET D)  OBVIOUS
<1>4. T \in Good
  <2> HIDE DEF Good
  <2> QED  BY <1>1, <1>2, <1>3, SubsetInduction
<1> QED  BY <1>4

-----------------------------------------------------------------------------
(* The sum of a function *)

LEMMA SumFunctionType ==
    ASSUME NEW D, IsFiniteSet(D), NEW f \in [D -> Nat]
    PROVE  SumFunction(f) = SumFunctionOnSet(f, D) /\ SumFunction(f) \in Nat
<1>1. DOMAIN f = D  OBVIOUS
<1> QED  BY <1>1, SumType DEF SumFunction

LEMMA SumFunctionAdd ==
    ASSUME NEW D, IsFiniteSet(D), NEW f \in [D -> Nat], NEW g \in [D -> Nat], NEW h \in [D -> Nat],
           \A x \in D : h[x] = f[x] + g[x]
    PROVE  SumFunction(h) = SumFunction(f) + SumFunction(g)
  BY SumAdd, SumFunctionType

LEMMA SumFunctionChanged ==
    ASSUME NEW D, IsFiniteSet(D), NEW f \in [D -> Nat], NEW g \in [D -> Nat], NEW x \in D,
           \A y \in D \ {x} : g[y] = f[y]
    PROVE  SumFunction(g) + f[x] = SumFunction(f) + g[x]
<1>1. /\ SumFunction(f) = f[x] + SumFunctionOnSet(f, D \ {x})
      /\ SumFunction(g) = g[x] + SumFunctionOnSet(g, D \ {x})
  BY SumFunctionType, SumRemove
<1>2. SumFunctionOnSet(f, D \ {x}) = SumFunctionOnSet(g, D \ {x})  BY SumAgree
<1>3. SumFunctionOnSet(f, D \ {x}) \in Nat /\ f[x] \in Nat /\ g[x] \in Nat  BY SumType
<1> QED  BY <1>1, <1>2, <1>3

LEMMA SumFunctionZero ==
    ASSUME NEW D, IsFiniteSet(D), NEW f \in [D -> Nat], \A x \in D : f[x] = 0
    PROVE  SumFunction(f) = 0
<1>1. Points(f, D) = {}  BY DEF Points
<1> QED  BY <1>1, SumFunctionType, SumIsPoints, FS_EmptySet

\* What one argument gives to another leaves the sum as it was.
LEMMA SumFunctionMoved ==
    ASSUME NEW D, IsFiniteSet(D), NEW f \in [D -> Nat], NEW g \in [D -> Nat], NEW x \in D, NEW y \in D,
           x # y, NEW d \in Nat, f[x] = g[x] + d, g[y] = f[y] + d,
           \A z \in D \ {x, y} : g[z] = f[z]
    PROVE  SumFunction(g) = SumFunction(f)
<1>1. PICK h \in [D -> Nat] : h = [f EXCEPT ![x] = g[x]]  OBVIOUS
<1>2. h[x] = g[x] /\ h[y] = f[y] /\ h[y] \in Nat /\ h[x] \in Nat  BY <1>1
<1>3. \A z \in D \ {x} : h[z] = f[z]  BY <1>1
<1>4. \A z \in D \ {y} : g[z] = h[z]  BY <1>1
<1>5. SumFunction(h) + f[x] = SumFunction(f) + h[x]  BY <1>3, SumFunctionChanged
<1>6. SumFunction(g) + h[y] = SumFunction(h) + g[y]  BY <1>4, SumFunctionChanged
<1>7. SumFunction(f) \in Nat /\ SumFunction(g) \in Nat /\ SumFunction(h) \in Nat  BY SumFunctionType
<1> QED  BY <1>2, <1>5, <1>6, <1>7

-----------------------------------------------------------------------------
(* Sums over parts of the domain *)

LEMMA SumDisjoint ==
    ASSUME NEW D, IsFiniteSet(D), NEW f \in [D -> Nat], NEW T \in SUBSET D, NEW U \in SUBSET D,
           T \cap U = {}
    PROVE  SumFunctionOnSet(f, T \cup U) = SumFunctionOnSet(f, T) + SumFunctionOnSet(f, U)
<1> DEFINE P == Points(f, T)  Q == Points(f, U)
<1>1. Points(f, T \cup U) = P \cup Q /\ P \cap Q = {}  BY DEF Points
<1>2. IsFiniteSet(P) /\ IsFiniteSet(Q) /\ Cardinality(P) \in Nat /\ Cardinality(Q) \in Nat
  BY PointsFinite
<1>3. /\ SumFunctionOnSet(f, T) = Cardinality(P) /\ SumFunctionOnSet(f, U) = Cardinality(Q)
      /\ SumFunctionOnSet(f, T \cup U) = Cardinality(Points(f, T \cup U))
  <2>1. T \cup U \in SUBSET D  OBVIOUS
  <2> QED  BY <2>1, SumIsPoints
<1> HIDE DEF P, Q
<1>4. Cardinality(P \cup Q) = Cardinality(P) + Cardinality(Q) - Cardinality(P \cap Q)
  BY <1>2, FS_Union
<1>5. Cardinality(P \cap Q) = 0  BY <1>1, FS_EmptySet
<1> QED  BY <1>1, <1>2, <1>3, <1>4, <1>5

LEMMA SumSubset ==
    ASSUME NEW D, IsFiniteSet(D), NEW f \in [D -> Nat], NEW U \in SUBSET D, NEW T \in SUBSET U
    PROVE  SumFunctionOnSet(f, T) <= SumFunctionOnSet(f, U)
<1>1. PICK R \in SUBSET D : T \cup R = U /\ T \cap R = {}
  <2>1. U \ T \in SUBSET D /\ T \cup (U \ T) = U /\ T \cap (U \ T) = {}  OBVIOUS
  <2> QED  BY <2>1
<1>2. SumFunctionOnSet(f, U) = SumFunctionOnSet(f, T) + SumFunctionOnSet(f, R)
  <2>1. T \in SUBSET D  OBVIOUS
  <2>2. SumFunctionOnSet(f, T \cup R) = SumFunctionOnSet(f, T) + SumFunctionOnSet(f, R)
    BY <1>1, <2>1, SumDisjoint
  <2> QED  BY <1>1, <2>2
<1>3. SumFunctionOnSet(f, T) \in Nat /\ SumFunctionOnSet(f, R) \in Nat
  <2>1. T \in SUBSET D  OBVIOUS
  <2> QED  BY <1>1, <2>1, SumType
<1> QED  BY <1>2, <1>3

\* Of functions with different domains.
LEMMA SumAgreeOn ==
    ASSUME NEW D, IsFiniteSet(D), NEW f \in [D -> Nat], NEW E, IsFiniteSet(E), NEW g \in [E -> Nat],
           NEW T \in SUBSET D, T \subseteq E, \A x \in T : f[x] = g[x]
    PROVE  SumFunctionOnSet(f, T) = SumFunctionOnSet(g, T)
<1>1. Points(f, T) = Points(g, T)  BY DEF Points
<1>2. T \in SUBSET E  OBVIOUS
<1>3. SumFunctionOnSet(f, T) = Cardinality(Points(f, T))  BY SumIsPoints
<1>4. SumFunctionOnSet(g, T) = Cardinality(Points(g, T))  BY <1>2, SumIsPoints
<1> QED  BY <1>1, <1>3, <1>4

LEMMA SumZeros ==
    ASSUME NEW D, IsFiniteSet(D), NEW f \in [D -> Nat], NEW T \in SUBSET D, \A x \in T : f[x] = 0
    PROVE  SumFunctionOnSet(f, T) = 0
<1>1. Points(f, T) = {}  BY DEF Points
<1> QED  BY <1>1, SumIsPoints, FS_EmptySet

\* What f has at every key is bounded by what g has at the arguments of that key: so
\* are the sums.
Fiber(V, key, j) == {v \in V : key[v] = j}
Fibers(V, key, T) == {v \in V : key[v] \in T}

LEMMA FibersSplit ==
    ASSUME NEW E, IsFiniteSet(E), NEW g \in [E -> Nat], NEW V \in SUBSET E, NEW key, NEW T, NEW j \in T
    PROVE  SumFunctionOnSet(g, Fibers(V, key, T))
             = SumFunctionOnSet(g, Fiber(V, key, j)) + SumFunctionOnSet(g, Fibers(V, key, T \ {j}))
<1> DEFINE A == Fiber(V, key, j)  B == Fibers(V, key, T \ {j})
<1>1. Fibers(V, key, T) = A \cup B /\ A \cap B = {} /\ A \in SUBSET E /\ B \in SUBSET E
  BY DEF Fiber, Fibers
<1> HIDE DEF A, B
<1>2. SumFunctionOnSet(g, A \cup B) = SumFunctionOnSet(g, A) + SumFunctionOnSet(g, B)
  BY <1>1, SumDisjoint
<1> QED  BY <1>1, <1>2 DEF A, B

LEMMA FibersAbove ==
    ASSUME NEW D, IsFiniteSet(D), NEW f \in [D -> Nat], NEW E, IsFiniteSet(E), NEW g \in [E -> Nat],
           NEW V \in SUBSET E, NEW key, NEW T \in SUBSET D,
           \A j \in T : f[j] <= SumFunctionOnSet(g, Fiber(V, key, j))
    PROVE  SumFunctionOnSet(f, T) <= SumFunctionOnSet(g, Fibers(V, key, T))
<1> DEFINE F(s) == SumFunctionOnSet(f, s)
           G(s) == SumFunctionOnSet(g, Fibers(V, key, s))
           One(j) == SumFunctionOnSet(g, Fiber(V, key, j))
           Good == {s \in SUBSET T : F(s) <= G(s)}
<1>0. ASSUME NEW s, NEW j PROVE Fibers(V, key, s) \in SUBSET E /\ Fiber(V, key, j) \in SUBSET E
  BY DEF Fiber, Fibers
<1>1. ASSUME NEW s \in SUBSET T, NEW j \in T
      PROVE  F(s) \in Nat /\ G(s) \in Nat /\ One(j) \in Nat /\ f[j] \in Nat /\ f[j] <= One(j)
  <2>1. s \in SUBSET D  OBVIOUS
  <2> QED  BY <1>0, <2>1, SumType
<1>2. {} \in Good
  <2>1. F({}) = 0  BY SumEmpty
  <2>2. G({}) \in Nat  BY <1>0, SumType
  <2> QED  BY <2>1, <2>2
<1>3. ASSUME NEW s \in SUBSET T, s # {}, \A x \in s : s \ {x} \in Good PROVE s \in Good
  <2>1. PICK x \in s : TRUE  BY <1>3
  <2> DEFINE r == s \ {x}
  <2>2. F(s) = f[x] + F(r)
    <3>1. s \in SUBSET D  OBVIOUS
    <3> QED  BY <2>1, <3>1, SumRemove
  <2>3. G(s) = One(x) + G(r)  BY <2>1, FibersSplit
  <2>4. F(r) <= G(r) /\ F(r) \in Nat /\ G(r) \in Nat  BY <1>1, <1>3, <2>1
  <2>5. f[x] \in Nat /\ One(x) \in Nat /\ f[x] <= One(x)  BY <1>1, <2>1
  <2> HIDE DEF r, F, G, One
  <2>6. F(s) <= G(s)  BY <2>2, <2>3, <2>4, <2>5
  <2> QED  BY <2>6
<1>4. IsFiniteSet(T) /\ Good \in SUBSET (SUBSET T)  BY FS_Subset
<1>5. T \in Good
  <2> HIDE DEF Good
  <2> QED  BY <1>2, <1>3, <1>4, SubsetInduction
<1> QED  BY <1>5

LEMMA FibersBelow ==
    ASSUME NEW D, IsFiniteSet(D), NEW f \in [D -> Nat], NEW E, IsFiniteSet(E), NEW g \in [E -> Nat],
           NEW V \in SUBSET E, NEW key, NEW T \in SUBSET D,
           \A j \in T : f[j] >= SumFunctionOnSet(g, Fiber(V, key, j))
    PROVE  SumFunctionOnSet(f, T) >= SumFunctionOnSet(g, Fibers(V, key, T))
<1> DEFINE F(s) == SumFunctionOnSet(f, s)
           G(s) == SumFunctionOnSet(g, Fibers(V, key, s))
           One(j) == SumFunctionOnSet(g, Fiber(V, key, j))
           Good == {s \in SUBSET T : F(s) >= G(s)}
<1>0. ASSUME NEW s, NEW j PROVE Fibers(V, key, s) \in SUBSET E /\ Fiber(V, key, j) \in SUBSET E
  BY DEF Fiber, Fibers
<1>1. ASSUME NEW s \in SUBSET T, NEW j \in T
      PROVE  F(s) \in Nat /\ G(s) \in Nat /\ One(j) \in Nat /\ f[j] \in Nat /\ f[j] >= One(j)
  <2>1. s \in SUBSET D  OBVIOUS
  <2> QED  BY <1>0, <2>1, SumType
<1>2. {} \in Good
  <2>1. Fibers(V, key, {}) = {}  BY DEF Fibers
  <2>2. F({}) = 0 /\ G({}) = 0  BY <2>1, SumEmpty
  <2> QED  BY <2>2
<1>3. ASSUME NEW s \in SUBSET T, s # {}, \A x \in s : s \ {x} \in Good PROVE s \in Good
  <2>1. PICK x \in s : TRUE  BY <1>3
  <2> DEFINE r == s \ {x}
  <2>2. F(s) = f[x] + F(r)
    <3>1. s \in SUBSET D  OBVIOUS
    <3> QED  BY <2>1, <3>1, SumRemove
  <2>3. G(s) = One(x) + G(r)  BY <2>1, FibersSplit
  <2>4. F(r) >= G(r) /\ F(r) \in Nat /\ G(r) \in Nat  BY <1>1, <1>3, <2>1
  <2>5. f[x] \in Nat /\ One(x) \in Nat /\ f[x] >= One(x)  BY <1>1, <2>1
  <2> HIDE DEF r, F, G, One
  <2>6. F(s) >= G(s)  BY <2>2, <2>3, <2>4, <2>5
  <2> QED  BY <2>6
<1>4. IsFiniteSet(T) /\ Good \in SUBSET (SUBSET T)  BY FS_Subset
<1>5. T \in Good
  <2> HIDE DEF Good
  <2> QED  BY <1>2, <1>3, <1>4, SubsetInduction
<1> QED  BY <1>5

=============================================================================
