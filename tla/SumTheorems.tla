----------------------------- MODULE SumTheorems -----------------------------
(***************************************************************************)
(* Induction on the natural numbers, from the well-foundedness of the      *)
(* strict-subset relation on finite sets, and with it what the sum of the  *)
(* values of a function, Functions!SumFunction, is.                        *)
(***************************************************************************)
EXTENDS Integers, Sequences, Functions, FiniteSets, FiniteSetTheorems,
        WellFoundedInduction, TLAPS

-----------------------------------------------------------------------------
(* Induction.                                                              *)

(* A nonempty collection of finite sets has a minimal one.                 *)
LEMMA MinimalSet ==
  ASSUME NEW F, F # {}, \A A \in F : IsFiniteSet(A)
  PROVE  \E A \in F : \A B \in F : B \subseteq A => B = A
<1> DEFINE S == UNION F
<1>1. F \subseteq FiniteSubsetsOf(S)
  BY DEF FiniteSubsetsOf
<1> HIDE DEF S
<1>2. PICK A \in F : \A B \in F : ~ (<<B, A>> \in StrictSubsetOrdering(S))
  BY <1>1, FS_StrictSubsetOrderingWellFounded, WFMin
<1> QED BY <1>1, <1>2 DEF StrictSubsetOrdering, FiniteSubsetsOf

(* A nonempty set of natural numbers has a least one.                      *)
LEMMA LeastNat ==
  ASSUME NEW T \in SUBSET Nat, T # {}
  PROVE  \E n \in T : \A m \in T : n <= m
<1> DEFINE F == {0..n : n \in T}
<1>1. \A A \in F : IsFiniteSet(A)
  <2> SUFFICES ASSUME NEW n \in T PROVE IsFiniteSet(0..n)
    OBVIOUS
  <2>1. n \in Int /\ 0 \in Int
    OBVIOUS
  <2> QED BY <2>1, FS_Interval
<1>2. F # {}
  OBVIOUS
<1>3. PICK A \in F : \A B \in F : B \subseteq A => B = A
  <2> HIDE DEF F
  <2> QED BY <1>1, <1>2, MinimalSet
<1>4. PICK n \in T : A = 0..n
  BY <1>3
<1>5. \A m \in T : 0..m \subseteq 0..n => 0..m = 0..n
  BY <1>3, <1>4
<1>6. ASSUME NEW m \in T, m < n PROVE FALSE
  <2>1. 0..m \subseteq 0..n /\ n \in 0..n /\ n \notin 0..m
    BY <1>6
  <2> QED BY <2>1, <1>5
<1> QED BY <1>6

LEMMA Induction ==
  ASSUME NEW T \in SUBSET Nat, 0 \in T, \A n \in T : n + 1 \in T
  PROVE  T = Nat
<1> SUFFICES ASSUME Nat \ T # {} PROVE FALSE
  OBVIOUS
<1>1. PICK n \in Nat \ T : \A m \in Nat \ T : n <= m
  BY LeastNat
<1>2. n - 1 \in T
  BY <1>1
<1> QED BY <1>1, <1>2

-----------------------------------------------------------------------------
(* Sums.                                                                   *)

(* How SumFunction adds: g[s] is the sum of f over s, one arbitrary        *)
(* element of s after the other.                                           *)
Rest(s) == s \ {CHOOSE x \in s : TRUE}
Adds(f, g, s) == IF s = {} THEN 0 ELSE f[CHOOSE x \in s : TRUE] + g[Rest(s)]

AddsOver(g, f, D) == \A s \in SUBSET D : g[s] = Adds(f, g, s)

AnyOrder(g, f, D) ==
  \A s \in SUBSET D : \A x \in s : g[s] = f[x] + g[s \ {x}]

LEMMA RestIsSmaller ==
  ASSUME NEW s, IsFiniteSet(s), s # {}
  PROVE  /\ Cardinality(s) \in Nat /\ Cardinality(s) > 0
         /\ \A x \in s : /\ IsFiniteSet(s \ {x})
                         /\ Cardinality(s \ {x}) = Cardinality(s) - 1
<1>1. Cardinality(s) \in Nat /\ Cardinality(s) # 0
  BY FS_CardinalityType, FS_EmptySet
<1> QED BY <1>1, FS_RemoveElement

(* The recursion of SumFunction has a solution over a finite domain.       *)
LEMMA SumExists ==
  ASSUME NEW D, IsFiniteSet(D), NEW f \in [D -> Nat]
  PROVE  \E g \in [SUBSET D -> Nat] : g = [s \in SUBSET D |-> Adds(f, g, s)]
<1> DEFINE Upto(g, n) == \A s \in SUBSET D : Cardinality(s) <= n => g[s] = Adds(f, g, s)
           T == {n \in Nat : \E g \in [SUBSET D -> Nat] : Upto(g, n)}
<1>1. \A s \in SUBSET D : IsFiniteSet(s) /\ Cardinality(s) \in Nat
                          /\ Cardinality(s) <= Cardinality(D)
  BY FS_Subset, FS_CardinalityType
<1>2. \A s \in SUBSET D : s # {} =>
        /\ (CHOOSE x \in s : TRUE) \in D
        /\ Rest(s) \in SUBSET D
        /\ Cardinality(Rest(s)) = Cardinality(s) - 1
  BY <1>1, RestIsSmaller DEF Rest
<1>3. 0 \in T
  <2> DEFINE g == [s \in SUBSET D |-> 0]
  <2>1. \A s \in SUBSET D : Cardinality(s) <= 0 => s = {}
    BY <1>1, RestIsSmaller
  <2>2. Upto(g, 0)
    BY <2>1 DEF Adds
  <2>3. g \in [SUBSET D -> Nat]
    OBVIOUS
  <2> QED BY <2>2, <2>3
<1>4. ASSUME NEW n \in T PROVE n + 1 \in T
  <2>1. PICK g \in [SUBSET D -> Nat] : Upto(g, n)
    OBVIOUS
  <2> DEFINE h == [s \in SUBSET D |-> Adds(f, g, s)]
  <2>2. h \in [SUBSET D -> Nat]
    BY <1>2 DEF Adds
  <2>3. ASSUME NEW s \in SUBSET D, Cardinality(s) <= n + 1 PROVE h[s] = Adds(f, h, s)
    <3>1. CASE s = {}
      BY <3>1 DEF Adds
    <3>2. CASE s # {}
      <4>1. Rest(s) \in SUBSET D /\ Cardinality(Rest(s)) <= n
        BY <1>1, <1>2, <2>3, <3>2
      <4>2. g[Rest(s)] = h[Rest(s)]
        BY <2>1, <4>1
      <4> QED BY <3>2, <4>2 DEF Adds
    <3> QED BY <3>1, <3>2
  <2> HIDE DEF h
  <2>4. n + 1 \in Nat /\ Upto(h, n + 1)
    BY <2>3
  <2> QED BY <2>2, <2>4
<1>5. T = Nat
  <2> HIDE DEF T
  <2>1. T \subseteq Nat
    BY DEF T
  <2> QED BY <1>3, <1>4, <2>1, Induction
<1>6. PICK g \in [SUBSET D -> Nat] : Upto(g, Cardinality(D))
  BY <1>1, <1>5
<1>7. \A s \in SUBSET D : g[s] = Adds(f, g, s)
  BY <1>1, <1>6
<1> QED BY <1>7

LEMMA SumIsNat ==
  ASSUME NEW D, IsFiniteSet(D), NEW f \in [D -> Nat], NEW g, AddsOver(g, f, D)
  PROVE  \A s \in SUBSET D : g[s] \in Nat
<1> DEFINE T == {n \in Nat : \A s \in SUBSET D : Cardinality(s) = n => g[s] \in Nat}
<1>1. \A s \in SUBSET D : IsFiniteSet(s) /\ Cardinality(s) \in Nat
  BY FS_Subset, FS_CardinalityType
<1>3. 0 \in T
  BY <1>1, RestIsSmaller DEF Adds, AddsOver
<1>4. ASSUME NEW n \in T PROVE n + 1 \in T
  <2>0. n \in Nat /\ n + 1 \in Nat
    OBVIOUS
  <2> SUFFICES ASSUME NEW s \in SUBSET D, Cardinality(s) = n + 1 PROVE g[s] \in Nat
    BY <2>0
  <2>1. CASE s = {}
    BY <2>1 DEF Adds, AddsOver
  <2>2. CASE s # {}
    <3>1. (CHOOSE x \in s : TRUE) \in s
      BY <2>2
    <3>2. Rest(s) \in SUBSET D /\ Cardinality(Rest(s)) = n
      <4>1. IsFiniteSet(s) /\ Cardinality(s \ {CHOOSE x \in s : TRUE}) = Cardinality(s) - 1
        BY <1>1, <2>2, <3>1, RestIsSmaller
      <4> QED BY <2>0, <3>1, <4>1 DEF Rest
    <3>3. g[Rest(s)] \in Nat /\ f[CHOOSE x \in s : TRUE] \in Nat
      BY <3>1, <3>2
    <3> QED BY <2>2, <3>3 DEF Adds, AddsOver
  <2> QED BY <2>1, <2>2
<1>5. T = Nat
  <2> HIDE DEF T
  <2>1. T \subseteq Nat
    BY DEF T
  <2> QED BY <1>3, <1>4, <2>1, Induction
<1> QED BY <1>1, <1>5

(* The order of the addition does not matter.                              *)
LEMMA SumExchange ==
  ASSUME NEW D, IsFiniteSet(D), NEW f \in [D -> Nat], NEW g, AddsOver(g, f, D)
  PROVE  AnyOrder(g, f, D)
<1> DEFINE Any(s) == \A x \in s : g[s] = f[x] + g[s \ {x}]
           T == {n \in Nat : \A s \in SUBSET D : Cardinality(s) = n => Any(s)}
<1>1. \A s \in SUBSET D : IsFiniteSet(s) /\ Cardinality(s) \in Nat
  BY FS_Subset, FS_CardinalityType
<1>0. \A s \in SUBSET D : g[s] \in Nat /\ g[s] = Adds(f, g, s)
  BY SumIsNat DEF AddsOver
<1>2. 0 \in T
  BY <1>1, RestIsSmaller
<1>3. ASSUME NEW n \in T PROVE n + 1 \in T
  <2> SUFFICES ASSUME NEW s \in SUBSET D, Cardinality(s) = n + 1, NEW x \in s
               PROVE  g[s] = f[x] + g[s \ {x}]
    OBVIOUS
  <2> DEFINE y == CHOOSE z \in s : TRUE
  <2>1. y \in s /\ g[s] = f[y] + g[s \ {y}]
    BY <1>0 DEF Adds, Rest
  <2> HIDE DEF y
  <2>2. CASE x = y
    BY <2>1, <2>2
  <2>3. CASE x # y
    <3>1. n \in Nat /\ Cardinality(s \ {y}) = n /\ Cardinality(s \ {x}) = n
      <4>1. n \in Nat /\ IsFiniteSet(s) /\ s # {}
        BY <1>1
      <4> QED BY <2>1, <4>1, RestIsSmaller
    <3>2. g[s \ {y}] = f[x] + g[(s \ {y}) \ {x}]
      BY <2>3, <3>1
    <3>3. g[s \ {x}] = f[y] + g[(s \ {x}) \ {y}]
      BY <2>1, <2>3, <3>1
    <3>4. (s \ {x}) \ {y} = (s \ {y}) \ {x}
      OBVIOUS
    <3>5. f[x] \in Nat /\ f[y] \in Nat /\ g[(s \ {y}) \ {x}] \in Nat
      BY <1>0, <2>1
    <3>6. g[s \ {x}] = f[y] + g[(s \ {y}) \ {x}]
      BY <3>3, <3>4
    <3> HIDE DEF Any, T
    <3> QED BY <2>1, <3>2, <3>5, <3>6
  <2> QED BY <2>2, <2>3
<1>4. T = Nat
  <2> HIDE DEF T
  <2>1. T \subseteq Nat
    BY DEF T
  <2> QED BY <1>2, <1>3, <2>1, Induction
<1> QED BY <1>1, <1>4 DEF AnyOrder

(* So SumFunction(f) is the value at D of a function that adds up over its *)
(* subsets, whatever the order.                                            *)
IsSumOver(g, f, D) ==
  /\ g \in [SUBSET D -> Nat]
  /\ g[{}] = 0
  /\ AnyOrder(g, f, D)

LEMMA SumAddsUp ==
  ASSUME NEW D, IsFiniteSet(D), NEW f \in [D -> Nat]
  PROVE  \E g : IsSumOver(g, f, D) /\ SumFunction(f) = g[D]
<1> DEFINE iter[s \in SUBSET D] ==
             IF s = {} THEN 0
             ELSE LET x == CHOOSE x \in s : TRUE IN f[x] + iter[s \ {x}]
<1>1. SumFunction(f) = iter[D]
  BY DEF SumFunction, SumFunctionOnSet, FoldFunctionOnSet, MapThenFoldSet
<1>2. iter = CHOOSE g : g = [s \in SUBSET D |-> Adds(f, g, s)]
  BY DEF Adds, Rest
<1> HIDE DEF iter
<1>3. iter = [s \in SUBSET D |-> Adds(f, iter, s)]
  BY <1>2, SumExists
<1>4. AddsOver(iter, f, D)
  BY <1>3 DEF AddsOver
<1>5. \A s \in SUBSET D : iter[s] \in Nat
  BY <1>4, SumIsNat
<1>6. iter \in [SUBSET D -> Nat]
  BY <1>3, <1>5
<1>7. AnyOrder(iter, f, D)
  BY <1>4, SumExchange
<1>8. iter[{}] = 0
  BY <1>4 DEF Adds, AddsOver
<1> QED BY <1>1, <1>6, <1>7, <1>8 DEF IsSumOver

(* The sums of the first values f[1], ..., f[k], none of which exceeds the *)
(* sum of them all.                                                        *)
IsPartialSums(P, f, n) ==
  /\ P \in [0..n -> Nat]
  /\ P[0] = 0
  /\ \A k \in 0..n-1 : P[k + 1] = P[k] + f[k + 1]
  /\ SumFunction(f) = P[n]
  /\ \A k \in 0..n : P[k] <= P[n]

THEOREM PartialSums ==
  ASSUME NEW n \in Nat, NEW f \in [1..n -> Nat]
  PROVE  \E P : IsPartialSums(P, f, n)
<1>1. PICK g : IsSumOver(g, f, 1..n) /\ SumFunction(f) = g[1..n]
  <2>1. 1 \in Int /\ n \in Int
    OBVIOUS
  <2>2. IsFiniteSet(1..n)
    BY <2>1, FS_Interval
  <2> QED BY <2>2, SumAddsUp
<1>2. /\ g \in [SUBSET (1..n) -> Nat]
      /\ g[{}] = 0
      /\ \A s \in SUBSET (1..n) : \A x \in s : g[s] = f[x] + g[s \ {x}]
  BY <1>1 DEF IsSumOver, AnyOrder
<1> DEFINE P == [k \in 0..n |-> g[1..k]]
<1>3. P \in [0..n -> Nat]
  <2>1. \A k \in 0..n : 1..k \in SUBSET (1..n)
    OBVIOUS
  <2> QED BY <1>2, <2>1
<1>4. P[0] = 0
  <2>1. 1..0 = {}
    OBVIOUS
  <2> QED BY <1>2, <2>1
<1>5. ASSUME NEW k \in 0..n-1 PROVE P[k + 1] = P[k] + f[k + 1]
  <2>1. 1..(k + 1) \in SUBSET (1..n) /\ k + 1 \in 1..(k + 1) /\ k + 1 \in 0..n /\ k \in 0..n
    OBVIOUS
  <2>2. (1..(k + 1)) \ {k + 1} = 1..k
    OBVIOUS
  <2>3. g[1..(k + 1)] = f[k + 1] + g[(1..(k + 1)) \ {k + 1}]
    BY <1>2, <2>1
  <2>4. P[k + 1] = f[k + 1] + P[k]
    BY <2>1, <2>2, <2>3
  <2>5. P[k] \in Nat /\ f[k + 1] \in Nat
    BY <1>3
  <2> QED BY <2>4, <2>5
<1>6. P[n] = SumFunction(f)
  BY <1>1
<1> HIDE DEF P
<1>7. \A k \in 0..n : P[k] <= P[n]
  <2> DEFINE T == {d \in Nat : \A k \in 0..n : k = n - d => P[k] <= P[n]}
  <2>1. 0 \in T
    BY <1>3
  <2>2. ASSUME NEW d \in T PROVE d + 1 \in T
    <3> SUFFICES ASSUME NEW k \in 0..n, k = n - (d + 1) PROVE P[k] <= P[n]
      OBVIOUS
    <3>1. k + 1 \in 0..n /\ k \in 0..n-1 /\ k + 1 = n - d
      OBVIOUS
    <3>2. P[k + 1] <= P[n]
      BY <3>1
    <3>3. P[k + 1] = P[k] + f[k + 1] /\ f[k + 1] \in Nat
      BY <1>5, <3>1
    <3>4. P[k] \in Nat /\ P[k + 1] \in Nat /\ P[n] \in Nat
      BY <1>3, <3>1
    <3> QED BY <3>2, <3>3, <3>4
  <2>3. T = Nat
    <3> HIDE DEF T
    <3>1. T \subseteq Nat
      BY DEF T
    <3> QED BY <2>1, <2>2, <3>1, Induction
  <2> SUFFICES ASSUME NEW k \in 0..n PROVE P[k] <= P[n]
    OBVIOUS
  <2>4. n - k \in Nat /\ k = n - (n - k)
    OBVIOUS
  <2> QED BY <2>3, <2>4
<1> QED BY <1>3, <1>4, <1>5, <1>6, <1>7 DEF IsPartialSums
=============================================================================
