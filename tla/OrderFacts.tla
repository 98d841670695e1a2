----------------------------- MODULE OrderFacts -----------------------------
(***************************************************************************)
(* Facts about finite sets of numbers that several proofs need: they have  *)
(* a least and a greatest element, a place in a total order is taken once, *)
(* and a rounded quotient lies where the fraction does.  What would be     *)
(* induction elsewhere takes a minimal counterexample here.                *)
(***************************************************************************)
EXTENDS Integers, FiniteSets, FiniteSetsExt, FiniteSetTheorems, WellFoundedInduction,
        NaturalsInduction, TLAPS

\* Of the sets that lack a first element by f, a smallest one loses it with
\* any element taken out.
LEMMA FirstByValue ==
  ASSUME NEW S, IsFiniteSet(S), S # {}, NEW f, \A x \in S : f[x] \in Int
  PROVE  \E x \in S : \A y \in S : f[x] <= f[y]
<1> DEFINE HasFirst(T) == \E x \in T : \A y \in T : f[x] <= f[y]
           Bad == {T \in SUBSET S : T # {} /\ ~HasFirst(T)}
<1> SUFFICES ASSUME ~HasFirst(S) PROVE FALSE
  OBVIOUS
<1>1. S \in Bad
  OBVIOUS
<1>2. IsWellFoundedOn(StrictSubsetOrdering(S), FiniteSubsetsOf(S))
  BY FS_StrictSubsetOrderingWellFounded
<1>3. Bad \subseteq FiniteSubsetsOf(S) /\ Bad # {}
  BY <1>1, FS_FiniteSubsetsOfFinite
<1>4. PICK T \in Bad : \A U \in Bad : <<U, T>> \notin StrictSubsetOrdering(S)
  <2> HIDE DEF Bad
  <2> QED
    BY <1>2, <1>3, WFMin, Zenon
<1>5. PICK x \in T : TRUE
  OBVIOUS
<1>6. T \ {x} # {}
  BY <1>5, <1>4
<1>7. HasFirst(T \ {x})
  <2>1. T \ {x} \in SUBSET S /\ T \in SUBSET S
    BY <1>4
  <2>2. <<T \ {x}, T>> \in StrictSubsetOrdering(S)
    BY <2>1, <1>5 DEF StrictSubsetOrdering
  <2> QED
    BY <2>1, <2>2, <1>4, <1>6
<1>8. PICK z \in T \ {x} : \A y \in T \ {x} : f[z] <= f[y]
  BY <1>7
<1>9. x \in S /\ z \in S /\ \A y \in T : y \in S
  BY <1>4, <1>5, <1>8
<1>10. CASE f[z] <= f[x]
  BY <1>4, <1>8, <1>9, <1>10
<1>11. CASE f[x] < f[z]
  <2>1. ASSUME NEW y \in T PROVE f[x] <= f[y]
    BY <1>8, <1>9, <1>11, <2>1
  <2> QED
    BY <2>1, <1>4, <1>5
<1> QED
  BY <1>9, <1>10, <1>11

LEMMA LeastOf ==
  ASSUME NEW S \in SUBSET Int, IsFiniteSet(S), S # {}
  PROVE  Min(S) \in S /\ \A y \in S : Min(S) <= y
<1> DEFINE f == [x \in S |-> x]
<1>1. \E x \in S : \A y \in S : f[x] <= f[y]
  <2>1. \A x \in S : f[x] \in Int
    OBVIOUS
  <2> HIDE DEF f
  <2> QED
    BY <2>1, FirstByValue
<1>2. \E x \in S : \A y \in S : x <= y
  BY <1>1
<1> QED
  BY <1>2 DEF Min

LEMMA GreatestOf ==
  ASSUME NEW S \in SUBSET Int, IsFiniteSet(S), S # {}
  PROVE  Max(S) \in S /\ \A y \in S : Max(S) >= y
<1> DEFINE f == [x \in S |-> -x]
<1>1. \E x \in S : \A y \in S : f[x] <= f[y]
  <2>1. \A x \in S : f[x] \in Int
    OBVIOUS
  <2> HIDE DEF f
  <2> QED
    BY <2>1, FirstByValue
<1>2. \E x \in S : \A y \in S : x >= y
  BY <1>1
<1> QED
  BY <1>2 DEF Max

\* A function has no more values than arguments.
LEMMA ValuesOf ==
  ASSUME NEW S, IsFiniteSet(S), NEW f
  PROVE  IsFiniteSet({f[x] : x \in S}) /\ Cardinality({f[x] : x \in S}) <= Cardinality(S)
<1> DEFINE g == [x \in S |-> f[x]]
           T == {f[x] : x \in S}
<1>1. g \in Surjection(S, T)
  BY DEF Surjection
<1> HIDE DEF g, T
<1>2. IsFiniteSet(T) /\ Cardinality(T) <= Cardinality(S)
  BY <1>1, FS_Surjection
<1> QED
  BY <1>2 DEF T

LEMMA ManyInSubset ==
  ASSUME NEW S, IsFiniteSet(S), NEW T, T \subseteq S
  PROVE  /\ IsFiniteSet(T) /\ Cardinality(T) \in Nat /\ Cardinality(S) \in Nat
         /\ Cardinality(T) <= Cardinality(S)
         /\ (T # S => Cardinality(T) < Cardinality(S))
<1>1. T \in SUBSET S
  OBVIOUS
<1>2. IsFiniteSet(T) /\ Cardinality(T) <= Cardinality(S) /\ (Cardinality(S) = Cardinality(T) => S = T)
  BY <1>1, FS_Subset
<1> QED
  BY <1>2, FS_CardinalityType

\* In a total order every place from 0 to n - 1 is taken: before says which
\* elements come before another.
LEMMA EveryPlaceIsTaken ==
  ASSUME NEW S, IsFiniteSet(S), NEW before,
         \A x, y \in S : x # y => (<<x, y>> \in before <=> <<y, x>> \notin before),
         \A x \in S : <<x, x>> \notin before,
         \A x, y, z \in S : <<x, y>> \in before /\ <<y, z>> \in before => <<x, z>> \in before,
         NEW ahead, \A x \in S : ahead[x] = Cardinality({y \in S : <<y, x>> \in before})
  PROVE  /\ \A k \in 0 .. Cardinality(S) - 1 : \E x \in S : ahead[x] = k
         /\ \A x \in S : ahead[x] \in 0 .. Cardinality(S) - 1
         /\ \A x, y \in S : <<x, y>> \in before => ahead[x] < ahead[y]
<1> DEFINE Ahead(x) == {y \in S : <<y, x>> \in before}
           place == [x \in S |-> Cardinality(Ahead(x))]
           n == Cardinality(S)
<1>1. n \in Nat
  BY FS_CardinalityType
<1>2. \A x \in S : Ahead(x) \subseteq S /\ Ahead(x) # S
  OBVIOUS
<1>3. \A x \in S : IsFiniteSet(Ahead(x)) /\ Cardinality(Ahead(x)) \in Nat /\ Cardinality(Ahead(x)) < n
  <2> HIDE DEF Ahead
  <2> QED
    BY <1>2, ManyInSubset
<1>4. place \in [S -> 0 .. n - 1]
  <2>1. \A x \in S : Cardinality(Ahead(x)) \in 0 .. n - 1
    <3> HIDE DEF Ahead, n
    <3> QED
      BY <1>1, <1>3
  <2>2. \A x \in S : place[x] \in 0 .. n - 1
    BY <2>1
  <2> HIDE DEF n
  <2> QED
    BY <2>2
<1>5. ASSUME NEW x \in S, NEW y \in S, <<x, y>> \in before PROVE place[x] < place[y]
  <2>1. Ahead(x) \subseteq Ahead(y) /\ x \in Ahead(y) /\ x \notin Ahead(x)
    BY <1>5
  <2>2. Cardinality(Ahead(x)) < Cardinality(Ahead(y))
    <3> HIDE DEF Ahead
    <3> QED
      BY <2>1, <1>3, ManyInSubset
  <2> QED
    BY <2>2
<1>6. \A x, y \in S : x # y => place[x] # place[y]
  <2> SUFFICES ASSUME NEW x \in S, NEW y \in S, x # y PROVE place[x] # place[y]
    OBVIOUS
  <2>1. place[x] \in Int /\ place[y] \in Int
    BY <1>1, <1>4
  <2>2. place[x] < place[y] \/ place[y] < place[x]
    BY <1>5
  <2> HIDE DEF place
  <2> QED
    BY <2>1, <2>2
<1>7. place \in Injection(S, 0 .. n - 1)
  <2> HIDE DEF place
  <2> QED
    BY <1>4, <1>6 DEF Injection, IsInjective
<1>8. IsFiniteSet(0 .. n - 1) /\ Cardinality(0 .. n - 1) = n
  <2> HIDE DEF n
  <2>1. 0 \in Int /\ n - 1 \in Int
    BY <1>1
  <2>2. /\ IsFiniteSet(0 .. n - 1)
        /\ Cardinality(0 .. n - 1) = IF 0 > n - 1 THEN 0 ELSE (n - 1) - 0 + 1
    BY <2>1, FS_Interval
  <2> QED
    BY <2>2, <1>1
<1>9. place \in Surjection(S, 0 .. n - 1)
  <2> HIDE DEF place
  <2> QED
    BY <1>7, <1>8, FS_Injection
<1>10. \A k \in 0 .. n - 1 : \E x \in S : place[x] = k
  <2> HIDE DEF place, n
  <2> QED
    BY <1>9 DEF Surjection
<1>11. \A x \in S : ahead[x] = place[x]
  OBVIOUS
<1> HIDE DEF place
<1> QED
  BY <1>4, <1>5, <1>10, <1>11

LEMMA Quotient ==
  ASSUME NEW n \in Int, NEW d \in Nat, d > 0
  PROVE  n \div d \in Int /\ d * (n \div d) <= n /\ n < d * (n \div d) + d
  OBVIOUS

\* Multiplying by a positive number keeps the order.
LEMMA Scaled ==
  ASSUME NEW a \in Int, NEW b \in Int, NEW d \in Nat, d > 0
  PROVE  a < b => d * a + d <= d * b
  OBVIOUS

\* A fraction between two integers is rounded between them.
LEMMA RoundedBetween ==
  ASSUME NEW n \in Int, NEW d \in Nat, d > 0, NEW low \in Int, NEW high \in Int,
         d * low <= n, n <= d * high
  PROVE  (2 * n + d) \div (2 * d) \in low .. high
<1> DEFINE q == (2 * n + d) \div (2 * d)
<1>0. 2 * n + d \in Int /\ 2 * d \in Nat /\ 2 * d > 0
  OBVIOUS
<1>1. q \in Int /\ (2 * d) * q <= 2 * n + d /\ 2 * n + d < (2 * d) * q + 2 * d
  BY <1>0, Quotient
<1>2. (2 * d) * q = 2 * (d * q)
  BY <1>1
<1> HIDE DEF q
<1>3. q < low => d * q + d <= d * low
  BY <1>1, Scaled
<1>4. high < q => d * high + d <= d * q
  BY <1>1, Scaled
<1>5. d * q \in Int /\ d * low \in Int /\ d * high \in Int
  BY <1>1
<1>6. low <= q /\ q <= high
  BY <1>1, <1>2, <1>3, <1>4, <1>5
<1> QED
  BY <1>1, <1>6 DEF q

\* Any numbers have a first one, however many there are.
LEMMA FirstNatural ==
  ASSUME NEW S \in SUBSET Nat, S # {}
  PROVE  \E n \in S : \A m \in S : n <= m
<1> DEFINE Less == OpToRel(<, Nat)
<1>1. IsWellFoundedOn(Less, Nat)
  BY NatLessThanWellFounded, Zenon
<1>2. \A m, n \in Nat : m < n => <<m, n>> \in Less
  BY DEF OpToRel
<1> HIDE DEF Less
<1>3. \E n \in S : \A m \in S : ~(<<m, n>> \in Less)
  BY <1>1, WFMin
<1>4. PICK n \in S : \A m \in S : ~(<<m, n>> \in Less)
  BY <1>3
<1>5. \A m \in S : m \in Nat /\ n \in Nat /\ ~(m < n)
  BY <1>2, <1>4
<1> QED
  BY <1>5

=============================================================================
