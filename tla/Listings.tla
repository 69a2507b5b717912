------------------------------- MODULE Listings -------------------------------
(* A server's listing in pages: the elements of a finite set at their places, and *)
(* what a page, a range of places, holds and leaves out.                          *)
EXTENDS Integers, FiniteSets, FiniteSetTheorems, WellFoundedInduction, TLAPS

\* A page of n places from the a-th on holds no more than n elements and does
\* not reach beyond the listing; a page that is not full is the last.
LEMMA Places ==
  ASSUME NEW S, IsFiniteSet(S), NEW r \in Injection(S, 0 .. Cardinality(S) - 1),
         NEW a \in Nat, NEW n \in Nat \ {0},
         NEW P \in SUBSET S, \A t \in S : t \in P <=> r[t] \in a .. a + n - 1
  PROVE  /\ IsFiniteSet(P) /\ Cardinality(P) \in Nat /\ Cardinality(P) <= n
         /\ P # {} => a + Cardinality(P) <= Cardinality(S)
         /\ Cardinality(P) < n => \A t \in S : r[t] < a + n
<1> DEFINE N == Cardinality(S)
           m == IF a + n <= N THEN a + n - 1 ELSE N - 1
<1>1. N \in Nat
  BY FS_CardinalityType
<1> HIDE DEF N
<1>2. r \in [S -> 0 .. N - 1] /\ \A t, u \in S : r[t] = r[u] => t = u
  BY DEF Injection, IsInjective, N
<1>3. r \in Surjection(S, 0 .. N - 1)
  <2>1. IsFiniteSet(0 .. N - 1) /\ Cardinality(0 .. N - 1) = N
    BY FS_Interval, <1>1
  <2> QED
    BY <2>1, FS_Injection DEF N
<1>4. \A k \in 0 .. N - 1 : \E t \in S : r[t] = k
  BY <1>3 DEF Surjection
<1>5. IsFiniteSet(P)
  BY FS_Subset
<1>6. \/ P = {} /\ N <= a
      \/ m \in Int /\ m >= a - 1 /\ P = {t \in S : r[t] \in a .. m}
  BY <1>1, <1>2
<1>7. CASE P = {} /\ N <= a
  BY <1>7, <1>1, <1>2, FS_EmptySet
<1>8. CASE m \in Int /\ m >= a - 1 /\ P = {t \in S : r[t] \in a .. m}
  <2>1. CASE N <= a
    <3>1. P = {}
      BY <2>1, <1>1, <1>2
    <3> QED
      BY <3>1, <2>1, <1>7
  <2>2. CASE N > a
    <3>1. [t \in P |-> r[t]] \in Bijection(P, a .. m)
      <4> DEFINE b == [t \in P |-> r[t]]
      <4>1. b \in [P -> a .. m]
        BY <1>8
      <4>2. \A t, u \in P : b[t] = b[u] => t = u
        BY <1>2, <1>5
      <4>3. \A k \in a .. m : \E t \in P : b[t] = k
        <5> SUFFICES ASSUME NEW k \in a .. m PROVE \E t \in P : b[t] = k
          OBVIOUS
        <5>1. k \in 0 .. N - 1
          BY <1>1, <2>2
        <5>2. PICK t \in S : r[t] = k
          BY <5>1, <1>4
        <5> QED
          BY <5>2, <1>8
      <4> HIDE DEF b
      <4>4. b \in Injection(P, a .. m)
        BY <4>1, <4>2 DEF Injection, IsInjective
      <4>5. b \in Surjection(P, a .. m)
        BY <4>1, <4>3 DEF Surjection
      <4> QED
        BY <4>4, <4>5 DEF Bijection, b
    <3>2. Cardinality(P) = Cardinality(a .. m)
      BY <3>1, <1>5, FS_Bijection DEF ExistsBijection
    <3>3. m \in Int /\ m >= a /\ m <= a + n - 1 /\ m + 1 <= N /\ (m < a + n - 1 => N < a + n)
      BY <1>1, <2>2
    <3> HIDE DEF m
    <3>4. Cardinality(a .. m) = IF a > m THEN 0 ELSE m - a + 1
      BY <3>3, FS_Interval
    <3>5. Cardinality(P) = m - a + 1
      BY <3>2, <3>3, <3>4
    <3> DEFINE k == Cardinality(P)
    <3>6. k \in Nat /\ k <= n /\ a + k <= N /\ (k < n => N < a + n)
      BY <3>3, <3>5, <1>1
    <3>7. \A t \in S : r[t] \in Int /\ r[t] < N
      BY <1>1, <1>2
    <3> HIDE DEF k
    <3>8. k < n => \A t \in S : r[t] < a + n
      BY <3>6, <3>7, <1>1
    <3> QED
      BY <3>6, <3>8, <1>5 DEF k, N
  <2> QED
    BY <2>1, <2>2, <1>1
<1> QED
  BY <1>6, <1>7, <1>8

\* Numbers at their places: as many before each as are smaller.
LEMMA RanksArePlaces ==
  ASSUME NEW S \in SUBSET Nat, IsFiniteSet(S)
  PROVE  [e \in S |-> Cardinality({x \in S : x < e})] \in Injection(S, 0 .. Cardinality(S) - 1)
<1> DEFINE Before(e) == {x \in S : x < e}
<1>1. \A e \in S : IsFiniteSet(Before(e)) /\ Cardinality(Before(e)) \in Nat
  BY FS_Subset, FS_CardinalityType
<1>2. ASSUME NEW e \in S PROVE Cardinality(Before(e)) \in 0 .. Cardinality(S) - 1
  <2>1. Before(e) \subseteq S /\ Before(e) # S
    OBVIOUS
  <2>2. Cardinality(Before(e)) <= Cardinality(S) /\ Cardinality(Before(e)) # Cardinality(S)
    BY <2>1, FS_Subset
  <2> QED
    BY <1>1, <2>2, FS_CardinalityType
<1>3. ASSUME NEW d \in S, NEW e \in S, d < e PROVE Cardinality(Before(d)) < Cardinality(Before(e))
  <2>1. Before(d) \subseteq Before(e) /\ d \in Before(e) /\ d \notin Before(d)
    <3>1. d \in Nat /\ e \in Nat /\ \A x \in S : x \in Nat
      OBVIOUS
    <3>2. \A x \in S : x < d => x < e
      BY <1>3, <3>1
    <3>3. ~(d < d)
      BY <3>1
    <3> HIDE DEF Before
    <3>4. Before(d) = {x \in S : x < d} /\ Before(e) = {x \in S : x < e}
      BY DEF Before
    <3> QED
      BY ONLY <1>3, <3>2, <3>3, <3>4, d \in S, e \in S, Zenon
  <2>2. Cardinality(Before(d)) <= Cardinality(Before(e)) /\ Cardinality(Before(d)) # Cardinality(Before(e))
    <3>1. Before(d) # Before(e)
      BY <2>1
    <3> QED
      BY <1>1, <2>1, <3>1, FS_Subset
  <2> QED
    BY <1>1, <2>2
<1> HIDE DEF Before
<1>4. [e \in S |-> Cardinality(Before(e))] \in Injection(S, 0 .. Cardinality(S) - 1)
  <2>1. \A d, e \in S : Cardinality(Before(d)) = Cardinality(Before(e)) => d = e
    <3> SUFFICES ASSUME NEW d \in S, NEW e \in S, d # e PROVE Cardinality(Before(d)) # Cardinality(Before(e))
      OBVIOUS
    <3>1. d < e \/ e < d
      OBVIOUS
    <3> QED
      BY <1>1, <1>3, <3>1
  <2> QED
    BY <1>2, <2>1 DEF Injection, IsInjective
<1> QED
  BY <1>4 DEF Before

\* A set of numbers up to n, if it is not empty, has a greatest one.
LEMMA GreatestExists ==
  ASSUME NEW n \in Nat, NEW S \in SUBSET (0 .. n), S # {}
  PROVE  \E m \in S : \A x \in S : x <= m
<1> DEFINE T == {k \in Nat : n - k \in S}
<1>1. T \subseteq Nat /\ T # {}
  <2>1. PICK x \in S : TRUE
    OBVIOUS
  <2>2. n - x \in Nat /\ n - (n - x) = x
    OBVIOUS
  <2> QED
    BY <2>2
<1>2. PICK k \in T : \A j \in T : ~(<<j, k>> \in OpToRel(<, Nat))
  BY <1>1, NatLessThanWellFounded, WFMin, Zenon
<1>3. ASSUME NEW x \in S PROVE x <= n - k
  <2>1. n - x \in T
    <3>1. n - x \in Nat /\ n - (n - x) = x
      OBVIOUS
    <3> QED
      BY <3>1
  <2>2. ~(n - x < k)
    BY <1>2, <2>1 DEF OpToRel
  <2> QED
    BY <2>1, <2>2
<1> QED
  BY <1>2, <1>3
================================================================================
