-------------------------- MODULE InductionLemmas --------------------------
(***************************************************************************)
(* Induction over the natural numbers, for a set in the place of a         *)
(* predicate, and the sums of FiniteSetsExt over finite sets.              *)
(***************************************************************************)
EXTENDS Integers, FiniteSetsExt, FiniteSetTheorems, WellFoundedInduction, TLAPS

\* Every set of natural numbers has a least one.
LEMMA LeastNatural ==
    ASSUME NEW T, T \subseteq Nat, T # {}
    PROVE  \E n \in T : \A m \in T : n <= m
<1> DEFINE R == OpToRel(<, Nat)
<1>1. IsWellFoundedOn(R, Nat)
      BY NatLessThanWellFounded
<1>2. \A x, y \in Nat : <<y, x>> \in R <=> y < x
      BY DEF OpToRel
<1> HIDE DEF R
<1>3. PICK x \in T : \A y \in T : ~(<<y, x>> \in R)
      BY <1>1, WFMin
<1>4. \A y \in T : y \in Nat
      OBVIOUS
<1>5. x \in T /\ \A y \in T : ~(y < x)
      BY <1>2, <1>3, <1>4, Zenon
<1> QED BY <1>4, <1>5

\* Induction.
LEMMA NatSetInduction ==
    ASSUME NEW S, 0 \in S, \A n \in Nat : n \in S => n + 1 \in S
    PROVE  Nat \subseteq S
<1> DEFINE T == Nat \ S
<1> SUFFICES ASSUME T # {} PROVE FALSE
    OBVIOUS
<1>1. PICK n \in T : \A m \in T : n <= m
      BY LeastNatural
<1>2. n - 1 \in Nat /\ n - 1 \notin T /\ n = (n - 1) + 1
      BY <1>1
<1> QED BY <1>1, <1>2

-----------------------------------------------------------------------------
(* Sums *)

SumOf(f, S) == MapThenSumSet(LAMBDA x : f[x], S)

First(S) == CHOOSE x \in S : TRUE

Rest(S) == S \ {First(S)}

\* h holds the sums of f over the members of D.
IsSum(h, f, D) == h = [s \in D |-> IF s = {} THEN 0 ELSE f[First(s)] + h[Rest(s)]]

Sums(h, f, S) == IsSum(h, f, SUBSET S)

\* What is left of a finite set is smaller.
LEMMA RestSmaller ==
    ASSUME NEW S, IsFiniteSet(S), S # {}
    PROVE  /\ First(S) \in S /\ Rest(S) \subseteq S /\ First(S) \notin Rest(S)
           /\ IsFiniteSet(Rest(S)) /\ Cardinality(Rest(S)) = Cardinality(S) - 1
           /\ Cardinality(S) \in Nat /\ Cardinality(Rest(S)) \in Nat
<1>1. First(S) \in S
      BY DEF First
<1> QED BY <1>1, FS_RemoveElement, FS_CardinalityType DEF Rest

\* The subsets of S with at most n members.
UpTo(n, S) == {s \in SUBSET S : Cardinality(s) <= n}

\* The sums over all subsets exist.
LEMMA SumsExist ==
    ASSUME NEW f, NEW S, IsFiniteSet(S)
    PROVE  \E h : IsSum(h, f, SUBSET S)
<1> DEFINE N == {n \in Nat : \E h : IsSum(h, f, UpTo(n, S))}
<1>1. \A s \in SUBSET S : IsFiniteSet(s) /\ Cardinality(s) \in Nat /\ Cardinality(s) <= Cardinality(S)
      BY FS_Subset, FS_CardinalityType
<1>2. 0 \in N
  <2> DEFINE h == [s \in UpTo(0, S) |-> 0]
  <2>1. \A s \in UpTo(0, S) : s = {}
        BY <1>1, FS_EmptySet DEF UpTo
  <2>2. IsSum(h, f, UpTo(0, S))
        BY <2>1 DEF IsSum
  <2> QED BY <2>2
<1>3. ASSUME NEW n \in Nat, n \in N PROVE n + 1 \in N
  <2>1. PICK h : IsSum(h, f, UpTo(n, S))
        BY <1>3
  <2> DEFINE g == [s \in UpTo(n + 1, S) |-> IF s = {} THEN 0 ELSE f[First(s)] + h[Rest(s)]]
  <2>2. ASSUME NEW s \in UpTo(n + 1, S), s # {} PROVE Rest(s) \in UpTo(n, S)
    <3>1. /\ Rest(s) \subseteq s /\ Cardinality(Rest(s)) = Cardinality(s) - 1
          /\ Cardinality(s) \in Nat /\ Cardinality(s) <= n + 1
          BY <1>1, <2>2, RestSmaller DEF UpTo
    <3> QED BY <3>1 DEF UpTo
  <2>3. \A s \in UpTo(n, S) : s \in UpTo(n + 1, S)
        BY <1>1 DEF UpTo
  <2>4. ASSUME NEW s \in UpTo(n + 1, S), s # {} PROVE g[Rest(s)] = h[Rest(s)]
        BY <2>1, <2>2, <2>3, <2>4 DEF IsSum
  <2> HIDE DEF g
  <2>5. g = [s \in UpTo(n + 1, S) |-> IF s = {} THEN 0 ELSE f[First(s)] + g[Rest(s)]]
        BY <2>4 DEF g
  <2>6. IsSum(g, f, UpTo(n + 1, S))
        BY <2>5 DEF IsSum
  <2> QED BY <2>6
<1> HIDE DEF N
<1>4. Cardinality(S) \in N
      BY <1>2, <1>3, NatSetInduction, FS_CardinalityType
<1>5. UpTo(Cardinality(S), S) = SUBSET S
      BY <1>1 DEF UpTo
<1> QED BY <1>4, <1>5 DEF N

\* They do not depend on the set whose subsets are summed.
LEMMA SumsAgree ==
    ASSUME NEW f, NEW S, IsFiniteSet(S), NEW T, T \subseteq S,
           NEW h, Sums(h, f, S), NEW g, Sums(g, f, T)
    PROVE  h[T] = g[T]
<1> DEFINE N == {n \in Nat : \A s \in UpTo(n, T) : h[s] = g[s]}
<1>1. /\ IsFiniteSet(T)
      /\ \A s \in SUBSET T : IsFiniteSet(s) /\ Cardinality(s) \in Nat
      BY FS_Subset, FS_CardinalityType
<1>2. ASSUME NEW s \in SUBSET T
      PROVE  /\ h[s] = IF s = {} THEN 0 ELSE f[First(s)] + h[Rest(s)]
             /\ g[s] = IF s = {} THEN 0 ELSE f[First(s)] + g[Rest(s)]
      BY DEF Sums, IsSum
<1>3. 0 \in N
  <2>1. \A s \in UpTo(0, T) : s = {}
        BY <1>1, FS_EmptySet DEF UpTo
  <2> QED BY <1>2, <2>1
<1>4. ASSUME NEW n \in Nat, n \in N PROVE n + 1 \in N
  <2>1. ASSUME NEW s \in UpTo(n + 1, T), s # {} PROVE Rest(s) \in UpTo(n, T)
    <3>1. /\ Rest(s) \subseteq s /\ Cardinality(Rest(s)) = Cardinality(s) - 1
          /\ Cardinality(s) \in Nat /\ Cardinality(s) <= n + 1
          BY <1>1, <2>1, RestSmaller DEF UpTo
    <3> QED BY <3>1 DEF UpTo
  <2>2. ASSUME NEW s \in UpTo(n + 1, T) PROVE h[s] = g[s]
    <3>1. s \in SUBSET T
          BY DEF UpTo
    <3> QED BY <1>2, <1>4, <2>1, <3>1
  <2> QED BY <2>2
<1> HIDE DEF N
<1>5. Cardinality(T) \in N
      BY <1>3, <1>4, NatSetInduction, <1>1
<1> QED BY <1>1, <1>5 DEF N, UpTo

\* A sum is that of the first element and of the rest.
LEMMA SumUnfolds ==
    ASSUME NEW f, NEW S, IsFiniteSet(S)
    PROVE  SumOf(f, S) = IF S = {} THEN 0 ELSE f[First(S)] + SumOf(f, Rest(S))
<1> DEFINE sums(T) == CHOOSE h : IsSum(h, f, SUBSET T)
<1>1. ASSUME NEW T, IsFiniteSet(T) PROVE IsSum(sums(T), f, SUBSET T) /\ SumOf(f, T) = sums(T)[T]
  <2>1. IsSum(sums(T), f, SUBSET T)
        BY <1>1, SumsExist
  <2>2. SumOf(f, T) = sums(T)[T]
        BY DEF SumOf, MapThenSumSet, MapThenFoldSet, IsSum, First, Rest
  <2> QED BY <2>1, <2>2
<1> HIDE DEF sums
<1>2. sums(S)[S] = IF S = {} THEN 0 ELSE f[First(S)] + sums(S)[Rest(S)]
      BY <1>1 DEF IsSum
<1>3. CASE S = {}
      BY <1>1, <1>2, <1>3
<1>4. CASE S # {}
  <2>1. IsFiniteSet(Rest(S)) /\ Rest(S) \subseteq S
        BY <1>4, RestSmaller
  <2> DEFINE r == Rest(S)
             h == sums(S)
             g == sums(r)
  <2>2. Sums(h, f, S) /\ Sums(g, f, r) /\ r \subseteq S
        BY <1>1, <2>1 DEF Sums
  <2> HIDE DEF r, h, g
  <2>3. h[r] = g[r]
        BY <2>2, SumsAgree
  <2>4. SumOf(f, r) = g[r] /\ SumOf(f, S) = h[S]
        BY <1>1, <2>1 DEF g, h, r
  <2>5. h[S] = f[First(S)] + h[r]
        BY <1>2, <1>4 DEF h, r
  <2> QED BY <1>4, <2>3, <2>4, <2>5 DEF r
<1> QED BY <1>3, <1>4

LEMMA SumEmpty == \A f : SumOf(f, {}) = 0
BY SumUnfolds, FS_EmptySet

\* A sum of integers is one.
LEMMA SumType ==
    ASSUME NEW S, IsFiniteSet(S), NEW f, \A x \in S : f[x] \in Int
    PROVE  SumOf(f, S) \in Int
<1> DEFINE N == {n \in Nat : \A s \in UpTo(n, S) : SumOf(f, s) \in Int}
<1>1. \A s \in SUBSET S : IsFiniteSet(s) /\ Cardinality(s) \in Nat
      BY FS_Subset, FS_CardinalityType
<1>2. 0 \in N
  <2>1. \A s \in UpTo(0, S) : s = {} /\ IsFiniteSet(s)
        BY <1>1, FS_EmptySet DEF UpTo
  <2>2. ASSUME NEW s \in UpTo(0, S) PROVE SumOf(f, s) \in Int
        BY <2>1, SumEmpty
  <2> QED BY <2>2
<1>3. ASSUME NEW n \in Nat, n \in N PROVE n + 1 \in N
  <2>1. ASSUME NEW s \in UpTo(n + 1, S) PROVE SumOf(f, s) \in Int
    <3>1. IsFiniteSet(s) /\ Cardinality(s) \in Nat /\ Cardinality(s) <= n + 1 /\ s \subseteq S
          BY <1>1 DEF UpTo
    <3>2. CASE s = {}
          BY <3>2, SumEmpty
    <3>3. CASE s # {}
      <4>1. SumOf(f, s) = f[First(s)] + SumOf(f, Rest(s)) /\ First(s) \in s
            BY <3>1, <3>3, SumUnfolds, RestSmaller
      <4>2. Rest(s) \in UpTo(n, S)
            BY <3>1, <3>3, RestSmaller DEF UpTo
      <4> QED BY <1>3, <3>1, <4>1, <4>2
    <3> QED BY <3>2, <3>3
  <2> QED BY <2>1
<1> HIDE DEF N
<1>4. Cardinality(S) \in N
      BY <1>2, <1>3, NatSetInduction, FS_CardinalityType
<1> QED BY <1>1, <1>4 DEF N, UpTo

\* A sum of nothings is nothing.
LEMMA SumZero ==
    ASSUME NEW S, IsFiniteSet(S), NEW f, \A x \in S : f[x] = 0
    PROVE  SumOf(f, S) = 0
<1> DEFINE N == {n \in Nat : \A s \in UpTo(n, S) : SumOf(f, s) = 0}
<1>1. \A s \in SUBSET S : IsFiniteSet(s) /\ Cardinality(s) \in Nat
      BY FS_Subset, FS_CardinalityType
<1>2. 0 \in N
  <2>1. \A s \in UpTo(0, S) : s = {} /\ IsFiniteSet(s)
        BY <1>1, FS_EmptySet DEF UpTo
  <2>2. ASSUME NEW s \in UpTo(0, S) PROVE SumOf(f, s) = 0
        BY <2>1, SumEmpty
  <2> QED BY <2>2
<1>3. ASSUME NEW n \in Nat, n \in N PROVE n + 1 \in N
  <2>1. ASSUME NEW s \in UpTo(n + 1, S) PROVE SumOf(f, s) = 0
    <3>1. IsFiniteSet(s) /\ Cardinality(s) \in Nat /\ Cardinality(s) <= n + 1 /\ s \subseteq S
          BY <1>1 DEF UpTo
    <3>2. CASE s = {}
          BY <3>2, SumEmpty
    <3>3. CASE s # {}
      <4>1. SumOf(f, s) = f[First(s)] + SumOf(f, Rest(s)) /\ First(s) \in s
            BY <3>1, <3>3, SumUnfolds, RestSmaller
      <4>2. Rest(s) \in UpTo(n, S)
            BY <3>1, <3>3, RestSmaller DEF UpTo
      <4> QED BY <1>3, <3>1, <4>1, <4>2
    <3> QED BY <3>2, <3>3
  <2> QED BY <2>1
<1> HIDE DEF N
<1>4. Cardinality(S) \in N
      BY <1>2, <1>3, NatSetInduction, FS_CardinalityType
<1> QED BY <1>1, <1>4 DEF N, UpTo

\* Where no summand is larger, except that of y by at most d, the sum is not larger than by d.
LEMMA SumStep ==
    ASSUME NEW S, IsFiniteSet(S), NEW f, NEW g, \A x \in S : f[x] \in Int /\ g[x] \in Int,
           NEW y, NEW d \in Int, \A x \in S : g[x] <= f[x] + (IF x = y THEN d ELSE 0)
    PROVE  SumOf(g, S) <= SumOf(f, S) + (IF y \in S THEN d ELSE 0)
<1> DEFINE Bounded(s) == SumOf(g, s) <= SumOf(f, s) + (IF y \in s THEN d ELSE 0)
           N == {n \in Nat : \A s \in UpTo(n, S) : Bounded(s)}
<1>1. \A s \in SUBSET S : /\ IsFiniteSet(s) /\ Cardinality(s) \in Nat
                          /\ SumOf(f, s) \in Int /\ SumOf(g, s) \in Int
      BY FS_Subset, FS_CardinalityType, SumType
<1>2. 0 \in N
  <2>1. \A s \in UpTo(0, S) : s = {} /\ IsFiniteSet(s)
        BY <1>1, FS_EmptySet DEF UpTo
  <2>2. ASSUME NEW s \in UpTo(0, S) PROVE Bounded(s)
    <3>1. s = {}
          BY <2>1
    <3>2. SumOf(f, s) = 0 /\ SumOf(g, s) = 0
          BY <3>1, SumEmpty
    <3> QED BY <3>1, <3>2
  <2> QED BY <2>2
<1>3. ASSUME NEW n \in Nat, n \in N PROVE n + 1 \in N
  <2>1. ASSUME NEW s \in UpTo(n + 1, S) PROVE Bounded(s)
    <3>1. IsFiniteSet(s) /\ Cardinality(s) \in Nat /\ Cardinality(s) <= n + 1 /\ s \subseteq S
          BY <1>1 DEF UpTo
    <3>2. CASE s = {}
          BY <3>2, SumEmpty
    <3>3. CASE s # {}
      <4> DEFINE x == First(s)
                 r == Rest(s)
      <4>1. /\ SumOf(f, s) = f[x] + SumOf(f, r) /\ SumOf(g, s) = g[x] + SumOf(g, r)
            /\ x \in s /\ x \notin r /\ r = s \ {x}
            BY <3>1, <3>3, SumUnfolds, RestSmaller DEF Rest
      <4>2. r \in UpTo(n, S) /\ r \in SUBSET S
            BY <3>1, <3>3, RestSmaller DEF UpTo
      <4>3. Bounded(r)
            BY <1>3, <4>2
      <4>4. /\ f[x] \in Int /\ g[x] \in Int /\ SumOf(f, r) \in Int /\ SumOf(g, r) \in Int
            /\ g[x] <= f[x] + (IF x = y THEN d ELSE 0)
            BY <1>1, <3>1, <4>1, <4>2
      <4> HIDE DEF x, r
      <4> QED BY <4>1, <4>3, <4>4
    <3> QED BY <3>2, <3>3
  <2> QED BY <2>1
<1> HIDE DEF N
<1>4. Cardinality(S) \in N
      BY <1>2, <1>3, NatSetInduction, FS_CardinalityType
<1> QED BY <1>1, <1>4 DEF N, UpTo

\* The order does not matter: any element may be summed last.
LEMMA SumRemove ==
    ASSUME NEW S, IsFiniteSet(S), NEW f, \A x \in S : f[x] \in Int, NEW z \in S
    PROVE  SumOf(f, S) = f[z] + SumOf(f, S \ {z})
<1> DEFINE Splits(s) == \A x \in s : SumOf(f, s) = f[x] + SumOf(f, s \ {x})
           N == {n \in Nat : \A s \in UpTo(n, S) : Splits(s)}
<1>1. \A s \in SUBSET S : IsFiniteSet(s) /\ Cardinality(s) \in Nat /\ SumOf(f, s) \in Int
      BY FS_Subset, FS_CardinalityType, SumType
<1>2. 0 \in N
  <2>1. \A s \in UpTo(0, S) : s = {}
        BY <1>1, FS_EmptySet DEF UpTo
  <2> QED BY <2>1
<1>3. ASSUME NEW n \in Nat, n \in N PROVE n + 1 \in N
  <2>1. ASSUME NEW s \in UpTo(n + 1, S), NEW x \in s
        PROVE  SumOf(f, s) = f[x] + SumOf(f, s \ {x})
    <3>1. IsFiniteSet(s) /\ Cardinality(s) \in Nat /\ Cardinality(s) <= n + 1 /\ s \subseteq S
          BY <1>1 DEF UpTo
    <3> DEFINE c == First(s)
               r == s \ {c}
               t == s \ {x}
               u == (s \ {c}) \ {x}
    <3>2. SumOf(f, s) = f[c] + SumOf(f, r) /\ c \in s
          BY <3>1, SumUnfolds, RestSmaller DEF Rest
    <3>3. CASE x = c
          BY <3>2, <3>3
    <3>4. CASE x # c
      <4>1. ASSUME NEW y \in s PROVE s \ {y} \in UpTo(n, S)
        <5>1. s \ {y} \in SUBSET S /\ Cardinality(s \ {y}) = Cardinality(s) - 1
              BY <3>1, FS_RemoveElement
        <5> QED BY <3>1, <5>1 DEF UpTo
      <4>2. Splits(r) /\ Splits(t)
            BY <1>3, <3>2, <4>1
      <4>3. SumOf(f, r) = f[x] + SumOf(f, u)
            BY <3>4, <4>2
      <4>4. t \ {c} = u /\ c \in t
            BY <3>2, <3>4
      <4>5. SumOf(f, t) = f[c] + SumOf(f, u)
            BY <4>2, <4>4
      <4>6. f[c] \in Int /\ f[x] \in Int /\ SumOf(f, u) \in Int
            BY <1>1, <3>1, <3>2
      <4> HIDE DEF c, r, t, u
      <4> QED BY <3>2, <4>3, <4>5, <4>6 DEF t
    <3> QED BY <3>3, <3>4
  <2> QED BY <2>1
<1> HIDE DEF N
<1>4. Cardinality(S) \in N
      BY <1>2, <1>3, NatSetInduction, FS_CardinalityType
<1> QED BY <1>1, <1>4 DEF N, UpTo

\* A sum of which each summand is at least -1 - h[x] in T, and at least 0 outside.
LEMMA SumFloor ==
    ASSUME NEW S, IsFiniteSet(S), NEW f, NEW h, NEW T, T \subseteq S,
           \A x \in S : f[x] \in Int /\ h[x] \in Int,
           \A x \in T : f[x] + h[x] + 1 >= 0, \A x \in S \ T : f[x] >= 0
    PROVE  SumOf(f, S) + SumOf(h, T) + Cardinality(T) >= 0
<1> DEFINE Floor(s) == SumOf(f, s) + SumOf(h, T \cap s) + Cardinality(T \cap s) >= 0
           N == {n \in Nat : \A s \in UpTo(n, S) : Floor(s)}
<1>1. \A s \in SUBSET S : /\ IsFiniteSet(s) /\ Cardinality(s) \in Nat
                          /\ SumOf(f, s) \in Int /\ SumOf(h, s) \in Int
      BY FS_Subset, FS_CardinalityType, SumType
<1>2. 0 \in N
  <2>1. \A s \in UpTo(0, S) : s = {}
        BY <1>1, FS_EmptySet DEF UpTo
  <2>2. ASSUME NEW s \in UpTo(0, S) PROVE Floor(s)
    <3>1. s = {} /\ T \cap s = {}
          BY <2>1
    <3>2. SumOf(f, s) = 0 /\ SumOf(h, T \cap s) = 0 /\ Cardinality(T \cap s) = 0
          BY <3>1, SumEmpty, FS_EmptySet
    <3> QED BY <3>2
  <2> QED BY <2>2
<1>3. ASSUME NEW n \in Nat, n \in N PROVE n + 1 \in N
  <2>1. ASSUME NEW s \in UpTo(n + 1, S) PROVE Floor(s)
    <3>1. IsFiniteSet(s) /\ Cardinality(s) \in Nat /\ Cardinality(s) <= n + 1 /\ s \subseteq S
          BY <1>1 DEF UpTo
    <3>2. CASE s = {}
      <4>1. T \cap {} = {}
            OBVIOUS
      <4> QED BY <3>2, <4>1, SumEmpty, FS_EmptySet
    <3>3. ASSUME NEW x \in s PROVE Floor(s)
      <4> DEFINE r == s \ {x}
                 a == T \cap s
                 b == T \cap r
      <4>1. r \in UpTo(n, S) /\ r \in SUBSET S
        <5>1. r \in SUBSET S /\ Cardinality(r) = Cardinality(s) - 1
              BY <3>1, FS_RemoveElement
        <5> QED BY <3>1, <5>1 DEF UpTo
      <4>2. Floor(r)
            BY <1>3, <4>1
      <4>3. SumOf(f, s) = f[x] + SumOf(f, r)
            BY <3>1, SumRemove
      <4>4. a \in SUBSET S /\ b \in SUBSET S /\ r \in SUBSET S
            BY <3>1
      <4>5. /\ f[x] \in Int /\ h[x] \in Int /\ SumOf(f, r) \in Int
            /\ SumOf(h, a) \in Int /\ SumOf(h, b) \in Int
            /\ Cardinality(a) \in Nat /\ Cardinality(b) \in Nat
            BY <1>1, <3>1, <4>4
      <4>6. CASE x \in T
        <5>1. b = a \ {x} /\ x \in a
              BY <4>6
        <5>2. Cardinality(b) = Cardinality(a) - 1
          <6>1. IsFiniteSet(a)
                BY <1>1, <4>4
          <6> HIDE DEF a, b
          <6> QED BY <5>1, <6>1, FS_RemoveElement
        <5>3. SumOf(h, a) = h[x] + SumOf(h, b)
              BY <1>1, <4>4, <5>1, SumRemove
        <5>4. f[x] + h[x] + 1 >= 0
              BY <4>6
        <5> HIDE DEF r, a, b
        <5>5. SumOf(f, s) + SumOf(h, a) + Cardinality(a) >= 0
              BY <4>2, <4>3, <4>5, <5>2, <5>3, <5>4 DEF b
        <5> QED BY <5>5 DEF a
      <4>7. CASE x \notin T
        <5>1. b = a
              BY <4>7
        <5>2. f[x] >= 0
              BY <3>1, <4>7
        <5> HIDE DEF r, a, b
        <5>3. SumOf(f, s) + SumOf(h, a) + Cardinality(a) >= 0
              BY <4>2, <4>3, <4>5, <5>1, <5>2 DEF b
        <5> QED BY <5>3 DEF a
      <4> QED BY <4>6, <4>7
    <3> QED BY <3>2, <3>3
  <2> QED BY <2>1
<1> HIDE DEF N
<1>4. Cardinality(S) \in N
      BY <1>2, <1>3, NatSetInduction, FS_CardinalityType
<1>5. S \in UpTo(Cardinality(S), S) /\ T \cap S = T
      BY <1>1 DEF UpTo
<1> QED BY <1>4, <1>5 DEF N
=============================================================================
