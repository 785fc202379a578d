------------------------------- MODULE Orders -------------------------------
(***************************************************************************)
(* A set of naturals has a least element, a bounded one a greatest.  A     *)
(* finite set can be put in a row by any key, and a row of its length      *)
(* without repetition leaves nothing out.                                  *)
(***************************************************************************)
EXTENDS Integers, FiniteSets, FiniteSetsExt, Functions, WellFoundedInduction,
        FiniteSetTheorems, TLAPS

\* The natural numbers are well founded.
Below == {p \in Nat \X Nat : p[1] < p[2]}

LEMMA BelowWellFounded == IsWellFoundedOn(Below, Nat)
  BY NatLessThanWellFounded DEF OpToRel, Below

LEMMA Least == ASSUME NEW S \in SUBSET Nat, S # {} PROVE \E x \in S : \A y \in S : x <= y
  <1>1. \A x, y \in Nat : <<y, x>> \in Below <=> y < x
    BY DEF Below
  <1>2. PICK x \in S : \A y \in S : <<y, x>> \notin Below
    BY BelowWellFounded, WFMin
  <1>3. ASSUME NEW y \in S PROVE x <= y
    <2>1. x \in Nat /\ y \in Nat
      OBVIOUS
    <2>2. ~(y < x)
      BY <1>1, <1>2, <2>1
    <2> QED
      BY <2>1, <2>2
  <1> QED
    BY <1>3

LEMMA Greatest ==
  ASSUME NEW n \in Nat, NEW S \in SUBSET (0..n), S # {}
  PROVE  \E x \in S : \A y \in S : y <= x
  <1>0. {k \in 0..n : n - k \in S} \in SUBSET Nat
    OBVIOUS
  <1>1. PICK T \in SUBSET Nat : T = {k \in 0..n : n - k \in S}
    BY <1>0
  <1>2. \A x \in S : n - x \in T
    <2> TAKE x \in S
    <2>1. n - x \in 0..n /\ n - (n - x) = x
      OBVIOUS
    <2> QED
      BY <1>1, <2>1
  <1>3. T # {}
    BY <1>2
  <1>4. PICK k \in T : \A y \in T : k <= y
    BY <1>3, Least
  <1>5. n - k \in S /\ k \in 0..n
    BY <1>1
  <1>6. \A y \in S : y <= n - k
    BY <1>2, <1>4, <1>5
  <1> QED
    BY <1>5, <1>6

LEMMA MinOf ==
  ASSUME NEW S \in SUBSET Nat, S # {} PROVE Min(S) \in S /\ \A y \in S : Min(S) <= y
  BY Least DEF Min

LEMMA MaxOf ==
  ASSUME NEW n \in Nat, NEW S \in SUBSET (0..n), S # {}
  PROVE  Max(S) \in S /\ \A y \in S : y <= Max(S)
  <1>1. \E x \in S : \A y \in S : x >= y
    <2>1. PICK x \in S : \A y \in S : y <= x
      BY Greatest
    <2> QED
      BY <2>1
  <1>2. Max(S) \in S /\ \A y \in S : Max(S) >= y
    BY <1>1 DEF Max
  <1> QED
    BY <1>2

-----------------------------------------------------------------------------
\* Rows put in order.

\* Some rows in the order of a key, rows with equal keys in any.
InOrder(line, at) ==
  \A i, j \in DOMAIN line : i < j => at[line[i]] <= at[line[j]] /\ line[i] # line[j]

\* A row comes before another with a later key, and among equal keys the older one.
Precedes(at, e, f) == at[e] < at[f] \/ (at[e] = at[f] /\ e <= f)
UpTo(V, at, e) == {f \in V : Precedes(at, f, e)}

\* Of two finite sets of one size, an injection leaves nothing out.
SameSize(V, T) == IsFiniteSet(V) /\ IsFiniteSet(T) /\ Cardinality(T) = Cardinality(V)
Covers(f, V, T) == \A t \in T : \E a \in V : f[a] = t

LEMMA NoneMissed ==
  ASSUME NEW V, NEW T, SameSize(V, T), NEW f \in Injection(V, T)
  PROVE  Covers(f, V, T)
  <1>1. ASSUME NEW t \in T, \A a \in V : f[a] # t PROVE FALSE
    <2>0. f \in [V -> T] /\ \A a, b \in V : a # b => f[a] # f[b]
      BY DEF Injection, IsInjective
    <2>1. f \in [V -> T \ {t}]
      BY <1>1, <2>0
    <2>2. IsFiniteSet(T \ {t}) /\ Cardinality(T \ {t}) = Cardinality(T) - 1
      BY FS_RemoveElement DEF SameSize
    <2>3. Cardinality(T \ {t}) < Cardinality(V) /\ IsFiniteSet(V)
      BY <2>2, FS_CardinalityType DEF SameSize
    <2> QED
      BY <2>0, <2>1, <2>2, <2>3, FS_PigeonHole
  <1> QED
    BY <1>1 DEF Covers

LEMMA RanksDiffer ==
  ASSUME NEW V \in SUBSET Nat, IsFiniteSet(V), NEW at \in [V -> Int], NEW a \in V, NEW b \in V,
         a # b, Precedes(at, a, b)
  PROVE  Cardinality(UpTo(V, at, a)) < Cardinality(UpTo(V, at, b))
  <1>1. PICK A, B : A = UpTo(V, at, a) /\ B = UpTo(V, at, b)
    OBVIOUS
  <1>2. A \subseteq B
    <2>1. ASSUME NEW f \in V, Precedes(at, f, a) PROVE Precedes(at, f, b)
      <3>1. /\ at[f] \in Int /\ at[a] \in Int /\ at[b] \in Int
            /\ f \in Nat /\ a \in Nat /\ b \in Nat
        OBVIOUS
      <3> QED
        BY <2>1, <3>1 DEF Precedes
    <2> QED
      BY <1>1, <2>1 DEF UpTo
  <1>3. b \in B /\ b \notin A
    BY <1>1 DEF UpTo, Precedes
  <1>4. IsFiniteSet(B)
    BY <1>1, FS_Subset DEF UpTo
  <1>5. Cardinality(A) <= Cardinality(B) /\ (Cardinality(B) = Cardinality(A) => B = A)
    BY <1>2, <1>4, FS_Subset
  <1>6. Cardinality(A) \in Nat /\ Cardinality(B) \in Nat
    BY <1>2, <1>4, FS_Subset, FS_CardinalityType
  <1> QED
    BY <1>1, <1>3, <1>5, <1>6

LEMMA OrderExists ==
  ASSUME NEW V \in SUBSET Nat, IsFiniteSet(V), NEW at \in [V -> Int]
  PROVE  \E line \in [1..Cardinality(V) -> V] : InOrder(line, at)
  <1>1. PICK n \in Nat : n = Cardinality(V)
    BY FS_CardinalityType
  <1>2. PICK rank : rank = [e \in V |-> Cardinality(UpTo(V, at, e))]
    OBVIOUS
  <1>3. ASSUME NEW e \in V PROVE rank[e] \in 1..n
    <2>1. UpTo(V, at, e) \in SUBSET V /\ e \in UpTo(V, at, e)
      BY DEF UpTo, Precedes
    <2>2. IsFiniteSet(UpTo(V, at, e)) /\ Cardinality(UpTo(V, at, e)) <= n
      BY <1>1, <2>1, FS_Subset
    <2>3. Cardinality(UpTo(V, at, e)) \in Nat /\ Cardinality(UpTo(V, at, e)) # 0
      BY <2>1, <2>2, FS_CardinalityType, FS_EmptySet
    <2> QED
      BY <1>2, <2>2, <2>3
  <1>4. \A a, b \in V : a # b /\ Precedes(at, a, b) => rank[a] < rank[b]
    BY <1>2, RanksDiffer
  <1>5. \A a, b \in V : Precedes(at, a, b) \/ Precedes(at, b, a)
    BY DEF Precedes
  <1>6. rank \in [V -> 1..n]
    BY <1>2, <1>3
  <1>7. \A a, b \in V : a # b => rank[a] # rank[b]
    BY <1>3, <1>4, <1>5
  <1>8. \A i \in 1..n : \E e \in V : rank[e] = i
    <2>1. PICK T : T = 1..n
      OBVIOUS
    <2>2. SameSize(V, T)
      BY <1>1, <2>1, FS_Interval DEF SameSize
    <2>3. rank \in Injection(V, T)
      BY <1>6, <1>7, <2>1 DEF Injection, IsInjective
    <2>4. Covers(rank, V, T)
      BY <2>2, <2>3, NoneMissed
    <2> QED
      BY <2>1, <2>4 DEF Covers
  <1>9. PICK line : line = [i \in 1..n |-> CHOOSE e \in V : rank[e] = i]
    OBVIOUS
  <1>10. ASSUME NEW i \in 1..n PROVE line[i] \in V /\ rank[line[i]] = i
    <2>1. \E e \in V : rank[e] = i
      BY <1>8
    <2> QED
      BY <1>9, <2>1
  <1>11. line \in [1..n -> V]
    BY <1>9, <1>10
  <1>12. ASSUME NEW i \in 1..n, NEW j \in 1..n, i < j
         PROVE  at[line[i]] <= at[line[j]] /\ line[i] # line[j]
    <2>1. PICK a \in V, b \in V : a = line[i] /\ b = line[j] /\ rank[a] = i /\ rank[b] = j
      BY <1>10
    <2>2. a # b /\ ~(rank[b] < rank[a])
      BY <1>12, <2>1
    <2>3. Precedes(at, a, b)
      BY <1>4, <1>5, <2>2
    <2>4. at[a] <= at[b]
      BY <2>3 DEF Precedes
    <2> QED
      BY <2>1, <2>2, <2>4
  <1> QED
    BY <1>1, <1>9, <1>11, <1>12 DEF InOrder

\* Such a row of all of them leaves none out.
LEMMA OrderCovers ==
  ASSUME NEW V, IsFiniteSet(V), NEW line \in [1..Cardinality(V) -> V], NEW at,
         InOrder(line, at), NEW e \in V
  PROVE  \E i \in DOMAIN line : line[i] = e
  <1>1. PICK n, T : n \in Nat /\ n = Cardinality(V) /\ T = 1..n
    BY FS_CardinalityType
  <1>2. line \in [T -> V] /\ DOMAIN line = T
    BY <1>1
  <1>3. SameSize(T, V)
    BY <1>1, FS_Interval DEF SameSize
  <1>4. ASSUME NEW i \in T, NEW j \in T, i # j PROVE line[i] # line[j]
    <2>1. i < j \/ j < i
      BY <1>1, <1>4
    <2> QED
      BY <1>2, <2>1 DEF InOrder
  <1>5. line \in Injection(T, V)
    BY <1>2, <1>4 DEF Injection, IsInjective
  <1>6. Covers(line, T, V)
    BY <1>3, <1>5, NoneMissed
  <1> QED
    BY <1>2, <1>6 DEF Covers
=============================================================================
