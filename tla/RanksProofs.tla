----------------------------- MODULE RanksProofs -----------------------------
(***************************************************************************)
(* Ranks in finite sets of numbers, and the principle of the least number, *)
(* from which what is proved by induction elsewhere is proved here.        *)
(***************************************************************************)
EXTENDS Ranks, FiniteSetTheorems, TLAPS

(* Every non-empty set of numbers has a least one: the intervals from 0 to *)
(* its members are finite sets, and strict inclusion among these is well   *)
(* founded.                                                                *)
THEOREM LeastNumber ==
    ASSUME NEW T \in SUBSET Nat, T # {}
    PROVE  \E n \in T : \A m \in T : n <= m
<1> DEFINE U == {0 .. n : n \in T}
<1>1. U \subseteq FiniteSubsetsOf(Nat)
  <2> SUFFICES ASSUME NEW n \in T PROVE 0 .. n \in FiniteSubsetsOf(Nat)
    OBVIOUS
  <2> QED BY FS_Interval DEF FiniteSubsetsOf
<1>2. U # {}
  OBVIOUS
<1>3. PICK x \in U : \A y \in U : ~(<<y, x>> \in StrictSubsetOrdering(Nat))
  <2> HIDE DEF U
  <2> QED BY <1>1, <1>2, WFMin, FS_StrictSubsetOrderingWellFounded
<1>4. PICK n \in T : x = 0 .. n
  OBVIOUS
<1>5. ASSUME NEW m \in T, m < n PROVE FALSE
  <2>1. /\ 0 .. m \in SUBSET Nat /\ 0 .. n \in SUBSET Nat
        /\ 0 .. m \subseteq 0 .. n /\ n \in 0 .. n /\ n \notin 0 .. m
    BY <1>5
  <2>2. <<0 .. m, x>> \in StrictSubsetOrdering(Nat)
    BY <1>4, <2>1 DEF StrictSubsetOrdering
  <2> QED BY <2>2, <1>3
<1> QED BY <1>5

(* Up to a member of the set, at least one member is counted, and for a    *)
(* larger one more.                                                        *)
THEOREM RankProperties ==
    ASSUME NEW S \in SUBSET Nat, IsFiniteSet(S)
    PROVE  /\ Cardinality(S) \in Nat
           /\ \A n \in S : Rank(S, n) \in 1 .. Cardinality(S)
           /\ \A m, n \in S : m < n => Rank(S, m) < Rank(S, n)
<1> DEFINE Upto(n) == {k \in S : k <= n}
<1>1. \A n \in S : /\ IsFiniteSet(Upto(n)) /\ Cardinality(Upto(n)) \in Nat
                   /\ Cardinality(Upto(n)) <= Cardinality(S)
  BY FS_Subset, FS_CardinalityType
<1>2. Cardinality(S) \in Nat
  BY FS_CardinalityType
<1>3. ASSUME NEW n \in S PROVE Rank(S, n) \in 1 .. Cardinality(S)
  <2>1. Upto(n) # {}
    OBVIOUS
  <2>2. Cardinality(Upto(n)) # 0
    BY <1>1, <2>1, FS_EmptySet
  <2> QED BY <1>1, <1>2, <2>2 DEF Rank
<1>4. ASSUME NEW m \in S, NEW n \in S, m < n PROVE Rank(S, m) < Rank(S, n)
  <2>1. Upto(m) \in SUBSET Upto(n) /\ Upto(m) # Upto(n)
    <3>1. m \in Nat /\ n \in Nat /\ \A k \in S : k \in Nat
      OBVIOUS
    <3>2. \A k \in S : k <= m => k <= n
      BY <1>4, <3>1
    <3>3. n \in Upto(n) /\ n \notin Upto(m)
      BY <1>4, <3>1
    <3> QED BY <3>2, <3>3
  <2>2. Cardinality(Upto(m)) <= Cardinality(Upto(n)) /\ Cardinality(Upto(m)) # Cardinality(Upto(n))
    BY <1>1, <2>1, FS_Subset
  <2> QED BY <1>1, <2>2 DEF Rank
<1> QED BY <1>2, <1>3, <1>4

(* No rank is left out: as many ranks as members, and no two alike.        *)
THEOREM RankOnto ==
    ASSUME NEW S \in SUBSET Nat, IsFiniteSet(S), NEW i \in 1 .. Cardinality(S)
    PROVE  \E n \in S : Rank(S, n) = i
<1> DEFINE c == Cardinality(S)
           f == [n \in S |-> Rank(S, n)]
<1>1. c \in Nat
  BY FS_CardinalityType
<1>2. f \in Injection(S, 1 .. c)
  <2>1. f \in [S -> 1 .. c]
    BY RankProperties
  <2>2. \A m, n \in S : f[m] = f[n] => m = n
    <3> SUFFICES ASSUME NEW m \in S, NEW n \in S, Rank(S, m) = Rank(S, n) PROVE m = n
      OBVIOUS
    <3> QED BY RankProperties
  <2> QED BY <2>1, <2>2 DEF Injection, IsInjective
<1>3. IsFiniteSet(1 .. c) /\ Cardinality(1 .. c) = c
  BY <1>1, FS_Interval
<1>4. f \in Surjection(S, 1 .. c)
  <2> HIDE DEF f
  <2> QED BY <1>2, <1>3, FS_Injection
<1> QED BY <1>4 DEF Surjection

THEOREM NthProperties ==
    ASSUME NEW S \in SUBSET Nat, IsFiniteSet(S)
    PROVE  /\ \A i \in 1 .. Cardinality(S) : Nth(S, i) \in S /\ Rank(S, Nth(S, i)) = i
           /\ \A n \in S : Nth(S, Rank(S, n)) = n
           /\ \A i, j \in 1 .. Cardinality(S) : i < j => Nth(S, i) < Nth(S, j)
<1>1. \A i \in 1 .. Cardinality(S) : Nth(S, i) \in S /\ Rank(S, Nth(S, i)) = i
  BY RankOnto DEF Nth
<1>2. ASSUME NEW n \in S PROVE Nth(S, Rank(S, n)) = n
  <2>1. /\ Rank(S, n) \in 1 .. Cardinality(S)
        /\ \A m \in S : m # n => Rank(S, m) # Rank(S, n)
    BY RankProperties
  <2> QED BY <1>1, <2>1
<1>3. ASSUME NEW i \in 1 .. Cardinality(S), NEW j \in 1 .. Cardinality(S), i < j
      PROVE  Nth(S, i) < Nth(S, j)
  <2>1. /\ Nth(S, i) \in S /\ Nth(S, j) \in S
        /\ Rank(S, Nth(S, i)) < Rank(S, Nth(S, j))
    BY <1>1, <1>3
  <2>2. CASE Nth(S, j) < Nth(S, i)
    <3>1. Rank(S, Nth(S, j)) < Rank(S, Nth(S, i))
      BY <2>1, <2>2, RankProperties
    <3> QED BY <1>1, <1>3, <3>1
  <2>3. CASE Nth(S, j) = Nth(S, i)
    BY <1>1, <1>3, <2>3
  <2>4. Nth(S, i) \in Nat /\ Nth(S, j) \in Nat
    BY <2>1
  <2> QED BY <2>2, <2>3, <2>4
<1> QED BY <1>1, <1>2, <1>3

(* Two sets of numbers that a growing map takes onto each other have the   *)
(* same ranks.                                                             *)
THEOREM RanksMatch ==
    ASSUME NEW S \in SUBSET Nat, IsFiniteSet(S), NEW T \in SUBSET Nat, IsFiniteSet(T),
           NEW f \in [S -> T],
           \A m, n \in S : m < n => f[m] < f[n],
           \A t \in T : \E n \in S : f[n] = t
    PROVE  /\ Cardinality(S) = Cardinality(T)
           /\ \A i \in 1 .. Cardinality(S) : Nth(T, i) = f[Nth(S, i)]
<1>1. \A m, n \in S : (m <= n <=> f[m] <= f[n]) /\ (f[m] = f[n] => m = n)
  <2> SUFFICES ASSUME NEW m \in S, NEW n \in S
               PROVE  (m <= n <=> f[m] <= f[n]) /\ (f[m] = f[n] => m = n)
    OBVIOUS
  <2>1. m \in Nat /\ n \in Nat /\ f[m] \in Nat /\ f[n] \in Nat
    OBVIOUS
  <2>2. CASE m < n
    BY <2>1, <2>2
  <2>3. CASE n < m
    BY <2>1, <2>3
  <2> QED BY <2>1, <2>2, <2>3
<1>2. ASSUME NEW U \in SUBSET S, NEW V \in SUBSET T,
             \A n \in U : f[n] \in V, \A t \in V : \E n \in U : f[n] = t
      PROVE  Cardinality(U) = Cardinality(V)
  <2> DEFINE g == [n \in U |-> f[n]]
  <2>1. g \in [U -> V] /\ (\A m, n \in U : g[m] = g[n] => m = n) /\ \A t \in V : \E n \in U : g[n] = t
    BY <1>1, <1>2
  <2> HIDE DEF g
  <2>2. g \in Bijection(U, V)
    BY <2>1 DEF Bijection, Injection, Surjection, IsInjective
  <2>3. IsFiniteSet(U)
    BY FS_Subset
  <2> QED BY <2>2, <2>3, FS_Bijection DEF ExistsBijection
<1>3. Cardinality(S) = Cardinality(T)
  BY <1>2
<1>4. ASSUME NEW n \in S PROVE Rank(T, f[n]) = Rank(S, n)
  <2> DEFINE U == {m \in S : m <= n}
             V == {t \in T : t <= f[n]}
  <2>1. \A m \in U : f[m] \in V
    BY <1>1
  <2>2. ASSUME NEW t \in V PROVE \E m \in U : f[m] = t
    <3>1. PICK m \in S : f[m] = t
      OBVIOUS
    <3> QED BY <1>1, <3>1
  <2>3. Cardinality(U) = Cardinality(V)
    <3>1. U \in SUBSET S /\ V \in SUBSET T
      OBVIOUS
    <3> HIDE DEF U, V
    <3> QED BY <1>2, <2>1, <2>2, <3>1
  <2> QED BY <2>3 DEF Rank
<1>5. ASSUME NEW i \in 1 .. Cardinality(S) PROVE Nth(T, i) = f[Nth(S, i)]
  <2>1. Nth(S, i) \in S /\ Rank(S, Nth(S, i)) = i
    BY NthProperties
  <2>2. f[Nth(S, i)] \in T /\ Rank(T, f[Nth(S, i)]) = i
    BY <1>4, <2>1
  <2>3. \A t \in T : Nth(T, Rank(T, t)) = t
    BY NthProperties
  <2> QED BY <2>2, <2>3
<1> QED BY <1>3, <1>5

=============================================================================
