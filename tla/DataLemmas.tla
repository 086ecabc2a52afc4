----------------------------- MODULE DataLemmas -----------------------------
(***************************************************************************)
(* Facts about numbers, sequences and sorting that the proofs of several   *)
(* components use.  That every set of numbers has a smallest member is     *)
(* what they have instead of induction: a claim about all numbers is       *)
(* proved by looking at the smallest one for which it fails.               *)
(***************************************************************************)
EXTENDS Integers, Sequences, Sorting, TLAPS, WellFoundedInduction, FiniteSetTheorems

LEMMA NatMin == ASSUME NEW S \in SUBSET Nat, S # {} PROVE \E m \in S : \A n \in S : m <= n
<1> DEFINE R == OpToRel(<, Nat)
<1>1. IsWellFoundedOn(R, Nat)
  BY NatLessThanWellFounded, Zenon
<1>2. R = {ss \in Nat \X Nat : ss[1] < ss[2]}
  BY Zenon DEF OpToRel
<1> HIDE DEF R
<1>3. \E x \in S : \A y \in S : ~(<<y, x>> \in R)
  BY <1>1, WFMin, Zenon
<1>4. PICK x \in S : \A y \in S : ~(<<y, x>> \in R)
  BY <1>3
<1>5. \A y \in S : ~(y < x)
  <2> TAKE y \in S
  <2> QED BY <1>4, <1>2
<1> QED BY <1>5

LEMMA NatMax ==
    ASSUME NEW S \in SUBSET Nat, S # {}, NEW b \in Nat, \A n \in S : n <= b
    PROVE  \E m \in S : \A n \in S : n <= m
<1> DEFINE D == {b - n : n \in S}
<1>1. \A n \in S : b - n \in Nat
  OBVIOUS
<1>2. D \in SUBSET Nat /\ D # {}
  BY <1>1
<1>5. PICK d \in D : \A e \in D : d <= e
  BY <1>2, NatMin
<1>3. PICK m \in S : d = b - m
  OBVIOUS
<1>4. \A n \in S : b - m <= b - n
  BY <1>3, <1>5
<1> QED BY <1>4

LEMMA WiderSequence == ASSUME NEW S, NEW T, S \subseteq T, NEW s \in Seq(S) PROVE s \in Seq(T)
OBVIOUS

LEMMA SameSequence ==
    ASSUME NEW S, NEW r \in Seq(S), NEW s \in Seq(S), Len(r) = Len(s), \A j \in 1 .. Len(r) : r[j] = s[j]
    PROVE  r = s
OBVIOUS

LEMMA Appended ==
    ASSUME NEW S, NEW s \in Seq(S), NEW x \in S
    PROVE  /\ Append(s, x) \in Seq(S) /\ Len(Append(s, x)) = Len(s) + 1 /\ Len(s) \in Nat
           /\ \A j \in 1 .. Len(s) : Append(s, x)[j] = s[j]
           /\ Append(s, x)[Len(s) + 1] = x
OBVIOUS

LEMMA Concatenated ==
    ASSUME NEW S, NEW r \in Seq(S), NEW s \in Seq(S)
    PROVE  /\ r \o s \in Seq(S) /\ Len(r \o s) = Len(r) + Len(s) /\ Len(r) \in Nat /\ Len(s) \in Nat
           /\ \A j \in 1 .. Len(r) : (r \o s)[j] = r[j]
           /\ \A j \in 1 .. Len(s) : (r \o s)[Len(r) + j] = s[j]
OBVIOUS

-----------------------------------------------------------------------------
(* Sorting.                                                                *)

\* The ranks of n members are 0 to n - 1, in the order of the members.
LEMMA Ranks ==
    ASSUME NEW S \in SUBSET Nat, IsFiniteSet(S)
    PROVE  /\ Cardinality(S) \in Nat
           /\ \A n \in S : Rank(S, n) \in 0 .. Cardinality(S) - 1
           /\ \A m, n \in S : m < n <=> Rank(S, m) < Rank(S, n)
           /\ \A k \in 0 .. Cardinality(S) - 1 : \E n \in S : Rank(S, n) = k
<1> DEFINE Below(n) == {m \in S : m < n}
           c == Cardinality(S)
           r == [n \in S |-> Rank(S, n)]
<1>1. c \in Nat
  BY FS_CardinalityType
<1>2. \A n \in S : Below(n) \in SUBSET S /\ Below(n) # S /\ IsFiniteSet(Below(n)) /\ Rank(S, n) = Cardinality(Below(n))
  <2> TAKE n \in S
  <2>1. Below(n) \in SUBSET S /\ n \notin Below(n)
    OBVIOUS
  <2>2. IsFiniteSet(Below(n))
    BY <2>1, FS_Subset
  <2> QED BY <2>1, <2>2 DEF Rank
<1>3. \A n \in S : Rank(S, n) \in 0 .. c - 1
  <2> TAKE n \in S
  <2>1. Cardinality(Below(n)) \in Nat /\ Cardinality(Below(n)) < c
    BY <1>2, FS_Subset, FS_CardinalityType
  <2> QED BY <1>1, <1>2, <2>1
<1>4. \A m, n \in S : m < n => Rank(S, m) < Rank(S, n)
  <2> SUFFICES ASSUME NEW m \in S, NEW n \in S, m < n PROVE Rank(S, m) < Rank(S, n)
    OBVIOUS
  <2>1. Below(m) \in SUBSET Below(n)
    <3>1. \A x \in S : x < m => x < n
      OBVIOUS
    <3> QED BY <3>1
  <2>3. m \in Below(n) /\ m \notin Below(m)
    OBVIOUS
  <2>4. IsFiniteSet(Below(m)) /\ IsFiniteSet(Below(n))
    BY <1>2
  <2>2. Cardinality(Below(m)) < Cardinality(Below(n))
    <3> HIDE DEF Below
    <3>1. Cardinality(Below(m)) \in Nat /\ Cardinality(Below(n)) \in Nat
      BY <2>4, FS_CardinalityType
    <3> QED BY <2>1, <2>3, <2>4, <3>1, FS_Subset
  <2> QED BY <1>2, <2>2
<1>5. \A m, n \in S : m < n <=> Rank(S, m) < Rank(S, n)
  <2> SUFFICES ASSUME NEW m \in S, NEW n \in S PROVE m < n <=> Rank(S, m) < Rank(S, n)
    OBVIOUS
  <2>1. m < n \/ m = n \/ n < m
    OBVIOUS
  <2>2. Rank(S, m) \in Nat /\ Rank(S, n) \in Nat
    BY <1>1, <1>3
  <2> QED BY <1>4, <2>1, <2>2
<1>7. r \in Injection(S, 0 .. c - 1)
  <2>1. \A m, n \in S : Rank(S, m) = Rank(S, n) => m = n
    <3> SUFFICES ASSUME NEW m \in S, NEW n \in S, m # n PROVE Rank(S, m) # Rank(S, n)
      OBVIOUS
    <3>1. m < n \/ n < m
      OBVIOUS
    <3>2. Rank(S, m) \in Nat /\ Rank(S, n) \in Nat
      BY <1>1, <1>3
    <3> QED BY <1>4, <3>1, <3>2
  <2> QED BY <1>3, <2>1 DEF Injection, IsInjective
<1>9. IsFiniteSet(0 .. c - 1) /\ Cardinality(0 .. c - 1) = c
  <2>1. 0 \in Int /\ c - 1 \in Int /\ (IF 0 > c - 1 THEN 0 ELSE c - 1 - 0 + 1) = c
    BY <1>1
  <2> QED BY <2>1, FS_Interval
<1>10. r \in Surjection(S, 0 .. c - 1)
  BY <1>7, <1>9, FS_Injection
<1>11. \A k \in 0 .. c - 1 : \E n \in S : Rank(S, n) = k
  BY <1>10 DEF Surjection
<1> QED BY <1>1, <1>3, <1>5, <1>11

LEMMA SortedIs ==
    ASSUME NEW S \in SUBSET Nat, IsFiniteSet(S)
    PROVE  /\ Sorted(S) \in Seq(S) /\ Len(Sorted(S)) = Cardinality(S) /\ Cardinality(S) \in Nat
           /\ \A i, j \in 1 .. Cardinality(S) : i < j <=> Sorted(S)[i] < Sorted(S)[j]
           /\ \A n \in S : \E i \in 1 .. Cardinality(S) : Sorted(S)[i] = n
<1> DEFINE c == Cardinality(S)
           s == Sorted(S)
<1>1. c \in Nat
  BY Ranks
<1>2. \A k \in 1 .. c : \E n \in S : Rank(S, n) = k - 1
  <2> TAKE k \in 1 .. c
  <2>1. k - 1 \in 0 .. c - 1
    BY <1>1
  <2> QED BY <2>1, Ranks
<1>3. \A k \in 1 .. c : s[k] \in S /\ Rank(S, s[k]) = k - 1
  BY <1>2 DEF Sorted
<1>4. s \in Seq(S) /\ Len(s) = c
  <2>1. s = [k \in 1 .. c |-> s[k]]
    BY DEF Sorted
  <2> HIDE DEF s, c
  <2> QED BY <1>1, <1>3, <2>1
<1> HIDE DEF s, c
<1>5. \A i, j \in 1 .. c : i < j <=> s[i] < s[j]
  <2> SUFFICES ASSUME NEW i \in 1 .. c, NEW j \in 1 .. c PROVE i < j <=> s[i] < s[j]
    OBVIOUS
  <2>1. s[i] < s[j] <=> Rank(S, s[i]) < Rank(S, s[j])
    BY <1>3, Ranks
  <2> QED BY <1>1, <1>3, <2>1
<1>6. \A n \in S : \E i \in 1 .. c : s[i] = n
  <2> TAKE n \in S
  <2>1. Rank(S, n) \in 0 .. c - 1
    BY Ranks DEF c
  <2>2. Rank(S, n) + 1 \in 1 .. c /\ (Rank(S, n) + 1) - 1 = Rank(S, n)
    BY <1>1, <2>1
  <2> DEFINE i == Rank(S, n) + 1
  <2>3. i \in 1 .. c /\ s[i] \in S /\ Rank(S, s[i]) = Rank(S, n)
    BY <1>3, <2>2
  <2>4. s[i] = n
    <3> HIDE DEF i
    <3>1. Rank(S, n) \in Nat /\ s[i] \in Nat /\ n \in Nat
      <4> HIDE DEF i
      <4>1. Rank(S, n) \in Nat
        BY <1>1, <2>1
      <4> QED BY <2>3, <4>1
    <3>2. s[i] < n <=> Rank(S, s[i]) < Rank(S, n)
      BY <2>3, Ranks
    <3>3. n < s[i] <=> Rank(S, n) < Rank(S, s[i])
      BY <2>3, Ranks
    <3> QED BY <2>3, <3>1, <3>2, <3>3
  <2> QED BY <2>3, <2>4
<1> QED BY <1>1, <1>4, <1>5, <1>6 DEF s, c
=============================================================================
