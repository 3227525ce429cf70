---------------------------- MODULE FilterProofs -----------------------------
(***************************************************************************)
(* What Among keeps.                                                       *)
(***************************************************************************)
EXTENDS Filters, FiniteSetTheorems, SequenceTheorems, TLAPS

LEMMA KeptFinite ==
  ASSUME NEW S, NEW s \in Seq(S), NEW T
  PROVE  /\ Kept(s, T) \subseteq 1 .. Len(s)
         /\ IsFiniteSet(Kept(s, T))
         /\ Cardinality(Kept(s, T)) \in Nat
  <1>1. IsFiniteSet(1 .. Len(s)) /\ Kept(s, T) \in SUBSET (1 .. Len(s))
    BY FS_Interval DEF Kept
  <1>2. IsFiniteSet(Kept(s, T))
    BY <1>1, FS_Subset
  <1>3. QED
    BY <1>1, <1>2, FS_CardinalityType

\* Two kept positions have two ranks, in the same order.
LEMMA RankGrows ==
  ASSUME NEW S, NEW s \in Seq(S), NEW T, NEW i \in Kept(s, T), NEW j \in Kept(s, T), i < j
  PROVE  Rank(s, T, i) < Rank(s, T, j)
  <1> DEFINE Upto(n) == {m \in Kept(s, T) : m <= n}
  <1>1. Upto(j) \in SUBSET Kept(s, T) /\ IsFiniteSet(Upto(j))
    BY KeptFinite, FS_Subset
  <1>2. Upto(i) \in SUBSET Upto(j) /\ Upto(i) # Upto(j)
    BY KeptFinite
  <1>3. Cardinality(Upto(i)) < Cardinality(Upto(j))
    BY <1>1, <1>2, FS_Subset, FS_CardinalityType
  <1>4. QED
    BY <1>3 DEF Rank

\* Every number up to how many are kept is the rank of exactly one position.
LEMMA RankOnto ==
  ASSUME NEW S, NEW s \in Seq(S), NEW T
  PROVE  /\ \A i \in Kept(s, T) : Rank(s, T, i) \in 1 .. Cardinality(Kept(s, T))
         /\ \A n \in 1 .. Cardinality(Kept(s, T)) : \E i \in Kept(s, T) : Rank(s, T, i) = n
  <1> DEFINE K == Kept(s, T)
             f == [i \in K |-> Rank(s, T, i)]
             N == 1 .. Cardinality(K)
  <1>1. IsFiniteSet(K) /\ K \subseteq Nat /\ Cardinality(K) \in Nat
    BY KeptFinite
  <1>2. ASSUME NEW i \in K PROVE Rank(s, T, i) \in N
    <2>1. {m \in K : m <= i} \in SUBSET K
      OBVIOUS
    <2>2. IsFiniteSet({m \in K : m <= i}) /\ Rank(s, T, i) <= Cardinality(K)
      BY <1>1, <2>1, FS_Subset DEF Rank
    <2>3. {m \in K : m <= i} # {}
      BY <1>1
    <2>4. Rank(s, T, i) \in Nat /\ Rank(s, T, i) # 0
      BY <2>2, <2>3, FS_CardinalityType, FS_EmptySet DEF Rank
    <2>5. QED
      BY <1>1, <2>2, <2>4
  <1>3. \A i, j \in K : i # j => Rank(s, T, i) # Rank(s, T, j)
    <2> SUFFICES ASSUME NEW i \in K, NEW j \in K, i < j
                 PROVE  Rank(s, T, i) # Rank(s, T, j)
      BY <1>1
    <2>1. QED
      BY <1>1, <1>2, RankGrows
  <1>4. f \in Injection(K, N)
    BY <1>2, <1>3 DEF Injection, IsInjective
  <1>5. IsFiniteSet(N) /\ Cardinality(N) = Cardinality(K)
    BY <1>1, FS_Interval
  <1>6. f \in Surjection(K, N)
    <2>1. IsFiniteSet(N) /\ Cardinality(K) = Cardinality(N)
      BY <1>1, <1>5
    <2> HIDE DEF f, K, N
    <2>2. QED
      BY <1>4, <2>1, FS_Injection
  <1>7. QED
    BY <1>2, <1>6 DEF Surjection

\* Among keeps every element of T and nothing else, and doubles nothing.
LEMMA AmongProperties ==
  ASSUME NEW S, NEW s \in Seq(S), NEW T
  PROVE  /\ Among(s, T) \in Seq(S \cap T)
         /\ \A n \in DOMAIN Among(s, T) : \E i \in DOMAIN s : Among(s, T)[n] = s[i] /\ s[i] \in T
         /\ \A i \in DOMAIN s : s[i] \in T => \E n \in DOMAIN Among(s, T) : Among(s, T)[n] = s[i]
         /\ (\A i, j \in DOMAIN s : s[i] = s[j] => i = j) =>
              \A m, n \in DOMAIN Among(s, T) : Among(s, T)[m] = Among(s, T)[n] => m = n
  <1> DEFINE K == Kept(s, T)
             at(n) == CHOOSE i \in K : Rank(s, T, i) = n
             a == Among(s, T)
             N == 1 .. Cardinality(K)
  <1>1. K \subseteq DOMAIN s /\ Cardinality(K) \in Nat /\ \A i \in K : s[i] \in S \cap T
    <2>1. Cardinality(K) \in Nat
      BY KeptFinite
    <2>2. \A i \in K : i \in DOMAIN s /\ s[i] \in S \cap T
      BY DEF Kept
    <2> HIDE DEF K
    <2>3. QED
      BY <2>1, <2>2
  <1>2. \A n \in N : at(n) \in K /\ Rank(s, T, at(n)) = n
    BY RankOnto
  <1>3. DOMAIN a = N /\ \A n \in N : a[n] = s[at(n)]
    BY DEF Among
  <1>4. \A i \in K : Rank(s, T, i) \in N
    BY RankOnto
  <1>5. \A i, j \in K : Rank(s, T, i) = Rank(s, T, j) => i = j
    <2> SUFFICES ASSUME NEW i \in K, NEW j \in K, i < j
                 PROVE  Rank(s, T, i) # Rank(s, T, j)
      BY KeptFinite
    <2>1. QED
      BY <1>1, <1>4, RankGrows
  <1>6. \A i \in K : at(Rank(s, T, i)) = i
    BY <1>2, <1>4, <1>5
  <1>7. a \in Seq(S \cap T)
    <2>1. a = [n \in N |-> a[n]]
      BY <1>3 DEF Among
    <2>2. \A n \in N : a[n] \in S \cap T
      BY <1>1, <1>2, <1>3
    <2> HIDE DEF a
    <2>3. QED
      BY <1>1, <2>1, <2>2, IsASeq
  <1>8. \A i \in DOMAIN s : s[i] \in T => i \in K
    BY DEF Kept
  <1> HIDE DEF a, at, K
  <1>9. \A n \in DOMAIN a : \E i \in DOMAIN s : a[n] = s[i] /\ s[i] \in T
    BY <1>1, <1>2, <1>3
  <1>10. \A i \in DOMAIN s : s[i] \in T => \E n \in DOMAIN a : a[n] = s[i]
    BY <1>3, <1>4, <1>6, <1>8
  <1>11. ASSUME \A i, j \in DOMAIN s : s[i] = s[j] => i = j,
                NEW m \in DOMAIN a, NEW n \in DOMAIN a, a[m] = a[n]
         PROVE  m = n
    BY <1>1, <1>2, <1>3, <1>11
  <1>12. QED
    BY <1>7, <1>9, <1>10, <1>11 DEF a

\* ... in the order they had.
LEMMA AmongOrdered ==
  ASSUME NEW S, NEW s \in Seq(S), NEW T, NEW m \in DOMAIN Among(s, T), NEW n \in DOMAIN Among(s, T),
         m < n
  PROVE  \E i, j \in DOMAIN s : i < j /\ Among(s, T)[m] = s[i] /\ Among(s, T)[n] = s[j]
  <1> DEFINE K == Kept(s, T)
             N == 1 .. Cardinality(K)
             at(x) == CHOOSE i \in K : Rank(s, T, i) = x
  <1>1. K \subseteq 1 .. Len(s) /\ K \subseteq DOMAIN s /\ Cardinality(K) \in Nat
    BY KeptFinite DEF Kept
  <1>2. m \in N /\ n \in N /\ Among(s, T)[m] = s[at(m)] /\ Among(s, T)[n] = s[at(n)]
    BY DEF Among
  <1>3. \A x \in N : at(x) \in K /\ Rank(s, T, at(x)) = x
    BY RankOnto
  <1> HIDE DEF K, at
  <1>4. at(m) \in K /\ at(n) \in K /\ Rank(s, T, at(m)) = m /\ Rank(s, T, at(n)) = n
    BY <1>2, <1>3
  <1>5. ~(at(n) < at(m))
    <2>1. ASSUME at(n) < at(m) PROVE n < m
      BY <1>4, <2>1, RankGrows DEF K
    <2>2. QED
      BY <1>1, <1>2, <2>1
  <1>6. at(m) # at(n)
    BY <1>1, <1>2, <1>4
  <1>7. at(m) \in Int /\ at(n) \in Int
    BY <1>1, <1>4
  <1>8. at(m) < at(n)
    BY <1>5, <1>6, <1>7
  <1>9. QED
    BY <1>1, <1>2, <1>4, <1>8
=============================================================================
