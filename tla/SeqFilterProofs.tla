---------------------------- MODULE SeqFilterProofs ----------------------------
(***************************************************************************)
(* Facts about FilterSeq, for every sequence and set: the count of kept    *)
(* elements grows by one exactly at a kept element, every kept element has *)
(* a position and only one, the filter of a sequence holds elements of K   *)
(* taken from the sequence, and the filter of a concatenation is the       *)
(* concatenation of the filters.  The arguments that would be inductions   *)
(* on a position take its least counterexample (NatMin).                  *)
(***************************************************************************)
EXTENDS SeqFilter, FiniteSetTheorems, SequenceTheorems, WellFoundedInduction,
        TLAPS

\* Every non-empty set of naturals has a least element.
LEMMA NatMin ==
    ASSUME NEW T \in SUBSET Nat, T # {}
    PROVE  \E m \in T : \A k \in T : m <= k
<1>1. PICK x \in T : \A y \in T : ~(<<y, x>> \in OpToRel(<, Nat))
  BY NatLessThanWellFounded, WFMin
<1>2. \A k \in T : ~(k < x)
  BY <1>1, Zenon DEF OpToRel
<1>. QED
  BY <1>2
-----------------------------------------------------------------------------
(* The count of kept elements.                                             *)

\* The kept positions are a finite set, and their count a natural.
LEMMA KeptCountType ==
    ASSUME NEW s, NEW K, NEW j \in Int
    PROVE  /\ IsFiniteSet(KeptUpTo(s, K, j))
           /\ KeptCount(s, K, j) \in Nat
<1>1. IsFiniteSet(1..j)
  BY FS_Interval
<1>2. KeptUpTo(s, K, j) \subseteq 1..j
  BY DEF KeptUpTo
<1>3. IsFiniteSet(KeptUpTo(s, K, j))
  BY <1>1, <1>2, FS_Subset
<1>. QED
  BY <1>3, FS_CardinalityType DEF KeptCount

\* Nothing is kept before the first element.
LEMMA KeptCountZero ==
    ASSUME NEW s, NEW K
    PROVE  KeptCount(s, K, 0) = 0
<1>1. KeptUpTo(s, K, 0) = {}
  BY DEF KeptUpTo
<1>. QED
  BY <1>1, FS_EmptySet DEF KeptCount

\* The count grows by one at a kept element and stays put otherwise.
LEMMA KeptCountStep ==
    ASSUME NEW s, NEW K, NEW j \in Nat, j >= 1
    PROVE  KeptCount(s, K, j) =
               KeptCount(s, K, j - 1) + (IF s[j] \in K THEN 1 ELSE 0)
<1>1. IsFiniteSet(KeptUpTo(s, K, j - 1))
  BY KeptCountType
<1>2. j \notin KeptUpTo(s, K, j - 1)
  BY DEF KeptUpTo
<1>3. CASE s[j] \in K
  <2>1. KeptUpTo(s, K, j) = KeptUpTo(s, K, j - 1) \cup {j}
    BY <1>3 DEF KeptUpTo
  <2>. QED
    BY <1>1, <1>2, <1>3, <2>1, FS_AddElement DEF KeptCount
<1>4. CASE s[j] \notin K
  <2>1. KeptUpTo(s, K, j) = KeptUpTo(s, K, j - 1)
    BY <1>4 DEF KeptUpTo
  <2>. QED
    BY <1>4, <2>1, KeptCountType DEF KeptCount
<1>. QED
  BY <1>3, <1>4

\* The count never decreases along the sequence.
LEMMA KeptCountMono ==
    ASSUME NEW s, NEW K, NEW i \in Int, NEW j \in Int, i <= j
    PROVE  KeptCount(s, K, i) <= KeptCount(s, K, j)
<1>1. KeptUpTo(s, K, i) \subseteq KeptUpTo(s, K, j)
  BY DEF KeptUpTo
<1>. QED
  BY <1>1, KeptCountType, FS_Subset DEF KeptCount
\* A kept element raises the count above every earlier position's.
LEMMA KeptCountStrict ==
    ASSUME NEW s, NEW K, NEW i \in Nat, NEW j \in Nat, i < j, s[j] \in K
    PROVE  KeptCount(s, K, i) < KeptCount(s, K, j)
<1>1. KeptCount(s, K, j) = KeptCount(s, K, j - 1) + 1
  BY KeptCountStep
<1>2. KeptCount(s, K, i) <= KeptCount(s, K, j - 1)
  BY KeptCountMono
<1>. QED
  BY <1>1, <1>2, KeptCountType
-----------------------------------------------------------------------------
(* The position of the k-th kept element.                                  *)

\* For every k up to the count, some kept element is the k-th: the first
\* position at which the count reaches k.
LEMMA KeptPosExists ==
    ASSUME NEW S, NEW s \in Seq(S), NEW K,
           NEW k \in 1..KeptCount(s, K, Len(s))
    PROVE  \E i \in 1..Len(s) : s[i] \in K /\ KeptCount(s, K, i) = k
<1> DEFINE T == {j \in 0..Len(s) : KeptCount(s, K, j) >= k}
<1>1. T \in SUBSET Nat /\ T # {}
  <2>1. Len(s) \in T
    OBVIOUS
  <2>. QED
    BY <2>1
<1>2. PICK m \in T : \A j \in T : m <= j
  BY <1>1, NatMin
<1>3. m # 0
  BY <1>2, KeptCountZero
<1>4. KeptCount(s, K, m - 1) < k
  <2>1. m - 1 \in 0..Len(s) /\ m - 1 \notin T
    BY <1>2, <1>3
  <2>. QED
    BY <2>1, KeptCountType
<1>5. KeptCount(s, K, m) =
          KeptCount(s, K, m - 1) + (IF s[m] \in K THEN 1 ELSE 0)
  BY <1>2, <1>3, KeptCountStep
<1>6. KeptCount(s, K, m) >= k
  BY <1>2
<1>7. s[m] \in K /\ KeptCount(s, K, m) = k
  BY <1>4, <1>5, <1>6, KeptCountType
<1>. QED
  BY <1>2, <1>3, <1>7

\* Two kept elements with the same count are the same element.
LEMMA KeptPosUnique ==
    ASSUME NEW s, NEW K, NEW i \in Nat, NEW j \in Nat, s[i] \in K, s[j] \in K,
           KeptCount(s, K, i) = KeptCount(s, K, j)
    PROVE  i = j
<1>1. ~(i < j)
  <2>. SUFFICES ASSUME i < j PROVE FALSE
    OBVIOUS
  <2>1. KeptCount(s, K, i) < KeptCount(s, K, j)
    BY KeptCountStrict
  <2>. QED
    BY <2>1, KeptCountType
<1>2. ~(j < i)
  <2>. SUFFICES ASSUME j < i PROVE FALSE
    OBVIOUS
  <2>1. KeptCount(s, K, j) < KeptCount(s, K, i)
    BY KeptCountStrict
  <2>. QED
    BY <2>1, KeptCountType
<1>. QED
  BY <1>1, <1>2

\* KeptAt names the k-th kept element.
LEMMA KeptAtSpec ==
    ASSUME NEW S, NEW s \in Seq(S), NEW K,
           NEW k \in 1..KeptCount(s, K, Len(s))
    PROVE  /\ KeptAt(s, K, k) \in 1..Len(s)
           /\ s[KeptAt(s, K, k)] \in K
           /\ KeptCount(s, K, KeptAt(s, K, k)) = k
BY KeptPosExists DEF KeptAt

\* ... and it is the only kept element whose count is k.
LEMMA KeptAtIs ==
    ASSUME NEW S, NEW s \in Seq(S), NEW K,
           NEW i \in 1..Len(s), s[i] \in K
    PROVE  KeptAt(s, K, KeptCount(s, K, i)) = i
<1> DEFINE k == KeptCount(s, K, i)
<1>1. k \in 1..KeptCount(s, K, Len(s))
  <2>1. KeptCount(s, K, 0) < k
    BY KeptCountStrict
  <2>2. k <= KeptCount(s, K, Len(s))
    BY KeptCountMono
  <2>. QED
    BY <2>1, <2>2, KeptCountZero, KeptCountType
<1>2. KeptAt(s, K, k) \in 1..Len(s) /\ s[KeptAt(s, K, k)] \in K
      /\ KeptCount(s, K, KeptAt(s, K, k)) = k
  BY <1>1, KeptAtSpec
<1>. QED
  BY <1>2, KeptPosUnique
-----------------------------------------------------------------------------
(* The filter.                                                             *)

\* The filter is a sequence of elements of K, each taken from s.
LEMMA FilterSeqType ==
    ASSUME NEW S, NEW s \in Seq(S), NEW K
    PROVE  /\ FilterSeq(s, K) \in Seq(K)
           /\ Len(FilterSeq(s, K)) = KeptCount(s, K, Len(s))
           /\ \A k \in 1..Len(FilterSeq(s, K)) :
                  /\ FilterSeq(s, K)[k] \in K
                  /\ \E i \in 1..Len(s) : FilterSeq(s, K)[k] = s[i]
<1>1. KeptCount(s, K, Len(s)) \in Nat
  BY KeptCountType
<1>2. \A k \in 1..KeptCount(s, K, Len(s)) :
          KeptAt(s, K, k) \in 1..Len(s) /\ s[KeptAt(s, K, k)] \in K
  BY KeptAtSpec
<1>. QED
  BY <1>1, <1>2 DEF FilterSeq
-----------------------------------------------------------------------------
(* Concatenation.                                                          *)

\* Over the first sequence of a concatenation the count is the first's.
LEMMA KeptCountConcatLeft ==
    ASSUME NEW S, NEW s \in Seq(S), NEW t \in Seq(S), NEW K,
           NEW j \in 0..Len(s)
    PROVE  KeptCount(s \o t, K, j) = KeptCount(s, K, j)
<1>1. KeptUpTo(s \o t, K, j) = KeptUpTo(s, K, j)
  BY ConcatProperties DEF KeptUpTo
<1>. QED
  BY <1>1 DEF KeptCount

\* Over the second it is the first's total plus the second's count.
LEMMA KeptCountConcatRight ==
    ASSUME NEW S, NEW s \in Seq(S), NEW t \in Seq(S), NEW K,
           NEW j \in 0..Len(t)
    PROVE  KeptCount(s \o t, K, Len(s) + j) =
               KeptCount(s, K, Len(s)) + KeptCount(t, K, j)
<1> DEFINE u == s \o t
           L == Len(s)
           Holds(x) == KeptCount(u, K, L + x) = KeptCount(s, K, L) + KeptCount(t, K, x)
           D == {x \in 0..Len(t) : ~Holds(x)}
<1>1. u \in Seq(S) /\ Len(u) = L + Len(t)
      /\ \A x \in 1..Len(t) : u[L + x] = t[x]
  BY ConcatProperties
<1>2. Holds(0)
  <2>1. KeptCount(u, K, L) = KeptCount(s, K, L)
    BY KeptCountConcatLeft
  <2>. QED
    BY <2>1, KeptCountZero, KeptCountType
<1> HIDE DEF u
<1>3. ASSUME NEW x \in 1..Len(t), Holds(x - 1) PROVE Holds(x)
  <2>0. L + x \in Nat /\ L + x >= 1
    OBVIOUS
  <2>1. KeptCount(u, K, L + x) =
            KeptCount(u, K, L + x - 1) + (IF u[L + x] \in K THEN 1 ELSE 0)
    BY <2>0, KeptCountStep
  <2>2. KeptCount(t, K, x) =
            KeptCount(t, K, x - 1) + (IF t[x] \in K THEN 1 ELSE 0)
    BY KeptCountStep
  <2>3. KeptCount(u, K, L + (x - 1)) = KeptCount(u, K, L + x - 1)
    OBVIOUS
  <2>4. (IF u[L + x] \in K THEN 1 ELSE 0) = (IF t[x] \in K THEN 1 ELSE 0)
    BY <1>1
  <2>5. KeptCount(u, K, L + x - 1) = KeptCount(s, K, L) + KeptCount(t, K, x - 1)
    BY <1>3, <2>3
  <2> DEFINE a == KeptCount(u, K, L + x - 1)
             b == KeptCount(s, K, L)
             c == KeptCount(t, K, x - 1)
             d == IF t[x] \in K THEN 1 ELSE 0
  <2>6. a \in Nat /\ b \in Nat /\ c \in Nat /\ d \in Nat
    BY KeptCountType
  <2> HIDE DEF a, b, c, d
  <2>. QED
    BY <2>1, <2>2, <2>4, <2>5, <2>6, SMTT(30) DEF a, b, c, d
<1>4. D = {}
  <2>. SUFFICES ASSUME D # {} PROVE FALSE
    OBVIOUS
  <2>0. D \in SUBSET Nat /\ \A y : y \in D <=> y \in 0..Len(t) /\ ~Holds(y)
    OBVIOUS
  <2> HIDE DEF D
  <2>1. PICK m \in D : \A y \in D : m <= y
    BY <2>0, NatMin
  <2>2. m # 0
    BY <1>2, <2>0, <2>1
  <2>3. Holds(m - 1)
    <3>1. m - 1 \in 0..Len(t) /\ m - 1 \notin D
      BY <2>0, <2>1, <2>2
    <3>. QED
      BY <2>0, <3>1
  <2>4. m \in 1..Len(t) /\ ~Holds(m)
    BY <2>0, <2>1, <2>2
  <2>. QED
    BY <1>3, <2>3, <2>4
<1>5. Holds(j)
  BY <1>4
<1>. QED
  BY <1>5, Zenon DEF u

\* The filter of a concatenation is the concatenation of the filters.
LEMMA FilterSeqConcat ==
    ASSUME NEW S, NEW s \in Seq(S), NEW t \in Seq(S), NEW K
    PROVE  FilterSeq(s \o t, K) = FilterSeq(s, K) \o FilterSeq(t, K)
<1> DEFINE u == s \o t
           L == Len(s)
           A == FilterSeq(s, K)
           B == FilterSeq(t, K)
           F == FilterSeq(u, K)
           cs == KeptCount(s, K, L)
<1>1. /\ u \in Seq(S)
      /\ Len(u) = L + Len(t)
      /\ \A x \in 1..L : u[x] = s[x]
      /\ \A x \in 1..Len(t) : u[L + x] = t[x]
  BY ConcatProperties
<1>0. \A x \in 0..L : KeptCount(u, K, x) = KeptCount(s, K, x)
  BY KeptCountConcatLeft
<1>9. \A x \in 0..Len(t) : KeptCount(u, K, L + x) = cs + KeptCount(t, K, x)
  BY KeptCountConcatRight
<1> HIDE DEF u
<1>2. /\ A \in Seq(K) /\ Len(A) = cs
      /\ B \in Seq(K) /\ Len(B) = KeptCount(t, K, Len(t))
      /\ F \in Seq(K) /\ Len(F) = KeptCount(u, K, Len(u))
  <2>1. A \in Seq(K) /\ Len(A) = cs
    BY FilterSeqType
  <2>2. B \in Seq(K) /\ Len(B) = KeptCount(t, K, Len(t))
    BY FilterSeqType
  <2>3. F \in Seq(K) /\ Len(F) = KeptCount(u, K, Len(u))
    BY <1>1, FilterSeqType, Zenon
  <2>. QED
    BY <2>1, <2>2, <2>3
<1> HIDE DEF A, B, F
<1>3. Len(F) = Len(A) + Len(B)
  BY <1>1, <1>2, <1>9
<1>4. /\ A \o B \in Seq(K)
      /\ Len(A \o B) = Len(A) + Len(B)
      /\ \A k \in 1..Len(A) + Len(B) :
             (A \o B)[k] = IF k <= Len(A) THEN A[k] ELSE B[k - Len(A)]
  BY <1>2, ConcatProperties
<1>5. ASSUME NEW k \in 1..Len(A) PROVE F[k] = A[k]
  <2> DEFINE i == KeptAt(s, K, k)
  <2>1. i \in 1..L /\ s[i] \in K /\ KeptCount(s, K, i) = k
    BY <1>2, KeptAtSpec
  <2>2. u[i] \in K /\ KeptCount(u, K, i) = k
    BY <1>0, <1>1, <2>1
  <2>3. KeptAt(u, K, k) = i
    <3>1. i \in 1..Len(u)
      BY <1>1, <2>1
    <3>2. KeptAt(u, K, KeptCount(u, K, i)) = i
      BY <1>1, <2>2, <3>1, KeptAtIs, Zenon
    <3>. QED
      BY <2>2, <3>2
  <2>4. k \in 1..KeptCount(u, K, Len(u))
    BY <1>2, <1>3
  <2>5. A[k] = s[i]
    <3>1. k \in 1..cs
      BY <1>2
    <3>. QED
      BY <3>1 DEF FilterSeq, A
  <2>6. F[k] = u[KeptAt(u, K, k)]
    BY <2>4 DEF FilterSeq, F
  <2>. QED
    BY <1>1, <2>1, <2>3, <2>5, <2>6
<1>6. ASSUME NEW k \in (Len(A) + 1)..(Len(A) + Len(B)) PROVE F[k] = B[k - Len(A)]
  <2> DEFINE i == KeptAt(t, K, k - cs)
  <2>0. cs \in Nat /\ k - cs \in 1..Len(B)
    BY <1>2, KeptCountType
  <2>1. i \in 1..Len(t) /\ t[i] \in K /\ KeptCount(t, K, i) = k - cs
    BY <1>2, <2>0, KeptAtSpec
  <2>2. u[L + i] \in K /\ KeptCount(u, K, L + i) = k
    <3>1. KeptCount(u, K, L + i) = cs + KeptCount(t, K, i)
      BY <1>9, <2>1
    <3>. QED
      BY <1>1, <2>0, <2>1, <3>1
  <2>3. KeptAt(u, K, k) = L + i
    <3>1. L + i \in 1..Len(u)
      BY <1>1, <2>1
    <3>2. KeptAt(u, K, KeptCount(u, K, L + i)) = L + i
      BY <1>1, <2>2, <3>1, KeptAtIs, Zenon
    <3>. QED
      BY <2>2, <3>2
  <2>4. k \in 1..KeptCount(u, K, Len(u))
    BY <1>2, <1>3
  <2>5. B[k - Len(A)] = t[i]
    <3>1. k - Len(A) \in 1..KeptCount(t, K, Len(t)) /\ k - Len(A) = k - cs
      BY <1>2, <2>0
    <3>. QED
      BY <3>1 DEF FilterSeq, B
  <2>6. F[k] = u[KeptAt(u, K, k)]
    BY <2>4 DEF FilterSeq, F
  <2>. QED
    BY <1>1, <2>1, <2>3, <2>5, <2>6
<1>7. ASSUME NEW k \in 1..Len(F) PROVE F[k] = (A \o B)[k]
  <2>1. CASE k <= Len(A)
    <3>1. k \in 1..Len(A)
      BY <2>1
    <3>. QED
      BY <1>3, <1>4, <1>5, <2>1, <3>1
  <2>2. CASE ~(k <= Len(A))
    <3>1. k \in (Len(A) + 1)..(Len(A) + Len(B))
      BY <1>2, <1>3, <2>2
    <3>. QED
      BY <1>3, <1>4, <1>6, <2>2, <3>1
  <2>. QED
    BY <2>1, <2>2, Zenon
<1>8. F = A \o B
  BY <1>2, <1>3, <1>4, <1>7, SeqEqual, Zenon
<1>. QED
  BY <1>8, Zenon DEF u, A, B, F
=============================================================================
