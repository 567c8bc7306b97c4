------------------------- MODULE SubsequencesProofs -------------------------
(***************************************************************************)
(* What Subsequence returns, for every sequence and every set of kept      *)
(* positions.  The only induction is over the length of the sequence; it   *)
(* is done with a least counterexample.                                    *)
(***************************************************************************)
EXTENDS Subsequences, FiniteSetTheorems, WellFoundedInduction, TLAPS

\* Every non-empty set of naturals has a least element.
LEMMA LeastNat ==
    ASSUME NEW T \in SUBSET Nat, T # {}
    PROVE  \E n \in T : \A m \in T : n <= m
<1>1. IsWellFoundedOn(OpToRel(<, Nat), Nat)
    BY NatLessThanWellFounded
<1>2. PICK n \in T : \A m \in T : ~ (<<m, n>> \in OpToRel(<, Nat))
    BY <1>1, WFMin
<1>3. \A m \in T : ~ (m < n)
    BY <1>2 DEF OpToRel
<1>4. QED
    BY <1>3

\* A set of positions of a sequence is finite, and so is what Rank counts.
LEMMA PositionsFinite ==
    ASSUME NEW n \in Nat, NEW K \in SUBSET (1..n)
    PROVE  /\ IsFiniteSet(K)
           /\ Cardinality(K) \in Nat
           /\ \A i \in Int : /\ IsFiniteSet({j \in K : j <= i})
                             /\ Rank(K, i) \in Nat
<1>1. IsFiniteSet(1..n)
    BY FS_Interval
<1>2. \A S \in SUBSET (1..n) : IsFiniteSet(S) /\ Cardinality(S) \in Nat
    BY <1>1, FS_Subset, FS_CardinalityType
<1>3. \A i \in Int : {j \in K : j <= i} \in SUBSET (1..n)
    OBVIOUS
<1>4. QED
    BY <1>2, <1>3 DEF Rank

\* A set that can be counted has an element of every rank.
Countable(n) ==
    \A K \in SUBSET (1..n) : \A k \in 1..Cardinality(K) :
        \E i \in K : Rank(K, i) = k

\* The step of the induction over the length.
LEMMA CountableStep ==
    ASSUME NEW n \in Nat, Countable(n)
    PROVE  Countable(n + 1)
<1> SUFFICES ASSUME NEW K \in SUBSET (1..(n + 1)), NEW k \in 1..Cardinality(K)
             PROVE  \E i \in K : Rank(K, i) = k
    BY DEF Countable
<1>1. CASE n + 1 \notin K
    <2>1. K \in SUBSET (1..n)
        BY <1>1
    <2>2. QED
        BY <2>1 DEF Countable
<1>2. CASE n + 1 \in K
    <2> DEFINE L == K \ {n + 1}
    <2>1. L \in SUBSET (1..n)
        OBVIOUS
    <2>2. IsFiniteSet(K) /\ Cardinality(K) \in Nat
        <3>1. n + 1 \in Nat
            OBVIOUS
        <3>2. QED
            BY <3>1, PositionsFinite
    <2>3. Cardinality(L) = Cardinality(K) - 1
        BY <1>2, <2>2, FS_RemoveElement
    <2>4. CASE k = Cardinality(K)
        <3>1. \A j \in K : j <= n + 1
            OBVIOUS
        <3>2. {j \in K : j <= n + 1} = K
            BY <3>1
        <3>3. QED
            BY <1>2, <2>4, <3>2 DEF Rank
    <2>5. CASE k # Cardinality(K)
        <3>1. k \in 1..Cardinality(L)
            BY <2>2, <2>3, <2>5
        <3>2. PICK i \in L : Rank(L, i) = k
            BY <2>1, <3>1 DEF Countable
        <3>3. {j \in K : j <= i} = {j \in L : j <= i}
            BY <2>1
        <3>4. QED
            BY <3>2, <3>3 DEF Rank
    <2>6. QED
        BY <2>4, <2>5
<1>3. QED
    BY <1>1, <1>2

LEMMA AllCountable == \A n \in Nat : Countable(n)
<1> DEFINE Bad == {n \in Nat : ~Countable(n)}
<1>1. Countable(0)
    <2> SUFFICES ASSUME NEW K \in SUBSET (1..0), NEW k \in 1..Cardinality(K)
                 PROVE  FALSE
        BY DEF Countable
    <2>1. K = {}
        OBVIOUS
    <2>2. Cardinality(K) = 0
        BY <2>1, FS_EmptySet
    <2>3. QED
        BY <2>2
<1>2. SUFFICES ASSUME Bad # {}
               PROVE  FALSE
    OBVIOUS
<1>3. PICK n \in Bad : \A m \in Bad : n <= m
    <2>1. Bad \in SUBSET Nat
        OBVIOUS
    <2>2. QED
        BY <1>2, <2>1, LeastNat
<1>4. n # 0
    BY <1>1, <1>3
<1>5. n - 1 \in Nat /\ n - 1 \notin Bad
    BY <1>3, <1>4
<1>6. Countable((n - 1) + 1)
    BY <1>5, CountableStep
<1>7. QED
    BY <1>3, <1>5, <1>6

\* The k-th kept position is one of the kept positions, and it is the k-th.
LEMMA PosInK ==
    ASSUME NEW n \in Nat, NEW K \in SUBSET (1..n), NEW k \in 1..Cardinality(K)
    PROVE  Pos(K, k) \in K /\ Rank(K, Pos(K, k)) = k
<1>1. \E i \in K : Rank(K, i) = k
    BY AllCountable DEF Countable
<1>2. QED
    BY <1>1 DEF Pos

\* Ranks grow with positions.
LEMMA RankMonotonic ==
    ASSUME NEW n \in Nat, NEW K \in SUBSET (1..n), NEW i \in K, NEW j \in K, i < j
    PROVE  Rank(K, i) < Rank(K, j)
<1> DEFINE A == {m \in K : m <= i}
           B == {m \in K : m <= j}
<1>1. A \in SUBSET B /\ A # B
    <2>1. i \in Int /\ j \in Int /\ \A m \in K : m \in Int
        OBVIOUS
    <2>2. \A m \in K : m <= i => m <= j
        BY <2>1
    <2>3. j \in B /\ j \notin A
        BY <2>1
    <2>4. QED
        BY <2>2, <2>3
<1>2. IsFiniteSet(B) /\ Cardinality(A) \in Nat /\ Cardinality(B) \in Nat
    BY PositionsFinite DEF Rank
<1>3. Cardinality(A) <= Cardinality(B) /\ Cardinality(A) # Cardinality(B)
    BY <1>1, <1>2, FS_Subset
<1>4. QED
    BY <1>2, <1>3 DEF Rank

\* Every kept position has its place in the subsequence.
LEMMA RankOfKept ==
    ASSUME NEW n \in Nat, NEW K \in SUBSET (1..n), NEW i \in K
    PROVE  /\ Rank(K, i) \in 1..Cardinality(K)
           /\ Pos(K, Rank(K, i)) = i
<1> DEFINE A == {m \in K : m <= i}
<1>1. IsFiniteSet(A) /\ Cardinality(A) \in Nat /\ IsFiniteSet(K) /\ Cardinality(K) \in Nat
    BY PositionsFinite DEF Rank
<1>2. A # {} /\ A \in SUBSET K
    OBVIOUS
<1>3. Cardinality(A) # 0 /\ Cardinality(A) <= Cardinality(K)
    BY <1>1, <1>2, FS_EmptySet, FS_Subset
<1>4. Rank(K, i) \in 1..Cardinality(K)
    BY <1>1, <1>3 DEF Rank
<1>5. Pos(K, Rank(K, i)) \in K /\ Rank(K, Pos(K, Rank(K, i))) = Rank(K, i)
    BY <1>4, PosInK
<1>6. Pos(K, Rank(K, i)) = i
    <2>1. Rank(K, i) \in Int
        BY <1>1 DEF Rank
    <2>2. SUFFICES ASSUME NEW p \in K, Rank(K, p) = Rank(K, i), p # i
                   PROVE  FALSE
        BY <1>5
    <2>3. p < i \/ i < p
        BY <2>2
    <2>4. Rank(K, p) < Rank(K, i) \/ Rank(K, i) < Rank(K, p)
        BY <2>3, RankMonotonic
    <2>5. QED
        BY <2>1, <2>2, <2>4
<1>7. QED
    BY <1>4, <1>6

\* A subsequence is a sequence of the same type.
THEOREM SubsequenceType ==
    ASSUME NEW S, NEW s \in Seq(S), NEW K \in SUBSET (DOMAIN s)
    PROVE  /\ Subsequence(s, K) \in Seq(S)
           /\ Len(Subsequence(s, K)) = Cardinality(K)
           /\ DOMAIN Subsequence(s, K) = 1..Cardinality(K)
<1>1. Len(s) \in Nat /\ DOMAIN s = 1..Len(s)
    OBVIOUS
<1>2. K \in SUBSET (1..Len(s)) /\ Cardinality(K) \in Nat
    BY <1>1, PositionsFinite
<1>3. \A k \in 1..Cardinality(K) : s[Pos(K, k)] \in S
    <2>1. \A k \in 1..Cardinality(K) : Pos(K, k) \in K
        BY <1>1, <1>2, PosInK
    <2>2. \A i \in K : s[i] \in S
        BY <1>1, <1>2
    <2>3. QED
        BY <2>1, <2>2
<1>4. QED
    BY <1>2, <1>3 DEF Subsequence

\* A subsequence has exactly the elements at the kept positions.
THEOREM SubsequenceElements ==
    ASSUME NEW S, NEW s \in Seq(S), NEW K \in SUBSET (DOMAIN s)
    PROVE  /\ \A k \in DOMAIN Subsequence(s, K) :
                  \E i \in K : Subsequence(s, K)[k] = s[i]
           /\ \A i \in K : \E k \in DOMAIN Subsequence(s, K) :
                  Subsequence(s, K)[k] = s[i]
<1>1. Len(s) \in Nat /\ K \in SUBSET (1..Len(s))
    OBVIOUS
<1>2. DOMAIN Subsequence(s, K) = 1..Cardinality(K)
    BY SubsequenceType
<1>3. ASSUME NEW k \in 1..Cardinality(K)
      PROVE  \E i \in K : Subsequence(s, K)[k] = s[i]
    BY <1>1, PosInK DEF Subsequence
<1>4. ASSUME NEW i \in K
      PROVE  \E k \in 1..Cardinality(K) : Subsequence(s, K)[k] = s[i]
    <2>1. Rank(K, i) \in 1..Cardinality(K) /\ Pos(K, Rank(K, i)) = i
        BY <1>1, RankOfKept
    <2>2. QED
        BY <2>1 DEF Subsequence
<1>5. QED
    BY <1>2, <1>3, <1>4

\* The elements that are kept keep their order.
THEOREM SubsequenceOrder ==
    ASSUME NEW S, NEW s \in Seq(S), NEW K \in SUBSET (DOMAIN s),
           NEW k \in DOMAIN Subsequence(s, K), NEW l \in DOMAIN Subsequence(s, K),
           k < l
    PROVE  \E i, j \in K : /\ i < j
                           /\ Subsequence(s, K)[k] = s[i]
                           /\ Subsequence(s, K)[l] = s[j]
<1>1. Len(s) \in Nat /\ K \in SUBSET (1..Len(s))
    OBVIOUS
<1>2. k \in 1..Cardinality(K) /\ l \in 1..Cardinality(K)
    BY SubsequenceType
<1>3. /\ Pos(K, k) \in K /\ Rank(K, Pos(K, k)) = k
      /\ Pos(K, l) \in K /\ Rank(K, Pos(K, l)) = l
    BY <1>1, <1>2, PosInK
<1>4. Pos(K, k) < Pos(K, l)
    <2>1. Pos(K, k) \in Int /\ Pos(K, l) \in Int /\ k \in Int /\ l \in Int
        BY <1>1, <1>2, <1>3, PositionsFinite
    <2>2. CASE Pos(K, l) < Pos(K, k)
        <3>1. Rank(K, Pos(K, l)) < Rank(K, Pos(K, k))
            BY <1>1, <1>3, <2>2, RankMonotonic
        <3>2. QED
            BY <1>3, <2>1, <3>1
    <2>3. CASE Pos(K, l) = Pos(K, k)
        BY <1>3, <2>1, <2>3
    <2>4. QED
        BY <2>1, <2>2, <2>3
<1>5. Subsequence(s, K)[k] = s[Pos(K, k)] /\ Subsequence(s, K)[l] = s[Pos(K, l)]
    BY <1>2 DEF Subsequence
<1>6. QED
    BY <1>3, <1>4, <1>5

\* A prefix that is kept as a whole stays where it is.
THEOREM SubsequencePrefix ==
    ASSUME NEW S, NEW s \in Seq(S), NEW K \in SUBSET (DOMAIN s),
           NEW m \in Nat, 1..m \subseteq K, NEW k \in 1..m
    PROVE  k \in DOMAIN Subsequence(s, K) /\ Subsequence(s, K)[k] = s[k]
<1>1. Len(s) \in Nat /\ K \in SUBSET (1..Len(s))
    OBVIOUS
<1>2. k \in K /\ k \in Nat
    OBVIOUS
<1>3. {j \in K : j <= k} = 1..k
    BY <1>1
<1>4. Rank(K, k) = k
    <2>1. Cardinality(1..k) = k - 1 + 1
        BY <1>2, FS_Interval
    <2>2. Rank(K, k) = Cardinality(1..k)
        BY ONLY <1>3, Zenon DEF Rank
    <2>3. QED
        BY <1>2, <2>1, <2>2
<1>5. k \in 1..Cardinality(K) /\ Pos(K, k) = k
    BY <1>1, <1>2, <1>4, RankOfKept
<1>6. QED
    BY <1>5 DEF Subsequence

\* Where everything is kept, nothing changes.
THEOREM SubsequenceWhole ==
    ASSUME NEW S, NEW s \in Seq(S)
    PROVE  Subsequence(s, 1..Len(s)) = s
<1>1. PICK n : n = Len(s)
    OBVIOUS
<1>2. n \in Nat /\ DOMAIN s = 1..n
    BY <1>1
<1>3. PICK t : t = Subsequence(s, 1..n)
    OBVIOUS
<1>4. 1..n \in SUBSET (DOMAIN s) /\ 1..n \subseteq 1..n
    BY <1>2
<1>5. Cardinality(1..n) = n
    <2>1. Cardinality(1..n) = n - 1 + 1
        BY <1>2, FS_Interval
    <2>2. QED
        BY <1>2, <2>1
<1>6. t \in Seq(S) /\ Len(t) = n
    BY <1>3, <1>4, <1>5, SubsequenceType
<1>7. \A k \in 1..n : t[k] = s[k]
    BY <1>2, <1>3, <1>4, SubsequencePrefix
<1>8. t = s
    BY <1>1, <1>6, <1>7
<1>9. QED
    BY <1>1, <1>3, <1>8

\* Position m is behind all positions of T.
Behind(m, T) == m \in Nat /\ \E n \in Nat : n < m /\ T \in SUBSET (1..n)

\* One more position, behind all others, is the last one in rank.
LEMMA RankAdded ==
    ASSUME NEW T, NEW m, Behind(m, T)
    PROVE  /\ Cardinality(T) \in Nat
           /\ Cardinality(T \cup {m}) = Cardinality(T) + 1
           /\ Rank(T \cup {m}, m) = Cardinality(T) + 1
<1>0. PICK n \in Nat : m \in Nat /\ n < m /\ T \in SUBSET (1..n)
    BY DEF Behind
<1>1. /\ IsFiniteSet(T) /\ Cardinality(T) \in Nat /\ m \notin T
      /\ \A j \in T \cup {m} : j <= m
    <2>1. m \in Int /\ \A j \in T : j \in Int /\ j <= m /\ j # m
        BY <1>0
    <2>2. IsFiniteSet(T) /\ Cardinality(T) \in Nat
        BY <1>0, PositionsFinite
    <2>3. QED
        BY <2>1, <2>2
<1>2. Cardinality(T \cup {m}) = Cardinality(T) + 1
    BY <1>1, FS_AddElement
<1>3. {j \in T \cup {m} : j <= m} = T \cup {m}
    BY <1>1
<1>4. Rank(T \cup {m}, m) = Cardinality(T \cup {m})
    BY ONLY <1>3, Zenon DEF Rank
<1>5. QED
    BY <1>1, <1>2, <1>4

\* The positions before it keep their ranks.
LEMMA RankStays ==
    ASSUME NEW T, NEW m, Behind(m, T), NEW i \in T
    PROVE  Rank(T \cup {m}, i) = Rank(T, i) /\ Rank(T, i) \in 1..Cardinality(T)
<1>1. PICK n \in Nat : m \in Nat /\ n < m /\ T \in SUBSET (1..n)
    BY DEF Behind
<1>2. {j \in T \cup {m} : j <= i} = {j \in T : j <= i}
    BY <1>1
<1>3. Rank(T \cup {m}, i) = Rank(T, i)
    BY ONLY <1>2, Zenon DEF Rank
<1>4. Rank(T, i) \in 1..Cardinality(T)
    BY <1>1, RankOfKept
<1>5. QED
    BY <1>3, <1>4

\* One more element, behind those that were kept, is kept behind them.
THEOREM SubsequenceAppend ==
    ASSUME NEW S, NEW s \in Seq(S), NEW K \in SUBSET (DOMAIN s), NEW m \in DOMAIN s,
           Behind(m, K)
    PROVE  Subsequence(s, K \cup {m}) = Append(Subsequence(s, K), s[m])
<1>1. PICK n : n = Cardinality(K)
    OBVIOUS
<1>2. PICK L : L = K \cup {m}
    OBVIOUS
<1>3. Len(s) \in Nat /\ DOMAIN s = 1..Len(s) /\ L \in SUBSET (DOMAIN s)
    BY <1>2
<1>4. n \in Nat /\ Cardinality(L) = n + 1 /\ Rank(L, m) = n + 1
    BY <1>1, <1>2, RankAdded
<1>5. PICK a : a = Subsequence(s, K)
    OBVIOUS
<1>6. PICK b : b = Subsequence(s, L)
    OBVIOUS
<1>7. a \in Seq(S) /\ Len(a) = n /\ b \in Seq(S) /\ Len(b) = n + 1
    BY <1>1, <1>3, <1>4, <1>5, <1>6, SubsequenceType
<1>8. b[n + 1] = s[m]
    <2>1. Pos(L, n + 1) = m
        <3>1. m \in L /\ L \in SUBSET (1..Len(s))
            BY <1>2, <1>3
        <3>2. Pos(L, Rank(L, m)) = m
            BY <1>3, <3>1, RankOfKept
        <3>3. QED
            BY <1>4, <3>2
    <2>2. n + 1 \in 1..Cardinality(L)
        BY <1>4
    <2>3. QED
        BY <1>6, <2>1, <2>2 DEF Subsequence
<1>9. ASSUME NEW k \in 1..n PROVE b[k] = a[k]
    <2>1. PICK i : i = Pos(K, k)
        OBVIOUS
    <2>2. i \in K /\ Rank(K, i) = k
        BY <1>1, <1>3, <2>1, PosInK
    <2>3. Rank(L, i) = k
        BY <1>2, <2>2, RankStays
    <2>4. Pos(L, k) = i
        <3>1. i \in L /\ L \in SUBSET (1..Len(s))
            BY <1>2, <1>3, <2>2
        <3>2. Pos(L, Rank(L, i)) = i
            BY <1>3, <3>1, RankOfKept
        <3>3. QED
            BY <2>3, <3>2
    <2>5. k \in 1..Cardinality(K) /\ k \in 1..Cardinality(L)
        BY <1>1, <1>4
    <2>6. QED
        BY <1>5, <1>6, <2>1, <2>4, <2>5 DEF Subsequence
<1>10. PICK c : c = Append(a, s[m])
    OBVIOUS
<1>11. /\ c \in Seq(S) /\ Len(c) = n + 1 /\ c[n + 1] = s[m]
       /\ \A k \in 1..n : c[k] = a[k]
    BY <1>3, <1>7, <1>10
<1>12. \A k \in 1..(n + 1) : b[k] = c[k]
    BY <1>4, <1>8, <1>9, <1>11
<1>13. b = c
    BY <1>7, <1>11, <1>12
<1>14. QED
    BY <1>2, <1>5, <1>6, <1>10, <1>13

=============================================================================
