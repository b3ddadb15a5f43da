------------------------- MODULE Subsequences_proofs -------------------------
(***************************************************************************)
(* What sequences are when items are taken out of them, put at their end    *)
(* or moved, and how to prove by induction.                                *)
(***************************************************************************)
EXTENDS Subsequences, FiniteSetTheorems, SequenceTheorems, WellFoundedInduction, TLAPS

\* Counting the numbers of a finite set K from below is a bijection from K to
\* 1 .. Cardinality(K): the k-th smallest number of K exists.
LEMMA NthExists ==
  ASSUME NEW K \in SUBSET Nat, IsFiniteSet(K), NEW k \in 1 .. Cardinality(K)
  PROVE  Nth(K, k) \in K /\ Cardinality({j \in K : j <= Nth(K, k)}) = k
  <1> DEFINE Upto(i) == {j \in K : j <= i}
             N == Cardinality(K)
             rank == [i \in K |-> Cardinality(Upto(i))]
  <1>1. \A i \in K : IsFiniteSet(Upto(i)) /\ Cardinality(Upto(i)) \in Nat /\ Cardinality(Upto(i)) <= N
    <2> TAKE i \in K
    <2>1. Upto(i) \in SUBSET K
      OBVIOUS
    <2> QED BY <2>1, FS_Subset, FS_CardinalityType
  <1>2. \A i \in K : Cardinality(Upto(i)) >= 1
    <2> TAKE i \in K
    <2>1. i \in Upto(i)
      OBVIOUS
    <2>2. Cardinality(Upto(i)) # 0
      BY <1>1, <2>1, FS_EmptySet
    <2> QED BY <1>1, <2>2
  <1>3. rank \in [K -> 1 .. N]
    BY <1>1, <1>2, FS_CardinalityType
  <1>4. \A i, l \in K : rank[i] = rank[l] => i = l
    <2>1. ASSUME NEW i \in K, NEW l \in K, i < l, rank[i] = rank[l]
          PROVE  FALSE
      <3>0. Cardinality(Upto(i)) = Cardinality(Upto(l))
        BY <2>1
      <3>a. \A j \in K : j <= i => j <= l
        <4>1. i \in Nat /\ l \in Nat /\ i < l /\ \A j \in K : j \in Nat
          BY <2>1
        <4> HIDE DEF rank
        <4> QED BY <4>1
      <3>1. Upto(i) \in SUBSET Upto(l)
        BY <3>a
      <3>2. Upto(i) = Upto(l)
        BY <1>1, <3>0, <3>1, FS_Subset
      <3>3. l \in Upto(l) /\ l \notin Upto(i)
        BY <2>1
      <3> QED BY <3>2, <3>3
    <2>2. \A i, l \in K : i < l \/ l < i \/ i = l
      OBVIOUS
    <2> HIDE DEF rank
    <2> QED BY <2>1, <2>2
  <1>5. rank \in Injection(K, 1 .. N)
    BY <1>3, <1>4 DEF Injection, IsInjective
  <1>6. IsFiniteSet(1 .. N) /\ Cardinality(1 .. N) = N
    <2>1. N \in Nat
      BY FS_CardinalityType
    <2> HIDE DEF N
    <2>2. 1 \in Int /\ N \in Int
      BY <2>1
    <2> QED BY <2>1, <2>2, FS_Interval
  <1>7. rank \in Surjection(K, 1 .. N)
    BY <1>5, <1>6, FS_Injection
  <1>8. \E i \in K : Cardinality(Upto(i)) = k
    BY <1>7 DEF Surjection
  <1> QED BY <1>8 DEF Nth

\* Every number of a finite set is the k-th smallest one for some k.
LEMMA NthCovers ==
  ASSUME NEW K \in SUBSET Nat, IsFiniteSet(K), NEW i \in K
  PROVE  \E k \in 1 .. Cardinality(K) : Nth(K, k) = i
  <1> DEFINE N == Cardinality(K)
             D == 1 .. N
             nth == [k \in D |-> Nth(K, k)]
  <1>1. N \in Nat
    BY FS_CardinalityType
  <1>2. IsFiniteSet(D) /\ Cardinality(D) = N
    <2> HIDE DEF N
    <2>1. 1 \in Int /\ N \in Int
      BY <1>1
    <2> QED BY <1>1, <2>1, FS_Interval
  <1>3. \A k \in D : Nth(K, k) \in K /\ Cardinality({j \in K : j <= Nth(K, k)}) = k
    BY NthExists
  <1> HIDE DEF D
  <1>4. nth \in Injection(D, K)
    BY <1>3 DEF Injection, IsInjective
  <1>5. nth \in Surjection(D, K)
    BY <1>2, <1>4, FS_Injection
  <1> QED BY <1>5 DEF Surjection, D

\* What remains are the items at K, each once, in a sequence of their kind; and
\* two of them keep their order.
LEMMA RemainingElements ==
  ASSUME NEW S, NEW q \in Seq(S), NEW K \in SUBSET (1 .. Len(q))
  PROVE  /\ Remaining(q, K) \in Seq(S)
         /\ DOMAIN Remaining(q, K) = 1 .. Cardinality(K)
         /\ \A k \in 1 .. Cardinality(K) :
               Nth(K, k) \in K /\ Remaining(q, K)[k] = q[Nth(K, k)]
         /\ \A k, l \in 1 .. Cardinality(K) : Nth(K, k) = Nth(K, l) => k = l
         /\ \A k, l \in 1 .. Cardinality(K) : k < l => Nth(K, k) < Nth(K, l)
         /\ \A i \in K : \E k \in 1 .. Cardinality(K) : Nth(K, k) = i
  <1> DEFINE n == Cardinality(K)
             f == [k \in 1 .. n |-> q[Nth(K, k)]]
  <1>1. IsFiniteSet(K) /\ K \in SUBSET Nat
    <2>1. IsFiniteSet(1 .. Len(q))
      <3>1. 1 \in Int /\ Len(q) \in Int
        OBVIOUS
      <3> QED BY <3>1, FS_Interval
    <2>2. K \subseteq 1 .. Len(q) /\ K \in SUBSET Nat
      OBVIOUS
    <2> QED BY <2>1, <2>2, FS_Subset
  <1>2. n \in Nat
    BY <1>1, FS_CardinalityType
  <1>3. \A k \in 1 .. n : Nth(K, k) \in K /\ Cardinality({j \in K : j <= Nth(K, k)}) = k
    BY <1>1, NthExists
  <1>4. \A i \in K : \E k \in 1 .. n : Nth(K, k) = i
    BY <1>1, NthCovers
  <1>5. \A k \in 1 .. n : q[Nth(K, k)] \in S
    <2>1. \A i \in K : q[i] \in S
      <3>1. \A i \in 1 .. Len(q) : q[i] \in S
        OBVIOUS
      <3> QED BY <3>1
    <2> QED BY <1>3, <2>1
  <1>6. f \in [1 .. n -> S]
    BY <1>5
  <1>7. ASSUME NEW k \in 1 .. n, NEW l \in 1 .. n, k < l PROVE Nth(K, k) < Nth(K, l)
    <2> DEFINE a == Nth(K, k)
               b == Nth(K, l)
               A == {j \in K : j <= a}
               B == {j \in K : j <= b}
    <2>1. a \in Nat /\ b \in Nat /\ Cardinality(A) = k /\ Cardinality(B) = l
      BY <1>1, <1>3
    <2>k. k \in Nat /\ l \in Nat /\ ~(l <= k)
      <3> HIDE DEF n
      <3> QED BY <1>2, <1>7
    <2>2. IsFiniteSet(A)
      <3>1. A \in SUBSET K
        OBVIOUS
      <3> QED BY <1>1, <3>1, FS_Subset
    <2>3. ASSUME b <= a PROVE FALSE
      <3>1. \A j \in K : j <= b => j <= a
        <4>1. \A j \in K : j \in Nat
          BY <1>1
        <4> HIDE DEF a, b
        <4> QED BY <2>1, <2>3, <4>1
      <3>2. B \in SUBSET A
        BY <3>1
      <3>3. Cardinality(B) <= Cardinality(A)
        BY <2>2, <3>2, FS_Subset
      <3>4. l <= k
        BY <2>1, <3>3
      <3> QED BY <2>k, <3>4
    <2>4. a < b
      <3>1. a \in Nat /\ b \in Nat /\ ~(b <= a)
        BY <2>1, <2>3
      <3> HIDE DEF a, b
      <3> QED BY <3>1
    <2> HIDE DEF a, b
    <2> QED BY <2>4 DEF a, b
  <1> HIDE DEF f, n
  <1>8. f \in Seq(S) /\ DOMAIN f = 1 .. n
    BY <1>2, <1>6
  <1>9. \A k \in 1 .. n : f[k] = q[Nth(K, k)]
    BY DEF f
  <1>10. Remaining(q, K) = f
    BY DEF Remaining, f, n
  <1>11. \A k, l \in 1 .. n : Nth(K, k) = Nth(K, l) => k = l
    BY <1>3
  <1>12. \A k, l \in 1 .. n : k < l => Nth(K, k) < Nth(K, l)
    BY <1>7
  <1> QED BY <1>3, <1>4, <1>8, <1>9, <1>10, <1>11, <1>12 DEF n

\* Moving a task from the deferred queue to the front of the main one.
LEMMA RemoveAtType ==
  ASSUME NEW S, NEW d \in Seq(S), NEW i \in 1 .. Len(d)
  PROVE  RemoveAt(d, i) \in Seq(S)
  BY DEF RemoveAt

\* What is left of a sequence without its i-th item.
LEMMA RemoveAtElements ==
    ASSUME NEW S, NEW d \in Seq(S), NEW i \in 1 .. Len(d)
    PROVE  /\ Len(d) \in Nat /\ i \in Nat /\ DOMAIN d = 1 .. Len(d) /\ 1 <= i /\ i <= Len(d)
           /\ DOMAIN RemoveAt(d, i) = 1 .. Len(d) - 1
           /\ \A k \in 1 .. Len(d) - 1 :
                 RemoveAt(d, i)[k] = IF k < i THEN d[k] ELSE d[k + 1]
<1> DEFINE r == RemoveAt(d, i)
<1>a. Len(d) \in Nat /\ i \in Nat /\ DOMAIN d = 1 .. Len(d) /\ 1 <= i /\ i <= Len(d)
  OBVIOUS
<1>b. /\ SubSeq(d, 1, i - 1) \in Seq(S) /\ Len(SubSeq(d, 1, i - 1)) = i - 1
      /\ \A k \in 1 .. i - 1 : SubSeq(d, 1, i - 1)[k] = d[k]
  BY <1>a
<1>c. /\ SubSeq(d, i + 1, Len(d)) \in Seq(S) /\ Len(SubSeq(d, i + 1, Len(d))) = Len(d) - i
      /\ \A k \in 1 .. Len(d) - i : SubSeq(d, i + 1, Len(d))[k] = d[k + i]
  <2> DEFINE m == i + 1
             n == Len(d)
  <2>1. m \in Int /\ n \in Int /\ \A k \in m .. n : d[k] \in S
    BY <1>a
  <2>2. /\ SubSeq(d, m, n) \in Seq(S)
        /\ Len(SubSeq(d, m, n)) = IF m <= n THEN n - m + 1 ELSE 0
        /\ \A k \in 1 .. n - m + 1 : SubSeq(d, m, n)[k] = d[m + k - 1]
    <3> HIDE DEF m, n
    <3> QED
      BY <2>1, SubSeqProperties
  <2>3. /\ n - m + 1 = Len(d) - i /\ (m <= n \/ Len(d) - i = 0)
        /\ \A k \in 1 .. Len(d) - i : m + k - 1 = k + i
    <3>1. m = i + 1 /\ n = Len(d) /\ n \in Nat /\ i \in Nat /\ i <= n
      BY <1>a
    <3> HIDE DEF m, n
    <3>2. /\ n - m + 1 = n - i /\ (m <= n \/ n - i = 0)
          /\ \A k \in 1 .. n - i : m + k - 1 = k + i
      BY <3>1
    <3> QED
      BY <3>1, <3>2
  <2>4. /\ Len(SubSeq(d, m, n)) = Len(d) - i
        /\ \A k \in 1 .. Len(d) - i : SubSeq(d, m, n)[k] = d[k + i]
    <3> HIDE DEF m, n
    <3> QED
      BY <2>2, <2>3
  <2> QED
    BY <2>2, <2>4
<1> DEFINE x == SubSeq(d, 1, i - 1)
           y == SubSeq(d, i + 1, Len(d))
<1>d. r = x \o y
  BY Zenon DEF RemoveAt
<1>e. /\ x \in Seq(S) /\ Len(x) = i - 1 /\ \A k \in 1 .. i - 1 : x[k] = d[k]
      /\ y \in Seq(S) /\ Len(y) = Len(d) - i /\ \A k \in 1 .. Len(d) - i : y[k] = d[k + i]
  BY <1>b, <1>c
<1> HIDE DEF x, y, r
<1>f. /\ DOMAIN r = 1 .. (i - 1) + (Len(d) - i)
      /\ \A k \in 1 .. (i - 1) + (Len(d) - i) :
            r[k] = IF k <= i - 1 THEN x[k] ELSE y[k - (i - 1)]
  <2>1. /\ x \o y \in Seq(S) /\ Len(x \o y) = Len(x) + Len(y)
        /\ \A k \in 1 .. Len(x) + Len(y) :
              (x \o y)[k] = IF k <= Len(x) THEN x[k] ELSE y[k - Len(x)]
    BY <1>e, ConcatProperties
  <2>2. DOMAIN (x \o y) = 1 .. Len(x) + Len(y)
    BY <2>1
  <2> QED
    BY <1>d, <1>e, <2>1, <2>2
<1>1. /\ Len(d) \in Nat /\ i \in Nat /\ DOMAIN d = 1 .. Len(d)
      /\ DOMAIN r = 1 .. Len(d) - 1
      /\ \A k \in 1 .. Len(d) - 1 : r[k] = IF k < i THEN d[k] ELSE d[k + 1]
  <2>1. (i - 1) + (Len(d) - i) = Len(d) - 1
    BY <1>a
  <2>2. ASSUME NEW k \in 1 .. Len(d) - 1 PROVE r[k] = IF k < i THEN d[k] ELSE d[k + 1]
    <3>1. CASE k < i
      <4>1. k \in 1 .. i - 1 /\ k <= i - 1
        BY <1>a, <3>1
      <4> QED
        BY <1>e, <1>f, <2>1, <3>1, <4>1
    <3>2. CASE ~(k < i)
      <4>1. k - (i - 1) \in 1 .. Len(d) - i /\ ~(k <= i - 1) /\ (k - (i - 1)) + i = k + 1
        BY <1>a, <3>2
      <4> QED
        BY <1>e, <1>f, <2>1, <3>2, <4>1
    <3> QED
      BY <3>1, <3>2
  <2> QED
    BY <1>a, <1>f, <2>1, <2>2
<1> QED
  BY <1>a, <1>1 DEF r

----------------------------------------------------------------------------
(* What remains of sequences that are put together or taken apart *)

\* A number of K is the k-th smallest one if k of K are not greater.
LEMMA NthIs ==
  ASSUME NEW K \in SUBSET Nat, IsFiniteSet(K), NEW i \in K
  PROVE  /\ Cardinality({j \in K : j <= i}) \in 1 .. Cardinality(K)
         /\ Nth(K, Cardinality({j \in K : j <= i})) = i
  <1>1. PICK l \in 1 .. Cardinality(K) : Nth(K, l) = i
    BY NthCovers
  <1>2. Cardinality({j \in K : j <= Nth(K, l)}) = l
    BY NthExists
  <1> QED BY <1>1, <1>2

\* A one-to-one correspondence of finite sets.
LEMMA SameSize ==
  ASSUME NEW A, NEW B, IsFiniteSet(A), NEW g \in [A -> B],
         \A x, y \in A : g[x] = g[y] => x = y,
         \A z \in B : \E x \in A : g[x] = z
  PROVE  Cardinality(A) = Cardinality(B)
  <1>1. g \in Surjection(A, B) /\ g \in Injection(A, B)
    BY DEF Surjection, Injection, IsInjective
  <1> QED BY <1>1, FS_Surjection

\* Two sequences have the same remainder if the positions kept correspond, in
\* their order, and hold the same items.
LEMMA SameRemaining ==
  ASSUME NEW p, NEW q, NEW K \in SUBSET Nat, NEW M \in SUBSET Nat,
         IsFiniteSet(K), IsFiniteSet(M), NEW g \in [K -> M],
         \A i, j \in K : i < j => g[i] < g[j],
         \A l \in M : \E i \in K : g[i] = l,
         \A i \in K : p[i] = q[g[i]]
  PROVE  Remaining(p, K) = Remaining(q, M)
  <1>1. \A i, j \in K : i \in Nat /\ j \in Nat /\ g[i] \in M /\ g[i] \in Nat
    OBVIOUS
  <1>2. ASSUME NEW i \in K, NEW j \in K PROVE /\ g[i] = g[j] => i = j
                                              /\ j <= i <=> g[j] <= g[i]
    <2>1. i \in Nat /\ j \in Nat /\ g[i] \in Nat /\ g[j] \in Nat
      BY <1>1
    <2>2. (i < j => g[i] < g[j]) /\ (j < i => g[j] < g[i])
      OBVIOUS
    <2> QED BY <2>1, <2>2
  <1>3. Cardinality(K) = Cardinality(M)
    <2>1. \A i, j \in K : g[i] = g[j] => i = j
      BY <1>2
    <2> QED BY <2>1, SameSize
  <1>4. ASSUME NEW i \in K
        PROVE  Cardinality({j \in K : j <= i}) = Cardinality({l \in M : l <= g[i]})
    <2> DEFINE A == {j \in K : j <= i}
               B == {l \in M : l <= g[i]}
               h == [j \in A |-> g[j]]
    <2>1. IsFiniteSet(A)
      <3>1. A \in SUBSET K
        OBVIOUS
      <3> QED BY <3>1, FS_Subset
    <2>2. h \in [A -> B]
      BY <1>2
    <2>3. \A x, y \in A : h[x] = h[y] => x = y
      BY <1>2
    <2>4. \A z \in B : \E x \in A : h[x] = z
      BY <1>2
    <2> HIDE DEF A, B, h
    <2>5. Cardinality(A) = Cardinality(B)
      BY <2>1, <2>2, <2>3, <2>4, SameSize
    <2> QED BY <2>5 DEF A, B
  <1>5. ASSUME NEW k \in 1 .. Cardinality(K) PROVE p[Nth(K, k)] = q[Nth(M, k)]
    <2>1. Nth(K, k) \in K /\ Cardinality({j \in K : j <= Nth(K, k)}) = k
      BY NthExists
    <2>2. PICK i \in K : i = Nth(K, k)
      BY <2>1
    <2>3. g[i] \in M /\ Cardinality({l \in M : l <= g[i]}) = k
      BY <1>1, <1>4, <2>1, <2>2
    <2>4. Nth(M, k) = g[i]
      BY <2>3, NthIs
    <2> QED BY <2>2, <2>4
  <1> QED BY <1>3, <1>5 DEF Remaining

\* Positions of a sequence.
LEMMA SomePositions ==
  ASSUME NEW S, NEW q \in Seq(S), NEW K \in SUBSET (1 .. Len(q))
  PROVE  /\ IsFiniteSet(K) /\ K \in SUBSET Nat /\ Cardinality(K) \in Nat
         /\ \A i \in K : i \in Nat /\ 1 <= i /\ i <= Len(q)
  <1>1. Len(q) \in Nat /\ 1 \in Int /\ Len(q) \in Int
    OBVIOUS
  <1>2. IsFiniteSet(1 .. Len(q))
    BY <1>1, FS_Interval
  <1>3. IsFiniteSet(K) /\ Cardinality(K) \in Nat
    BY <1>2, FS_Subset, FS_CardinalityType
  <1>4. \A i \in 1 .. Len(q) : i \in Nat /\ 1 <= i /\ i <= Len(q)
    BY <1>1
  <1> QED BY <1>3, <1>4

\* Another item at the end: it remains as the last, or nothing changes.
LEMMA RemainingAppend ==
  ASSUME NEW S, NEW q \in Seq(S), NEW K \in SUBSET (1 .. Len(q)), NEW x \in S
  PROVE  Remaining(Append(q, x), K) = Remaining(q, K)
  <1>1. \A i \in K : Append(q, x)[i] = q[i]
    BY AppendProperties
  <1>2. \A k \in 1 .. Cardinality(K) : Nth(K, k) \in K
    BY RemainingElements
  <1>3. PICK a : a = Append(q, x)
    OBVIOUS
  <1>4. \A k \in 1 .. Cardinality(K) : a[Nth(K, k)] = q[Nth(K, k)]
    BY <1>1, <1>2, <1>3
  <1>5. Remaining(a, K) = Remaining(q, K)
    BY <1>4 DEF Remaining
  <1> QED BY <1>3, <1>5

\* Another item at the end, and it remains.
LEMMA RemainingAppendKept ==
  ASSUME NEW S, NEW q \in Seq(S), NEW K \in SUBSET (1 .. Len(q)), NEW x \in S,
         NEW M, M = K \cup {Len(q) + 1}, NEW r, r = Remaining(q, K)
  PROVE  Remaining(Append(q, x), M) = Append(r, x)
  <1>1. PICK a, L, n : a = Append(q, x) /\ L = Len(q) + 1 /\ n = Cardinality(K)
    OBVIOUS
  <1>2. /\ Len(q) \in Nat /\ L \in Nat /\ a \in Seq(S) /\ Len(a) = L /\ a[L] = x
        /\ \A i \in 1 .. Len(q) : a[i] = q[i]
    BY <1>1, AppendProperties
  <1>3. /\ IsFiniteSet(K) /\ K \in SUBSET Nat /\ n \in Nat
        /\ \A i \in K : i \in Nat /\ 1 <= i /\ i <= Len(q)
    BY <1>1, SomePositions
  <1>4. /\ r \in Seq(S) /\ Len(r) = n
        /\ \A k \in 1 .. n : Nth(K, k) \in K /\ r[k] = q[Nth(K, k)]
    <2>1. /\ r \in Seq(S) /\ DOMAIN r = 1 .. Cardinality(K)
          /\ \A k \in 1 .. Cardinality(K) : Nth(K, k) \in K /\ r[k] = q[Nth(K, k)]
      BY RemainingElements
    <2> QED BY <1>1, <1>3, <2>1
  <1>5. \A i \in K : a[i] = q[i] /\ i < L /\ i # L
    BY <1>1, <1>2, <1>3
  <1>6. M = K \cup {L} /\ \A i : i \in M <=> i \in K \/ i = L
    BY <1>1
  <1>7. \A i \in M : i \in Nat /\ i <= L
    <2>1. \A i \in K : i \in Nat /\ i <= L
      BY <1>2, <1>3, <1>5
    <2>2. L \in Nat /\ L <= L
      BY <1>2
    <2> QED BY <1>6, <2>1, <2>2
  <1>8. IsFiniteSet(M) /\ Cardinality(M) = n + 1 /\ M \in SUBSET Nat
    <2>1. IsFiniteSet(K \cup {L}) /\ Cardinality(K \cup {L}) = Cardinality(K) + 1
      BY <1>3, <1>5, FS_AddElement
    <2>2. M \in SUBSET Nat
      BY <1>7
    <2> QED BY <1>1, <1>6, <2>1, <2>2
  <1>9. Nth(M, n + 1) = L
    <2>1. {j \in M : j <= L} = M
      BY <1>7
    <2>2. L \in M
      BY <1>6
    <2> QED BY <1>8, <2>1, <2>2, NthIs
  <1>10. ASSUME NEW k \in 1 .. n PROVE Nth(M, k) = Nth(K, k)
    <2>1. Nth(K, k) \in K /\ Cardinality({j \in K : j <= Nth(K, k)}) = k
      BY <1>1, <1>3, NthExists
    <2>2. PICK i \in K : i = Nth(K, k)
      BY <2>1
    <2>3. i \in M /\ ~(L <= i)
      BY <1>2, <1>3, <1>5, <1>6
    <2>4. {j \in M : j <= i} = {j \in K : j <= i}
      BY <1>6, <2>3
    <2> QED BY <1>8, <2>1, <2>2, <2>3, <2>4, NthIs
  <1>11. /\ Append(r, x) \in Seq(S) /\ Len(Append(r, x)) = n + 1
         /\ \A k \in 1 .. n : Append(r, x)[k] = r[k]
         /\ Append(r, x)[n + 1] = x
    BY <1>4, AppendProperties
  <1>12. PICK b : b = Append(r, x)
    OBVIOUS
  <1>13. ASSUME NEW k \in 1 .. n + 1 PROVE a[Nth(M, k)] = b[k]
    <2>1. CASE k \in 1 .. n
      BY <1>4, <1>5, <1>10, <1>11, <1>12, <2>1
    <2>2. CASE k = n + 1
      BY <1>2, <1>9, <1>11, <1>12, <2>2
    <2> QED BY <1>3, <2>1, <2>2
  <1>14. b \in Seq(S) /\ DOMAIN b = 1 .. n + 1 /\ b = [k \in 1 .. n + 1 |-> b[k]]
    <2>1. b \in Seq(S) /\ Len(b) = n + 1
      BY <1>11, <1>12
    <2>2. DOMAIN b = 1 .. n + 1
      BY <2>1
    <2>3. b = [k \in DOMAIN b |-> b[k]]
      BY <2>1
    <2> QED BY <2>1, <2>2, <2>3
  <1>15. Remaining(a, M) = [k \in 1 .. n + 1 |-> a[Nth(M, k)]]
    BY <1>8 DEF Remaining
  <1>16. Remaining(a, M) = b
    <2>1. PICK D : D = 1 .. n + 1
      OBVIOUS
    <2>2. \A k \in D : a[Nth(M, k)] = b[k]
      BY <1>13, <2>1
    <2>3. Remaining(a, M) = [k \in D |-> a[Nth(M, k)]] /\ b = [k \in D |-> b[k]]
      BY <1>14, <1>15, <2>1
    <2>4. [k \in D |-> a[Nth(M, k)]] = [k \in D |-> b[k]]
      BY <2>2
    <2> QED BY <2>3, <2>4
  <1> QED BY <1>1, <1>12, <1>16

\* The first item that remains, and what remains behind it.
LEMMA RemainingTail ==
  ASSUME NEW S, NEW q \in Seq(S), NEW K \in SUBSET (1 .. Len(q)),
         NEW m \in K, \A j \in K : m <= j
  PROVE  /\ Remaining(q, K) # <<>> /\ Head(Remaining(q, K)) = q[m]
         /\ Remaining(q, K \ {m}) = Tail(Remaining(q, K))
  <1> DEFINE M == K \ {m}
             n == Cardinality(K)
             r == Remaining(q, K)
             s == Remaining(q, M)
  <1>1. /\ IsFiniteSet(K) /\ K \in SUBSET Nat /\ n \in Nat
        /\ \A i \in K : i \in Nat
    BY SomePositions
  <1>2. IsFiniteSet(M) /\ Cardinality(M) = n - 1 /\ M \in SUBSET Nat
    BY <1>1, FS_RemoveElement
  <1>3. n >= 1
    <2>1. n # 0
      BY <1>1, FS_EmptySet
    <2> QED BY <1>1, <2>1
  <1>4. /\ r \in Seq(S) /\ DOMAIN r = 1 .. n
        /\ \A k \in 1 .. n : Nth(K, k) \in K /\ r[k] = q[Nth(K, k)]
    BY RemainingElements
  <1>5. Len(r) = n
    BY <1>1, <1>4
  <1>6. /\ s \in Seq(S) /\ DOMAIN s = 1 .. n - 1
        /\ \A k \in 1 .. n - 1 : Nth(M, k) \in M /\ s[k] = q[Nth(M, k)]
    <2>1. M \in SUBSET (1 .. Len(q))
      OBVIOUS
    <2> HIDE DEF M
    <2> QED BY <1>2, <2>1, RemainingElements
  <1>7. Len(s) = n - 1
    <2> HIDE DEF s, n
    <2> QED BY <1>1, <1>3, <1>6
  <1>8. Nth(K, 1) = m
    <2>0. \A j \in K : j <= m => j = m
      BY <1>1
    <2>1. {j \in K : j <= m} = {m}
      BY <1>1, <2>0
    <2>2. Cardinality({j \in K : j <= m}) = 1
      BY <2>1, FS_Singleton
    <2> QED BY <1>1, <2>2, NthIs
  <1>9. r # <<>> /\ Head(r) = q[m]
    <2>1. 1 \in 1 .. n /\ r[1] = q[m]
      BY <1>3, <1>1, <1>4, <1>8
    <2> HIDE DEF r, n
    <2>2. r # <<>>
      BY <1>3, <1>5
    <2> QED BY <1>4, <2>1, <2>2
  <1>10. ASSUME NEW k \in 1 .. n - 1 PROVE Nth(M, k) = Nth(K, k + 1)
    <2>1. k + 1 \in 1 .. n /\ k \in Nat /\ k >= 1
      <3> HIDE DEF n
      <3> QED BY <1>1
    <2>2. Nth(K, k + 1) \in K /\ Cardinality({j \in K : j <= Nth(K, k + 1)}) = k + 1
      BY <1>1, <2>1, NthExists
    <2>3. PICK i \in K : i = Nth(K, k + 1)
      BY <2>2
    <2> DEFINE A == {j \in K : j <= i}
    <2>4. i # m
      <3>1. SUFFICES ASSUME i = m PROVE FALSE
        OBVIOUS
      <3>0. \A j \in K : j <= m => j = m
        BY <1>1
      <3>2. A = {m}
        BY <1>1, <3>0, <3>1
      <3>3. Cardinality(A) = 1
        BY <3>2, FS_Singleton
      <3> QED BY <2>1, <2>2, <2>3, <3>3
    <2>5. {j \in M : j <= i} = A \ {m} /\ i \in M /\ m \in A
      BY <2>4
    <2>6. IsFiniteSet(A)
      <3>1. A \in SUBSET K
        OBVIOUS
      <3> QED BY <1>1, <3>1, FS_Subset
    <2>7. Cardinality(A \ {m}) = k
      <3>1. Cardinality(A) = k + 1
        BY <2>2, <2>3
      <3> HIDE DEF A
      <3>2. Cardinality(A \ {m}) = Cardinality(A) - 1
        BY <2>5, <2>6, FS_RemoveElement
      <3> QED BY <2>1, <3>1, <3>2
    <2> HIDE DEF M, A
    <2>8. Nth(M, Cardinality({j \in M : j <= i})) = i
      BY <1>2, <2>5, NthIs
    <2> QED BY <2>3, <2>5, <2>7, <2>8
  <1>11. /\ Tail(r) \in Seq(S) /\ Len(Tail(r)) = n - 1
         /\ \A k \in 1 .. n - 1 : Tail(r)[k] = r[k + 1]
    <2> HIDE DEF r
    <2> QED BY <1>4, <1>5, <1>9, HeadTailProperties
  <1>12. ASSUME NEW k \in 1 .. n - 1 PROVE s[k] = Tail(r)[k]
    <2>1. k + 1 \in 1 .. n
      <3> HIDE DEF n
      <3> QED BY <1>1
    <2> QED BY <1>4, <1>6, <1>10, <1>11, <2>1
  <1> HIDE DEF s, r, n
  <1>13. s = Tail(r)
    BY <1>6, <1>7, <1>11, <1>12, SeqEqual
  <1> QED BY <1>9, <1>13 DEF s, r

\* An item is taken out that does not remain.
LEMMA RemainingRemoveAt ==
  ASSUME NEW S, NEW q \in Seq(S), NEW K \in SUBSET (1 .. Len(q)),
         NEW i \in 1 .. Len(q), i \notin K,
         NEW M \in SUBSET (1 .. Len(q) - 1),
         \A k \in M : (k < i /\ k \in K) \/ (k >= i /\ k + 1 \in K),
         \A k \in K : (k < i /\ k \in M) \/ (k > i /\ k - 1 \in M)
  PROVE  Remaining(RemoveAt(q, i), M) = Remaining(q, K)
  <1> DEFINE g == [k \in M |-> IF k < i THEN k ELSE k + 1]
  <1>1. /\ Len(q) \in Nat /\ i \in Nat /\ 1 <= i /\ i <= Len(q)
        /\ \A k \in 1 .. Len(q) - 1 : RemoveAt(q, i)[k] = IF k < i THEN q[k] ELSE q[k + 1]
        /\ \A k \in M : k \in Nat /\ 1 <= k /\ k <= Len(q) - 1
    BY RemoveAtElements
  <1>2. /\ IsFiniteSet(K) /\ K \in SUBSET Nat
        /\ \A k \in K : k \in Nat /\ 1 <= k /\ k <= Len(q)
    BY SomePositions
  <1>3. IsFiniteSet(M) /\ M \in SUBSET Nat
    <2>1. M \in SUBSET (1 .. Len(q))
      BY <1>1
    <2> QED BY <2>1, SomePositions
  <1>4. g \in [M -> K]
    BY <1>1
  <1>5. \A k, l \in M : k < l => g[k] < g[l]
    BY <1>1
  <1>6. ASSUME NEW l \in K PROVE \E k \in M : g[k] = l
    <2>1. CASE l < i /\ l \in M
      BY <2>1
    <2>2. CASE l > i /\ l - 1 \in M
      <3>1. ~(l - 1 < i) /\ (l - 1) + 1 = l
        BY <1>1, <1>2, <2>2
      <3> QED BY <2>2, <3>1
    <2> QED BY <2>1, <2>2
  <1>7. PICK p : p = RemoveAt(q, i)
    OBVIOUS
  <1>8. \A k \in M : p[k] = q[g[k]]
    BY <1>1, <1>7
  <1> HIDE DEF g
  <1>9. Remaining(p, M) = Remaining(q, K)
    <2>1. \A l \in K : \E k \in M : g[k] = l
      BY <1>6
    <2>2. K \in SUBSET Nat /\ IsFiniteSet(K) /\ M \in SUBSET Nat /\ IsFiniteSet(M)
      BY <1>2, <1>3
    <2>3. PICK A \in SUBSET Nat, B \in SUBSET Nat : A = M /\ B = K
      BY <2>2
    <2>4. g \in [A -> B] /\ IsFiniteSet(A) /\ IsFiniteSet(B)
      BY <1>4, <2>2, <2>3
    <2>5. \A k, l \in A : k < l => g[k] < g[l]
      BY <1>5, <2>3
    <2>6. \A k \in A : p[k] = q[g[k]]
      BY <1>8, <2>3
    <2>7. \A l \in B : \E k \in A : g[k] = l
      BY <2>1, <2>3
    <2>8. Remaining(p, A) = Remaining(q, B)
      BY <2>4, <2>5, <2>6, <2>7, SameRemaining, SMTT(30)
    <2> QED BY <2>3, <2>8
  <1> QED BY <1>7, <1>9

\* What remains of what remains.
LEMMA RemainingTwice ==
  ASSUME NEW S, NEW q \in Seq(S), NEW K \in SUBSET (1 .. Len(q)), NEW L \in SUBSET K,
         NEW M \in SUBSET (1 .. Cardinality(K)),
         \A k \in 1 .. Cardinality(K) : k \in M <=> Nth(K, k) \in L
  PROVE  Remaining(Remaining(q, K), M) = Remaining(q, L)
  <1> DEFINE g == [k \in M |-> Nth(K, k)]
             r == Remaining(q, K)
  <1>1. /\ r \in Seq(S) /\ DOMAIN r = 1 .. Cardinality(K)
        /\ \A k \in 1 .. Cardinality(K) : Nth(K, k) \in K /\ r[k] = q[Nth(K, k)]
        /\ \A k, l \in 1 .. Cardinality(K) : k < l => Nth(K, k) < Nth(K, l)
        /\ \A i \in K : \E k \in 1 .. Cardinality(K) : Nth(K, k) = i
    BY RemainingElements
  <1>2. IsFiniteSet(L) /\ L \in SUBSET Nat
    <2>1. L \in SUBSET (1 .. Len(q))
      OBVIOUS
    <2> QED BY <2>1, SomePositions
  <1>3. IsFiniteSet(M) /\ M \in SUBSET Nat
    <2>1. Len(r) = Cardinality(K)
      <3>1. Cardinality(K) \in Nat
        BY SomePositions
      <3> HIDE DEF r
      <3> QED BY <1>1, <3>1
    <2>2. M \in SUBSET (1 .. Len(r))
      BY <2>1
    <2> HIDE DEF r
    <2> QED BY <1>1, <2>2, SomePositions
  <1>4. g \in [M -> L] /\ \A k, l \in M : k < l => g[k] < g[l]
    BY <1>1
  <1>5. \A l \in L : \E k \in M : g[k] = l
    BY <1>1
  <1>6. \A k \in M : r[k] = q[g[k]]
    BY <1>1
  <1> HIDE DEF g, r
  <1>7. Remaining(r, M) = Remaining(q, L)
    BY <1>2, <1>3, <1>4, <1>5, <1>6, SameRemaining
  <1> QED BY <1>7 DEF r


----------------------------------------------------------------------------
(* Induction and recursion over numbers *)

\* A set of numbers that is not empty has a least one.
LEMMA Least ==
  ASSUME NEW T \in SUBSET Nat, T # {}
  PROVE  \E m \in T : \A k \in T : m <= k
  <1>1. PICK R : R = OpToRel(<, Nat)
    OBVIOUS
  <1>2. IsWellFoundedOn(R, Nat)
    BY <1>1, NatLessThanWellFounded
  <1>3. \A x, y \in Nat : <<x, y>> \in R <=> x < y
    BY <1>1 DEF OpToRel
  <1>4. \E m \in T : \A k \in T : ~(<<k, m>> \in R)
    BY <1>2, WFMin
  <1>5. \A m, k \in T : m \in Nat /\ k \in Nat /\ (~(k < m) => m <= k)
    OBVIOUS
  <1> QED BY <1>3, <1>4, <1>5

\* Min() of numbers.
LEMMA MinOf ==
  ASSUME NEW T \in SUBSET Nat, T # {}
  PROVE  Min(T) \in T /\ \A x \in T : Min(T) <= x
  <1>1. \E m \in T : \A x \in T : m <= x
    BY Least
  <1> QED BY <1>1 DEF Min

\* 1 .. n has n members.
LEMMA Interval ==
  ASSUME NEW n \in Nat
  PROVE  IsFiniteSet(1 .. n) /\ Cardinality(1 .. n) = n
  <1>1. 1 \in Int /\ n \in Int
    OBVIOUS
  <1>2. IsFiniteSet(1 .. n) /\ Cardinality(1 .. n) = IF 1 > n THEN 0 ELSE n - 1 + 1
    BY <1>1, FS_Interval
  <1> QED BY <1>2

\* Induction up to n, over a set instead of a formula.
LEMMA Induction ==
  ASSUME NEW n \in Nat, NEW T, 0 \in T,
         \A k \in 0 .. n : k # n /\ k \in T => k + 1 \in T
  PROVE  \A k \in 0 .. n : k \in T
  <1> DEFINE F == {k \in 0 .. n : k \notin T}
  <1> SUFFICES ASSUME F # {} PROVE FALSE
    OBVIOUS
  <1>1. F \in SUBSET Nat
    OBVIOUS
  <1>2. PICK m \in F : \A k \in F : m <= k
    BY <1>1, Least
  <1>3. m \in Nat /\ m # 0 /\ m <= n /\ m \notin T
    OBVIOUS
  <1>4. m - 1 \in 0 .. n /\ m - 1 # n /\ ~(m <= m - 1) /\ m - 1 + 1 = m
    BY <1>3
  <1>5. m - 1 \in T
    BY <1>2, <1>4
  <1> QED BY <1>3, <1>4, <1>5

\* f[k] is what the first k steps make of base.
Iterates(f, n, V, base, step) ==
  f \in [0 .. n -> V] /\ f[0] = base /\ \A k \in 0 .. n : k # n => f[k + 1] = step[k + 1][f[k]]

\* A recursive function exists.
LEMMA Recursion ==
  ASSUME NEW n \in Nat, NEW V, NEW base \in V, NEW step \in [1 .. n -> [V -> V]]
  PROVE  \E f : Iterates(f, n, V, base, step)
  <1> DEFINE Good(f, m) == f[0] = base /\ \A k \in 0 .. m : k # m => f[k + 1] = step[k + 1][f[k]]
             T == {m \in 0 .. n : \E f \in [0 .. m -> V] : Good(f, m)}
  <1>1. 0 \in T
    <2>1. PICK f : f = [k \in 0 .. 0 |-> base]
      OBVIOUS
    <2>2. f \in [0 .. 0 -> V] /\ f[0] = base /\ 0 \in 0 .. n
      BY <2>1
    <2>3. \A k \in 0 .. 0 : k = 0
      OBVIOUS
    <2>4. Good(f, 0)
      BY <2>2, <2>3
    <2> QED BY <2>2, <2>4
  <1>2. ASSUME NEW m \in 0 .. n, m # n, m \in T PROVE m + 1 \in T
    <2>1. PICK f \in [0 .. m -> V] : Good(f, m)
      BY <1>2
    <2>2. m \in Nat /\ m + 1 \in 1 .. n /\ m \in 0 .. m /\ m + 1 \in 0 .. n
      BY <1>2
    <2>3. step[m + 1] \in [V -> V] /\ f[m] \in V
      BY <2>1, <2>2
    <2>4. PICK v \in V : v = step[m + 1][f[m]]
      BY <2>3
    <2>5. PICK g : g = [k \in 0 .. m + 1 |-> IF k = m + 1 THEN v ELSE f[k]]
      OBVIOUS
    <2>6. g \in [0 .. m + 1 -> V]
      <3>1. \A k \in 0 .. m + 1 : k # m + 1 => k \in 0 .. m
        BY <2>2
      <3> QED BY <2>1, <2>4, <2>5, <3>1
    <2>7. g[0] = base
      BY <2>1, <2>2, <2>5
    <2>8. ASSUME NEW k \in 0 .. m + 1, k # m + 1 PROVE g[k + 1] = step[k + 1][g[k]]
      <3>1. k \in 0 .. m /\ k + 1 \in 0 .. m + 1 /\ k \in 0 .. m + 1
        BY <2>2, <2>8
      <3>2. g[k] = f[k]
        BY <2>5, <2>8, <3>1
      <3>3. CASE k = m
        BY <2>4, <2>5, <3>1, <3>2, <3>3
      <3>4. CASE k # m
        <4>1. k + 1 # m + 1
          BY <2>2, <3>4
        <4>2. f[k + 1] = step[k + 1][f[k]]
          BY <2>1, <3>1, <3>4
        <4> QED BY <2>5, <3>1, <3>2, <4>1, <4>2
      <3> QED BY <3>3, <3>4
    <2>9. Good(g, m + 1)
      BY <2>7, <2>8
    <2> QED BY <2>2, <2>6, <2>9
  <1>3. \A k \in 0 .. n : k \in T
    <2> HIDE DEF T
    <2> QED BY <1>1, <1>2, Induction
  <1>4. n \in 0 .. n
    OBVIOUS
  <1>5. PICK f \in [0 .. n -> V] : Good(f, n)
    BY <1>3, <1>4
  <1> QED BY <1>5 DEF Iterates

----------------------------------------------------------------------------
(* Concatenations *)

\* f[k] is the concatenation of the first k sequences.
Flattens(f, X, ss, n) ==
  /\ f \in [0 .. n -> Seq(X)]
  /\ f[0] = <<>> /\ \A k \in 0 .. n : k # n => f[k + 1] = f[k] \o ss[k + 1]
  /\ FlattenSeq(ss) = f[n]

\* What FlattenSeq() computes, one sequence at a time.
LEMMA FlattenSteps ==
  ASSUME NEW X, NEW ss \in Seq(Seq(X)), NEW n \in Nat, n = Len(ss)
  PROVE  \E f : Flattens(f, X, ss, n)
  <1>2. PICK step : step = [k \in 1 .. n |-> [x \in Seq(X) |-> x \o ss[k]]]
    OBVIOUS
  <1>3. \A k \in 1 .. n : ss[k] \in Seq(X)
    OBVIOUS
  <1>4. step \in [1 .. n -> [Seq(X) -> Seq(X)]]
    <2>1. \A k \in 1 .. n : \A x \in Seq(X) : x \o ss[k] \in Seq(X)
      BY <1>3, ConcatProperties
    <2>2. PICK A : A = Seq(X)
      OBVIOUS
    <2>3. \A k \in 1 .. n : [x \in A |-> x \o ss[k]] \in [A -> A]
      BY <2>1, <2>2, Zenon
    <2> QED BY <1>2, <2>2, <2>3, Zenon
  <1>5. <<>> \in Seq(X)
    OBVIOUS
  <1>6. PICK f \in [0 .. n -> Seq(X)] :
           f[0] = <<>> /\ \A k \in 0 .. n : k # n => f[k + 1] = step[k + 1][f[k]]
    <2>1. PICK V, e : V = Seq(X) /\ e = <<>>
      OBVIOUS
    <2>2. e \in V /\ step \in [1 .. n -> [V -> V]]
      BY <1>4, <1>5, <2>1
    <2>3. \E f : Iterates(f, n, V, e, step)
      BY <2>2, Recursion
    <2> QED BY <2>1, <2>3, Zenon DEF Iterates
  <1>7. \A k \in 0 .. n : k # n => f[k + 1] = f[k] \o ss[k + 1]
    <2>1. ASSUME NEW k \in 0 .. n, k # n PROVE f[k + 1] = f[k] \o ss[k + 1]
      <3>1. k + 1 \in 1 .. n
        BY <2>1
      <3>2. f[k] \in Seq(X) /\ f[k + 1] = step[k + 1][f[k]]
        BY <1>6, <2>1
      <3>4. step[k + 1] = [y \in Seq(X) |-> y \o ss[k + 1]]
        BY <1>2, <3>1, Zenon
      <3> QED BY <3>2, <3>4, Zenon
    <2> QED BY <2>1
  <1>8. CASE n = 0
    <2>1. ss = <<>>
      BY <1>8, EmptySeq
    <2>2. FlattenSeq(ss) = ss
      BY <1>8, Zenon DEF FlattenSeq
    <2> QED BY <1>6, <1>7, <1>8, <2>1, <2>2 DEF Flattens
  <1>9. CASE n # 0
    <2>1. PICK g : g = [k \in 1 .. n |-> f[k]]
      OBVIOUS
    <2>2. g = [k \in 1 .. n |-> IF k = 1 THEN ss[k] ELSE g[k - 1] \o ss[k]]
      <3>1. ASSUME NEW k \in 1 .. n PROVE g[k] = IF k = 1 THEN ss[k] ELSE g[k - 1] \o ss[k]
        <4> PICK j : j = k - 1
          OBVIOUS
        <4>0. j \in 0 .. n /\ j # n /\ k = j + 1
          OBVIOUS
        <4>3. f[k] = f[j] \o ss[k]
          BY <1>7, <4>0, Zenon
        <4>1. CASE k = 1
          <5>0. j = 0
            BY <4>1
          <5>1. f[0] \o ss[k] = ss[k]
            <6>1. ss[k] \in Seq(X)
              BY <1>3
            <6> QED BY <1>6, <6>1, ConcatEmptySeq
          <5> QED BY <2>1, <4>1, <4>3, <5>0, <5>1, Zenon
        <4>2. CASE k # 1
          <5>1. j \in 1 .. n
            BY <4>2
          <5>2. g[j] = f[j] /\ g[k] = f[k]
            BY <2>1, <5>1, Zenon
          <5>3. g[k] = g[j] \o ss[k]
            BY <4>3, <5>2, Zenon
          <5> QED BY <4>2, <5>3, Zenon
        <4> QED BY <4>1, <4>2
      <3>2. \A k \in 1 .. n : g[k] = IF k = 1 THEN ss[k] ELSE g[k - 1] \o ss[k]
        BY <3>1, Zenon
      <3>3. PICK D : D = 1 .. n
        OBVIOUS
      <3>4. g = [k \in D |-> g[k]] /\ \A k \in D : g[k] = IF k = 1 THEN ss[k] ELSE g[k - 1] \o ss[k]
        BY <2>1, <3>2, <3>3, Zenon
      <3>5. [k \in D |-> g[k]] = [k \in D |-> IF k = 1 THEN ss[k] ELSE g[k - 1] \o ss[k]]
        BY <3>4, Zenon
      <3> QED BY <3>3, <3>4, <3>5, Zenon
    <2>3. ASSUME NEW h, h = [k \in 1 .. n |-> IF k = 1 THEN ss[k] ELSE h[k - 1] \o ss[k]]
          PROVE  h[n] = f[n]
      <3>1. PICK T : T = {k \in 0 .. n : k = 0 \/ h[k] = f[k]}
        OBVIOUS
      <3>2. 0 \in T
        BY <3>1
      <3>3. ASSUME NEW k \in 0 .. n, k # n, k \in T PROVE k + 1 \in T
        <4>0. PICK l : l = k + 1
          OBVIOUS
        <4>1. l \in 1 .. n /\ l - 1 = k /\ l \in 0 .. n
          BY <3>3, <4>0
        <4>2. f[l] = f[k] \o ss[l]
          BY <1>7, <3>3, <4>0, Zenon
        <4>5. h[l] = IF l = 1 THEN ss[l] ELSE h[l - 1] \o ss[l]
          BY <2>3, <4>1, Zenon
        <4>3. CASE k = 0
          <5>1. f[k] \o ss[l] = ss[l]
            <6>1. ss[l] \in Seq(X)
              BY <1>3, <4>1
            <6> QED BY <1>6, <4>3, <6>1, ConcatEmptySeq
          <5>2. l = 1
            BY <4>0, <4>3
          <5>3. h[l] = f[l]
            BY <4>2, <4>5, <5>1, <5>2, Zenon
          <5> QED BY <3>1, <4>0, <4>1, <5>3, Zenon
        <4>4. CASE k # 0
          <5>1. l # 1 /\ h[k] = f[k]
            BY <3>1, <3>3, <4>1, <4>4
          <5>2. h[l] = h[k] \o ss[l]
            BY <4>1, <4>5, <5>1, Zenon
          <5>3. h[l] = f[l]
            BY <4>2, <5>1, <5>2, Zenon
          <5> QED BY <3>1, <4>0, <4>1, <5>3, Zenon
        <4> QED BY <4>3, <4>4
      <3>4. \A k \in 0 .. n : k \in T
        BY <3>2, <3>3, Induction
      <3>5. n \in 0 .. n
        OBVIOUS
      <3> QED BY <1>9, <3>1, <3>4, <3>5
    <2>4. FlattenSeq(ss) = f[n]
      BY <1>9, <2>2, <2>3 DEF FlattenSeq
    <2> QED BY <1>6, <1>7, <2>4 DEF Flattens
  <1> QED BY <1>8, <1>9

\* Nothing to concatenate.
LEMMA FlattenNone == FlattenSeq(<<>>) = <<>>
  BY DEF FlattenSeq

\* One sequence more.
LEMMA FlattenAppend ==
  ASSUME NEW X, NEW ss \in Seq(Seq(X)), NEW s \in Seq(X)
  PROVE  FlattenSeq(Append(ss, s)) = FlattenSeq(ss) \o s
  <1>1. PICK n \in Nat : n = Len(ss)
    OBVIOUS
  <1>2. PICK f : Flattens(f, X, ss, n)
    BY <1>1, FlattenSteps
  <1>3. PICK ts : ts = Append(ss, s)
    OBVIOUS
  <1>4. PICK m \in Nat : m = n + 1
    OBVIOUS
  <1>5. /\ ts \in Seq(Seq(X)) /\ Len(ts) = m /\ ts[m] = s
        /\ \A k \in 1 .. n : ts[k] = ss[k]
    BY <1>1, <1>3, <1>4, AppendProperties
  <1>6. PICK g : Flattens(g, X, ts, m)
    BY <1>5, FlattenSteps
  <1>7. PICK T : T = {k \in 0 .. n : g[k] = f[k]}
    OBVIOUS
  <1>8. 0 \in T
    BY <1>2, <1>6, <1>7 DEF Flattens
  <1>9. ASSUME NEW k \in 0 .. n, k # n, k \in T PROVE k + 1 \in T
    <2>1. k \in 0 .. m /\ k # m /\ k + 1 \in 1 .. n /\ k + 1 \in 0 .. n
      BY <1>4, <1>9
    <2>2. g[k + 1] = g[k] \o ts[k + 1] /\ f[k + 1] = f[k] \o ss[k + 1]
      BY <1>2, <1>6, <1>9, <2>1, Zenon DEF Flattens
    <2>3. g[k] = f[k] /\ ts[k + 1] = ss[k + 1]
      BY <1>5, <1>7, <1>9, <2>1
    <2>4. g[k + 1] = f[k + 1]
      BY <2>2, <2>3, Zenon
    <2> QED BY <1>7, <2>1, <2>4
  <1>10. \A k \in 0 .. n : k \in T
    BY <1>8, <1>9, Induction
  <1>11. n \in 0 .. n /\ n \in 0 .. m /\ n # m
    BY <1>4
  <1>12. g[m] = g[n] \o ts[m] /\ g[n] = f[n]
    BY <1>4, <1>6, <1>7, <1>10, <1>11, Zenon DEF Flattens
  <1> QED BY <1>2, <1>3, <1>5, <1>6, <1>12, Zenon DEF Flattens

----------------------------------------------------------------------------
(* How the items of a sequence follow each other *)

\* Any two items of s, the one before the other, are related by R.
Goes(s, R) == \A a, b \in DOMAIN s : a < b => <<s[a], s[b]>> \in R

\* The items of a sequence.
LEMMA SequenceItems ==
  ASSUME NEW X, NEW s \in Seq(X)
  PROVE  /\ Len(s) \in Nat /\ DOMAIN s = 1 .. Len(s)
         /\ \A x : x \in ToSet(s) <=> \E a \in 1 .. Len(s) : s[a] = x
         /\ ToSet(s) \subseteq X
  <1>1. Len(s) \in Nat /\ DOMAIN s = 1 .. Len(s) /\ \A a \in 1 .. Len(s) : s[a] \in X
    OBVIOUS
  <1>2. \A x : x \in ToSet(s) <=> \E a \in 1 .. Len(s) : s[a] = x
    BY <1>1, Zenon DEF ToSet
  <1> QED BY <1>1, <1>2

\* The items of a concatenation.
LEMMA ConcatItems ==
  ASSUME NEW X, NEW s \in Seq(X), NEW t \in Seq(X)
  PROVE  ToSet(s \o t) = ToSet(s) \cup ToSet(t)
  <1>1. PICK u, m, n : u = s \o t /\ m = Len(s) /\ n = Len(t)
    OBVIOUS
  <1>2. /\ u \in Seq(X) /\ m \in Nat /\ n \in Nat /\ Len(u) = m + n
        /\ \A a \in 1 .. m + n : u[a] = IF a <= m THEN s[a] ELSE t[a - m]
    BY <1>1, ConcatProperties
  <1>3. /\ \A x : x \in ToSet(u) <=> \E a \in 1 .. m + n : u[a] = x
        /\ \A x : x \in ToSet(s) <=> \E a \in 1 .. m : s[a] = x
        /\ \A x : x \in ToSet(t) <=> \E a \in 1 .. n : t[a] = x
    <2>1. \A x : x \in ToSet(u) <=> \E a \in 1 .. m + n : u[a] = x
      <3>1. \A x : x \in ToSet(u) <=> \E a \in 1 .. Len(u) : u[a] = x
        BY <1>2, SequenceItems
      <3> QED BY <1>2, <3>1, Zenon
    <2>2. \A x : x \in ToSet(s) <=> \E a \in 1 .. m : s[a] = x
      BY <1>1, SequenceItems, Zenon
    <2>3. \A x : x \in ToSet(t) <=> \E a \in 1 .. n : t[a] = x
      BY <1>1, SequenceItems, Zenon
    <2> QED BY <2>1, <2>2, <2>3
  <1>4. ASSUME NEW x, x \in ToSet(u) PROVE x \in ToSet(s) \cup ToSet(t)
    <2>1. PICK a \in 1 .. m + n : u[a] = x
      BY <1>3, <1>4
    <2>2. CASE a <= m
      BY <1>2, <1>3, <2>1, <2>2
    <2>3. CASE ~(a <= m)
      <3>1. a - m \in 1 .. n /\ t[a - m] = x
        BY <1>2, <2>1, <2>3
      <3> QED BY <1>3, <3>1
    <2> QED BY <2>2, <2>3
  <1>5. ASSUME NEW x, x \in ToSet(s) PROVE x \in ToSet(u)
    <2>1. PICK a \in 1 .. m : s[a] = x
      BY <1>3, <1>5
    <2>2. a \in 1 .. m + n /\ a <= m
      BY <1>2
    <2> QED BY <1>2, <1>3, <2>1, <2>2
  <1>6. ASSUME NEW x, x \in ToSet(t) PROVE x \in ToSet(u)
    <2>1. PICK a \in 1 .. n : t[a] = x
      BY <1>3, <1>6
    <2>2. PICK b : b = a + m
      OBVIOUS
    <2>3. b \in 1 .. m + n /\ ~(b <= m) /\ b - m = a
      BY <1>2, <2>2
    <2>4. u[b] = t[a]
      BY <1>2, <2>3
    <2> QED BY <1>3, <2>1, <2>3, <2>4
  <1>7. ToSet(u) = ToSet(s) \cup ToSet(t)
    BY <1>4, <1>5, <1>6
  <1> QED BY <1>1, <1>7

\* Two sequences whose items are related, each of the first to each of the second.
LEMMA ConcatGoes ==
  ASSUME NEW X, NEW s \in Seq(X), NEW t \in Seq(X), NEW R, Goes(s, R), Goes(t, R),
         \A x \in ToSet(s), y \in ToSet(t) : <<x, y>> \in R
  PROVE  Goes(s \o t, R)
  <1>1. PICK u, m, n : u = s \o t /\ m = Len(s) /\ n = Len(t)
    OBVIOUS
  <1>2. /\ u \in Seq(X) /\ m \in Nat /\ n \in Nat /\ Len(u) = m + n
        /\ \A a \in 1 .. m + n : u[a] = IF a <= m THEN s[a] ELSE t[a - m]
    BY <1>1, ConcatProperties
  <1>3. /\ \A a \in 1 .. m : s[a] \in ToSet(s)
        /\ \A a \in 1 .. n : t[a] \in ToSet(t)
    BY <1>1, SequenceItems, Zenon
  <1>4. /\ \A a, b \in 1 .. m : a < b => <<s[a], s[b]>> \in R
        /\ \A a, b \in 1 .. n : a < b => <<t[a], t[b]>> \in R
    <2>1. DOMAIN s = 1 .. m /\ DOMAIN t = 1 .. n
      BY <1>1
    <2> QED BY <2>1, Zenon DEF Goes
  <1>5. ASSUME NEW a \in 1 .. m + n, NEW b \in 1 .. m + n, a < b
        PROVE  <<u[a], u[b]>> \in R
    <2>1. CASE b <= m
      <3>1. a \in 1 .. m /\ b \in 1 .. m /\ a <= m
        BY <1>2, <1>5, <2>1
      <3>2. u[a] = s[a] /\ u[b] = s[b]
        BY <1>2, <2>1, <3>1
      <3> QED BY <1>4, <1>5, <3>1, <3>2
    <2>2. CASE ~(b <= m) /\ a <= m
      <3>1. a \in 1 .. m /\ b - m \in 1 .. n
        BY <1>2, <2>2
      <3>2. u[a] = s[a] /\ u[b] = t[b - m]
        BY <1>2, <2>2
      <3> QED BY <1>3, <3>1, <3>2
    <2>3. CASE ~(b <= m) /\ ~(a <= m)
      <3>1. PICK c, d : c = a - m /\ d = b - m
        OBVIOUS
      <3>2. c \in 1 .. n /\ d \in 1 .. n /\ c < d
        BY <1>2, <1>5, <2>3, <3>1
      <3>3. u[a] = t[c] /\ u[b] = t[d]
        BY <1>2, <2>3, <3>1
      <3> QED BY <1>4, <3>2, <3>3
    <2> QED BY <2>1, <2>2, <2>3
  <1>6. Goes(u, R)
    BY <1>2, <1>5 DEF Goes
  <1> QED BY <1>1, <1>6

\* The items of the first k sequences.
LEMMA FlattenFirst ==
  ASSUME NEW X, NEW ss \in Seq(Seq(X)), NEW n \in Nat, n = Len(ss), NEW f, Flattens(f, X, ss, n)
  PROVE  \A k \in 0 .. n : \A x : x \in ToSet(f[k]) <=> \E j \in 1 .. k : x \in ToSet(ss[j])
  <1>1. PICK T : T = {k \in 0 .. n : \A x : x \in ToSet(f[k]) <=> \E j \in 1 .. k : x \in ToSet(ss[j])}
    OBVIOUS
  <1>2. 0 \in T
    <2>1. f[0] = <<>> /\ ToSet(<<>>) = {} /\ 0 \in 0 .. n
      BY DEF Flattens, ToSet
    <2>2. \A j \in 1 .. 0 : FALSE
      OBVIOUS
    <2> QED BY <1>1, <2>1, <2>2
  <1>3. ASSUME NEW k \in 0 .. n, k # n, k \in T PROVE k + 1 \in T
    <2>1. k + 1 \in 1 .. n /\ k + 1 \in 0 .. n
      BY <1>3
    <2>2. f[k + 1] = f[k] \o ss[k + 1] /\ f[k] \in Seq(X)
      BY <1>3, Zenon DEF Flattens
    <2>3. ss[k + 1] \in Seq(X)
      BY <2>1
    <2>4. ToSet(f[k + 1]) = ToSet(f[k]) \cup ToSet(ss[k + 1])
      BY <2>2, <2>3, ConcatItems
    <2>5. \A x : x \in ToSet(f[k]) <=> \E j \in 1 .. k : x \in ToSet(ss[j])
      BY <1>1, <1>3
    <2>6. \A j : j \in 1 .. k + 1 <=> j \in 1 .. k \/ j = k + 1
      BY <1>3
    <2>7. \A x : x \in ToSet(f[k + 1]) <=> \E j \in 1 .. k + 1 : x \in ToSet(ss[j])
      BY <2>4, <2>5, <2>6, Zenon
    <2> QED BY <1>1, <2>1, <2>7
  <1>4. \A k \in 0 .. n : k \in T
    BY <1>2, <1>3, Induction
  <1> QED BY <1>1, <1>4

\* The items of a concatenation of sequences.
LEMMA FlattenItems ==
  ASSUME NEW X, NEW ss \in Seq(Seq(X))
  PROVE  /\ FlattenSeq(ss) \in Seq(X)
         /\ \A x : x \in ToSet(FlattenSeq(ss)) <=> \E j \in 1 .. Len(ss) : x \in ToSet(ss[j])
  <1>1. PICK n \in Nat : n = Len(ss)
    OBVIOUS
  <1>2. PICK f : Flattens(f, X, ss, n)
    BY <1>1, FlattenSteps
  <1>3. \A k \in 0 .. n : \A x : x \in ToSet(f[k]) <=> \E j \in 1 .. k : x \in ToSet(ss[j])
    BY <1>1, <1>2, FlattenFirst
  <1>4. n \in 0 .. n /\ FlattenSeq(ss) = f[n] /\ f[n] \in Seq(X)
    BY <1>2 DEF Flattens
  <1> QED BY <1>1, <1>3, <1>4

\* Related items of each sequence, and of any two of them, make related items of all.
LEMMA FlattenGoes ==
  ASSUME NEW X, NEW ss \in Seq(Seq(X)), NEW R, \A k \in 1 .. Len(ss) : Goes(ss[k], R),
         \A j, k \in 1 .. Len(ss) : j < k =>
            \A x \in ToSet(ss[j]), y \in ToSet(ss[k]) : <<x, y>> \in R
  PROVE  Goes(FlattenSeq(ss), R)
  <1>1. PICK n \in Nat : n = Len(ss)
    OBVIOUS
  <1>2. PICK f : Flattens(f, X, ss, n)
    BY <1>1, FlattenSteps
  <1>3. \A k \in 0 .. n : \A x : x \in ToSet(f[k]) <=> \E j \in 1 .. k : x \in ToSet(ss[j])
    BY <1>1, <1>2, FlattenFirst
  <1>4. PICK T : T = {k \in 0 .. n : Goes(f[k], R)}
    OBVIOUS
  <1>5. 0 \in T
    <2>1. f[0] = <<>> /\ DOMAIN <<>> = {} /\ 0 \in 0 .. n
      BY <1>2 DEF Flattens
    <2>2. Goes(f[0], R)
      BY <2>1, Zenon DEF Goes
    <2> QED BY <1>4, <2>1, <2>2
  <1>6. ASSUME NEW k \in 0 .. n, k # n, k \in T PROVE k + 1 \in T
    <2>1. k + 1 \in 1 .. n /\ k + 1 \in 0 .. n /\ \A j \in 1 .. k : j \in 1 .. n /\ j < k + 1
      BY <1>6
    <2>2. f[k + 1] = f[k] \o ss[k + 1] /\ f[k] \in Seq(X)
      BY <1>2, <1>6, Zenon DEF Flattens
    <2>3. ss[k + 1] \in Seq(X) /\ Goes(ss[k + 1], R)
      BY <1>1, <2>1
    <2>4. ASSUME NEW x \in ToSet(f[k]), NEW y \in ToSet(ss[k + 1]) PROVE <<x, y>> \in R
      <3>1. PICK j \in 1 .. k : x \in ToSet(ss[j])
        BY <1>3, <1>6
      <3> QED BY <1>1, <2>1, <3>1
    <2>5. Goes(f[k] \o ss[k + 1], R)
      <3>1. Goes(f[k], R)
        BY <1>4, <1>6
      <3> QED BY <2>2, <2>3, <2>4, <3>1, ConcatGoes
    <2> QED BY <1>4, <2>1, <2>2, <2>5, Zenon
  <1>7. \A k \in 0 .. n : k \in T
    BY <1>5, <1>6, Induction
  <1>8. n \in 0 .. n /\ FlattenSeq(ss) = f[n]
    BY <1>2 DEF Flattens
  <1> QED BY <1>4, <1>7, <1>8

\* Sequences of one length.
LEMMA FlattenLength ==
  ASSUME NEW X, NEW ss \in Seq(Seq(X)), NEW r \in Nat, \A k \in 1 .. Len(ss) : Len(ss[k]) = r
  PROVE  Len(FlattenSeq(ss)) = Len(ss) * r
  <1>1. PICK n \in Nat : n = Len(ss)
    OBVIOUS
  <1>2. PICK f : Flattens(f, X, ss, n)
    BY <1>1, FlattenSteps
  <1>4. PICK T : T = {k \in 0 .. n : Len(f[k]) = k * r}
    OBVIOUS
  <1>5. 0 \in T
    <2>1. f[0] = <<>> /\ Len(<<>>) = 0 /\ 0 \in 0 .. n /\ 0 * r = 0
      BY <1>2 DEF Flattens
    <2> QED BY <1>4, <2>1
  <1>6. ASSUME NEW k \in 0 .. n, k # n, k \in T PROVE k + 1 \in T
    <2>1. k + 1 \in 1 .. n /\ k + 1 \in 0 .. n
      BY <1>6
    <2>2. f[k + 1] = f[k] \o ss[k + 1] /\ f[k] \in Seq(X)
      BY <1>2, <1>6, Zenon DEF Flattens
    <2>3. ss[k + 1] \in Seq(X) /\ Len(ss[k + 1]) = r
      BY <1>1, <2>1
    <2>4. Len(f[k] \o ss[k + 1]) = Len(f[k]) + Len(ss[k + 1])
      BY <2>2, <2>3, ConcatProperties
    <2>5. k * r + r = (k + 1) * r
      OBVIOUS
    <2> QED BY <1>4, <1>6, <2>1, <2>2, <2>3, <2>4, <2>5
  <1>7. \A k \in 0 .. n : k \in T
    BY <1>5, <1>6, Induction
  <1>8. n \in 0 .. n /\ FlattenSeq(ss) = f[n]
    BY <1>2 DEF Flattens
  <1> QED BY <1>1, <1>4, <1>7, <1>8

----------------------------------------------------------------------------
(* Picking items *)

\* Pairs of numbers, the smaller first.
Rising == {p \in Nat \X Nat : p[1] < p[2]}

\* Counting goes up.
LEMMA NthRises ==
  ASSUME NEW K \in SUBSET Nat, IsFiniteSet(K), NEW k \in 1 .. Cardinality(K),
         NEW l \in 1 .. Cardinality(K), k < l
  PROVE  Nth(K, k) < Nth(K, l)
  <1>1. PICK i \in K, j \in K : /\ i = Nth(K, k) /\ Cardinality({x \in K : x <= i}) = k
                                /\ j = Nth(K, l) /\ Cardinality({x \in K : x <= j}) = l
    <2>1. /\ Nth(K, k) \in K /\ Cardinality({x \in K : x <= Nth(K, k)}) = k
          /\ Nth(K, l) \in K /\ Cardinality({x \in K : x <= Nth(K, l)}) = l
      BY NthExists
    <2> QED BY <2>1
  <1> SUFFICES ASSUME j <= i PROVE FALSE
    BY <1>1
  <1>2. PICK A, B : A = {x \in K : x <= i} /\ B = {x \in K : x <= j}
    OBVIOUS
  <1>3. B \subseteq A
    <2>1. \A x \in K : x \in Int
      OBVIOUS
    <2>2. i \in Int /\ j \in Int
      OBVIOUS
    <2>3. \A x \in K : x <= j => x <= i
      BY <2>1, <2>2
    <2> QED BY <1>2, <2>3
  <1>4. IsFiniteSet(A)
    BY <1>2, FS_Subset
  <1>5. Cardinality(B) <= Cardinality(A)
    BY <1>3, <1>4, FS_Subset
  <1> QED BY <1>1, <1>2, <1>5

\* InTurn() enumerates a set, the smallest number first.
LEMMA InTurnItems ==
  ASSUME NEW K \in SUBSET Nat, IsFiniteSet(K)
  PROVE  /\ Cardinality(K) \in Nat /\ InTurn(K) \in Seq(K) /\ Len(InTurn(K)) = Cardinality(K)
         /\ \A x : x \in ToSet(InTurn(K)) <=> x \in K
         /\ Goes(InTurn(K), Rising)
  <1>1. PICK n \in Nat : n = Cardinality(K)
    BY FS_CardinalityType
  <1>2. \A k \in 1 .. n : Nth(K, k) \in K
    BY <1>1, NthExists
  <1>3. PICK s : s = InTurn(K)
    OBVIOUS
  <1>4. s = [k \in 1 .. n |-> Nth(K, k)]
    BY <1>1, <1>3 DEF InTurn
  <1>5. s \in Seq(K) /\ Len(s) = n /\ DOMAIN s = 1 .. n /\ \A k \in 1 .. n : s[k] = Nth(K, k)
    BY <1>2, <1>4
  <1>6. ASSUME NEW x, x \in K PROVE x \in ToSet(s)
    <2>1. PICK k \in 1 .. n : Nth(K, k) = x
      BY <1>1, <1>6, NthCovers
    <2> QED BY <1>5, <2>1 DEF ToSet
  <1>7. \A x : x \in ToSet(s) => x \in K
    BY <1>2, <1>5 DEF ToSet
  <1>8. ASSUME NEW k \in 1 .. n, NEW l \in 1 .. n, k < l PROVE <<s[k], s[l]>> \in Rising
    <2>1. Nth(K, k) < Nth(K, l)
      BY <1>1, <1>8, NthRises
    <2>2. s[k] \in Nat /\ s[l] \in Nat /\ s[k] < s[l]
      BY <1>2, <1>5, <2>1
    <2> QED BY <2>2 DEF Rising
  <1>9. Goes(s, Rising)
    BY <1>5, <1>8 DEF Goes
  <1> QED BY <1>1, <1>3, <1>5, <1>6, <1>7, <1>9

\* Picking keeps nothing but the items picked.
LEMMA ThoseItems ==
  ASSUME NEW X, NEW q \in Seq(X), NEW S
  PROVE  /\ Those(q, S) \in Seq(X)
         /\ \A x : x \in ToSet(Those(q, S)) <=> x \in ToSet(q) /\ x \in S
  <1>1. PICK n \in Nat : n = Len(q)
    OBVIOUS
  <1>2. DOMAIN q = 1 .. n /\ \A x : x \in ToSet(q) <=> \E a \in 1 .. n : q[a] = x
    BY <1>1, SequenceItems
  <1>3. PICK K : K = {k \in 1 .. n : q[k] \in S}
    OBVIOUS
  <1>4. PICK r : r = Remaining(q, K)
    OBVIOUS
  <1>5. r = Those(q, S)
    BY <1>2, <1>3, <1>4 DEF Those
  <1>6. K \in SUBSET (1 .. Len(q))
    BY <1>1, <1>3
  <1>7. /\ IsFiniteSet(K) /\ K \in SUBSET Nat
        /\ r \in Seq(X) /\ DOMAIN r = 1 .. Cardinality(K)
        /\ \A k \in 1 .. Cardinality(K) : Nth(K, k) \in K /\ r[k] = q[Nth(K, k)]
    BY <1>4, <1>6, SomePositions, RemainingElements
  <1>8. ASSUME NEW x, x \in ToSet(r) PROVE x \in ToSet(q) /\ x \in S
    <2>1. PICK k \in 1 .. Cardinality(K) : r[k] = x
      BY <1>7, <1>8 DEF ToSet
    <2>2. Nth(K, k) \in K /\ x = q[Nth(K, k)]
      BY <1>7, <2>1
    <2> QED BY <1>2, <1>3, <2>2
  <1>9. ASSUME NEW x, x \in ToSet(q), x \in S PROVE x \in ToSet(r)
    <2>1. PICK a \in 1 .. n : q[a] = x
      BY <1>2, <1>9
    <2>2. a \in K
      BY <1>3, <1>9, <2>1
    <2>3. PICK k \in 1 .. Cardinality(K) : Nth(K, k) = a
      BY <1>7, <2>2, NthCovers
    <2> QED BY <1>7, <2>1, <2>3 DEF ToSet
  <1> QED BY <1>5, <1>7, <1>8, <1>9

\* Picking keeps how items are related.
LEMMA ThoseGoes ==
  ASSUME NEW X, NEW q \in Seq(X), NEW S, NEW R, Goes(q, R)
  PROVE  Goes(Those(q, S), R)
  <1>1. PICK n \in Nat : n = Len(q) /\ DOMAIN q = 1 .. n
    OBVIOUS
  <1>3. PICK K : K = {k \in 1 .. n : q[k] \in S}
    OBVIOUS
  <1>4. PICK r : r = Remaining(q, K)
    OBVIOUS
  <1>5. r = Those(q, S)
    BY <1>1, <1>3, <1>4 DEF Those
  <1>6. K \in SUBSET (1 .. Len(q))
    BY <1>1, <1>3
  <1>7. /\ IsFiniteSet(K) /\ K \in SUBSET Nat
        /\ r \in Seq(X) /\ DOMAIN r = 1 .. Cardinality(K)
        /\ \A k \in 1 .. Cardinality(K) : Nth(K, k) \in K /\ r[k] = q[Nth(K, k)]
    BY <1>4, <1>6, SomePositions, RemainingElements
  <1>8. ASSUME NEW a \in DOMAIN r, NEW b \in DOMAIN r, a < b PROVE <<r[a], r[b]>> \in R
    <2>1. a \in 1 .. Cardinality(K) /\ b \in 1 .. Cardinality(K)
      BY <1>7
    <2>2. Nth(K, a) < Nth(K, b)
      BY <1>7, <1>8, <2>1, NthRises
    <2>3. Nth(K, a) \in DOMAIN q /\ Nth(K, b) \in DOMAIN q
      BY <1>1, <1>3, <1>7, <2>1
    <2>4. <<q[Nth(K, a)], q[Nth(K, b)]>> \in R
      BY <2>2, <2>3 DEF Goes
    <2> QED BY <1>7, <2>1, <2>4
  <1>9. Goes(r, R)
    BY <1>8 DEF Goes
  <1> QED BY <1>5, <1>9

\* Nothing to pick from.
LEMMA ThoseNone ==
  ASSUME NEW S
  PROVE  Those(<<>>, S) = <<>>
  <1>1. {k \in DOMAIN <<>> : <<>>[k] \in S} = {}
    OBVIOUS
  <1>2. Cardinality({}) = 0
    BY FS_EmptySet
  <1>3. Those(<<>>, S) = [k \in 1 .. 0 |-> <<>>[Nth({}, k)]]
    BY <1>1, <1>2, Zenon DEF Those, Remaining
  <1> QED BY <1>3

\* One item more to pick from.
LEMMA ThoseAppend ==
  ASSUME NEW X, NEW q \in Seq(X), NEW x \in X, NEW S
  PROVE  Those(Append(q, x), S) = IF x \in S THEN Append(Those(q, S), x) ELSE Those(q, S)
  <1>1. PICK n \in Nat : n = Len(q) /\ DOMAIN q = 1 .. n
    OBVIOUS
  <1>2. PICK a : a = Append(q, x)
    OBVIOUS
  <1>3. DOMAIN a = 1 .. n + 1 /\ a[n + 1] = x /\ \A k \in 1 .. n : a[k] = q[k]
    BY <1>1, <1>2, AppendProperties
  <1>4. PICK K, M : K = {k \in 1 .. n : q[k] \in S} /\ M = {k \in 1 .. n + 1 : a[k] \in S}
    OBVIOUS
  <1>5. K \in SUBSET (1 .. Len(q))
    BY <1>1, <1>4
  <1>6. Those(q, S) = Remaining(q, K) /\ Those(a, S) = Remaining(a, M)
    BY <1>1, <1>3, <1>4 DEF Those
  <1>7. CASE x \in S
    <2>1. M = K \cup {n + 1}
      BY <1>3, <1>4, <1>7
    <2>2. PICK r : r = Remaining(q, K)
      OBVIOUS
    <2>3. Remaining(Append(q, x), M) = Append(r, x)
      BY <1>1, <1>5, <2>1, <2>2, RemainingAppendKept
    <2> QED BY <1>2, <1>6, <1>7, <2>2, <2>3, Zenon
  <1>8. CASE x \notin S
    <2>1. M = K
      BY <1>3, <1>4, <1>8
    <2>2. Remaining(Append(q, x), K) = Remaining(q, K)
      BY <1>5, RemainingAppend
    <2> QED BY <1>2, <1>6, <1>8, <2>1, <2>2, Zenon
  <1> QED BY <1>2, <1>7, <1>8

\* p[k] is the first k items of t, for an induction.
Begins(p, X, t, n) ==
  /\ p[0] = <<>> /\ p[n] = t /\ \A k \in 0 .. n : p[k] \in Seq(X)
  /\ \A k \in 0 .. n : k # n => p[k + 1] = Append(p[k], t[k + 1])

\* A sequence is built by appending its items.
LEMMA Beginnings ==
  ASSUME NEW X, NEW t \in Seq(X), NEW n \in Nat, n = Len(t)
  PROVE  \E p : Begins(p, X, t, n)
  <1>0. PICK p : p = [k \in 0 .. n |-> SubSeq(t, 1, k)]
    OBVIOUS
  <1>1. SubSeq(t, 1, 0) = <<>>
    BY SubSeqEmpty
  <1>2. SubSeq(t, 1, n) = t
    BY SubSeqFull
  <1>3. ASSUME NEW k \in 0 .. n
        PROVE  /\ SubSeq(t, 1, k) \in Seq(X) /\ Len(SubSeq(t, 1, k)) = k
               /\ \A i \in 1 .. k : SubSeq(t, 1, k)[i] = t[i]
    <2>1. \A i \in 1 .. k : t[i] \in X
      OBVIOUS
    <2> QED BY <2>1, SubSeqProperties
  <1>4. ASSUME NEW k \in 0 .. n, k # n
        PROVE  SubSeq(t, 1, k + 1) = Append(SubSeq(t, 1, k), t[k + 1])
    <2>1. PICK u, q : u = SubSeq(t, 1, k) /\ q = SubSeq(t, 1, k + 1)
      OBVIOUS
    <2>2. k + 1 \in 0 .. n /\ t[k + 1] \in X
      BY <1>4
    <2>3. /\ u \in Seq(X) /\ Len(u) = k /\ \A i \in 1 .. k : u[i] = t[i]
          /\ q \in Seq(X) /\ Len(q) = k + 1 /\ \A i \in 1 .. k + 1 : q[i] = t[i]
      BY <1>3, <2>1, <2>2
    <2>4. PICK r : r = Append(u, t[k + 1])
      OBVIOUS
    <2>5. r \in Seq(X) /\ Len(r) = k + 1 /\ \A i \in 1 .. k : r[i] = u[i] /\ r[k + 1] = t[k + 1]
      BY <2>2, <2>3, <2>4, AppendProperties
    <2>6. \A i \in 1 .. k + 1 : i \in 1 .. k \/ i = k + 1
      OBVIOUS
    <2>7. r[k + 1] = t[k + 1]
      BY <2>2, <2>3, <2>4, AppendProperties
    <2>8. \A i \in 1 .. k + 1 : q[i] = r[i]
      BY <2>3, <2>5, <2>6, <2>7
    <2>9. q = r
      BY <2>3, <2>5, <2>8, SeqEqual
    <2> QED BY <2>1, <2>4, <2>9
  <1>5. \A k \in 0 .. n : k # n => k + 1 \in 0 .. n
    OBVIOUS
  <1>6. 0 \in 0 .. n /\ n \in 0 .. n
    OBVIOUS
  <1>7. \A k \in 0 .. n : p[k] = SubSeq(t, 1, k)
    BY <1>0
  <1>8. Begins(p, X, t, n)
    BY <1>1, <1>2, <1>3, <1>4, <1>5, <1>6, <1>7, Zenon DEF Begins
  <1> QED BY <1>8

\* Appending to the second is appending to both.
LEMMA ConcatOfAppend ==
  ASSUME NEW X, NEW s \in Seq(X), NEW t \in Seq(X), NEW x \in X
  PROVE  s \o Append(t, x) = Append(s \o t, x)
  <1>1. <<x>> \in Seq(X) /\ Append(t, x) = t \o <<x>> /\ s \o t \in Seq(X)
    BY AppendIsConcat, ConcatProperties
  <1>2. Append(s \o t, x) = (s \o t) \o <<x>>
    BY <1>1, AppendIsConcat
  <1> QED BY <1>1, <1>2, ConcatAssociative

\* Picking from a concatenation.
LEMMA ThoseConcat ==
  ASSUME NEW X, NEW s \in Seq(X), NEW t \in Seq(X), NEW S
  PROVE  Those(s \o t, S) = Those(s, S) \o Those(t, S)
  <1>1. PICK n \in Nat : n = Len(t)
    OBVIOUS
  <1>2. PICK p : Begins(p, X, t, n)
    BY <1>1, Beginnings
  <1>3. /\ p[0] = <<>> /\ p[n] = t /\ \A k \in 0 .. n : p[k] \in Seq(X)
        /\ \A k \in 0 .. n : k # n => p[k + 1] = Append(p[k], t[k + 1])
    BY <1>2 DEF Begins
  <1>4. PICK T : T = {k \in 0 .. n : Those(s \o p[k], S) = Those(s, S) \o Those(p[k], S)}
    OBVIOUS
  <1>5. Those(s, S) \in Seq(X)
    BY ThoseItems
  <1>6. 0 \in T
    <2>1. s \o <<>> = s /\ Those(s, S) \o <<>> = Those(s, S)
      BY <1>5, ConcatEmptySeq
    <2>2. Those(s \o p[0], S) = Those(s, S) \o Those(p[0], S)
      BY <1>3, <2>1, ThoseNone, Zenon
    <2> QED BY <1>4, <2>2
  <1>7. ASSUME NEW k \in 0 .. n, k # n, k \in T PROVE k + 1 \in T
    <2>1. k + 1 \in 0 .. n /\ t[k + 1] \in X
      BY <1>1, <1>7
    <2>0. PICK u, v, w : u = p[k] /\ v = p[k + 1] /\ w = s \o u
      OBVIOUS
    <2>2. PICK x \in X : x = t[k + 1]
      BY <2>1
    <2>3. u \in Seq(X) /\ v = Append(u, x)
      BY <1>3, <1>7, <2>0, <2>2
    <2>4. w \in Seq(X) /\ s \o v = Append(w, x)
      BY <2>0, <2>2, <2>3, ConcatProperties, ConcatOfAppend
    <2>5. Those(w, S) = Those(s, S) \o Those(u, S)
      BY <1>4, <1>7, <2>0, <2>2
    <2>6. Those(Append(w, x), S) = IF x \in S THEN Append(Those(w, S), x) ELSE Those(w, S)
      BY <2>4, ThoseAppend
    <2>7. Those(v, S) = IF x \in S THEN Append(Those(u, S), x) ELSE Those(u, S)
      BY <2>3, ThoseAppend
    <2>8. Those(s, S) \o Append(Those(u, S), x) = Append(Those(s, S) \o Those(u, S), x)
      <3>1. Those(u, S) \in Seq(X)
        BY <2>3, ThoseItems
      <3>2. PICK c, d : c = Those(s, S) /\ d = Those(u, S)
        OBVIOUS
      <3>3. c \o Append(d, x) = Append(c \o d, x)
        BY <1>5, <3>1, <3>2, ConcatOfAppend
      <3> QED BY <3>2, <3>3, Zenon
    <2>9. Those(s \o v, S) = Those(s, S) \o Those(v, S)
      BY <2>4, <2>5, <2>6, <2>7, <2>8, Zenon
    <2> QED BY <1>4, <2>1, <2>0, <2>2, <2>9
  <1>8. \A k \in 0 .. n : k \in T
    BY <1>6, <1>7, Induction
  <1>9. n \in 0 .. n
    OBVIOUS
  <1> QED BY <1>3, <1>4, <1>8, <1>9

\* Everything is picked.
LEMMA ThoseAll ==
  ASSUME NEW X, NEW t \in Seq(X), NEW S, ToSet(t) \subseteq S
  PROVE  Those(t, S) = t
  <1>1. PICK n \in Nat : n = Len(t)
    OBVIOUS
  <1>2. PICK p : Begins(p, X, t, n)
    BY <1>1, Beginnings
  <1>3. /\ p[0] = <<>> /\ p[n] = t /\ \A k \in 0 .. n : p[k] \in Seq(X)
        /\ \A k \in 0 .. n : k # n => p[k + 1] = Append(p[k], t[k + 1])
    BY <1>2 DEF Begins
  <1>4. PICK T : T = {k \in 0 .. n : Those(p[k], S) = p[k]}
    OBVIOUS
  <1>6. 0 \in T
    BY <1>3, <1>4, ThoseNone
  <1>7. ASSUME NEW k \in 0 .. n, k # n, k \in T PROVE k + 1 \in T
    <2>1. k + 1 \in 0 .. n /\ k + 1 \in DOMAIN t /\ t[k + 1] \in X
      BY <1>1, <1>7
    <2>0. PICK u : u = p[k]
      OBVIOUS
    <2>2. PICK x \in X : x = t[k + 1]
      BY <2>1
    <2>3. u \in Seq(X) /\ p[k + 1] = Append(u, x) /\ Those(u, S) = u
      BY <1>3, <1>4, <1>7, <2>0, <2>2
    <2>4. x \in S
      BY <2>1, <2>0, <2>2 DEF ToSet
    <2>5. Those(Append(u, x), S) = IF x \in S THEN Append(Those(u, S), x) ELSE Those(u, S)
      BY <2>3, ThoseAppend
    <2>6. Those(p[k + 1], S) = p[k + 1]
      BY <2>3, <2>4, <2>5, Zenon
    <2> QED BY <1>4, <2>1, <2>6
  <1>8. \A k \in 0 .. n : k \in T
    BY <1>6, <1>7, Induction
  <1>9. n \in 0 .. n
    OBVIOUS
  <1> QED BY <1>3, <1>4, <1>8, <1>9

----------------------------------------------------------------------------
(* Recursive definitions, and the end of a sequence *)

\* The same in the form of a recursive definition.
Recurs(f, n, V, base, step) ==
  /\ f \in [0 .. n -> V] /\ \A k \in 1 .. n : f[k - 1] \in V
  /\ f = [k \in 0 .. n |-> IF k = 0 THEN base ELSE step[k][f[k - 1]]]

\* The function that a recursive definition chooses is the one that exists.
LEMMA IteratesFrom ==
  ASSUME NEW n \in Nat, NEW V, NEW base \in V, NEW step \in [1 .. n -> [V -> V]]
  PROVE  \E f : Recurs(f, n, V, base, step)
  <1>1. PICK f : Iterates(f, n, V, base, step)
    BY Recursion
  <1>2. f \in [0 .. n -> V] /\ f[0] = base
    BY <1>1 DEF Iterates
  <1>3. ASSUME NEW k \in 1 .. n PROVE f[k] = step[k][f[k - 1]] /\ f[k - 1] \in V
    <2>1. PICK j : j = k - 1
      OBVIOUS
    <2>2. j \in 0 .. n /\ j # n /\ k = j + 1
      BY <2>1
    <2>3. f[k] = step[k][f[j]]
      BY <1>1, <2>2, Zenon DEF Iterates
    <2> QED BY <1>2, <2>1, <2>2, <2>3
  <1>4. PICK D : D = 0 .. n
    OBVIOUS
  <1>5. \A k \in D : k # 0 => k \in 1 .. n
    BY <1>4
  <1>6. \A k \in D : f[k] = IF k = 0 THEN base ELSE step[k][f[k - 1]]
    BY <1>2, <1>3, <1>5, Zenon
  <1>7. f = [k \in D |-> f[k]]
    BY <1>2, <1>4
  <1>8. [k \in D |-> f[k]] = [k \in D |-> IF k = 0 THEN base ELSE step[k][f[k - 1]]]
    BY <1>6, Zenon
  <1>9. Recurs(f, n, V, base, step)
    BY <1>2, <1>3, <1>4, <1>7, <1>8, Zenon DEF Recurs
  <1> QED BY <1>9

\* The items of a sequence with another one at its end.
LEMMA AppendItems ==
  ASSUME NEW X, NEW s \in Seq(X), NEW x \in X
  PROVE  /\ ToSet(Append(s, x)) = ToSet(s) \cup {x}
         /\ Last(Append(s, x)) = x /\ Append(s, x) # <<>> /\ Append(s, x) \in Seq(X)
  <1>1. <<x>> \in Seq(X) /\ Append(s, x) = s \o <<x>> /\ ToSet(<<x>>) = {x}
    BY AppendIsConcat DEF ToSet
  <1>2. ToSet(s \o <<x>>) = ToSet(s) \cup ToSet(<<x>>)
    BY <1>1, ConcatItems
  <1>3. PICK t : t = Append(s, x)
    OBVIOUS
  <1>4. t \in Seq(X) /\ Len(t) = Len(s) + 1 /\ t[Len(s) + 1] = x /\ Len(s) \in Nat
    BY <1>3, AppendProperties
  <1>5. Last(t) = x
    BY <1>4 DEF Last
  <1>6. t # <<>>
    BY <1>4
  <1> QED BY <1>1, <1>2, <1>3, <1>4, <1>5, <1>6, Zenon

\* An item behind all those it has to come after.
LEMMA AppendGoes ==
  ASSUME NEW X, NEW s \in Seq(X), NEW x \in X, NEW R, Goes(s, R),
         \A y \in ToSet(s) : <<y, x>> \in R
  PROVE  Goes(Append(s, x), R)
  <1>1. <<x>> \in Seq(X) /\ Append(s, x) = s \o <<x>> /\ ToSet(<<x>>) = {x}
    BY AppendIsConcat DEF ToSet
  <1>2. Goes(<<x>>, R)
    <2>1. \A a, b \in DOMAIN <<x>> : ~(a < b)
      OBVIOUS
    <2> QED BY <2>1, Zenon DEF Goes
  <1>3. \A y \in ToSet(s), z \in ToSet(<<x>>) : <<y, z>> \in R
    BY <1>1, Zenon
  <1>4. Goes(s \o <<x>>, R)
    BY <1>1, <1>2, <1>3, ConcatGoes
  <1> QED BY <1>1, <1>4, Zenon

\* The last item is an item.
LEMMA LastItem ==
  ASSUME NEW X, NEW s \in Seq(X), s # <<>>
  PROVE  Last(s) \in ToSet(s) /\ Last(s) \in X
  <1>1. Len(s) \in Nat /\ Len(s) # 0
    BY EmptySeq
  <1>2. Len(s) \in DOMAIN s /\ s[Len(s)] \in X
    BY <1>1
  <1> QED BY <1>2 DEF Last, ToSet

----------------------------------------------------------------------------
(* Loops *)

\* A loop whose k-th round leads from W[k - 1] to W[k].
Turns(f, n, W, base, op) ==
  /\ f = [k \in 0 .. n |-> IF k = 0 THEN base ELSE op[k][f[k - 1]]]
  /\ \A k \in 0 .. n : f[k] \in W[k]

\* The values of a loop, one set of them per round.
LEMMA LoopExists ==
  ASSUME NEW n \in Nat, NEW W, NEW base \in W[0], NEW op,
         \A k \in 1 .. n : \A d \in W[k - 1] : op[k][d] \in W[k]
  PROVE  \E f : Turns(f, n, W, base, op)
  <1>1. PICK U : U = UNION {W[k] : k \in 0 .. n}
    OBVIOUS
  <1>2. PICK step : step = [k \in 1 .. n |-> [d \in U |-> IF d \in W[k - 1] THEN op[k][d] ELSE base]]
    OBVIOUS
  <1>3. base \in U /\ step \in [1 .. n -> [U -> U]]
    <2>1. base \in U
      BY <1>1
    <2>2. ASSUME NEW k \in 1 .. n, NEW d \in U
          PROVE  (IF d \in W[k - 1] THEN op[k][d] ELSE base) \in U
      <3>1. k \in 0 .. n
        OBVIOUS
      <3> QED BY <1>1, <2>1, <3>1
    <2> QED BY <1>2, <2>1, <2>2
  <1>4. PICK f : Recurs(f, n, U, base, step)
    BY <1>3, IteratesFrom
  <1>5. /\ f \in [0 .. n -> U] /\ \A k \in 1 .. n : f[k - 1] \in U
        /\ f = [k \in 0 .. n |-> IF k = 0 THEN base ELSE step[k][f[k - 1]]]
    BY <1>4 DEF Recurs
  <1>6. PICK T : T = {k \in 0 .. n : f[k] \in W[k]}
    OBVIOUS
  <1>7. 0 \in T
    BY <1>5, <1>6
  <1>8. ASSUME NEW k \in 0 .. n, k # n, k \in T PROVE k + 1 \in T
    <2>1. PICK m \in 1 .. n : m = k + 1 /\ m - 1 = k /\ m \in 0 .. n /\ m # 0
      BY <1>8
    <2>2. f[m] = step[m][f[m - 1]] /\ f[m - 1] \in U /\ f[m - 1] \in W[m - 1]
      BY <1>5, <1>6, <1>8, <2>1
    <2>3. f[m] = op[m][f[m - 1]]
      BY <1>2, <2>2
    <2> QED BY <1>6, <2>1, <2>2, <2>3
  <1>9. \A k \in 0 .. n : k \in T
    BY <1>7, <1>8, Induction
  <1>10. ASSUME NEW k \in 0 .. n
         PROVE  f[k] = IF k = 0 THEN base ELSE op[k][f[k - 1]]
    <2>1. CASE k = 0
      BY <1>5, <2>1
    <2>2. CASE k # 0
      <3>1. k \in 1 .. n /\ k - 1 \in 0 .. n
        BY <2>2
      <3>2. f[k - 1] \in U /\ f[k - 1] \in W[k - 1]
        BY <1>5, <1>6, <1>9, <3>1
      <3> QED BY <1>2, <1>5, <2>2, <3>1, <3>2
    <2> QED BY <2>1, <2>2
  <1>11. f = [k \in 0 .. n |-> IF k = 0 THEN base ELSE op[k][f[k - 1]]]
    BY <1>5, <1>10
  <1>12. \A k \in 0 .. n : f[k] \in W[k]
    BY <1>6, <1>9
  <1>13. Turns(f, n, W, base, op)
    BY <1>11, <1>12, Zenon DEF Turns
  <1> QED BY <1>13

\* Two functions that follow the same recursion.
LEMMA SameLoop ==
  ASSUME NEW n \in Nat, NEW f, NEW g, f[0] = g[0],
         \A k \in 1 .. n : f[k - 1] = g[k - 1] => f[k] = g[k]
  PROVE  f[n] = g[n]
  <1>1. PICK T : T = {k \in 0 .. n : f[k] = g[k]}
    OBVIOUS
  <1>2. ASSUME NEW k \in 0 .. n, k # n, k \in T PROVE k + 1 \in T
    <2>1. PICK m \in 1 .. n : m = k + 1 /\ m - 1 = k
      BY <1>2
    <2> QED BY <1>1, <1>2, <2>1
  <1>3. 0 \in T
    BY <1>1
  <1>4. \A k \in 0 .. n : k \in T
    BY <1>2, <1>3, Induction
  <1>5. n \in 0 .. n
    OBVIOUS
  <1> QED BY <1>1, <1>4, <1>5, Zenon
=============================================================================
