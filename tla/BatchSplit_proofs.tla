-------------------------- MODULE BatchSplit_proofs --------------------------
(***************************************************************************)
(* What is proved about BatchSplit, for any number of sequences and tokens, *)
(* any batches and any sizes of ubatches: each token is computed once and   *)
(* in its order, and its outputs are found.                                *)
(***************************************************************************)
EXTENDS BatchSplit, Subsequences_proofs

\* Tokens of a common sequence.
Share(i, j) == SeqSet(i) \cap SeqSet(j) # {}

\* Pairs of different tokens, the first of the two before the second in the batch
\* if they share a sequence and the batch is as init() wants it.
InTheirOrder ==
    {p \in Tokens \X Tokens :
        p[1] # p[2] /\ (Orderly(batch) /\ Share(p[1], p[2]) => p[1] < p[2])}

\* No token is used before one that it may have to attend to.
Closed(U) == Orderly(batch) =>
    \A i, j \in Tokens : i < j /\ Share(i, j) /\ j \in U => i \in U

\* The splits so far.
Splits ==
    /\ Goes(Order, InTheirOrder)
    /\ Closed(Used)
    /\ out_ids = WithOutput(Order)
    /\ phase \in {"compute", "done"} => Used = Tokens

\* What has been computed so far, and nothing is to be swapped before the end.
Progress ==
    /\ phase = "split" => computed = 0
    /\ phase # "done" => swaps = <<>>
    /\ phase = "compute" =>
         /\ computed < Len(ubatches)
         /\ \A k \in DOMAIN WithOutput(Before) : rows[k] = WithOutput(Before)[k]
         /\ \A k \in DOMAIN Before : dense[k] = Before[k]

\* The inductive invariant.
IInv == TypeOK /\ Shape /\ Splits /\ Progress /\ OutputsMatch

----------------------------------------------------------------------------
(* The batch *)

\* The tokens are 1 .. n, no more than n_batch, and each has its sequences and position.
LEMMA TheBatch ==
  ASSUME TypeOK
  PROVE  /\ Len(batch) \in Nat /\ Tokens = 1 .. Len(batch) /\ 1 \in Tokens /\ Len(batch) <= NBatch
         /\ IsFiniteSet(Tokens) /\ Cardinality(Tokens) = Len(batch)
         /\ Tokens \in SUBSET Nat /\ NBatch \in Nat
         /\ \A i \in Tokens : /\ batch[i] \in Token /\ SeqSet(i) \in SUBSET Seq_id
                              /\ SeqSet(i) # {} /\ batch[i].pos \in Nat
         /\ n_ubatch \in Nat \ {0}
  <1>1. batch \in Seq(Token) /\ Len(batch) \in 1 .. NBatch /\ n_ubatch \in Sizes
    BY DEF TypeOK
  <1>2. NBatch \in Nat /\ Sizes \subseteq Nat \ {0}
    BY BatchAssumption DEF BatchAssumption
  <1>3. Len(batch) \in Nat /\ Tokens = 1 .. Len(batch) /\ 1 \in Tokens
    BY <1>1 DEF Tokens
  <1>4. IsFiniteSet(Tokens) /\ Cardinality(Tokens) = Len(batch)
    <2>1. 1 \in Int /\ Len(batch) \in Int
      BY <1>3
    <2>2. /\ IsFiniteSet(1 .. Len(batch))
          /\ Cardinality(1 .. Len(batch)) = IF 1 > Len(batch) THEN 0 ELSE Len(batch) - 1 + 1
      BY <2>1, FS_Interval
    <2> QED BY <1>1, <1>3, <2>2
  <1>5. ASSUME NEW i \in Tokens
        PROVE  /\ batch[i] \in Token /\ SeqSet(i) \in SUBSET Seq_id
               /\ SeqSet(i) # {} /\ batch[i].pos \in Nat
    <2>1. batch[i] \in Token
      BY <1>1, <1>3
    <2>2. batch[i].seqs \in (SUBSET Seq_id) \ {{}} /\ batch[i].pos \in Nat
      BY <2>1 DEF Token
    <2> QED BY <2>1, <2>2 DEF SeqSet
  <1> QED BY <1>1, <1>2, <1>3, <1>4, <1>5

\* There are finitely many sequences, and one at least.
LEMMA SomeSequence ==
  ASSUME TypeOK
  PROVE  IsFiniteSet(Seq_id) /\ Cardinality(Seq_id) \in Nat \ {0} /\ Seq_id \in SUBSET Nat
  <1>1. IsFiniteSet(Seq_id) /\ Seq_id = 0 .. Cardinality(Seq_id) - 1
    BY BatchAssumption DEF BatchAssumption
  <1>2. Cardinality(Seq_id) \in Nat
    BY <1>1, FS_CardinalityType
  <1>3. PICK s : s \in Seq_id
    BY TheBatch
  <1>4. Cardinality(Seq_id) # 0
    BY <1>1, <1>3, FS_EmptySet
  <1> QED BY <1>1, <1>2, <1>4

\* The tokens of the ubatches are tokens of the batch.
LEMMA UbatchesFlat ==
  ASSUME TypeOK
  PROVE  /\ [k \in DOMAIN ubatches |-> Flat(ubatches[k])] \in Seq(Seq(Tokens))
         /\ Order \in Seq(Tokens) /\ Used \subseteq Tokens
  <1>1. ubatches \in Seq(Seq(Seq(Tokens)))
    BY DEF TypeOK
  <1>2. ASSUME NEW k \in DOMAIN ubatches PROVE Flat(ubatches[k]) \in Seq(Tokens)
    <2>1. ubatches[k] \in Seq(Seq(Tokens))
      BY <1>1
    <2> QED BY <2>1, FlattenItems DEF Flat
  <1>3. PICK fs : fs = [k \in DOMAIN ubatches |-> Flat(ubatches[k])]
    OBVIOUS
  <1>4. fs \in Seq(Seq(Tokens))
    <2>1. DOMAIN ubatches = 1 .. Len(ubatches) /\ Len(ubatches) \in Nat
      BY <1>1
    <2> QED BY <1>2, <1>3, <2>1
  <1>5. FlattenSeq(fs) \in Seq(Tokens)
    BY <1>4, FlattenItems
  <1>6. Order \in Seq(Tokens)
    BY <1>3, <1>5 DEF Order
  <1>7. Used \subseteq Tokens
    BY <1>6, SequenceItems DEF Used
  <1> QED BY <1>3, <1>4, <1>6, <1>7

\* The tokens that are left, in the order of the batch.
LEMMA UnusedItems ==
  ASSUME TypeOK
  PROVE  /\ Unused \in Seq(Tokens) /\ \A x : x \in ToSet(Unused) <=> x \in Tokens \ Used
         /\ Goes(Unused, Rising)
  <1>1. IsFiniteSet(Tokens \ Used) /\ Tokens \ Used \in SUBSET Nat
    BY TheBatch, FS_Subset
  <1>2. PICK K, s : K = Tokens \ Used /\ s = InTurn(K)
    OBVIOUS
  <1>3. s \in Seq(K) /\ (\A x : x \in ToSet(s) <=> x \in K) /\ Goes(s, Rising)
    BY <1>1, <1>2, InTurnItems
  <1>4. s \in Seq(Tokens)
    <2>1. Len(s) \in Nat /\ s \in [1 .. Len(s) -> K]
      BY <1>3
    <2>2. s \in [1 .. Len(s) -> Tokens]
      BY <1>2, <2>1
    <2> QED BY <2>1, <2>2
  <1> QED BY <1>2, <1>3, <1>4 DEF Unused

----------------------------------------------------------------------------
(* Taking a few from the front *)

\* What First() takes.
LEMMA FirstItems ==
  ASSUME NEW X, NEW s \in Seq(X), NEW n \in Nat \ {0}
  PROVE  /\ First(s, n) \in Seq(X) /\ Len(First(s, n)) <= n
         /\ Len(First(s, n)) = (IF Len(s) < n THEN Len(s) ELSE n)
         /\ \A a \in 1 .. Len(First(s, n)) : First(s, n)[a] = s[a] /\ a \in 1 .. Len(s)
         /\ ToSet(First(s, n)) \subseteq ToSet(s)
  <1>1. PICK m, f : m = (IF Len(s) < n THEN Len(s) ELSE n) /\ f = First(s, n)
    OBVIOUS
  <1>2. m \in Nat /\ m <= n /\ m <= Len(s) /\ Len(s) \in Nat
    BY <1>1
  <1>3. f = SubSeq(s, 1, m)
    BY <1>1, Zenon DEF First
  <1>4. \A a \in 1 .. m : s[a] \in X
    BY <1>2
  <1>5. f \in Seq(X) /\ Len(f) = m /\ \A a \in 1 .. m : f[a] = s[a]
    <2>1. /\ SubSeq(s, 1, m) \in Seq(X)
          /\ Len(SubSeq(s, 1, m)) = IF 1 <= m THEN m - 1 + 1 ELSE 0
          /\ \A i \in 1 .. m - 1 + 1 : SubSeq(s, 1, m)[i] = s[1 + i - 1]
      BY <1>2, <1>4, SubSeqProperties
    <2> QED BY <1>2, <1>3, <2>1
  <1>6. \A a \in 1 .. m : a \in 1 .. Len(s)
    BY <1>2
  <1>7. \A x \in ToSet(f) : x \in ToSet(s)
    <2>1. ASSUME NEW x \in ToSet(f) PROVE x \in ToSet(s)
      <3>1. PICK a \in 1 .. m : f[a] = x
        BY <1>5, SequenceItems
      <3>2. a \in DOMAIN s /\ s[a] = x
        BY <1>5, <1>6, <3>1
      <3> QED BY <3>2 DEF ToSet
    <2> QED BY <2>1
  <1> QED BY <1>1, <1>2, <1>5, <1>6, <1>7

\* The first items are related as all are.
LEMMA FirstGoes ==
  ASSUME NEW X, NEW s \in Seq(X), NEW n \in Nat \ {0}, NEW R, Goes(s, R)
  PROVE  Goes(First(s, n), R)
  <1>1. PICK f : f = First(s, n)
    OBVIOUS
  <1>2. f \in Seq(X) /\ \A a \in 1 .. Len(f) : f[a] = s[a] /\ a \in 1 .. Len(s)
    BY <1>1, FirstItems
  <1>3. DOMAIN f = 1 .. Len(f) /\ DOMAIN s = 1 .. Len(s)
    BY <1>2
  <1>4. ASSUME NEW a \in DOMAIN f, NEW b \in DOMAIN f, a < b PROVE <<f[a], f[b]>> \in R
    <2>1. a \in DOMAIN s /\ b \in DOMAIN s /\ f[a] = s[a] /\ f[b] = s[b]
      BY <1>2, <1>3
    <2>2. <<s[a], s[b]>> \in R
      BY <1>4, <2>1, Zenon DEF Goes
    <2> QED BY <2>1, <2>2
  <1>5. Goes(f, R)
    BY <1>4 DEF Goes
  <1> QED BY <1>1, <1>5

\* What comes before one of the first is one of the first.
LEMMA FirstClosed ==
  ASSUME NEW X \in SUBSET Nat, NEW s \in Seq(X), NEW n \in Nat \ {0}, Goes(s, Rising),
         NEW i \in ToSet(s), NEW j \in ToSet(First(s, n)), i < j
  PROVE  i \in ToSet(First(s, n))
  <1>1. PICK f : f = First(s, n)
    OBVIOUS
  <1>2. /\ f \in Seq(X) /\ Len(f) = (IF Len(s) < n THEN Len(s) ELSE n)
        /\ \A a \in 1 .. Len(f) : f[a] = s[a] /\ a \in 1 .. Len(s)
    BY <1>1, FirstItems
  <1>3. PICK a \in 1 .. Len(s) : s[a] = i
    BY SequenceItems
  <1>4. PICK b \in 1 .. Len(f) : f[b] = j
    BY <1>1, <1>2, SequenceItems
  <1>5. b \in 1 .. Len(s) /\ s[b] = j
    BY <1>2, <1>4
  <1>6. ~(b < a)
    <2> SUFFICES ASSUME b < a PROVE FALSE
      OBVIOUS
    <2>1. a \in DOMAIN s /\ b \in DOMAIN s
      BY <1>5
    <2>2. <<j, i>> \in Rising
      BY <1>3, <1>5, <2>1, Zenon DEF Goes
    <2>3. j < i /\ i \in Nat /\ j \in Nat
      BY <2>2 DEF Rising
    <2> QED BY <2>3
  <1>7. a \in 1 .. Len(f) /\ Len(f) \in Nat
    BY <1>2, <1>6
  <1>8. f[a] = i /\ a \in DOMAIN f
    BY <1>2, <1>3, <1>7
  <1> QED BY <1>1, <1>8 DEF ToSet

\* An ubatch of one group.
LEMMA OneGroup ==
  ASSUME NEW X, NEW g \in Seq(X)
  PROVE  <<g>> \in Seq(Seq(X)) /\ Flat(<<g>>) = g
  <1>1. <<>> \in Seq(Seq(X)) /\ <<g>> \in Seq(Seq(X)) /\ <<g>> = Append(<<>>, g)
    OBVIOUS
  <1>2. FlattenSeq(Append(<<>>, g)) = FlattenSeq(<<>>) \o g
    BY <1>1, FlattenAppend
  <1>3. <<>> \o g = g
    BY ConcatEmptySeq
  <1> QED BY <1>1, <1>2, <1>3, FlattenNone, Zenon DEF Flat

\* Tokens in the order of the batch are in their order.
LEMMA RisingInOrder ==
  ASSUME TypeOK, NEW g \in Seq(Tokens), Goes(g, Rising)
  PROVE  Goes(g, InTheirOrder)
  <1>1. ASSUME NEW a \in DOMAIN g, NEW b \in DOMAIN g, a < b PROVE <<g[a], g[b]>> \in InTheirOrder
    <2>1. <<g[a], g[b]>> \in Rising
      BY <1>1, Zenon DEF Goes
    <2>2. g[a] \in Nat /\ g[b] \in Nat /\ g[a] < g[b]
      BY <2>1 DEF Rising
    <2>3. g[a] \in Tokens /\ g[b] \in Tokens
      OBVIOUS
    <2>4. PICK i \in Tokens, j \in Tokens : i = g[a] /\ j = g[b]
      BY <2>3
    <2>5. i # j /\ i < j
      BY <2>2, <2>4
    <2>6. <<i, j>> \in InTheirOrder
      BY <2>5 DEF InTheirOrder
    <2> QED BY <2>4, <2>6
  <1> QED BY <1>1 DEF Goes

----------------------------------------------------------------------------
(* The splits of one group *)

\* What an ubatch that a split returns has to be.
GoodSplit(u) ==
    /\ u \in Seq(Seq(Tokens)) /\ Flat(u) \in Seq(Tokens)
    /\ \A i \in ToSet(Flat(u)) : i \notin Used
    /\ Goes(Flat(u), InTheirOrder)
    /\ Closed(Used \cup ToSet(Flat(u)))
    /\ Shaped(u)

\* Rounding up to a multiple.
LEMMA RoundedUp ==
  ASSUME NEW m \in Nat, NEW n \in Nat \ {0}
  PROVE  m <= ((m + n - 1) \div n) * n
  <1>1. PICK a, q : a = m + n - 1 /\ q = a \div n
    OBVIOUS
  <1>2. a \in Nat
    BY <1>1
  <1>3. a < q * n + n /\ q \in Int
    BY <1>1, <1>2
  <1>4. PICK p : p = q * n
    OBVIOUS
  <1>5. p \in Int /\ a < p + n
    BY <1>3, <1>4
  <1>6. m <= p
    BY <1>1, <1>5
  <1> QED BY <1>1, <1>4, <1>6

\* A group of increasing tokens is a good ubatch, if it leaves out none of those
\* that have to come before.
LEMMA GroupGood ==
  ASSUME TypeOK, NEW g \in Seq(Tokens), Goes(g, Rising), Len(g) <= n_ubatch,
         \A i \in ToSet(g) : i \notin Used, Closed(Used \cup ToSet(g)),
         ways[try] \notin {"equal", "sequential"}
  PROVE  GoodSplit(<<g>>)
  <1>1. PICK u : u = <<g>>
    OBVIOUS
  <1>2. u \in Seq(Seq(Tokens)) /\ Flat(u) = g
    BY <1>1, OneGroup
  <1>3. Goes(g, InTheirOrder)
    BY RisingInOrder
  <1>4. Shaped(u)
    <2>1. \A k, l \in DOMAIN u : k = l
      BY <1>1
    <2>2. Len(g) <= ((n_ubatch + Cardinality(Seq_id) - 1) \div Cardinality(Seq_id)) * Cardinality(Seq_id)
      <3>1. PICK m \in Nat \ {0}, n \in Nat \ {0} : m = n_ubatch /\ n = Cardinality(Seq_id)
        BY TheBatch, SomeSequence
      <3>2. PICK r : r = ((m + n - 1) \div n) * n
        OBVIOUS
      <3>3. m <= r
        BY <3>2, RoundedUp
      <3>4. r \in Int
        BY <3>2
      <3>5. Len(g) \in Nat /\ Len(g) <= r
        BY <3>1, <3>3, <3>4
      <3> QED BY <3>1, <3>2, <3>5
    <2> QED BY <1>2, <2>1, <2>2, Zenon DEF Shaped
  <1>5. GoodSplit(u)
    BY <1>2, <1>3, <1>4, Zenon DEF GoodSplit
  <1> QED BY <1>1, <1>5

\* split_simple()
LEMMA SimpleGood ==
  ASSUME TypeOK, Closed(Used), ways[try] = "simple", Unused # <<>>
  PROVE  GoodSplit(SplitSimple)
  <1>1. PICK g, n : g = First(Unused, n_ubatch) /\ n = n_ubatch
    OBVIOUS
  <1>2. /\ Unused \in Seq(Tokens) /\ (\A x : x \in ToSet(Unused) <=> x \in Tokens \ Used)
        /\ Goes(Unused, Rising)
    BY UnusedItems
  <1>3. n \in Nat \ {0} /\ Tokens \in SUBSET Nat
    BY <1>1, TheBatch
  <1>4. /\ g \in Seq(Tokens) /\ Len(g) <= n /\ Goes(g, Rising)
        /\ ToSet(g) \subseteq ToSet(Unused)
    BY <1>1, <1>2, <1>3, FirstItems, FirstGoes
  <1>5. \A i \in ToSet(g) : i \notin Used
    BY <1>2, <1>4, Zenon
  <1>6. ASSUME Orderly(batch), NEW i \in Tokens, NEW j \in Tokens, i < j, Share(i, j),
               j \in Used \cup ToSet(g)
        PROVE  i \in Used \cup ToSet(g)
    <2>1. CASE j \in Used
      BY <1>6, <2>1, Zenon DEF Closed
    <2>2. CASE j \in ToSet(g) /\ i \notin Used
      <3>1. i \in ToSet(Unused)
        BY <1>2, <2>2
      <3> QED BY <1>1, <1>2, <1>3, <1>6, <2>2, <3>1, FirstClosed
    <2> QED BY <1>6, <2>1, <2>2
  <1>7. Closed(Used \cup ToSet(g))
    BY <1>6 DEF Closed
  <1>8. GoodSplit(<<g>>)
    BY <1>1, <1>4, <1>5, <1>7, GroupGood
  <1> QED BY <1>1, <1>8 DEF SplitSimple

\* split_seq(): a token is left out only if its sequences are not among those of
\* the last one taken.
LEMMA NarrowingItems ==
  ASSUME TypeOK
  PROVE  /\ Narrowing \in Seq(Tokens) /\ Goes(Narrowing, Rising)
         /\ ToSet(Narrowing) \subseteq ToSet(Unused)
         /\ Orderly(batch) => \A i \in ToSet(Unused), t \in ToSet(Narrowing) :
               i < t /\ Share(i, t) => i \in ToSet(Narrowing)
  <1>0. PICK U, V : U = Unused /\ V = Seq(Tokens)
    OBVIOUS
  <1>1. PICK n \in Nat : n = Len(U)
    BY <1>0, UnusedItems
  <1>2. U \in Seq(Tokens) /\ Goes(U, Rising) /\ DOMAIN U = 1 .. n /\ \A x \in 1 .. n : U[x] \in Tokens
    BY <1>0, <1>1, UnusedItems
  <1>3. PICK step : step = [m \in 1 .. n |-> [acc \in V |-> Narrowed(acc, U[m])]]
    OBVIOUS
  <1>4. ASSUME NEW m \in 1 .. n, NEW acc \in V PROVE Narrowed(acc, U[m]) \in V
    <2>1. Append(acc, U[m]) \in V
      BY <1>0, <1>2, AppendProperties
    <2> QED BY <2>1 DEF Narrowed
  <1>5. step \in [1 .. n -> [V -> V]]
    BY <1>3, <1>4
  <1>6. <<>> \in V
    BY <1>0
  <1>7. PICK f : Recurs(f, n, V, <<>>, step)
    <2>1. PICK e : e = <<>>
      OBVIOUS
    <2>2. e \in V
      BY <1>6, <2>1
    <2> QED BY <1>5, <2>1, <2>2, IteratesFrom
  <1>8. f = [m \in 0 .. n |-> IF m = 0 THEN <<>> ELSE Narrowed(f[m - 1], U[m])]
    <2>1. PICK D : D = 0 .. n
      OBVIOUS
    <2>2. \A m \in D : m # 0 => m \in 1 .. n
      BY <2>1
    <2>3. \A m \in 1 .. n : step[m][f[m - 1]] = Narrowed(f[m - 1], U[m])
      BY <1>3, <1>7, Zenon DEF Recurs
    <2>4. [m \in D |-> IF m = 0 THEN <<>> ELSE step[m][f[m - 1]]]
            = [m \in D |-> IF m = 0 THEN <<>> ELSE Narrowed(f[m - 1], U[m])]
      BY <2>2, <2>3, Zenon
    <2> QED BY <1>7, <2>1, <2>4, Zenon DEF Recurs
  <1>9. PICK h : /\ h = [m \in 0 .. n |-> IF m = 0 THEN <<>> ELSE Narrowed(h[m - 1], U[m])]
                 /\ Narrowing = h[n]
    BY <1>0, <1>1, <1>8, Zenon DEF Narrowing
  <1>10. h[0] = <<>>
    BY <1>9
  <1>11. ASSUME NEW m \in 0 .. n, m # n PROVE h[m + 1] = Narrowed(h[m], U[m + 1])
    <2>1. PICK k : k = m + 1
      OBVIOUS
    <2>2. k \in 0 .. n /\ k # 0 /\ k - 1 = m
      BY <1>11, <2>1
    <2> QED BY <1>9, <2>1, <2>2, Zenon
  <1> DEFINE Taken(m) ==
               /\ h[m] \in Seq(Tokens) /\ Goes(h[m], Rising) /\ (m # 0 => h[m] # <<>>)
               /\ \A t \in ToSet(h[m]) : \E y \in 1 .. m : U[y] = t
             Left(m) == h[m] # <<>> =>
               \A x \in 1 .. m : U[x] > Last(h[m]) => ~(SeqSet(U[x]) \subseteq SeqSet(Last(h[m])))
             Kept(m) == Orderly(batch) =>
               \A x \in 1 .. m, t \in ToSet(h[m]) :
                  U[x] < t /\ Share(U[x], t) => U[x] \in ToSet(h[m])
             T == {m \in 0 .. n : Taken(m) /\ Left(m) /\ Kept(m)}
  <1>12. 0 \in T
    <2>1. <<>> \in Seq(Tokens) /\ ToSet(<<>>) = {} /\ DOMAIN <<>> = {} /\ 0 \in 0 .. n
      BY DEF ToSet
    <2>2. Goes(<<>>, Rising)
      BY <2>1, Zenon DEF Goes
    <2>3. \A x \in 1 .. 0 : FALSE
      OBVIOUS
    <2> QED BY <1>10, <2>1, <2>2, <2>3
  <1>13. ASSUME NEW m \in 0 .. n, m # n, m \in T PROVE m + 1 \in T
    <2>1. PICK k : k = m + 1
      OBVIOUS
    <2>2. /\ k \in 1 .. n /\ k \in 0 .. n /\ m \in Nat /\ k \in 1 .. k
          /\ \A x \in 1 .. k : x \in 1 .. m \/ x = k
          /\ \A x \in 1 .. m : x \in 1 .. k /\ x < k /\ x \in 1 .. n
      BY <1>13, <2>1
    <2>3. PICK u \in Tokens : u = U[k]
      BY <1>2, <2>2
    <2>4. PICK g, g2 : g = h[m] /\ g2 = h[k] /\ g2 = Narrowed(g, u)
      BY <1>11, <1>13, <2>1, <2>3
    <2>5. g \in Seq(Tokens) /\ Goes(g, Rising) /\ \A t \in ToSet(g) : \E y \in 1 .. m : U[y] = t
      BY <1>13, <2>4
    <2>6. \A x \in 1 .. m : U[x] \in Nat /\ u \in Nat /\ U[x] < u
      <3>1. ASSUME NEW x \in 1 .. m PROVE U[x] \in Nat /\ u \in Nat /\ U[x] < u
        <4>1. <<U[x], U[k]>> \in Rising
          BY <1>2, <2>2, Zenon DEF Goes
        <4> QED BY <2>3, <4>1 DEF Rising
      <3> QED BY <3>1
    <2>7. \A t \in ToSet(g) : t \in Nat /\ u \in Nat /\ t < u /\ ~(u < t) /\ <<t, u>> \in Rising
      <3>1. ASSUME NEW t \in ToSet(g)
            PROVE  t \in Nat /\ u \in Nat /\ t < u /\ ~(u < t) /\ <<t, u>> \in Rising
        <4>1. PICK y \in 1 .. m : U[y] = t
          BY <2>5
        <4>2. t \in Nat /\ u \in Nat /\ t < u
          BY <2>6, <4>1
        <4> QED BY <4>2 DEF Rising
      <3> QED BY <3>1
    <2>8. CASE g = <<>> \/ SeqSet(u) \subseteq SeqSet(Last(g))
      <3>1. g2 = Append(g, u)
        BY <2>4, <2>8, Zenon DEF Narrowed
      <3>2. /\ g2 \in Seq(Tokens) /\ g2 # <<>> /\ Last(g2) = u
            /\ ToSet(g2) = ToSet(g) \cup {u}
        <4>1. /\ Append(g, u) \in Seq(Tokens) /\ Append(g, u) # <<>> /\ Last(Append(g, u)) = u
              /\ ToSet(Append(g, u)) = ToSet(g) \cup {u}
          BY <2>3, <2>5, AppendItems
        <4> QED BY <3>1, <4>1, Zenon
      <3>3. Goes(g2, Rising)
        BY <2>5, <2>7, <3>1, AppendGoes
      <3>4. \A t \in ToSet(g2) : \E y \in 1 .. k : U[y] = t
        BY <2>2, <2>3, <2>5, <3>2, Zenon
      <3>5. \A x \in 1 .. k : ~(U[x] > Last(g2))
        <4>1. ASSUME NEW x \in 1 .. k PROVE ~(U[x] > u)
          <5>1. CASE x = k
            BY <2>3, <5>1, TheBatch
          <5>2. CASE x \in 1 .. m
            BY <2>6, <5>2
          <5> QED BY <2>2, <5>1, <5>2
        <4> QED BY <3>2, <4>1
      <3>6. ASSUME Orderly(batch), NEW x \in 1 .. k, NEW t \in ToSet(g2), U[x] < t, Share(U[x], t)
            PROVE  U[x] \in ToSet(g2)
        <4>1. CASE x = k
          BY <2>3, <3>2, <4>1
        <4>2. CASE x \in 1 .. m /\ t \in ToSet(g)
          BY <1>13, <2>4, <3>2, <3>6, <4>2
        <4>3. CASE x \in 1 .. m /\ t = u
          <5>1. PICK i \in Tokens : i = U[x]
            BY <1>2, <2>2, <4>3
          <5>2. i \in Nat /\ i < u /\ \E y \in 1 .. m : i = U[y]
            BY <2>6, <4>3, <5>1
          <5>3. g # <<>>
            <6>1. m # 0
              BY <4>3
            <6> QED BY <1>13, <2>4, <6>1
          <5>4. PICK l \in Tokens : l = Last(g) /\ l \in ToSet(g) /\ SeqSet(u) \subseteq SeqSet(l)
            BY <2>5, <2>8, <5>3, LastItem
          <5>5. Share(i, l)
            BY <3>6, <4>3, <5>1, <5>4 DEF Share
          <5>6. CASE i < l
            BY <1>13, <2>4, <3>2, <3>6, <4>3, <5>1, <5>4, <5>5, <5>6
          <5>7. CASE i = l
            BY <3>2, <5>1, <5>4, <5>7
          <5>8. CASE l < i
            <6>1. Tokens = DOMAIN batch
              BY DEF Tokens
            <6>2. batch[l].seqs \cap batch[i].seqs # {}
              BY <5>5 DEF Share, SeqSet
            <6>3. batch[i].seqs \subseteq batch[l].seqs
              BY <3>6, <5>8, <6>1, <6>2, Zenon DEF Orderly
            <6>4. i > l /\ SeqSet(i) \subseteq SeqSet(l)
              BY <5>2, <5>4, <5>8, <6>3 DEF SeqSet
            <6>5. ~(SeqSet(i) \subseteq SeqSet(l))
              BY <1>13, <2>4, <4>3, <5>1, <5>3, <5>4, <6>4
            <6> QED BY <6>4, <6>5
          <5>9. l \in Nat
            BY <2>7, <5>4
          <5> QED BY <5>2, <5>6, <5>7, <5>8, <5>9
        <4> QED BY <2>2, <3>2, <4>1, <4>2, <4>3
      <3>7. Taken(k) /\ Left(k) /\ Kept(k)
        BY <2>4, <3>2, <3>3, <3>4, <3>5, <3>6
      <3> QED BY <2>1, <2>2, <3>7
    <2>9. CASE ~(g = <<>> \/ SeqSet(u) \subseteq SeqSet(Last(g)))
      <3>1. g2 = g
        BY <2>4, <2>9, Zenon DEF Narrowed
      <3>2. \A t \in ToSet(g2) : \E y \in 1 .. k : U[y] = t
        BY <2>2, <2>5, <3>1, Zenon
      <3>3. ASSUME NEW x \in 1 .. k, U[x] > Last(g2) PROVE ~(SeqSet(U[x]) \subseteq SeqSet(Last(g2)))
        <4>1. CASE x = k
          BY <2>3, <2>9, <3>1, <4>1
        <4>2. CASE x \in 1 .. m
          BY <1>13, <2>4, <2>9, <3>1, <3>3, <4>2
        <4> QED BY <2>2, <4>1, <4>2
      <3>4. ASSUME Orderly(batch), NEW x \in 1 .. k, NEW t \in ToSet(g2), U[x] < t, Share(U[x], t)
            PROVE  U[x] \in ToSet(g2)
        <4>1. x # k
          BY <2>3, <2>7, <3>1, <3>4
        <4> QED BY <1>13, <2>2, <2>4, <3>1, <3>4, <4>1
      <3>5. Taken(k) /\ Left(k) /\ Kept(k)
        BY <2>4, <2>5, <2>9, <3>1, <3>2, <3>3, <3>4
      <3> QED BY <2>1, <2>2, <3>5
    <2> QED BY <2>8, <2>9
  <1>14. \A m \in 0 .. n : m \in T
    <2> HIDE DEF T
    <2> QED BY <1>12, <1>13, Induction
  <1>15. n \in T
    <2>1. n \in 0 .. n
      OBVIOUS
    <2> QED BY <1>14, <2>1
  <1>16. PICK r : r = h[n] /\ r = Narrowing
    BY <1>9
  <1>17. /\ r \in Seq(Tokens) /\ Goes(r, Rising) /\ \A t \in ToSet(r) : \E y \in 1 .. n : U[y] = t
         /\ Kept(n)
    BY <1>15, <1>16
  <1>18. \A x : x \in ToSet(U) <=> \E y \in 1 .. n : U[y] = x
    BY <1>1, <1>2, SequenceItems
  <1>19. Orderly(batch) => \A i \in ToSet(U), t \in ToSet(r) :
            i < t /\ Share(i, t) => i \in ToSet(r)
    BY <1>16, <1>17, <1>18
  <1> QED BY <1>0, <1>16, <1>17, <1>18, <1>19

\* split_seq()
LEMMA SeqGood ==
  ASSUME TypeOK, Closed(Used), ways[try] = "seq", Unused # <<>>
  PROVE  GoodSplit(SplitSeq)
  <1>1. PICK s, g, n : s = Narrowing /\ g = First(s, n) /\ n = n_ubatch
    OBVIOUS
  <1>2. /\ s \in Seq(Tokens) /\ Goes(s, Rising) /\ ToSet(s) \subseteq ToSet(Unused)
        /\ Orderly(batch) => \A i \in ToSet(Unused), t \in ToSet(s) :
              i < t /\ Share(i, t) => i \in ToSet(s)
    BY <1>1, NarrowingItems
  <1>3. n \in Nat \ {0} /\ Tokens \in SUBSET Nat /\ \A x : x \in ToSet(Unused) <=> x \in Tokens \ Used
    BY <1>1, TheBatch, UnusedItems
  <1>4. /\ g \in Seq(Tokens) /\ Len(g) <= n /\ Goes(g, Rising)
        /\ ToSet(g) \subseteq ToSet(s)
    BY <1>1, <1>2, <1>3, FirstItems, FirstGoes
  <1>5. \A i \in ToSet(g) : i \notin Used
    BY <1>2, <1>3, <1>4, Zenon
  <1>6. ASSUME Orderly(batch), NEW i \in Tokens, NEW j \in Tokens, i < j, Share(i, j),
               j \in Used \cup ToSet(g)
        PROVE  i \in Used \cup ToSet(g)
    <2>1. CASE j \in Used
      BY <1>6, <2>1, Zenon DEF Closed
    <2>2. CASE j \in ToSet(g) /\ i \notin Used
      <3>1. i \in ToSet(Unused) /\ j \in ToSet(s)
        BY <1>3, <1>4, <2>2
      <3>2. i \in ToSet(s)
        BY <1>2, <1>6, <3>1
      <3> QED BY <1>1, <1>2, <1>3, <1>6, <2>2, <3>2, FirstClosed
    <2> QED BY <1>6, <2>1, <2>2
  <1>7. Closed(Used \cup ToSet(g))
    BY <1>6 DEF Closed
  <1>8. GoodSplit(<<g>>)
    BY <1>1, <1>4, <1>5, <1>7, GroupGood
  <1> QED BY <1>1, <1>8 DEF SplitSeq

----------------------------------------------------------------------------
(* The participants of an equal split *)

\* The least of one number.
LEMMA MinOfOne ==
  ASSUME NEW s \in Int
  PROVE  Min({s}) = s
  BY DEF Min

\* acc is what the first m of the tokens that are left make of the participants;
\* q says whether they have to be sequential.
Parts(q, acc, m) ==
  /\ acc \in Seq(SUBSET Seq_id)
  /\ \A k \in DOMAIN acc : \E y \in 1 .. m : SeqSet(Unused[y]) = acc[k]
  /\ \A k, l \in DOMAIN acc : k # l => acc[k] \cap acc[l] = {}
  /\ q /\ ~Coupled => \A k \in DOMAIN acc : acc[k] = {Min(acc[1]) + k - 1}
  /\ ~q /\ Orderly(batch) =>
       \A x \in 1 .. m, k \in DOMAIN acc :
          SeqSet(Unused[x]) \cap acc[k] # {} => SeqSet(Unused[x]) \subseteq acc[k]
  /\ ~q /\ Len(acc) <= n_ubatch =>
       \A x \in 1 .. m : \E k \in DOMAIN acc : SeqSet(Unused[x]) \cap acc[k] # {}

\* One token more is looked at for a set that takes part.
LEMMA PartsNext ==
  ASSUME TypeOK, NEW q \in BOOLEAN, NEW acc, NEW m \in Nat, m < Len(Unused), Parts(q, acc, m)
  PROVE  Parts(q, Joined(q, acc, SeqSet(Unused[m + 1])), m + 1)
  <1>1. PICK U, n, k1, S, new : /\ U = Unused /\ n = Len(U) /\ k1 = m + 1 /\ S = SeqSet(U[k1])
                                /\ new = Joined(q, acc, S)
    OBVIOUS
  <1>2. /\ U \in Seq(Tokens) /\ Goes(U, Rising) /\ n \in Nat /\ DOMAIN U = 1 .. n
        /\ \A x \in 1 .. n : U[x] \in Tokens
    BY <1>1, UnusedItems
  <1>3. /\ k1 \in 1 .. n /\ k1 \in 1 .. k1 /\ (\A x \in 1 .. k1 : x \in 1 .. m \/ x = k1)
        /\ \A x \in 1 .. m : x \in 1 .. k1 /\ x < k1 /\ x \in 1 .. n
    BY <1>1, <1>2
  <1>4. \A i \in Tokens : SeqSet(i) \in SUBSET Seq_id /\ SeqSet(i) # {}
    BY TheBatch
  <1>5. S \in SUBSET Seq_id /\ S # {}
    BY <1>1, <1>2, <1>3, <1>4
  <1>6. /\ acc \in Seq(SUBSET Seq_id) /\ \A k \in DOMAIN acc : \E y \in 1 .. m : SeqSet(U[y]) = acc[k]
        /\ \A k, l \in DOMAIN acc : k # l => acc[k] \cap acc[l] = {}
    BY <1>1, Zenon DEF Parts
  <1>7. q /\ ~Coupled => \A k \in DOMAIN acc : acc[k] = {Min(acc[1]) + k - 1}
    BY Zenon DEF Parts
  <1>8. ~q /\ Orderly(batch) =>
           \A x \in 1 .. m, k \in DOMAIN acc : SeqSet(U[x]) \cap acc[k] # {} => SeqSet(U[x]) \subseteq acc[k]
    BY <1>1, Zenon DEF Parts
  <1>9. ~q /\ Len(acc) <= n_ubatch =>
           \A x \in 1 .. m : \E k \in DOMAIN acc : SeqSet(U[x]) \cap acc[k] # {}
    BY <1>1, Zenon DEF Parts
  <1>10. PICK K \in Nat : K = Len(acc) /\ DOMAIN acc = 1 .. K
    BY <1>6
  <1>11. CASE Joins(q, acc, S)
    <2>1. new = Append(acc, S)
      BY <1>1, <1>11 DEF Joined
    <2>2. /\ Len(acc) <= n_ubatch /\ (\A k \in DOMAIN acc : acc[k] \cap S = {})
          /\ (q /\ acc # <<>> => Min(S) = Min(Last(acc)) + 1)
      BY <1>11, Zenon DEF Joins
    <2>3. /\ new \in Seq(SUBSET Seq_id) /\ Len(new) = K + 1 /\ DOMAIN new = 1 .. K + 1
          /\ new[K + 1] = S /\ \A k \in 1 .. K : new[k] = acc[k]
      BY <1>5, <1>6, <1>10, <2>1, AppendProperties
    <2>4. PICK K1 : K1 = K + 1
      OBVIOUS
    <2>5. /\ DOMAIN new = 1 .. K1 /\ new[K1] = S /\ \A k \in 1 .. K : new[k] = acc[k]
          /\ (\A k \in 1 .. K1 : k \in 1 .. K \/ k = K1) /\ \A k \in 1 .. K : k # K1
          /\ Len(new) = K1 /\ K1 \in 1 .. K1 /\ \A k \in 1 .. K : k \in 1 .. K1
      BY <2>3, <2>4
    <2>6. \A k \in DOMAIN new : \E y \in 1 .. k1 : SeqSet(U[y]) = new[k]
      <3>1. ASSUME NEW k \in DOMAIN new PROVE \E y \in 1 .. k1 : SeqSet(U[y]) = new[k]
        <4>1. CASE k \in 1 .. K
          BY <1>3, <1>6, <1>10, <2>5, <4>1
        <4>2. CASE k = K1
          BY <1>1, <1>3, <2>5, <4>2
        <4> QED BY <2>5, <3>1, <4>1, <4>2
      <3> QED BY <3>1
    <2>7. \A k, l \in DOMAIN new : k # l => new[k] \cap new[l] = {}
      BY <1>6, <1>10, <2>2, <2>5
    <2>8. ASSUME q, ~Coupled, NEW k \in DOMAIN new PROVE new[k] = {Min(new[1]) + k - 1}
      <3>1. PICK s \in Nat : S = {s}
        <4>1. PICK i \in Tokens : S = SeqSet(i)
          BY <1>1, <1>2, <1>3
        <4>2. ~(Cardinality(S) > 1)
          BY <2>8, <4>1 DEF Coupled
        <4>3. PICK s \in S : TRUE
          BY <1>5
        <4>4. s \in Nat /\ IsFiniteSet(Seq_id) /\ Seq_id \in SUBSET Nat
          BY <1>5, <4>3, SomeSequence
        <4>5. IsFiniteSet(S) /\ Cardinality(S) \in Nat
          BY <1>5, <4>4, FS_Subset, FS_CardinalityType
        <4>6. S \ {s} = {}
          <5> SUFFICES ASSUME NEW t \in S \ {s} PROVE FALSE
            OBVIOUS
          <5>1. IsFiniteSet(S \ {s}) /\ Cardinality(S \ {s}) = Cardinality(S) - 1
            BY <4>3, <4>5, FS_RemoveElement
          <5>2. Cardinality(S \ {s}) # 0
            BY <5>1, FS_EmptySet
          <5>3. Cardinality(S \ {s}) \in Nat
            BY <5>1, FS_CardinalityType
          <5> QED BY <4>2, <4>5, <5>1, <5>2, <5>3
        <4> QED BY <4>3, <4>4, <4>6
      <3>2. Min(S) = s
        BY <3>1, MinOfOne
      <3>3. CASE K = 0
        <4>1. k = 1 /\ K1 = 1
          BY <2>4, <2>5, <2>8, <3>3
        <4>2. new[1] = S /\ new[k] = S
          BY <2>5, <4>1
        <4>3. Min(new[1]) + k - 1 = s
          BY <3>1, <3>2, <4>1, <4>2
        <4> QED BY <3>1, <4>2, <4>3
      <3>4. CASE K # 0
        <4>1. 1 \in 1 .. K /\ K \in 1 .. K /\ acc # <<>>
          BY <1>10, <3>4
        <4>2. PICK a : a = Min(acc[1])
          OBVIOUS
        <4>3. a \in Int
          <5>1. acc[1] = {a + 1 - 1}
            BY <1>7, <1>10, <2>8, <4>1, <4>2
          <5>2. PICK b : b = a + 1 - 1
            OBVIOUS
          <5>3. acc[1] \in SUBSET Nat
            BY <1>6, <1>10, <4>1, SomeSequence
          <5>4. b \in Nat /\ acc[1] = {b}
            BY <5>1, <5>2, <5>3
          <5> QED BY <4>2, <5>4, MinOfOne
        <4>4. acc[K] = {a + K - 1}
          BY <1>7, <1>10, <2>8, <4>1, <4>2
        <4>5. PICK b \in Int : b = a + K - 1
          BY <4>3
        <4>6. Last(acc) = {b} /\ Min({b}) = b
          BY <1>10, <4>4, <4>5, MinOfOne DEF Last
        <4>7. s = b + 1
          BY <2>2, <2>8, <3>2, <4>1, <4>6
        <4>8. s = a + K1 - 1
          BY <2>4, <4>3, <4>5, <4>7
        <4>9. Min(new[1]) = a
          BY <2>5, <4>1, <4>2
        <4>10. CASE k \in 1 .. K
          BY <1>7, <1>10, <2>5, <2>8, <4>2, <4>9, <4>10
        <4>11. CASE k = K1
          BY <2>5, <3>1, <4>8, <4>9, <4>11
        <4> QED BY <2>5, <2>8, <4>10, <4>11
      <3> QED BY <3>3, <3>4
    <2>9. ASSUME ~q, Orderly(batch), NEW x \in 1 .. k1, NEW k \in DOMAIN new, SeqSet(U[x]) \cap new[k] # {}
          PROVE  SeqSet(U[x]) \subseteq new[k]
      <3>1. CASE x = k1 /\ k = K1
        BY <1>1, <2>5, <3>1
      <3>2. CASE x = k1 /\ k \in 1 .. K
        <4>1. S \cap acc[k] # {} /\ acc[k] \cap S = {}
          BY <1>1, <1>10, <2>2, <2>5, <2>9, <3>2, Zenon
        <4> QED BY <4>1
      <3>3. CASE x \in 1 .. m /\ k = K1
        <4>1. PICK l \in DOMAIN acc : SeqSet(U[x]) \cap acc[l] # {}
          BY <1>9, <2>2, <2>9, <3>3
        <4>2. SeqSet(U[x]) \subseteq acc[l]
          BY <1>8, <2>9, <3>3, <4>1
        <4>3. acc[l] \cap S = {} /\ SeqSet(U[x]) \cap S # {}
          BY <2>2, <2>5, <2>9, <3>3, <4>1
        <4> QED BY <4>2, <4>3
      <3>4. CASE x \in 1 .. m /\ k \in 1 .. K
        BY <1>8, <1>10, <2>5, <2>9, <3>4
      <3> QED BY <1>3, <2>5, <2>9, <3>1, <3>2, <3>3, <3>4
    <2>10. ASSUME ~q, NEW x \in 1 .. k1 PROVE \E k \in DOMAIN new : SeqSet(U[x]) \cap new[k] # {}
      <3>1. CASE x = k1
        BY <1>1, <1>5, <2>5, <3>1
      <3>2. CASE x \in 1 .. m
        BY <1>9, <1>10, <2>2, <2>5, <2>10, <3>2
      <3> QED BY <1>3, <2>10, <3>1, <3>2
    <2>11. Parts(q, new, k1)
      <3>1. q /\ ~Coupled => \A k \in DOMAIN new : new[k] = {Min(new[1]) + k - 1}
        BY <2>8
      <3>2. ~q /\ Orderly(batch) =>
               \A x \in 1 .. k1, k \in DOMAIN new :
                  SeqSet(U[x]) \cap new[k] # {} => SeqSet(U[x]) \subseteq new[k]
        BY <2>9
      <3>3. ~q /\ Len(new) <= n_ubatch =>
               \A x \in 1 .. k1 : \E k \in DOMAIN new : SeqSet(U[x]) \cap new[k] # {}
        BY <2>10
      <3>4. new \in Seq(SUBSET Seq_id) /\ U = Unused
        BY <1>1, <2>3
      <3> QED BY <2>6, <2>7, <3>1, <3>2, <3>3, <3>4, Zenon DEF Parts
    <2> QED BY <1>1, <2>11
  <1>12. CASE ~Joins(q, acc, S)
    <2>1. new = acc
      BY <1>1, <1>12 DEF Joined
    <2>2. \A k \in DOMAIN new : \E y \in 1 .. k1 : SeqSet(U[y]) = new[k]
      BY <1>3, <1>6, <2>1, Zenon
    <2>3. ASSUME ~q, Orderly(batch), NEW x \in 1 .. k1, NEW k \in DOMAIN new, SeqSet(U[x]) \cap new[k] # {}
          PROVE  SeqSet(U[x]) \subseteq new[k]
      <3>1. CASE x \in 1 .. m
        BY <1>8, <2>1, <2>3, <3>1
      <3>2. CASE x = k1
        <4>1. PICK y \in 1 .. m : SeqSet(U[y]) = acc[k]
          BY <1>6, <2>1, <2>3
        <4>2. PICK i \in Tokens, j \in Tokens : i = U[y] /\ j = U[k1]
          BY <1>2, <1>3, <4>1
        <4>3. <<U[y], U[k1]>> \in Rising
          BY <1>2, <1>3, <4>1, Zenon DEF Goes
        <4>4. i < j
          BY <4>2, <4>3 DEF Rising
        <4>5. SeqSet(i) \cap SeqSet(j) # {}
          BY <2>1, <2>3, <3>2, <4>1, <4>2
        <4>6. SeqSet(j) \subseteq SeqSet(i)
          BY <2>3, <4>4, <4>5, Zenon DEF Orderly, SeqSet, Tokens
        <4> QED BY <2>1, <3>2, <4>1, <4>2, <4>6
      <3> QED BY <1>3, <2>3, <3>1, <3>2
    <2>4. ASSUME ~q, Len(new) <= n_ubatch, NEW x \in 1 .. k1 PROVE \E k \in DOMAIN new : SeqSet(U[x]) \cap new[k] # {}
      <3>1. CASE x \in 1 .. m
        BY <1>9, <2>1, <2>4, <3>1
      <3>2. CASE x = k1
        <4>1. PICK k \in DOMAIN acc : acc[k] \cap S # {}
          BY <1>12, <2>1, <2>4, Zenon DEF Joins
        <4> QED BY <1>1, <2>1, <3>2, <4>1
      <3> QED BY <1>3, <2>4, <3>1, <3>2
    <2>5. Parts(q, new, k1)
      BY <1>1, <1>6, <1>7, <2>1, <2>2, <2>3, <2>4, Zenon DEF Parts
    <2> QED BY <1>1, <2>5
  <1> QED BY <1>11, <1>12

\* What the participants are when all tokens have been looked at.
LEMMA ParticipantsItems ==
  ASSUME TypeOK, NEW q \in BOOLEAN
  PROVE  Parts(q, Participants(q), Len(Unused))
  <1>0. PICK U, V : U = Unused /\ V = Seq(SUBSET Seq_id)
    OBVIOUS
  <1>1. PICK n \in Nat : n = Len(U)
    BY <1>0, UnusedItems
  <1>2. \A x \in 1 .. n : U[x] \in Tokens /\ SeqSet(U[x]) \in SUBSET Seq_id
    BY <1>0, <1>1, UnusedItems, TheBatch
  <1>3. PICK step : step = [m \in 1 .. n |-> [acc \in V |-> Joined(q, acc, SeqSet(U[m]))]]
    OBVIOUS
  <1>4. ASSUME NEW m \in 1 .. n, NEW acc \in V PROVE Joined(q, acc, SeqSet(U[m])) \in V
    <2>1. Append(acc, SeqSet(U[m])) \in V
      BY <1>0, <1>2, AppendProperties
    <2> QED BY <2>1 DEF Joined
  <1>5. step \in [1 .. n -> [V -> V]]
    BY <1>3, <1>4
  <1>6. PICK e : e = <<>>
    OBVIOUS
  <1>7. PICK f : Recurs(f, n, V, e, step)
    <2>1. e \in V
      BY <1>0, <1>6
    <2> QED BY <1>5, <2>1, IteratesFrom
  <1>8. f = [m \in 0 .. n |-> IF m = 0 THEN <<>> ELSE Joined(q, f[m - 1], SeqSet(U[m]))]
    <2>1. PICK D : D = 0 .. n
      OBVIOUS
    <2>2. \A m \in D : m # 0 => m \in 1 .. n
      BY <2>1
    <2>3. \A m \in 1 .. n : step[m][f[m - 1]] = Joined(q, f[m - 1], SeqSet(U[m]))
      BY <1>3, <1>7, Zenon DEF Recurs
    <2>4. [m \in D |-> IF m = 0 THEN <<>> ELSE step[m][f[m - 1]]]
            = [m \in D |-> IF m = 0 THEN <<>> ELSE Joined(q, f[m - 1], SeqSet(U[m]))]
      BY <2>2, <2>3, Zenon
    <2> QED BY <1>6, <1>7, <2>1, <2>4, Zenon DEF Recurs
  <1>9. PICK h : /\ h = [m \in 0 .. n |-> IF m = 0 THEN <<>> ELSE Joined(q, h[m - 1], SeqSet(U[m]))]
                 /\ Participants(q) = h[n]
    BY <1>0, <1>1, <1>8, Zenon DEF Participants
  <1>10. h[0] = <<>>
    BY <1>9
  <1>11. ASSUME NEW m \in 0 .. n, m # n PROVE h[m + 1] = Joined(q, h[m], SeqSet(U[m + 1]))
    <2>1. PICK k : k = m + 1
      OBVIOUS
    <2>2. k \in 0 .. n /\ k # 0 /\ k - 1 = m
      BY <1>11, <2>1
    <2> QED BY <1>9, <2>1, <2>2, Zenon
  <1>12. PICK T : T = {m \in 0 .. n : Parts(q, h[m], m)}
    OBVIOUS
  <1>13. 0 \in T
    <2>1. <<>> \in Seq(SUBSET Seq_id) /\ DOMAIN <<>> = {} /\ 0 \in 0 .. n /\ 1 .. 0 = {}
      OBVIOUS
    <2>2. Parts(q, <<>>, 0)
      BY <2>1, Zenon DEF Parts
    <2> QED BY <1>10, <1>12, <2>1, <2>2
  <1>14. ASSUME NEW m \in 0 .. n, m # n, m \in T PROVE m + 1 \in T
    <2>1. m \in Nat /\ m < Len(Unused) /\ m + 1 \in 0 .. n
      BY <1>0, <1>1, <1>14
    <2>2. Parts(q, h[m], m)
      BY <1>12, <1>14
    <2>3. Parts(q, Joined(q, h[m], SeqSet(Unused[m + 1])), m + 1)
      BY <2>1, <2>2, PartsNext
    <2>4. Parts(q, h[m + 1], m + 1)
      BY <1>0, <1>11, <1>14, <2>3, Zenon
    <2> QED BY <1>12, <2>1, <2>4
  <1>15. \A m \in 0 .. n : m \in T
    BY <1>13, <1>14, Induction
  <1>16. n \in T
    <2>1. n \in 0 .. n
      OBVIOUS
    <2> QED BY <1>15, <2>1
  <1> QED BY <1>0, <1>1, <1>9, <1>12, <1>16

----------------------------------------------------------------------------
(* Equal splits *)

\* Disjoint sets are no more than there are sequences.
LEMMA FewSets ==
  ASSUME TypeOK, NEW acc \in Seq(SUBSET Seq_id), \A k \in DOMAIN acc : acc[k] # {},
         \A k, l \in DOMAIN acc : k # l => acc[k] \cap acc[l] = {}
  PROVE  Len(acc) <= Cardinality(Seq_id)
  <1>0. PICK K \in Nat : K = Len(acc) /\ DOMAIN acc = 1 .. K
    OBVIOUS
  <1>1. PICK D : K = Len(acc) /\ D = DOMAIN acc /\ D = 1 .. K
    BY <1>0
  <1>2. IsFiniteSet(Seq_id) /\ Cardinality(Seq_id) \in Nat
    BY SomeSequence
  <1>3. PICK f : f = [k \in D |-> CHOOSE s \in acc[k] : TRUE]
    OBVIOUS
  <1>4. \A k \in D : f[k] \in acc[k] /\ f[k] \in Seq_id
    BY <1>1, <1>3
  <1>5. f \in [D -> Seq_id]
    BY <1>3, <1>4
  <1>6. \A k, l \in D : f[k] = f[l] => k = l
    BY <1>1, <1>4
  <1>7. f \in Injection(D, Seq_id)
    BY <1>5, <1>6 DEF Injection, IsInjective
  <1>8. Cardinality(D) <= Cardinality(Seq_id)
    BY <1>2, <1>7, FS_Injection DEF ExistsInjection
  <1>9. Cardinality(D) = K
    <2>1. 1 \in Int /\ K \in Int
      OBVIOUS
    <2>2. Cardinality(1 .. K) = IF 1 > K THEN 0 ELSE K - 1 + 1
      BY <2>1, FS_Interval
    <2> QED BY <1>1, <2>2
  <1> QED BY <1>1, <1>8, <1>9

\* What a division returns.
LEMMA Quotient ==
  ASSUME NEW a \in Nat, NEW n \in Nat \ {0}
  PROVE  /\ a \div n \in Nat /\ (a \div n) * n <= a /\ a < (a \div n) * n + n
  OBVIOUS

\* Multiplication keeps the order.
LEMMA Product ==
  ASSUME NEW a \in Nat, NEW b \in Nat, NEW n \in Nat, a <= b
  PROVE  a * n <= b * n /\ a * n \in Nat /\ b * n \in Nat
  OBVIOUS

\* Max() of a number and 1.
LEMMA MaxOfTwo ==
  ASSUME NEW m \in Nat
  PROVE  Max({1, m}) = IF m < 1 THEN 1 ELSE m
  <1>1. \E x \in {1, m} : \A y \in {1, m} : x >= y
    OBVIOUS
  <1>2. Max({1, m}) \in {1, m} /\ \A y \in {1, m} : Max({1, m}) >= y
    BY <1>1 DEF Max
  <1> QED BY <1>2

\* A round more than none is as many as each of the lists has, and they fit.
LEMMA RoundsItems ==
  ASSUME TypeOK, NEW X, NEW lists \in Seq(Seq(X)), lists # <<>>, Len(lists) <= Cardinality(Seq_id),
         \A k \in DOMAIN lists : lists[k] # <<>>
  PROVE  /\ Rounds(lists) \in Nat \ {0} /\ \A k \in DOMAIN lists : Rounds(lists) <= Len(lists[k])
         /\ Len(lists) * Rounds(lists) <=
              ((n_ubatch + Cardinality(Seq_id) - 1) \div Cardinality(Seq_id)) * Cardinality(Seq_id)
  <1>1. PICK K \in Nat \ {0}, b \in Nat \ {0}, n \in Nat \ {0} :
             /\ K = Len(lists) /\ b = n_ubatch /\ n = Cardinality(Seq_id)
             /\ DOMAIN lists = 1 .. K
    <2>1. Len(lists) \in Nat \ {0}
      BY EmptySeq
    <2> QED BY <2>1, TheBatch, SomeSequence
  <1>0. PICK r, q : r = Rounds(lists) /\ q = (b + n - 1) \div n
    OBVIOUS
  <1>2. PICK T, m : T = {b \div K} \cup {Len(l) : l \in ToSet(lists)} /\ m = Min(T)
    OBVIOUS
  <1>3. b \div K \in Nat /\ (b \div K) * K <= b
    BY Quotient
  <1>4. ASSUME NEW k \in DOMAIN lists PROVE Len(lists[k]) \in T /\ Len(lists[k]) \in Nat \ {0}
    <2>1. lists[k] \in Seq(X) /\ lists[k] # <<>>
      OBVIOUS
    <2>2. Len(lists[k]) \in Nat \ {0}
      BY <2>1, EmptySeq
    <2>3. lists[k] \in ToSet(lists)
      BY DEF ToSet
    <2> QED BY <1>2, <2>2, <2>3
  <1>5. T \in SUBSET Nat /\ T # {}
    <2>1. ASSUME NEW l \in ToSet(lists) PROVE Len(l) \in Nat
      <3>1. l \in Seq(X)
        BY SequenceItems
      <3> QED BY <3>1
    <2> QED BY <1>2, <1>3, <2>1
  <1>6. m \in Nat /\ \A x \in T : m <= x
    BY <1>2, <1>5, MinOf
  <1>7. r = IF m < 1 THEN 1 ELSE m
    <2>1. r = Max({1, m})
      BY <1>0, <1>1, <1>2 DEF Rounds
    <2> QED BY <1>6, <2>1, MaxOfTwo
  <1>8. r \in Nat \ {0}
    BY <1>6, <1>7
  <1>9. ASSUME NEW k \in DOMAIN lists PROVE r <= Len(lists[k])
    BY <1>4, <1>6, <1>7
  <1>10. PICK p \in Int : p = q * n
    BY <1>0, <1>1
  <1>11. b <= p /\ q \in Nat
    <2>1. b <= ((b + n - 1) \div n) * n
      BY RoundedUp
    <2>2. PICK a \in Nat : a = b + n - 1
      <3>1. b + n - 1 \in Nat
        OBVIOUS
      <3> QED BY <3>1
    <2>3. q = a \div n
      BY <1>0, <2>2, Zenon
    <2>4. q \in Nat
      BY <2>3, Quotient
    <2> QED BY <1>0, <1>1, <1>10, <2>1, <2>4, Zenon
  <1>12. K * r <= p
    <2>1. CASE m < 1
      <3>1. q >= 1
        <4>1. b + n - 1 >= n /\ b + n - 1 \in Nat
          <5>1. b \in Nat /\ n \in Nat /\ b >= 1
            OBVIOUS
          <5> QED BY <5>1
        <4>2. PICK a \in Nat : a = b + n - 1 /\ q = a \div n
          BY <1>0, <1>1, <4>1
        <4>3. a < q * n + n
          BY <4>2, Quotient
        <4>4. a < p + n
          BY <1>10, <4>3
        <4>5. p # 0
          BY <4>1, <4>2, <4>4
        <4>6. q # 0
          BY <1>10, <4>5
        <4> QED BY <1>11, <4>6
      <3>2. p >= n
        <4>1. 1 * n <= q * n /\ 1 * n = n
          BY <1>11, <3>1, Product
        <4> QED BY <1>10, <4>1
      <3>3. K * r = K
        BY <1>7, <2>1
      <3> QED BY <1>0, <1>1, <3>2, <3>3
    <2>2. CASE ~(m < 1)
      <3>1. m <= b \div K
        BY <1>2, <1>6
      <3>2. PICK d \in Nat : d = b \div K
        BY <1>3
      <3>3. m * K <= d * K /\ d * K <= b /\ m * K \in Nat /\ d * K \in Nat
        BY <1>3, <1>6, <3>1, <3>2, Product
      <3>4. r = m /\ K * m = m * K
        BY <1>6, <1>7, <2>2
      <3> QED BY <1>10, <1>11, <3>3, <3>4
    <2> QED BY <2>1, <2>2
  <1> QED BY <1>0, <1>1, <1>8, <1>9, <1>10, <1>12

\* split_equal(), whether its sequences have to be sequential or not
LEMMA EqualGood ==
  ASSUME TypeOK, Closed(Used), NEW q \in BOOLEAN,
         q => ways[try] = "sequential", ~q => ways[try] = "equal",
         SplitEqual(q) # <<>>
  PROVE  GoodSplit(SplitEqual(q))
  <1>1. PICK sets, lists, u, r :
             /\ sets = Participants(q)
             /\ lists = [k \in DOMAIN sets |-> InTurn({i \in Tokens \ Used : SeqSet(i) = sets[k]})]
             /\ r = Rounds(lists)
             /\ u = [k \in DOMAIN lists |-> First(lists[k], r)]
    OBVIOUS
  <1>2. SplitEqual(q) = u /\ sets # <<>> /\ ~(q /\ Coupled)
    BY <1>1, Zenon DEF SplitEqual
  <1>3. Parts(q, sets, Len(Unused))
    BY <1>1, ParticipantsItems
  <1>4. PICK K \in Nat \ {0} : K = Len(sets) /\ DOMAIN sets = 1 .. K
    <2>1. sets \in Seq(SUBSET Seq_id)
      BY <1>3 DEF Parts
    <2> QED BY <1>2, <2>1, EmptySeq
  <1>5. /\ sets \in Seq(SUBSET Seq_id)
        /\ \A k \in 1 .. K : \E i \in Tokens \ Used : SeqSet(i) = sets[k]
        /\ \A k, l \in 1 .. K : k # l => sets[k] \cap sets[l] = {}
    <2>1. ASSUME NEW k \in 1 .. K PROVE \E i \in Tokens \ Used : SeqSet(i) = sets[k]
      <3>1. PICK y \in 1 .. Len(Unused) : SeqSet(Unused[y]) = sets[k]
        BY <1>3, <1>4, Zenon DEF Parts
      <3>2. Unused[y] \in ToSet(Unused)
        BY <3>1, UnusedItems, SequenceItems
      <3> QED BY <3>1, <3>2, UnusedItems
    <2> QED BY <1>3, <1>4, <2>1, Zenon DEF Parts
  <1>6. \A i \in Tokens : SeqSet(i) \in SUBSET Seq_id /\ SeqSet(i) # {}
    BY TheBatch
  <1>7. DOMAIN lists = 1 .. K /\ DOMAIN u = 1 .. K
    BY <1>1, <1>4
  <1>8. ASSUME NEW k \in 1 .. K
        PROVE  /\ lists[k] \in Seq(Tokens) /\ lists[k] # <<>> /\ Goes(lists[k], Rising)
               /\ \A x : x \in ToSet(lists[k]) <=> x \in Tokens \ Used /\ SeqSet(x) = sets[k]
    <2>1. PICK I, l : I = {i \in Tokens \ Used : SeqSet(i) = sets[k]} /\ l = InTurn(I)
      OBVIOUS
    <2>2. lists[k] = l
      BY <1>1, <1>4, <2>1
    <2>3. I \in SUBSET Nat /\ IsFiniteSet(I)
      BY <2>1, TheBatch, FS_Subset
    <2>4. l \in Seq(I) /\ (\A x : x \in ToSet(l) <=> x \in I) /\ Goes(l, Rising)
      BY <2>1, <2>3, InTurnItems
    <2>5. l \in Seq(Tokens)
      <3>1. Len(l) \in Nat /\ l \in [1 .. Len(l) -> I]
        BY <2>4
      <3>2. l \in [1 .. Len(l) -> Tokens]
        BY <2>1, <3>1
      <3> QED BY <3>1, <3>2
    <2>6. l # <<>>
      <3>1. PICK i \in I : TRUE
        BY <1>5, <2>1
      <3>2. i \in ToSet(l)
        BY <2>4
      <3> QED BY <2>4, <3>2 DEF ToSet
    <2> QED BY <2>1, <2>2, <2>4, <2>5, <2>6
  <1>9. lists \in Seq(Seq(Tokens)) /\ Len(lists) = K /\ lists # <<>>
    <2>1. lists \in [1 .. K -> Seq(Tokens)]
      BY <1>1, <1>4, <1>7, <1>8
    <2> QED BY <1>4, <2>1
  <1>10. K <= Cardinality(Seq_id)
    <2>1. \A k \in DOMAIN sets : sets[k] # {}
      BY <1>4, <1>5, <1>6
    <2> QED BY <1>4, <1>5, <2>1, FewSets
  <1>11. /\ r \in Nat \ {0} /\ \A k \in 1 .. K : r <= Len(lists[k])
         /\ K * r <= ((n_ubatch + Cardinality(Seq_id) - 1) \div Cardinality(Seq_id)) * Cardinality(Seq_id)
    <2>1. Len(lists) <= Cardinality(Seq_id) /\ \A k \in DOMAIN lists : lists[k] # <<>>
      BY <1>7, <1>8, <1>9, <1>10
    <2> QED BY <1>1, <1>7, <1>9, <2>1, RoundsItems
  <1>12. ASSUME NEW k \in 1 .. K
         PROVE  /\ u[k] = First(lists[k], r) /\ u[k] \in Seq(Tokens) /\ Len(u[k]) = r
                /\ Goes(u[k], InTheirOrder)
                /\ \A x \in ToSet(u[k]) : x \in Tokens \ Used /\ SeqSet(x) = sets[k]
                /\ u[k][1] \in ToSet(u[k])
    <2>1. PICK l, g : l = lists[k] /\ g = First(l, r)
      OBVIOUS
    <2>2. u[k] = g
      BY <1>1, <1>7, <2>1
    <2>3. l \in Seq(Tokens) /\ Goes(l, Rising) /\ r <= Len(l)
      BY <1>8, <1>11, <2>1
    <2>4. /\ g \in Seq(Tokens) /\ Len(g) = (IF Len(l) < r THEN Len(l) ELSE r)
          /\ ToSet(g) \subseteq ToSet(l) /\ Goes(g, Rising)
      BY <1>11, <2>1, <2>3, FirstItems, FirstGoes
    <2>5. Len(g) = r
      <3>1. Len(l) \in Nat
        BY <2>3
      <3> QED BY <1>11, <2>3, <2>4, <3>1
    <2>6. Goes(g, InTheirOrder)
      BY <2>4, RisingInOrder
    <2>7. \A x \in ToSet(g) : x \in Tokens \ Used /\ SeqSet(x) = sets[k]
      BY <1>8, <2>1, <2>4
    <2>8. g[1] \in ToSet(g)
      <3>1. 1 \in DOMAIN g
        BY <1>11, <2>4, <2>5
      <3> QED BY <3>1 DEF ToSet
    <2> QED BY <2>1, <2>2, <2>4, <2>5, <2>6, <2>7, <2>8
  <1>13. u \in Seq(Seq(Tokens)) /\ Len(u) = K
    <2>1. u \in [1 .. K -> Seq(Tokens)]
      BY <1>1, <1>7, <1>12
    <2> QED BY <1>4, <2>1
  <1>14. PICK f : f = Flat(u)
    OBVIOUS
  <1>15. f \in Seq(Tokens) /\ \A x : x \in ToSet(f) <=> \E k \in 1 .. K : x \in ToSet(u[k])
    BY <1>13, <1>14, FlattenItems DEF Flat
  <1>16. Goes(f, InTheirOrder)
    <2>1. ASSUME NEW j \in 1 .. K, NEW k \in 1 .. K, j < k, NEW x \in ToSet(u[j]), NEW y \in ToSet(u[k])
          PROVE  <<x, y>> \in InTheirOrder
      <3>1. x \in Tokens /\ SeqSet(x) = sets[j] /\ y \in Tokens /\ SeqSet(y) = sets[k]
        BY <1>12, <2>1
      <3>2. SeqSet(x) \cap SeqSet(y) = {} /\ SeqSet(x) # {}
        BY <1>5, <1>6, <2>1, <3>1
      <3>3. x # y
        BY <3>2
      <3>4. ~Share(x, y)
        BY <3>2 DEF Share
      <3> QED BY <3>1, <3>3, <3>4 DEF InTheirOrder
    <2>2. \A k \in 1 .. Len(u) : Goes(u[k], InTheirOrder)
      BY <1>12, <1>13
    <2>3. \A j, k \in 1 .. Len(u) : j < k =>
             \A x \in ToSet(u[j]), y \in ToSet(u[k]) : <<x, y>> \in InTheirOrder
      BY <1>13, <2>1
    <2>4. Goes(FlattenSeq(u), InTheirOrder)
      BY <1>13, <2>2, <2>3, FlattenGoes
    <2> QED BY <1>14, <2>4 DEF Flat
  <1>17. \A i \in ToSet(f) : i \in Tokens /\ i \notin Used
    BY <1>12, <1>15
  <1>18. ASSUME Orderly(batch), NEW i \in Tokens, NEW j \in Tokens, i < j, Share(i, j),
                j \in Used \cup ToSet(f)
         PROVE  i \in Used \cup ToSet(f)
    <2>1. CASE j \in Used
      BY <1>18, <2>1, Zenon DEF Closed
    <2>2. CASE j \in ToSet(f) /\ i \notin Used
      <3>1. PICK k \in 1 .. K : j \in ToSet(u[k])
        BY <1>15, <2>2
      <3>2. SeqSet(j) = sets[k] /\ SeqSet(i) \cap sets[k] # {}
        BY <1>12, <1>18, <3>1 DEF Share
      <3>3. SeqSet(j) \subseteq SeqSet(i)
        BY <1>18, Zenon DEF Orderly, Share, SeqSet, Tokens
      <3>4. PICK y \in 1 .. Len(Unused) : Unused[y] = i
        BY <1>18, <2>2, UnusedItems, SequenceItems
      <3>5. SeqSet(i) \subseteq sets[k]
        <4>1. CASE q
          <5>1. ~(Cardinality(SeqSet(i)) > 1)
            BY <1>2, <4>1 DEF Coupled
          <5>2. IsFiniteSet(SeqSet(i)) /\ Cardinality(SeqSet(i)) \in Nat
            BY <1>6, SomeSequence, FS_Subset, FS_CardinalityType
          <5>3. ASSUME NEW s \in SeqSet(i), NEW t \in SeqSet(i), s # t PROVE FALSE
            <6>1. Cardinality({s, t}) = 2 /\ {s, t} \in SUBSET SeqSet(i)
              <7>1. Cardinality({s}) = 1 /\ IsFiniteSet({s})
                BY FS_Singleton
              <7>2. Cardinality({s} \cup {t}) = Cardinality({s}) + 1
                BY <5>3, <7>1, FS_AddElement
              <7>3. {s} \cup {t} = {s, t} /\ {s, t} \in SUBSET SeqSet(i)
                OBVIOUS
              <7>4. 1 + 1 = 2
                OBVIOUS
              <7> QED BY <7>1, <7>2, <7>3, <7>4, Zenon
            <6>2. Cardinality({s, t}) <= Cardinality(SeqSet(i))
              BY <5>2, <6>1, FS_Subset
            <6> QED BY <5>1, <5>2, <6>1, <6>2
          <5> QED BY <3>2, <5>3
        <4>2. CASE ~q
          <5>1. SeqSet(Unused[y]) \cap sets[k] # {} => SeqSet(Unused[y]) \subseteq sets[k]
            BY <1>3, <1>4, <1>18, <3>1, <3>4, <4>2, Zenon DEF Parts
          <5> QED BY <3>2, <3>4, <5>1
        <4> QED BY <4>1, <4>2
      <3>6. i \in ToSet(lists[k])
        <4>1. SeqSet(i) = sets[k] /\ i \in Tokens \ Used
          BY <1>18, <2>2, <3>2, <3>3, <3>5
        <4> QED BY <1>8, <4>1
      <3>7. lists[k] \in Seq(Tokens) /\ Goes(lists[k], Rising) /\ u[k] = First(lists[k], r)
        BY <1>8, <1>12
      <3>8. Tokens \in SUBSET Nat
        BY TheBatch
      <3>9. i \in ToSet(First(lists[k], r))
        BY <1>11, <1>18, <3>1, <3>6, <3>7, <3>8, FirstClosed
      <3> QED BY <1>15, <3>7, <3>9
    <2> QED BY <1>18, <2>1, <2>2
  <1>19. Closed(Used \cup ToSet(f))
    BY <1>18 DEF Closed
  <1>20. Shaped(u)
    <2>1. \A k, l \in DOMAIN u : Len(u[k]) = Len(u[l])
      BY <1>7, <1>12
    <2>2. \A k \in DOMAIN u : SeqSet(u[k][1]) = sets[k]
      BY <1>7, <1>12
    <2>3. \A k, l \in DOMAIN u : k # l => SeqSet(u[k][1]) \cap SeqSet(u[l][1]) = {}
      BY <1>5, <1>7, <2>2
    <2>4. \A g \in ToSet(u) : \A i \in ToSet(g) : SeqSet(i) = SeqSet(g[1])
      <3>1. ASSUME NEW g \in ToSet(u), NEW i \in ToSet(g) PROVE SeqSet(i) = SeqSet(g[1])
        <4>1. PICK k \in 1 .. K : g = u[k]
          BY <1>7 DEF ToSet
        <4> QED BY <1>12, <4>1
      <3> QED BY <3>1
    <2>5. ASSUME ways[try] = "sequential", NEW k \in DOMAIN u
          PROVE  SeqSet(u[k][1]) = {Min(SeqSet(u[1][1])) + k - 1}
      <3>1. q
        BY <2>5
      <3>2. sets[k] = {Min(sets[1]) + k - 1}
        BY <1>2, <1>3, <1>4, <1>7, <2>5, <3>1, Zenon DEF Parts
      <3>3. 1 \in DOMAIN u
        BY <1>4, <1>7
      <3> QED BY <2>2, <2>5, <3>2, <3>3
    <2>6. Len(f) = K * r
      BY <1>11, <1>12, <1>13, <1>14, FlattenLength DEF Flat
    <2>7. Len(Flat(u)) <= ((n_ubatch + Cardinality(Seq_id) - 1) \div Cardinality(Seq_id)) * Cardinality(Seq_id)
      BY <1>11, <1>14, <2>6
    <2> QED BY <2>1, <2>3, <2>4, <2>5, <2>7, Zenon DEF Shaped
  <1>21. GoodSplit(u)
    BY <1>13, <1>14, <1>15, <1>16, <1>17, <1>19, <1>20, Zenon DEF GoodSplit
  <1> QED BY <1>2, <1>21

----------------------------------------------------------------------------
(* Swaps *)

\* t is r with the items i and j exchanged.
Exchanged(t, D, V, r, i, j) ==
  t \in [D -> V] /\ \A k \in D : t[k] = IF k = i THEN r[j] ELSE IF k = j THEN r[i] ELSE r[k]

\* Swap() exchanges two items.
LEMMA SwapItems ==
  ASSUME NEW D, NEW V, NEW r, NEW i, NEW j, r \in [D -> V], i \in D, j \in D
  PROVE  Exchanged(Swap(r, <<i, j>>), D, V, r, i, j)
  <1>1. PICK w : w = <<i, j>>
    OBVIOUS
  <1>2. w[1] = i /\ w[2] = j
    BY <1>1
  <1>3. Swap(r, w) = [r EXCEPT ![i] = r[j], ![j] = r[i]]
    BY <1>2 DEF Swap
  <1>4. Exchanged(Swap(r, w), D, V, r, i, j)
    BY <1>2, <1>3 DEF Exchanged
  <1> QED BY <1>1, <1>4

\* Swaps within the first n of a buffer of one row for each token of the batch.
Pairs(n) == (1 .. n) \X (1 .. n)
Buffer   == [1 .. NBatch -> 0 .. NBatch]

\* The first of a buffer are those of s.
Holds(buf, s) == \A k \in DOMAIN s : buf[k] = s[k]

\* What the swaps ws make of a buffer, one after the other.
Applies(f, ws, buf, n) ==
  /\ f \in [0 .. n -> Buffer] /\ f[0] = buf /\ Applied(ws, buf) = f[n]
  /\ \A k \in 0 .. n : k # n => f[k + 1] = Swap(f[k], ws[k + 1])

\* What Applied() computes, one swap at a time.
LEMMA AppliedSteps ==
  ASSUME NEW buf \in Buffer, NEW ws \in Seq(Pairs(NBatch)), NEW n \in Nat, n = Len(ws)
  PROVE  \E f : Applies(f, ws, buf, n)
  <1>1. PICK V : V = Buffer
    OBVIOUS
  <1>2. PICK step : step = [k \in 1 .. n |-> [b \in V |-> Swap(b, ws[k])]]
    OBVIOUS
  <1>3. ASSUME NEW k \in 1 .. n, NEW b \in V PROVE Swap(b, ws[k]) \in V
    <2>1. ws[k] \in Pairs(NBatch)
      OBVIOUS
    <2>2. PICK i \in 1 .. NBatch, j \in 1 .. NBatch : ws[k] = <<i, j>>
      BY <2>1 DEF Pairs
    <2>3. Exchanged(Swap(b, <<i, j>>), 1 .. NBatch, 0 .. NBatch, b, i, j)
      BY <1>1, SwapItems DEF Buffer
    <2>4. Swap(b, <<i, j>>) \in V
      BY <1>1, <2>3 DEF Buffer, Exchanged
    <2> QED BY <2>2, <2>4
  <1>4. step \in [1 .. n -> [V -> V]]
    BY <1>2, <1>3
  <1>5. PICK g : Recurs(g, n, V, buf, step)
    BY <1>1, <1>4, IteratesFrom
  <1>6. g = [k \in 0 .. n |-> IF k = 0 THEN buf ELSE Swap(g[k - 1], ws[k])]
    <2>1. PICK D : D = 0 .. n
      OBVIOUS
    <2>2. \A m \in D : m # 0 => m \in 1 .. n
      BY <2>1
    <2>3. \A m \in 1 .. n : step[m][g[m - 1]] = Swap(g[m - 1], ws[m])
      BY <1>2, <1>5, Zenon DEF Recurs
    <2>4. [m \in D |-> IF m = 0 THEN buf ELSE step[m][g[m - 1]]]
            = [m \in D |-> IF m = 0 THEN buf ELSE Swap(g[m - 1], ws[m])]
      BY <2>2, <2>3, Zenon
    <2> QED BY <1>5, <2>1, <2>4, Zenon DEF Recurs
  <1>7. PICK f : f = [k \in 0 .. n |-> IF k = 0 THEN buf ELSE Swap(f[k - 1], ws[k])] /\ Applied(ws, buf) = f[n]
    BY <1>6, Zenon DEF Applied
  <1>8. f[0] = buf
    BY <1>7
  <1>9. ASSUME NEW k \in 0 .. n, k # n PROVE f[k + 1] = Swap(f[k], ws[k + 1])
    <2>1. PICK m : m = k + 1
      OBVIOUS
    <2>2. m \in 0 .. n /\ m # 0 /\ m - 1 = k
      BY <1>9, <2>1
    <2> QED BY <1>7, <2>1, <2>2, Zenon
  <1>10. PICK T : T = {k \in 0 .. n : f[k] \in Buffer}
    OBVIOUS
  <1>11. 0 \in T
    BY <1>8, <1>10
  <1>12. ASSUME NEW k \in 0 .. n, k # n, k \in T PROVE k + 1 \in T
    <2>1. k + 1 \in 0 .. n /\ k + 1 \in 1 .. n
      BY <1>12
    <2>2. PICK b \in V : b = f[k]
      BY <1>1, <1>10, <1>12
    <2>3. f[k + 1] \in V
      BY <1>3, <1>9, <1>12, <2>1, <2>2
    <2> QED BY <1>1, <1>10, <2>1, <2>3
  <1>13. \A k \in 0 .. n : k \in T
    BY <1>11, <1>12, Induction
  <1>14. f \in [0 .. n -> Buffer]
    <2>1. PICK D : D = 0 .. n
      OBVIOUS
    <2>2. f = [k \in D |-> f[k]]
      BY <1>7, <2>1
    <2> QED BY <1>10, <1>13, <2>1, <2>2
  <1>15. Applies(f, ws, buf, n)
    BY <1>7, <1>8, <1>9, <1>14, Zenon DEF Applies
  <1> QED BY <1>15

\* Swaps leave a buffer a buffer.
LEMMA AppliedBuffer ==
  ASSUME NEW buf \in Buffer, NEW ws \in Seq(Pairs(NBatch))
  PROVE  Applied(ws, buf) \in Buffer
  <1>1. PICK n \in Nat : n = Len(ws)
    OBVIOUS
  <1>2. PICK f : Applies(f, ws, buf, n)
    BY <1>1, AppliedSteps
  <1>3. n \in 0 .. n
    OBVIOUS
  <1> QED BY <1>2, <1>3 DEF Applies

\* Nothing to swap.
LEMMA AppliedNone ==
  ASSUME NEW buf \in Buffer
  PROVE  Applied(<<>>, buf) = buf
  <1>1. <<>> \in Seq(Pairs(NBatch)) /\ 0 \in Nat /\ 0 = Len(<<>>)
    OBVIOUS
  <1>2. PICK f : Applies(f, <<>>, buf, 0)
    BY <1>1, AppliedSteps
  <1> QED BY <1>2 DEF Applies

\* One swap more, after the others.
LEMMA AppliedAppend ==
  ASSUME NEW buf \in Buffer, NEW ws \in Seq(Pairs(NBatch)), NEW w \in Pairs(NBatch)
  PROVE  Applied(Append(ws, w), buf) = Swap(Applied(ws, buf), w)
  <1>0. PICK n \in Nat, m \in Nat : n = Len(ws) /\ m = n + 1
    OBVIOUS
  <1>1. PICK vs : n = Len(ws) /\ m = n + 1 /\ vs = Append(ws, w)
    BY <1>0
  <1>2. /\ vs \in Seq(Pairs(NBatch)) /\ Len(vs) = m /\ vs[m] = w
        /\ \A k \in 1 .. n : vs[k] = ws[k]
    BY <1>1, AppendProperties
  <1>3. PICK f : Applies(f, ws, buf, n)
    BY <1>1, AppliedSteps
  <1>4. PICK g : Applies(g, vs, buf, m)
    BY <1>1, <1>2, AppliedSteps
  <1>5. PICK T : T = {k \in 0 .. n : f[k] = g[k]}
    OBVIOUS
  <1>6. 0 \in T
    BY <1>3, <1>4, <1>5 DEF Applies
  <1>7. ASSUME NEW k \in 0 .. n, k # n, k \in T PROVE k + 1 \in T
    <2>1. k + 1 \in 0 .. n /\ k + 1 \in 1 .. n /\ k \in 0 .. m /\ k # m
      BY <1>1, <1>7
    <2>2. f[k + 1] = Swap(f[k], ws[k + 1])
      BY <1>3, <1>7, Zenon DEF Applies
    <2>3. g[k + 1] = Swap(g[k], vs[k + 1])
      BY <1>4, <2>1, Zenon DEF Applies
    <2>4. f[k] = g[k] /\ vs[k + 1] = ws[k + 1]
      BY <1>2, <1>5, <1>7, <2>1
    <2>5. f[k + 1] = g[k + 1]
      BY <2>2, <2>3, <2>4, Zenon
    <2> QED BY <1>5, <2>1, <2>5
  <1>8. \A k \in 0 .. n : k \in T
    BY <1>6, <1>7, Induction
  <1>9. n \in 0 .. n /\ n \in 0 .. m /\ n # m
    BY <1>1
  <1>10. g[m] = Swap(g[n], vs[m])
    BY <1>1, <1>4, <1>9, Zenon DEF Applies
  <1>11. f[n] = g[n] /\ Applied(vs, buf) = g[m] /\ Applied(ws, buf) = f[n]
    <2>1. n \in T
      BY <1>8, <1>9
    <2> QED BY <1>3, <1>4, <1>5, <2>1 DEF Applies
  <1> QED BY <1>1, <1>2, <1>10, <1>11, Zenon

----------------------------------------------------------------------------
(* The selection sort *)

\* acc is what the first i rounds make of ids.
SortedTo(acc, ids, i) ==
  /\ acc.ids \in [1 .. Len(ids) -> ToSet(ids)] /\ acc.swaps \in Seq(Pairs(Len(ids)))
  /\ \A x \in ToSet(ids) : \E k \in 1 .. Len(ids) : acc.ids[k] = x
  /\ \A k, l \in 1 .. Len(ids) : k # l => acc.ids[k] # acc.ids[l]
  /\ \A k \in 1 .. i, l \in 1 .. Len(ids) : k < l => acc.ids[k] < acc.ids[l]
  /\ \A buf \in Buffer : Holds(buf, ids) => Holds(Applied(acc.swaps, buf), acc.ids)

\* Smallest() finds the smallest of the items that are not sorted yet.
LEMMA SmallestFrom ==
  ASSUME NEW n \in Nat, NEW X \in SUBSET Nat, NEW s \in [1 .. n -> X], NEW i \in 1 .. n
  PROVE  /\ Smallest(s, i) \in 1 .. n /\ i <= Smallest(s, i)
         /\ \A k \in i .. n : s[Smallest(s, i)] <= s[k]
  <1>1. PICK T : T = {s[k] : k \in i .. n}
    OBVIOUS
  <1>2. \A k \in i .. n : k \in 1 .. n /\ s[k] \in Nat
    <2>1. \A k \in i .. n : k \in 1 .. n
      OBVIOUS
    <2>2. \A k \in 1 .. n : s[k] \in X
      OBVIOUS
    <2> QED BY <2>1, <2>2
  <1>3. i \in i .. n
    OBVIOUS
  <1>4. T \in SUBSET Nat /\ T # {}
    BY <1>1, <1>2, <1>3
  <1>5. PICK m \in T : \A x \in T : m <= x
    BY <1>4, Least
  <1>6. \E a \in i .. n : \A k \in i .. n : s[a] <= s[k]
    BY <1>1, <1>5
  <1>7. Len(s) = n
    OBVIOUS
  <1>8. PICK j : j = Smallest(s, i)
    OBVIOUS
  <1>9. j \in i .. n /\ \A k \in i .. n : s[j] <= s[k]
    BY <1>6, <1>7, <1>8 DEF Smallest
  <1> QED BY <1>2, <1>8, <1>9

\* One round of the selection sort puts the next smallest id in its place, and its
\* swap does the same to a buffer.
LEMMA SortedNext ==
  ASSUME NEW X \in SUBSET Nat, NEW ids \in Seq(X), Len(ids) <= NBatch, NEW acc, NEW i \in Nat,
         i < Len(ids), SortedTo(acc, ids, i)
  PROVE  SortedTo(Round(acc, i + 1), ids, i + 1)
  <1>0. PICK n \in Nat : n = Len(ids)
    OBVIOUS
  <1>1. PICK a, s, Y : n = Len(ids) /\ a = i + 1 /\ s = acc.ids /\ Y = ToSet(ids)
    BY <1>0
  <1>2. Y \in SUBSET Nat
    BY <1>1, SequenceItems
  <1>3. a \in 1 .. n /\ (\A k \in 1 .. a : k \in 1 .. i \/ k = a) /\ NBatch \in Nat /\ n <= NBatch
    BY <1>1, BatchAssumption DEF BatchAssumption
  <1>4. /\ s \in [1 .. n -> Y] /\ acc.swaps \in Seq(Pairs(n))
        /\ \A x \in Y : \E k \in 1 .. n : s[k] = x
        /\ \A k, l \in 1 .. n : k # l => s[k] # s[l]
        /\ \A k \in 1 .. i, l \in 1 .. n : k < l => s[k] < s[l]
        /\ \A buf \in Buffer : Holds(buf, ids) => Holds(Applied(acc.swaps, buf), s)
    BY <1>1, Zenon DEF SortedTo
  <1>5. Len(s) = n
    BY <1>4
  <1>6. PICK j, new : j = Smallest(s, a) /\ new = Round(acc, a)
    OBVIOUS
  <1>7. j \in 1 .. n /\ a <= j /\ \A k \in a .. n : s[j] <= s[k]
    BY <1>2, <1>3, <1>4, <1>6, SmallestFrom
  <1>8. new = IF j = a THEN acc
              ELSE [ids |-> Swap(s, <<a, j>>), swaps |-> Append(acc.swaps, <<a, j>>)]
    BY <1>1, <1>6, Zenon DEF Round
  <1>9. \A k \in 1 .. n : s[k] \in Nat
    BY <1>2, <1>4
  <1>10. CASE j = a
    <2>1. new = acc
      BY <1>8, <1>10
    <2>2. ASSUME NEW k \in 1 .. a, NEW l \in 1 .. n, k < l PROVE s[k] < s[l]
      <3>1. CASE k \in 1 .. i
        BY <1>4, <2>2, <3>1
      <3>2. CASE k = a
        <4>1. l \in a .. n /\ l # a
          BY <1>3, <2>2, <3>2
        <4>2. s[a] <= s[l] /\ s[a] # s[l] /\ s[a] \in Nat /\ s[l] \in Nat
          BY <1>3, <1>4, <1>7, <1>9, <1>10, <4>1
        <4> QED BY <3>2, <4>2
      <3> QED BY <1>3, <2>2, <3>1, <3>2
    <2>3. SortedTo(acc, ids, a)
      BY <1>1, <1>4, <2>2, Zenon DEF SortedTo
    <2> QED BY <1>1, <1>6, <2>1, <2>3
  <1>11. CASE j # a
    <2>1. PICK t, vs : t = Swap(s, <<a, j>>) /\ vs = Append(acc.swaps, <<a, j>>)
      OBVIOUS
    <2>2. new.ids = t /\ new.swaps = vs
      BY <1>8, <1>11, <2>1
    <2>3. /\ t \in [1 .. n -> Y]
          /\ \A k \in 1 .. n : t[k] = IF k = a THEN s[j] ELSE IF k = j THEN s[a] ELSE s[k]
      <3>1. a \in 1 .. n /\ j \in 1 .. n /\ s \in [1 .. n -> Y]
        BY <1>3, <1>4, <1>7
      <3>2. Exchanged(Swap(s, <<a, j>>), 1 .. n, Y, s, a, j)
        BY <3>1, SwapItems, Zenon
      <3>3. Exchanged(t, 1 .. n, Y, s, a, j)
        BY <2>1, <3>2, Zenon
      <3> QED BY <3>3 DEF Exchanged
    <2>4. vs \in Seq(Pairs(n)) /\ <<a, j>> \in Pairs(n)
      <3>1. <<a, j>> \in Pairs(n)
        BY <1>3, <1>7 DEF Pairs
      <3> QED BY <1>4, <2>1, <3>1, AppendProperties
    <2>5. ASSUME NEW x \in Y PROVE \E k \in 1 .. n : t[k] = x
      <3>1. PICK k \in 1 .. n : s[k] = x
        BY <1>4
      <3>2. CASE k = a
        BY <1>7, <1>11, <2>3, <3>1, <3>2
      <3>3. CASE k = j
        BY <1>3, <2>3, <3>1, <3>3
      <3>4. CASE k # a /\ k # j
        BY <2>3, <3>1, <3>4
      <3> QED BY <3>2, <3>3, <3>4
    <2>6. \A k, l \in 1 .. n : k # l => t[k] # t[l]
      BY <1>3, <1>4, <1>7, <2>3
    <2>7. ASSUME NEW k \in 1 .. a, NEW l \in 1 .. n, k < l PROVE t[k] < t[l]
      <3>1. CASE k \in 1 .. i
        <4>1. t[k] = s[k] /\ k < a /\ k < j /\ k \in 1 .. n
          BY <1>1, <1>3, <1>7, <2>3, <3>1
        <4>2. t[l] = s[l] \/ t[l] = s[j] \/ t[l] = s[a]
          BY <2>3
        <4>3. s[k] < s[l] /\ s[k] < s[j] /\ s[k] < s[a]
          BY <1>3, <1>4, <1>7, <2>7, <3>1, <4>1
        <4> QED BY <4>1, <4>2, <4>3
      <3>2. CASE k = a
        <4>1. t[k] = s[j]
          BY <1>3, <2>3, <3>2
        <4>2. l \in a .. n /\ l # a /\ a \in a .. n
          BY <1>3, <2>7, <3>2
        <4>3. PICK m \in a .. n : t[l] = s[m] /\ m # j
          <5>1. CASE l = j
            BY <1>11, <2>3, <4>2, <5>1
          <5>2. CASE l # j
            BY <2>3, <4>2, <5>2
          <5> QED BY <5>1, <5>2
        <4>4. m \in 1 .. n
          BY <1>3
        <4>5. s[j] <= s[m] /\ s[j] # s[m] /\ s[j] \in Nat /\ s[m] \in Nat
          BY <1>4, <1>7, <1>9, <4>3, <4>4
        <4> QED BY <4>1, <4>3, <4>5
      <3> QED BY <1>3, <2>7, <3>1, <3>2
    <2>8. ASSUME NEW buf \in Buffer, Holds(buf, ids) PROVE Holds(Applied(vs, buf), t)
      <3>1. Holds(Applied(acc.swaps, buf), s)
        BY <1>4, <2>8
      <3>2. Pairs(n) \subseteq Pairs(NBatch) /\ \A k \in 1 .. n : k \in 1 .. NBatch
        BY <1>3 DEF Pairs
      <3>3. acc.swaps \in Seq(Pairs(NBatch)) /\ <<a, j>> \in Pairs(NBatch)
        <4>1. Len(acc.swaps) \in Nat /\ acc.swaps \in [1 .. Len(acc.swaps) -> Pairs(n)]
          BY <1>4
        <4>2. acc.swaps \in [1 .. Len(acc.swaps) -> Pairs(NBatch)]
          BY <3>2, <4>1
        <4> QED BY <2>4, <3>2, <4>1, <4>2
      <3>4. PICK b \in Buffer : b = Applied(acc.swaps, buf)
        BY <3>3, AppliedBuffer
      <3>5. Applied(vs, buf) = Swap(b, <<a, j>>)
        BY <2>1, <3>3, <3>4, AppliedAppend
      <3>0. PICK c : c = Swap(b, <<a, j>>)
        OBVIOUS
      <3>6. \A k \in 1 .. NBatch : c[k] = IF k = a THEN b[j] ELSE IF k = j THEN b[a] ELSE b[k]
        <4>1. b \in [1 .. NBatch -> 0 .. NBatch] /\ a \in 1 .. NBatch /\ j \in 1 .. NBatch
          BY <1>3, <1>7, <3>2, <3>4 DEF Buffer
        <4>2. Exchanged(Swap(b, <<a, j>>), 1 .. NBatch, 0 .. NBatch, b, a, j)
          BY <4>1, SwapItems, Zenon
        <4>3. Exchanged(c, 1 .. NBatch, 0 .. NBatch, b, a, j)
          BY <3>0, <4>2, Zenon
        <4> QED BY <4>3 DEF Exchanged
      <3>7. \A k \in 1 .. n : b[k] = s[k]
        <4>1. DOMAIN s = 1 .. n
          BY <1>4
        <4> QED BY <3>1, <3>4, <4>1 DEF Holds
      <3>8. \A k \in 1 .. n : c[k] = t[k]
        BY <1>3, <1>7, <2>3, <3>2, <3>6, <3>7
      <3>9. DOMAIN t = 1 .. n
        BY <2>3
      <3> QED BY <3>0, <3>5, <3>8, <3>9 DEF Holds
    <2>9. SortedTo(new, ids, a)
      BY <1>1, <2>2, <2>3, <2>4, <2>5, <2>6, <2>7, <2>8, Zenon DEF SortedTo
    <2> QED BY <1>1, <1>6, <2>9
  <1> QED BY <1>10, <1>11

\* The ids are sorted, and a buffer that held them is, too, when all swaps are applied.
LEMMA SortedItems ==
  ASSUME NEW X \in SUBSET Nat, NEW ids \in Seq(X), Len(ids) <= NBatch,
         \A k, l \in DOMAIN ids : k # l => ids[k] # ids[l]
  PROVE  SortedTo(Sorted(ids), ids, Len(ids))
  <1>1. PICK n \in Nat : n = Len(ids) /\ DOMAIN ids = 1 .. n
    OBVIOUS
  <1>2. PICK Y, V : Y = ToSet(ids) /\ V = [ids : [1 .. n -> Y], swaps : Seq(Pairs(n))]
    OBVIOUS
  <1>3. Y \in SUBSET Nat /\ \A k \in 1 .. n : ids[k] \in Y
    BY <1>1, <1>2, SequenceItems DEF ToSet
  <1>4. PICK e : e = [ids |-> ids, swaps |-> <<>>]
    OBVIOUS
  <1>5. e \in V /\ e.ids = ids /\ e.swaps = <<>>
    <2>1. ids \in [1 .. n -> Y]
      BY <1>1, <1>3
    <2> QED BY <1>2, <1>4, <2>1
  <1>6. PICK step : step = [i \in 1 .. n |-> [acc \in V |-> Round(acc, i)]]
    OBVIOUS
  <1>7. ASSUME NEW i \in 1 .. n, NEW acc \in V PROVE Round(acc, i) \in V
    <2>1. PICK s, j : s = acc.ids /\ j = Smallest(s, i)
      OBVIOUS
    <2>2. s \in [1 .. n -> Y] /\ acc.swaps \in Seq(Pairs(n)) /\ Len(s) = n
      BY <1>2, <2>1
    <2>3. j \in 1 .. n
      BY <1>3, <2>1, <2>2, SmallestFrom
    <2>4. Round(acc, i) = IF j = i THEN acc
              ELSE [ids |-> Swap(s, <<i, j>>), swaps |-> Append(acc.swaps, <<i, j>>)]
      BY <2>1, Zenon DEF Round
    <2>5. Swap(s, <<i, j>>) \in [1 .. n -> Y]
      <3>1. Exchanged(Swap(s, <<i, j>>), 1 .. n, Y, s, i, j)
        BY <2>2, <2>3, SwapItems
      <3> QED BY <3>1 DEF Exchanged
    <2>6. Append(acc.swaps, <<i, j>>) \in Seq(Pairs(n))
      <3>1. <<i, j>> \in Pairs(n)
        BY <2>3 DEF Pairs
      <3> QED BY <2>2, <3>1, AppendProperties
    <2>7. [ids |-> Swap(s, <<i, j>>), swaps |-> Append(acc.swaps, <<i, j>>)] \in V
      BY <1>2, <2>5, <2>6
    <2> QED BY <2>4, <2>7
  <1>8. step \in [1 .. n -> [V -> V]]
    BY <1>6, <1>7
  <1>9. PICK f : Recurs(f, n, V, e, step)
    BY <1>5, <1>8, IteratesFrom
  <1>10. f = [i \in 0 .. n |-> IF i = 0 THEN [ids |-> ids, swaps |-> <<>>] ELSE Round(f[i - 1], i)]
    <2>1. PICK D : D = 0 .. n
      OBVIOUS
    <2>2. \A m \in D : m # 0 => m \in 1 .. n
      BY <2>1
    <2>3. \A m \in 1 .. n : step[m][f[m - 1]] = Round(f[m - 1], m)
      BY <1>6, <1>9, Zenon DEF Recurs
    <2>4. [m \in D |-> IF m = 0 THEN e ELSE step[m][f[m - 1]]]
            = [m \in D |-> IF m = 0 THEN e ELSE Round(f[m - 1], m)]
      BY <2>2, <2>3, Zenon
    <2> QED BY <1>4, <1>9, <2>1, <2>4, Zenon DEF Recurs
  <1>11. PICK h : /\ h = [i \in 0 .. n |-> IF i = 0 THEN [ids |-> ids, swaps |-> <<>>] ELSE Round(h[i - 1], i)]
                  /\ Sorted(ids) = h[n]
    BY <1>1, <1>10, Zenon DEF Sorted
  <1>12. h[0] = e
    BY <1>4, <1>11
  <1>13. ASSUME NEW m \in 0 .. n, m # n PROVE h[m + 1] = Round(h[m], m + 1)
    <2>1. PICK k : k = m + 1
      OBVIOUS
    <2>2. k \in 0 .. n /\ k # 0 /\ k - 1 = m
      BY <1>13, <2>1
    <2> QED BY <1>11, <2>1, <2>2, Zenon
  <1>14. PICK T : T = {m \in 0 .. n : SortedTo(h[m], ids, m)}
    OBVIOUS
  <1>15. 0 \in T
    <2>1. \A x \in Y : \E k \in 1 .. n : ids[k] = x
      BY <1>1, <1>2, SequenceItems
    <2>2. \A k \in 1 .. 0 : FALSE
      OBVIOUS
    <2>3. \A buf \in Buffer : Holds(buf, ids) => Holds(Applied(<<>>, buf), ids)
      BY AppliedNone
    <2>4. ids \in [1 .. n -> Y] /\ <<>> \in Seq(Pairs(n))
      BY <1>1, <1>3
    <2>5. SortedTo(e, ids, 0)
      BY <1>1, <1>2, <1>5, <2>1, <2>2, <2>3, <2>4, Zenon DEF SortedTo
    <2>6. 0 \in 0 .. n
      OBVIOUS
    <2> QED BY <1>12, <1>14, <2>5, <2>6
  <1>16. ASSUME NEW m \in 0 .. n, m # n, m \in T PROVE m + 1 \in T
    <2>1. m \in Nat /\ m < Len(ids) /\ m + 1 \in 0 .. n
      BY <1>1, <1>16
    <2>2. SortedTo(h[m], ids, m)
      BY <1>14, <1>16
    <2>3. SortedTo(Round(h[m], m + 1), ids, m + 1)
      BY <2>1, <2>2, SortedNext
    <2>4. SortedTo(h[m + 1], ids, m + 1)
      BY <1>13, <1>16, <2>3, Zenon
    <2> QED BY <1>14, <2>1, <2>4
  <1>17. \A m \in 0 .. n : m \in T
    BY <1>15, <1>16, Induction
  <1>18. n \in T
    <2>1. n \in 0 .. n
      OBVIOUS
    <2> QED BY <1>17, <2>1
  <1> QED BY <1>1, <1>11, <1>14, <1>18

----------------------------------------------------------------------------
(* Sequences without repetitions *)

\* No more is picked than there is.
LEMMA ThoseLength ==
  ASSUME NEW X, NEW q \in Seq(X), NEW S
  PROVE  Len(Those(q, S)) \in Nat /\ Len(Those(q, S)) <= Len(q)
  <1>1. PICK n \in Nat : n = Len(q) /\ DOMAIN q = 1 .. n
    OBVIOUS
  <1>2. PICK K : K = {k \in 1 .. n : q[k] \in S}
    OBVIOUS
  <1>3. PICK r : r = Remaining(q, K)
    OBVIOUS
  <1>4. r = Those(q, S)
    BY <1>1, <1>2, <1>3 DEF Those
  <1>5. r \in Seq(X) /\ DOMAIN r = 1 .. Cardinality(K) /\ K \in SUBSET (1 .. Len(q))
    <2>1. K \in SUBSET (1 .. Len(q))
      BY <1>1, <1>2
    <2> QED BY <1>3, <2>1, RemainingElements
  <1>6. Cardinality(K) \in Nat /\ Cardinality(K) <= n
    <2>1. K \in SUBSET (1 .. n)
      BY <1>1, <1>5
    <2>2. IsFiniteSet(1 .. n) /\ Cardinality(1 .. n) = n
      BY Interval
    <2>3. IsFiniteSet(K) /\ Cardinality(K) <= n
      BY <2>1, <2>2, FS_Subset
    <2> QED BY <2>3, FS_CardinalityType
  <1>7. Len(r) = Cardinality(K)
    <2>1. PICK c \in Nat : c = Cardinality(K)
      BY <1>6
    <2>2. Len(r) \in Nat /\ 1 .. Len(r) = 1 .. c
      BY <1>5, <2>1
    <2>3. Len(r) = c
      BY <2>2
    <2> QED BY <2>1, <2>3
  <1> QED BY <1>1, <1>4, <1>6, <1>7

\* A sequence without a repetition has as many items as it is long.
LEMMA GoesLength ==
  ASSUME NEW X, NEW s \in Seq(X), NEW R, Goes(s, R), \A x : <<x, x>> \notin R
  PROVE  /\ IsFiniteSet(ToSet(s)) /\ Cardinality(ToSet(s)) = Len(s)
         /\ \A k, l \in DOMAIN s : k # l => s[k] # s[l]
  <1>0. PICK n \in Nat : n = Len(s)
    OBVIOUS
  <1>1. PICK D : n = Len(s) /\ D = 1 .. n
    BY <1>0
  <1>2. DOMAIN s = D /\ \A k \in D : s[k] \in ToSet(s)
    BY <1>1 DEF ToSet
  <1>3. PICK Y : Y = ToSet(s)
    OBVIOUS
  <1>4. s \in [D -> Y]
    <2>1. s \in [D -> X]
      BY <1>1
    <2> QED BY <1>2, <1>3, <2>1
  <1>5. ASSUME NEW k \in D, NEW l \in D, k # l PROVE s[k] # s[l]
    <2>1. k < l \/ l < k
      BY <1>1, <1>5
    <2>2. CASE k < l
      <3>1. <<s[k], s[l]>> \in R
        BY <1>2, <2>2, Zenon DEF Goes
      <3> QED BY <3>1
    <2>3. CASE l < k
      <3>1. <<s[l], s[k]>> \in R
        BY <1>2, <2>3, Zenon DEF Goes
      <3> QED BY <3>1
    <2> QED BY <2>1, <2>2, <2>3
  <1>6. \A z \in Y : \E x \in D : s[x] = z
    BY <1>1, <1>3, SequenceItems
  <1>7. IsFiniteSet(D) /\ Cardinality(D) = n
    BY <1>1, Interval
  <1>8. Cardinality(D) = Cardinality(Y)
    BY <1>4, <1>5, <1>6, <1>7, SameSize
  <1>9. IsFiniteSet(Y)
    <2>1. s \in Surjection(D, Y)
      BY <1>4, <1>6 DEF Surjection
    <2> QED BY <1>7, <2>1, FS_Surjection
  <1> QED BY <1>1, <1>2, <1>3, <1>5, <1>7, <1>8, <1>9

\* 1 .. n in increasing order is the identity.
LEMMA RisingIsIdentity ==
  ASSUME NEW n \in Nat, NEW r \in [1 .. n -> 1 .. n],
         \A x \in 1 .. n : \E k \in 1 .. n : r[k] = x,
         \A k, l \in 1 .. n : k < l => r[k] < r[l]
  PROVE  \A k \in 1 .. n : r[k] = k
  <1>1. PICK T : T = {k \in 0 .. n : \A j \in 1 .. k : r[j] = j}
    OBVIOUS
  <1>2. 0 \in T
    BY <1>1
  <1>3. ASSUME NEW k \in 0 .. n, k # n, k \in T PROVE k + 1 \in T
    <2>1. PICK a : a = k + 1
      OBVIOUS
    <2>2. a \in 1 .. n /\ a \in 0 .. n /\ \A j \in 1 .. a : j \in 1 .. k \/ j = a
      BY <1>3, <2>1
    <2>3. PICK m \in 1 .. n : r[m] = a
      BY <2>2
    <2>4. ~(m < a)
      <3> SUFFICES ASSUME m < a PROVE FALSE
        OBVIOUS
      <3>1. m \in 1 .. k
        BY <2>1
      <3>2. r[m] = m
        BY <1>1, <1>3, <3>1
      <3> QED BY <2>1, <2>3, <3>2
    <2>5. ~(a < m)
      <3> SUFFICES ASSUME a < m PROVE FALSE
        OBVIOUS
      <3>1. r[a] < a /\ r[a] \in 1 .. n
        BY <2>2, <2>3
      <3>2. r[a] \in 1 .. k /\ r[a] \in 1 .. n
        BY <2>1, <3>1
      <3>3. PICK b \in 1 .. k : b = r[a] /\ b \in 1 .. n
        BY <3>2
      <3>4. r[b] = b /\ b < a
        BY <1>1, <1>3, <3>1, <3>3
      <3>5. r[b] < r[a]
        BY <2>2, <3>3, <3>4
      <3>6. r[b] = r[a]
        BY <3>3, <3>4, Zenon
      <3>7. PICK x \in Int : x = r[a]
        BY <2>2
      <3>8. r[b] = x
        BY <3>6, <3>7, Zenon
      <3>9. x < x
        BY <3>5, <3>7, <3>8, Zenon
      <3> QED BY <3>9
    <2>6. r[a] = a
      BY <2>2, <2>3, <2>4, <2>5
    <2>7. \A j \in 1 .. a : r[j] = j
      BY <1>1, <1>3, <2>2, <2>6
    <2> QED BY <1>1, <2>1, <2>2, <2>7
  <1>4. \A k \in 0 .. n : k \in T
    BY <1>2, <1>3, Induction
  <1>5. n \in T
    <2>1. n \in 0 .. n
      OBVIOUS
    <2> QED BY <1>4, <2>1
  <1> QED BY <1>1, <1>5

----------------------------------------------------------------------------
(* The order of the ubatches *)

\* Order and Before, as functions of the ubatches.
OrderOf(us)     == FlattenSeq([k \in DOMAIN us |-> Flat(us[k])])
BeforeOf(us, c) == FlattenSeq([k \in 1 .. c |-> Flat(us[k])])

\* Before the first ubatch.
LEMMA OrderNone ==
  ASSUME NEW us
  PROVE  OrderOf(<<>>) = <<>> /\ BeforeOf(us, 0) = <<>>
  <1>1. [k \in DOMAIN <<>> |-> Flat(<<>>[k])] = <<>>
    OBVIOUS
  <1>2. [k \in 1 .. 0 |-> Flat(us[k])] = <<>>
    OBVIOUS
  <1> QED BY <1>1, <1>2, FlattenNone, Zenon DEF OrderOf, BeforeOf

\* One ubatch more has been computed.
LEMMA BeforeNext ==
  ASSUME NEW X, NEW us \in Seq(Seq(Seq(X))), NEW c \in Nat, c < Len(us),
         NEW d, d = c + 1
  PROVE  /\ BeforeOf(us, c) \in Seq(X) /\ Flat(us[d]) \in Seq(X)
         /\ BeforeOf(us, d) = BeforeOf(us, c) \o Flat(us[d])
  <1>1. d \in Nat /\ d = c + 1
    OBVIOUS
  <1>2. d \in 1 .. Len(us) /\ \A k \in 1 .. c : k \in 1 .. Len(us)
    BY <1>1
  <1>3. ASSUME NEW k \in 1 .. Len(us) PROVE Flat(us[k]) \in Seq(X)
    <2>1. us[k] \in Seq(Seq(X))
      OBVIOUS
    <2> QED BY <2>1, FlattenItems DEF Flat
  <1>4. PICK fs, gs, g : /\ fs = [k \in 1 .. c |-> Flat(us[k])] /\ gs = [k \in 1 .. d |-> Flat(us[k])]
                         /\ g = Flat(us[d])
    OBVIOUS
  <1>5. fs \in Seq(Seq(X)) /\ Len(fs) = c /\ \A k \in 1 .. c : fs[k] = Flat(us[k])
    BY <1>2, <1>3, <1>4
  <1>6. g \in Seq(X) /\ gs \in Seq(Seq(X)) /\ Len(gs) = d /\ \A k \in 1 .. d : gs[k] = Flat(us[k])
    <2>1. \A k \in 1 .. d : k \in 1 .. c \/ k = d
      BY <1>1
    <2>2. \A k \in 1 .. d : Flat(us[k]) \in Seq(X)
      BY <1>2, <1>3, <2>1
    <2> QED BY <1>2, <1>3, <1>4, <2>2
  <1>7. gs = Append(fs, g)
    <2>1. PICK a : a = Append(fs, g)
      OBVIOUS
    <2>2. a \in Seq(Seq(X)) /\ Len(a) = c + 1 /\ a[c + 1] = g /\ \A k \in 1 .. c : a[k] = fs[k]
      BY <1>5, <1>6, <2>1, AppendProperties
    <2>3. \A k \in 1 .. d : (k \in 1 .. c \/ k = d) /\ d \in 1 .. d
      BY <1>1
    <2>4. \A k \in 1 .. d : a[k] = gs[k]
      BY <1>1, <1>4, <1>5, <1>6, <2>2, <2>3
    <2>5. Len(a) = Len(gs) /\ \A k \in 1 .. Len(a) : a[k] = gs[k]
      BY <1>1, <1>6, <2>2, <2>4
    <2>6. a \in Seq(Seq(X)) /\ gs \in Seq(Seq(X))
      BY <1>6, <2>2
    <2>7. a = gs
      BY <2>5, <2>6, SeqEqual
    <2> QED BY <2>1, <2>7
  <1>8. FlattenSeq(Append(fs, g)) = FlattenSeq(fs) \o g
    BY <1>5, <1>6, FlattenAppend
  <1>9. FlattenSeq(gs) = FlattenSeq(fs) \o g
    BY <1>7, <1>8, Zenon
  <1>10. BeforeOf(us, d) = FlattenSeq(gs) /\ BeforeOf(us, c) = FlattenSeq(fs)
    BY <1>4, Zenon DEF BeforeOf
  <1>11. FlattenSeq(fs) \in Seq(X)
    BY <1>5, FlattenItems
  <1> QED BY <1>1, <1>4, <1>6, <1>9, <1>10, <1>11, Zenon

\* All ubatches have been computed.
LEMMA BeforeAll ==
  ASSUME NEW X, NEW us \in Seq(X)
  PROVE  BeforeOf(us, Len(us)) = OrderOf(us)
  <1>1. DOMAIN us = 1 .. Len(us)
    OBVIOUS
  <1> QED BY <1>1, Zenon DEF BeforeOf, OrderOf

\* One ubatch more has been split.
LEMMA OrderAppend ==
  ASSUME NEW X, NEW us \in Seq(Seq(Seq(X))), NEW u \in Seq(Seq(X))
  PROVE  OrderOf(Append(us, u)) = OrderOf(us) \o Flat(u)
  <1>1. PICK n \in Nat : n = Len(us) /\ DOMAIN us = 1 .. n
    OBVIOUS
  <1>2. PICK a : a = Append(us, u)
    OBVIOUS
  <1>3. PICK d : d = n + 1
    OBVIOUS
  <1>4. a \in Seq(Seq(Seq(X))) /\ Len(a) = d /\ a[d] = u /\ \A k \in 1 .. n : a[k] = us[k]
    BY <1>1, <1>2, <1>3, AppendProperties
  <1>5. BeforeOf(a, d) = BeforeOf(a, n) \o Flat(a[d])
    <2>1. n < Len(a)
      BY <1>3, <1>4
    <2> QED BY <1>3, <1>4, <2>1, BeforeNext, Zenon
  <1>6. BeforeOf(a, d) = OrderOf(a)
    BY <1>4, BeforeAll
  <1>7. BeforeOf(a, n) = OrderOf(us)
    <2>1. PICK D : D = 1 .. n
      OBVIOUS
    <2>2. [k \in D |-> Flat(a[k])] = [k \in D |-> Flat(us[k])]
      BY <1>4, <2>1
    <2> QED BY <1>1, <2>1, <2>2, Zenon DEF BeforeOf, OrderOf
  <1> QED BY <1>2, <1>3, <1>4, <1>5, <1>6, <1>7, Zenon

\* What has been computed is the beginning of the order.
LEMMA BeforeBegins ==
  ASSUME NEW X, NEW us \in Seq(Seq(Seq(X))), NEW c \in 0 .. Len(us)
  PROVE  /\ BeforeOf(us, c) \in Seq(X) /\ OrderOf(us) \in Seq(X)
         /\ Len(BeforeOf(us, c)) <= Len(OrderOf(us))
         /\ \A x \in ToSet(BeforeOf(us, c)) : x \in ToSet(OrderOf(us))
  <1>1. PICK n \in Nat : n = Len(us)
    OBVIOUS
  <1>2. PICK m \in Nat : m = n - c
    <2>1. c \in Nat /\ c <= n
      BY <1>1
    <2> QED BY <2>1
  <1>3. PICK b : b = BeforeOf(us, c)
    OBVIOUS
  <1>4. PICK f : f = [d \in 0 .. m |-> BeforeOf(us, c + d)]
    OBVIOUS
  <1>5. b \in Seq(X)
    <2>1. CASE c = n
      <3>1. PICK fs : fs = [k \in DOMAIN us |-> Flat(us[k])]
        OBVIOUS
      <3>2. \A k \in DOMAIN us : Flat(us[k]) \in Seq(X)
        <4>1. ASSUME NEW k \in DOMAIN us PROVE Flat(us[k]) \in Seq(X)
          <5>1. us[k] \in Seq(Seq(X))
            OBVIOUS
          <5> QED BY <5>1, FlattenItems DEF Flat
        <4> QED BY <4>1
      <3>3. fs \in Seq(Seq(X))
        <4>1. DOMAIN us = 1 .. n
          BY <1>1
        <4>2. fs \in [1 .. n -> Seq(X)]
          BY <3>1, <3>2, <4>1
        <4> QED BY <4>2
      <3>4. FlattenSeq(fs) \in Seq(X)
        BY <3>3, FlattenItems
      <3>5. b = OrderOf(us)
        BY <1>1, <1>3, <2>1, BeforeAll
      <3> QED BY <3>1, <3>4, <3>5 DEF OrderOf
    <2>2. CASE c # n
      <3>1. c \in Nat /\ c < Len(us)
        BY <1>1, <2>2
      <3>2. PICK d : d = c + 1
        OBVIOUS
      <3>3. BeforeOf(us, c) \in Seq(X)
        BY <3>1, <3>2, BeforeNext, Zenon
      <3> QED BY <1>3, <3>3
    <2> QED BY <2>1, <2>2
  <1>6. PICK T : T = {d \in 0 .. m : /\ f[d] \in Seq(X) /\ Len(b) <= Len(f[d])
                                     /\ \A x \in ToSet(b) : x \in ToSet(f[d])}
    OBVIOUS
  <1>7. 0 \in T
    <2>1. f[0] = b /\ 0 \in 0 .. m
      BY <1>3, <1>4
    <2> QED BY <1>5, <1>6, <2>1
  <1>8. ASSUME NEW d \in 0 .. m, d # m, d \in T PROVE d + 1 \in T
    <2>1. PICK e \in Nat : e = c + d
      OBVIOUS
    <2>2. e < Len(us) /\ d + 1 \in 0 .. m /\ c + (d + 1) = e + 1
      <3>1. c \in Nat /\ d \in Nat /\ d < m
        BY <1>1, <1>8
      <3> QED BY <1>1, <1>2, <2>1, <3>1
    <2>3. PICK g, h, t, e1 : g = f[d] /\ h = f[d + 1] /\ e1 = e + 1 /\ t = Flat(us[e1])
      OBVIOUS
    <2>4. g = BeforeOf(us, e) /\ h = BeforeOf(us, e1)
      BY <1>4, <2>1, <2>2, <2>3
    <2>5. t \in Seq(X) /\ h = g \o t /\ g \in Seq(X)
      <3>1. /\ BeforeOf(us, e) \in Seq(X) /\ Flat(us[e1]) \in Seq(X)
            /\ BeforeOf(us, e1) = BeforeOf(us, e) \o Flat(us[e1])
        BY <2>2, <2>3, BeforeNext, Zenon
      <3> QED BY <2>3, <2>4, <3>1, Zenon
    <2>6. Len(b) <= Len(g) /\ \A x \in ToSet(b) : x \in ToSet(g)
      BY <1>6, <1>8, <2>3
    <2>7. h \in Seq(X) /\ Len(h) = Len(g) + Len(t) /\ ToSet(h) = ToSet(g) \cup ToSet(t)
      BY <2>5, ConcatProperties, ConcatItems
    <2>8. Len(b) <= Len(h)
      <3>1. Len(b) \in Nat /\ Len(g) \in Nat /\ Len(t) \in Nat
        BY <1>5, <2>5
      <3> QED BY <2>6, <2>7, <3>1
    <2> QED BY <1>6, <2>2, <2>3, <2>6, <2>7, <2>8
  <1>9. \A d \in 0 .. m : d \in T
    BY <1>7, <1>8, Induction
  <1>10. f[m] = OrderOf(us)
    <2>1. m \in 0 .. m /\ c + m = n
      BY <1>1, <1>2
    <2>2. f[m] = BeforeOf(us, n)
      BY <1>4, <2>1
    <2> QED BY <1>1, <2>2, BeforeAll
  <1>11. m \in T
    <2>1. m \in 0 .. m
      OBVIOUS
    <2> QED BY <1>9, <2>1
  <1> QED BY <1>3, <1>5, <1>6, <1>10, <1>11

\* The order as a function of the ubatches.
LEMMA OrderIs ==
  Order = OrderOf(ubatches) /\ Before = BeforeOf(ubatches, computed)
  BY Zenon DEF Order, Before, OrderOf, BeforeOf

\* Rows written behind n others.
LEMMA Written ==
  ASSUME NEW X \in SUBSET (0 .. NBatch), NEW s \in Seq(X), NEW t \in Seq(X), NEW buf \in Buffer, NEW n,
         n = Len(s), Holds(buf, s), Len(s \o t) <= NBatch
  PROVE  Write(buf, t, n) \in Buffer /\ Holds(Write(buf, t, n), s \o t)
  <1>0. PICK m \in Nat : m = Len(t) /\ n \in Nat
    OBVIOUS
  <1>1. PICK D : m = Len(t) /\ n \in Nat /\ D = 1 .. NBatch
    BY <1>0
  <1>2. NBatch \in Nat
    BY BatchAssumption DEF BatchAssumption
  <1>3. PICK a, w : a = s \o t /\ w = Write(buf, t, n)
    OBVIOUS
  <1>4. /\ a \in Seq(X) /\ Len(a) = n + m
        /\ \A k \in 1 .. n + m : a[k] = IF k <= n THEN s[k] ELSE t[k - n]
    BY <1>1, <1>3, ConcatProperties
  <1>5. DOMAIN t = 1 .. m /\ DOMAIN s = 1 .. n /\ DOMAIN a = 1 .. n + m /\ n + m <= NBatch
    BY <1>1, <1>3, <1>4
  <1>6. w = [k \in D |-> IF k - n \in DOMAIN t THEN t[k - n] ELSE buf[k]]
    BY <1>1, <1>3 DEF Write
  <1>7. ASSUME NEW k \in D PROVE w[k] \in 0 .. NBatch
    <2>1. buf[k] \in 0 .. NBatch
      BY <1>1 DEF Buffer
    <2>2. k - n \in DOMAIN t => t[k - n] \in X
      BY <1>1, <1>5
    <2> QED BY <1>6, <2>1, <2>2
  <1>8. w \in Buffer
    BY <1>1, <1>6, <1>7 DEF Buffer
  <1>9. ASSUME NEW k \in 1 .. n + m PROVE w[k] = a[k]
    <2>1. k \in D
      BY <1>1, <1>2, <1>5
    <2>2. CASE k <= n
      <3>1. k - n \notin 1 .. m /\ k \in 1 .. n
        BY <1>1, <2>2
      <3>2. w[k] = buf[k]
        BY <1>5, <1>6, <2>1, <3>1
      <3> QED BY <1>4, <1>5, <2>2, <3>1, <3>2 DEF Holds
    <2>3. CASE ~(k <= n)
      <3>1. k - n \in 1 .. m
        BY <1>1, <2>3
      <3> QED BY <1>4, <1>5, <1>6, <2>1, <2>3, <3>1
    <2> QED BY <2>2, <2>3
  <1>10. Holds(w, a)
    BY <1>5, <1>9 DEF Holds
  <1> QED BY <1>3, <1>8, <1>10

----------------------------------------------------------------------------
(* The steps before anything is computed *)

\* Whatever the split, the next ubatch is good.
LEMMA NextGood ==
  ASSUME TypeOK, Closed(Used), NextUbatch # <<>>
  PROVE  GoodSplit(NextUbatch)
  <1>1. ways \in Ways /\ try \in DOMAIN ways
    BY DEF TypeOK
  <1>2. ways[try] \in {"simple", "seq", "sequential", "equal"}
    BY <1>1, BatchAssumption DEF BatchAssumption
  <1>3. CASE ways[try] = "simple"
    <2>1. NextUbatch = SplitSimple
      BY <1>3 DEF NextUbatch
    <2>2. Unused # <<>>
      BY <2>1 DEF SplitSimple
    <2> QED BY <1>3, <2>1, <2>2, SimpleGood
  <1>4. CASE ways[try] = "seq"
    <2>1. NextUbatch = SplitSeq
      BY <1>4 DEF NextUbatch
    <2>2. Unused # <<>>
      BY <2>1 DEF SplitSeq
    <2> QED BY <1>4, <2>1, <2>2, SeqGood
  <1>5. CASE ways[try] = "sequential"
    <2>1. NextUbatch = SplitEqual(TRUE)
      BY <1>5 DEF NextUbatch
    <2> QED BY <1>5, <2>1, EqualGood
  <1>6. CASE ways[try] = "equal"
    <2>1. NextUbatch = SplitEqual(FALSE)
      BY <1>6 DEF NextUbatch
    <2> QED BY <1>6, <2>1, EqualGood
  <1> QED BY <1>2, <1>3, <1>4, <1>5, <1>6

\* No token is twice in the order of the ubatches.
LEMMA OrderOnce ==
  ASSUME TypeOK, Splits
  PROVE  /\ Order \in Seq(Tokens) /\ Cardinality(Used) = Len(Order) /\ Len(Order) <= NBatch
         /\ \A k, l \in DOMAIN Order : k # l => Order[k] # Order[l]
  <1>1. Order \in Seq(Tokens) /\ Used \subseteq Tokens
    BY UbatchesFlat
  <1>2. Goes(Order, InTheirOrder)
    BY DEF Splits
  <1>3. \A x : <<x, x>> \notin InTheirOrder
    BY DEF InTheirOrder
  <1>4. /\ Cardinality(ToSet(Order)) = Len(Order)
        /\ \A k, l \in DOMAIN Order : k # l => Order[k] # Order[l]
    BY <1>1, <1>2, <1>3, GoesLength
  <1>5. Cardinality(Used) = Len(Order)
    BY <1>4 DEF Used
  <1>6. Cardinality(Used) <= Cardinality(Tokens)
    BY <1>1, TheBatch, FS_Subset
  <1>7. Len(Order) \in Nat
    BY <1>1
  <1> QED BY <1>1, <1>4, <1>5, <1>6, <1>7, TheBatch

\* What depends on the batch alone.
LEMMA SameBatch ==
  ASSUME batch' = batch
  PROVE  /\ Tokens' = Tokens /\ Outputs' = Outputs /\ InTheirOrder' = InTheirOrder
         /\ \A U : Closed(U)' <=> Closed(U)
         /\ \A s : WithOutput(s)' = WithOutput(s)
  <1>1. Tokens' = Tokens /\ Orderly(batch)' = Orderly(batch)
    BY Zenon DEF Tokens
  <1>2. \A i, j : Share(i, j)' <=> Share(i, j)
    BY Zenon DEF Share, SeqSet
  <1>3. Outputs' = Outputs
    BY <1>1 DEF Outputs
  <1>4. InTheirOrder' = InTheirOrder
    BY <1>1, <1>2, Zenon DEF InTheirOrder
  <1>5. \A U : Closed(U)' <=> Closed(U)
    BY <1>1, <1>2, Zenon DEF Closed
  <1>6. \A s : WithOutput(s)' = WithOutput(s)
    BY <1>3, Zenon DEF WithOutput
  <1> QED BY <1>1, <1>3, <1>4, <1>5, <1>6

\* What the shape of an ubatch depends on.
LEMMA SameShape ==
  ASSUME batch' = batch, ways' = ways, try' = try, n_ubatch' = n_ubatch
  PROVE  \A u : Shaped(u)' <=> Shaped(u)
  BY Zenon DEF Shaped, SeqSet

\* Nothing is split, and nothing has an output.
LEMMA InitInv == Init => IInv
  <1> SUFFICES ASSUME Init PROVE IInv
    OBVIOUS
  <1>1. /\ ways \in Ways /\ n_ubatch \in Sizes /\ past = [s \in Seq_id |-> -1]
        /\ batch \in Batches /\ phase = "split" /\ try = 1 /\ ubatches = <<>> /\ computed = 0
        /\ out_ids = <<>> /\ rows = Rows /\ dense = Rows /\ output_ids = Rows /\ swaps = <<>>
    BY DEF Init
  <1>2. TypeOK
    <2>1. batch \in Seq(Token) /\ Len(batch) \in 1 .. NBatch /\ NBatch \in Nat
      BY <1>1, BatchAssumption DEF BatchAssumption
    <2>2. past \in [Seq_id -> Nat \cup {-1}]
      BY <1>1
    <2>3. 1 \in DOMAIN ways
      BY <1>1, BatchAssumption DEF BatchAssumption
    <2>4. Rows \in [1 .. NBatch -> 0 .. NBatch]
      BY <2>1 DEF Rows
    <2>5. /\ ubatches \in Seq(Seq(Seq(Tokens))) /\ Len(ubatches) = 0 /\ out_ids \in Seq(Tokens)
          /\ swaps \in Seq((1 .. NBatch) \X (1 .. NBatch))
      BY <1>1
    <2>6. computed \in 0 .. Len(ubatches)
      BY <1>1, <2>5
    <2> QED BY <1>1, <2>1, <2>2, <2>3, <2>4, <2>5, <2>6 DEF TypeOK
  <1>3. Order = <<>> /\ Used = {}
    <2>1. Order = <<>>
      BY <1>1, OrderIs, OrderNone
    <2> QED BY <2>1 DEF Used, ToSet
  <1>4. Shape
    BY <1>1 DEF Shape, ToSet
  <1>5. Splits
    <2>1. Goes(<<>>, InTheirOrder)
      BY DEF Goes
    <2>2. Closed({})
      BY DEF Closed
    <2>3. WithOutput(<<>>) = <<>>
      BY ThoseNone DEF WithOutput
    <2> QED BY <1>1, <1>3, <2>1, <2>2, <2>3 DEF Splits
  <1>6. Progress
    BY <1>1 DEF Progress
  <1>7. OutputsMatch
    BY <1>1 DEF OutputsMatch
  <1> QED BY <1>2, <1>4, <1>5, <1>6, <1>7 DEF IInv

\* One ubatch more, of tokens that were left, and their outputs.
LEMMA SplitInv == IInv /\ Split => IInv'
  <1> SUFFICES ASSUME IInv, Split PROVE IInv'
    OBVIOUS
  <1>0. TypeOK /\ Shape /\ Splits /\ Progress
    BY DEF IInv
  <1>1. /\ phase = "split" /\ NextUbatch # <<>>
        /\ ubatches' = Append(ubatches, NextUbatch)
        /\ out_ids' = out_ids \o WithOutput(Flat(NextUbatch))
        /\ ways' = ways /\ n_ubatch' = n_ubatch /\ past' = past /\ batch' = batch
        /\ phase' = phase /\ try' = try /\ computed' = computed
        /\ rows' = rows /\ dense' = dense /\ output_ids' = output_ids /\ swaps' = swaps
    BY Zenon DEF Split, Input, Buffers
  <1>2. PICK u, us, f : u = NextUbatch /\ us = ubatches /\ f = Flat(u)
    OBVIOUS
  <1>3. /\ Goes(Order, InTheirOrder) /\ Closed(Used) /\ out_ids = WithOutput(Order)
    BY <1>0 DEF Splits
  <1>4. GoodSplit(u)
    BY <1>0, <1>1, <1>2, <1>3, NextGood
  <1>5. /\ u \in Seq(Seq(Tokens)) /\ f \in Seq(Tokens) /\ (\A i \in ToSet(f) : i \notin Used)
        /\ Goes(f, InTheirOrder) /\ Closed(Used \cup ToSet(f)) /\ Shaped(u)
    BY <1>2, <1>4, Zenon DEF GoodSplit
  <1>6. us \in Seq(Seq(Seq(Tokens))) /\ ubatches' = Append(us, u)
    BY <1>0, <1>1, <1>2 DEF TypeOK
  <1>7. PICK o : o = Order
    OBVIOUS
  <1>8. o \in Seq(Tokens) /\ ToSet(o) = Used /\ Used \subseteq Tokens
    BY <1>0, <1>7, UbatchesFlat DEF Used
  <1>9. Order' = o \o f
    <2>1. OrderOf(Append(us, u)) = OrderOf(us) \o Flat(u)
      BY <1>5, <1>6, OrderAppend
    <2>2. o = OrderOf(us)
      BY <1>2, <1>7, OrderIs
    <2>3. Order' = OrderOf(ubatches')
      BY Zenon DEF Order, OrderOf
    <2> QED BY <1>2, <1>6, <2>1, <2>2, <2>3, Zenon
  <1>10. Used' = Used \cup ToSet(f)
    <2>1. ToSet(o \o f) = ToSet(o) \cup ToSet(f)
      BY <1>5, <1>8, ConcatItems
    <2>2. Used' = ToSet(Order')
      BY DEF Used
    <2> QED BY <1>8, <1>9, <2>1, <2>2, Zenon
  <1>11. Goes(o \o f, InTheirOrder)
    <2>1. ASSUME NEW x \in ToSet(o), NEW y \in ToSet(f) PROVE <<x, y>> \in InTheirOrder
      <3>1. x \in Tokens /\ x \in Used /\ y \in Tokens /\ y \notin Used
        BY <1>5, <1>8, SequenceItems
      <3>2. x # y
        BY <3>1
      <3>3. ASSUME Orderly(batch), Share(x, y) PROVE x < y
        <4>1. x \in Nat /\ y \in Nat
          BY <1>0, <3>1, TheBatch
        <4>2. ~(y < x)
          <5> SUFFICES ASSUME y < x PROVE FALSE
            OBVIOUS
          <5>1. Share(y, x)
            BY <3>3 DEF Share
          <5>2. y \in Used
            BY <1>3, <3>1, <3>3, <5>1, Zenon DEF Closed
          <5> QED BY <3>1, <5>2
        <4> QED BY <3>2, <4>1, <4>2
      <3> QED BY <3>1, <3>2, <3>3 DEF InTheirOrder
    <2>2. \A x \in ToSet(o), y \in ToSet(f) : <<x, y>> \in InTheirOrder
      BY <2>1
    <2>3. Goes(o, InTheirOrder)
      BY <1>3, <1>7
    <2> QED BY <1>5, <1>8, <2>2, <2>3, ConcatGoes
  <1>12. /\ Tokens' = Tokens /\ Outputs' = Outputs /\ InTheirOrder' = InTheirOrder
         /\ \A U : Closed(U)' <=> Closed(U)
         /\ \A s : WithOutput(s)' = WithOutput(s)
    BY <1>1, SameBatch
  <1>13. out_ids' = WithOutput(Order)'
    <2>1. Those(o \o f, Outputs) = Those(o, Outputs) \o Those(f, Outputs)
      BY <1>5, <1>8, ThoseConcat
    <2>2. out_ids' = Those(o, Outputs) \o Those(f, Outputs)
      BY <1>1, <1>2, <1>3, <1>7, Zenon DEF WithOutput
    <2>3. WithOutput(Order)' = Those(o \o f, Outputs)
      BY <1>9, <1>12, Zenon DEF WithOutput
    <2> QED BY <2>1, <2>2, <2>3, Zenon
  <1>14. Splits'
    <2>1. Goes(Order', InTheirOrder')
      BY <1>9, <1>11, <1>12, Zenon
    <2>2. Closed(Used)'
      <3>1. PICK U : U = Used \cup ToSet(f)
        OBVIOUS
      <3>2. Closed(U)'
        BY <1>5, <1>12, <3>1, Zenon
      <3> QED BY <1>10, <3>1, <3>2, Zenon DEF Closed
    <2>3. phase' \notin {"compute", "done"}
      BY <1>1
    <2> QED BY <1>13, <2>1, <2>2, <2>3, Zenon DEF Splits
  <1>15. TypeOK'
    <2>1. /\ ways \in Ways /\ n_ubatch \in Sizes /\ past \in [Seq_id -> Nat \cup {-1}]
          /\ batch \in Seq(Token) /\ Len(batch) \in 1 .. NBatch
          /\ phase \in {"split", "compute", "done", "failed"} /\ try \in DOMAIN ways
          /\ {rows, dense, output_ids} \subseteq [1 .. NBatch -> 0 .. NBatch]
          /\ swaps \in Seq((1 .. NBatch) \X (1 .. NBatch))
          /\ computed \in 0 .. Len(us)
      BY <1>0, <1>2, Zenon DEF TypeOK
    <2>2. ubatches' \in Seq(Seq(Seq(Tokens))) /\ Len(ubatches') = Len(us) + 1
      BY <1>5, <1>6, AppendProperties
    <2>3. computed \in 0 .. Len(ubatches')
      <3>1. Len(us) \in Nat
        BY <1>6
      <3> QED BY <2>1, <2>2, <3>1
    <2>4. out_ids' \in Seq(Tokens)
      <3>1. o \o f \in Seq(Tokens)
        BY <1>5, <1>8, ConcatProperties
      <3>2. Those(o \o f, Outputs) \in Seq(Tokens)
        BY <3>1, ThoseItems
      <3> QED BY <1>9, <1>12, <1>13, <3>2, Zenon DEF WithOutput
    <2> QED BY <1>1, <1>12, <2>1, <2>2, <2>3, <2>4, Zenon DEF TypeOK
  <1>16. Shape'
    <2>1. ToSet(ubatches') = ToSet(us) \cup {u}
      BY <1>5, <1>6, AppendItems
    <2>2. \A v \in ToSet(us) : Shaped(v)
      BY <1>0, <1>2 DEF Shape
    <2>3. \A v : Shaped(v)' <=> Shaped(v)
      BY <1>1, SameShape
    <2> QED BY <1>5, <2>1, <2>2, <2>3, Zenon DEF Shape
  <1>17. Progress'
    <2>1. computed = 0 /\ swaps = <<>>
      BY <1>0, <1>1 DEF Progress
    <2> QED BY <1>1, <2>1 DEF Progress
  <1>18. OutputsMatch'
    BY <1>1 DEF OutputsMatch
  <1> QED BY <1>14, <1>15, <1>16, <1>17, <1>18 DEF IInv

\* The buffers for the outputs of a batch that is split.
LEMMA PreparedInv == IInv /\ Prepared => IInv'
  <1> SUFFICES ASSUME IInv, Prepared PROVE IInv'
    OBVIOUS
  <1>0. TypeOK /\ Shape /\ Splits /\ Progress
    BY DEF IInv
  <1>1. /\ phase = "split" /\ Used = Tokens /\ phase' = "compute"
        /\ rows' = Rows /\ dense' = Rows /\ output_ids' = Rows
        /\ ways' = ways /\ n_ubatch' = n_ubatch /\ past' = past /\ batch' = batch
        /\ try' = try /\ ubatches' = ubatches /\ computed' = computed /\ out_ids' = out_ids
        /\ swaps' = swaps
    BY Zenon DEF Prepared, Input
  <1>2. /\ Tokens' = Tokens /\ InTheirOrder' = InTheirOrder
        /\ (\A U : Closed(U)' <=> Closed(U)) /\ \A s : WithOutput(s)' = WithOutput(s)
    BY <1>1, SameBatch
  <1>3. Order' = Order /\ Used' = Used /\ Before' = Before
    BY <1>1, Zenon DEF Order, Used, Before
  <1>4. computed = 0 /\ swaps = <<>>
    BY <1>0, <1>1 DEF Progress
  <1>5. Splits'
    <2>1. Goes(Order, InTheirOrder) /\ Closed(Used) /\ out_ids = WithOutput(Order)
      BY <1>0 DEF Splits
    <2> QED BY <1>1, <1>2, <1>3, <2>1, Zenon DEF Splits
  <1>6. TypeOK'
    <2>1. /\ ways \in Ways /\ n_ubatch \in Sizes /\ past \in [Seq_id -> Nat \cup {-1}]
          /\ batch \in Seq(Token) /\ Len(batch) \in 1 .. NBatch /\ try \in DOMAIN ways
          /\ ubatches \in Seq(Seq(Seq(Tokens))) /\ computed \in 0 .. Len(ubatches)
          /\ out_ids \in Seq(Tokens) /\ swaps \in Seq((1 .. NBatch) \X (1 .. NBatch))
      BY <1>0, Zenon DEF TypeOK
    <2>2. Rows \in [1 .. NBatch -> 0 .. NBatch]
      <3>1. NBatch \in Nat
        BY BatchAssumption DEF BatchAssumption
      <3> QED BY <3>1 DEF Rows
    <2>3. {Rows} \subseteq [1 .. NBatch -> 0 .. NBatch] /\ "compute" \in {"split", "compute", "done", "failed"}
      BY <2>2
    <2>4. {rows', dense', output_ids'} \subseteq [1 .. NBatch -> 0 .. NBatch]
      BY <1>1, <2>2
    <2> QED BY <1>1, <1>2, <2>1, <2>3, <2>4, Zenon DEF TypeOK
  <1>7. Shape'
    BY <1>0, <1>1, SameShape, Zenon DEF Shape
  <1>8. Progress'
    <2>1. Before = <<>>
      BY <1>4, OrderIs, OrderNone
    <2>2. WithOutput(<<>>) = <<>> /\ DOMAIN <<>> = {}
      BY ThoseNone DEF WithOutput
    <2>3. computed < Len(ubatches)
      <3>1. ubatches # <<>>
        <4> SUFFICES ASSUME ubatches = <<>> PROVE FALSE
          OBVIOUS
        <4>1. Order = <<>>
          BY OrderIs, OrderNone
        <4>2. Used = {}
          BY <4>1 DEF Used, ToSet
        <4> QED BY <1>0, <1>1, <4>2, TheBatch
      <3>2. ubatches \in Seq(Seq(Seq(Tokens)))
        BY <1>0 DEF TypeOK
      <3> QED BY <1>4, <3>1, <3>2, EmptySeq
    <2>4. WithOutput(Before)' = <<>> /\ Before' = <<>>
      BY <1>2, <1>3, <2>1, <2>2, Zenon DEF WithOutput
    <2> QED BY <1>1, <1>4, <2>2, <2>3, <2>4, Zenon DEF Progress
  <1>9. OutputsMatch'
    BY <1>1 DEF OutputsMatch
  <1> QED BY <1>5, <1>6, <1>7, <1>8, <1>9 DEF IInv

\* The next way to split, from the start.
LEMMA NoRoomInv == IInv /\ NoRoom => IInv'
  <1> SUFFICES ASSUME IInv, NoRoom PROVE IInv'
    OBVIOUS
  <1>0. TypeOK /\ Progress
    BY DEF IInv
  <1>1. /\ phase = "split" /\ phase' \in {"split", "failed"} /\ try' \in {try, try + 1}
        /\ (try' = try + 1 => try < Len(ways))
        /\ ubatches' = <<>> /\ out_ids' = <<>>
        /\ ways' = ways /\ n_ubatch' = n_ubatch /\ past' = past /\ batch' = batch
        /\ computed' = computed
        /\ rows' = rows /\ dense' = dense /\ output_ids' = output_ids /\ swaps' = swaps
    <2>1. try # try + 1
      <3>1. try \in DOMAIN ways /\ ways \in Ways
        BY <1>0 DEF TypeOK
      <3>2. try \in Int
        BY <3>1, BatchAssumption DEF BatchAssumption
      <3> QED BY <3>2
    <2> QED BY <2>1 DEF NoRoom, Input, Buffers
  <1>2. computed = 0 /\ swaps = <<>>
    BY <1>0, <1>1 DEF Progress
  <1>3. Tokens' = Tokens /\ \A s : WithOutput(s)' = WithOutput(s)
    BY <1>1, SameBatch
  <1>4. Order' = <<>> /\ Used' = {}
    <2>1. Order' = OrderOf(ubatches')
      BY Zenon DEF Order, OrderOf
    <2>2. Order' = <<>>
      BY <1>1, <2>1, OrderNone
    <2> QED BY <2>2 DEF Used, ToSet
  <1>5. Splits'
    <2>1. Goes(<<>>, InTheirOrder')
      BY DEF Goes
    <2>2. Closed({})'
      BY DEF Closed
    <2>3. WithOutput(<<>>) = <<>>
      BY ThoseNone DEF WithOutput
    <2>4. WithOutput(Order)' = <<>>
      BY <1>3, <1>4, <2>3, Zenon DEF WithOutput
    <2>5. phase' \notin {"compute", "done"}
      BY <1>1
    <2> QED BY <1>1, <1>4, <2>1, <2>2, <2>4, <2>5, Zenon DEF Splits
  <1>6. TypeOK'
    <2>1. /\ ways \in Ways /\ n_ubatch \in Sizes /\ past \in [Seq_id -> Nat \cup {-1}]
          /\ batch \in Seq(Token) /\ Len(batch) \in 1 .. NBatch /\ try \in DOMAIN ways
          /\ {rows, dense, output_ids} \subseteq [1 .. NBatch -> 0 .. NBatch]
          /\ swaps \in Seq((1 .. NBatch) \X (1 .. NBatch))
      BY <1>0, Zenon DEF TypeOK
    <2>2. try' \in DOMAIN ways'
      <3>1. ways \in {<<"simple">>, <<"seq">>, <<"sequential">>, <<"equal">>, <<"simple", "equal">>}
        BY <2>1, BatchAssumption DEF BatchAssumption
      <3> QED BY <1>1, <2>1, <3>1
    <2>3. <<>> \in Seq(Seq(Seq(Tokens'))) /\ <<>> \in Seq(Tokens') /\ computed' \in 0 .. Len(<<>>)
      BY <1>1, <1>2
    <2>4. phase' \in {"split", "compute", "done", "failed"}
      BY <1>1
    <2> QED BY <1>1, <2>1, <2>2, <2>3, <2>4, Zenon DEF TypeOK
  <1>7. Shape'
    BY <1>1 DEF Shape, ToSet
  <1>8. Progress'
    BY <1>1, <1>2 DEF Progress
  <1>9. OutputsMatch'
    BY <1>1 DEF OutputsMatch
  <1> QED BY <1>5, <1>6, <1>7, <1>8, <1>9 DEF IInv

----------------------------------------------------------------------------
(* The end of a batch *)

\* Max() of finitely many numbers is one of them.
LEMMA GreatestOf ==
  ASSUME NEW n \in Nat, NEW J \in SUBSET (1 .. n), NEW g \in [1 .. n -> Int], NEW p \in Int
  PROVE  Max({p} \cup {g[i] : i \in J}) \in {p} \cup {g[i] : i \in J}
  <1>1. PICK S : S = [m \in 0 .. n |-> {p} \cup {g[i] : i \in J \cap (1 .. m)}]
    OBVIOUS
  <1>2. PICK T : T = {m \in 0 .. n : \E x \in S[m] : \A y \in S[m] : x >= y}
    OBVIOUS
  <1>3. 0 \in T
    <2>1. S[0] = {p}
      BY <1>1
    <2> QED BY <1>2, <2>1
  <1>4. ASSUME NEW m \in 0 .. n, m # n, m \in T PROVE m + 1 \in T
    <2>1. PICK a : a = m + 1
      OBVIOUS
    <2>2. a \in 0 .. n /\ a \in 1 .. n /\ \A i \in 1 .. n : i \in 1 .. a <=> i \in 1 .. m \/ i = a
      BY <1>4, <2>1
    <2>3. PICK x \in S[m] : \A y \in S[m] : x >= y
      BY <1>2, <1>4
    <2>4. x \in Int /\ \A y \in S[m] : y \in Int
      BY <1>1, <2>3
    <2>5. CASE a \in J
      <3>1. S[a] = S[m] \cup {g[a]} /\ g[a] \in Int
        BY <1>1, <2>2, <2>5
      <3>2. PICK z \in Int : z = g[a]
        BY <3>1
      <3>3. CASE x >= z
        BY <1>2, <2>1, <2>2, <2>3, <3>1, <3>2, <3>3
      <3>4. CASE ~(x >= z)
        <4>1. \A y \in S[m] : z >= y
          BY <2>3, <2>4, <3>4
        <4>2. z \in S[a] /\ \A y \in S[a] : z >= y
          BY <3>1, <3>2, <4>1
        <4> QED BY <1>2, <2>1, <2>2, <4>2
      <3> QED BY <3>3, <3>4
    <2>6. CASE a \notin J
      <3>1. S[a] = S[m]
        BY <1>1, <2>2, <2>6
      <3> QED BY <1>2, <2>1, <2>2, <2>3, <3>1
    <2> QED BY <2>5, <2>6
  <1>5. \A m \in 0 .. n : m \in T
    BY <1>3, <1>4, Induction
  <1>6. S[n] = {p} \cup {g[i] : i \in J}
    <2>1. n \in 0 .. n
      OBVIOUS
    <2>2. PICK D : D = 1 .. n
      OBVIOUS
    <2>3. J \cap D = J
      BY <2>2
    <2> QED BY <1>1, <2>1, <2>2, <2>3
  <1>7. \E x \in {p} \cup {g[i] : i \in J} : \A y \in {p} \cup {g[i] : i \in J} : x >= y
    <2>1. n \in 0 .. n
      OBVIOUS
    <2> QED BY <1>2, <1>5, <1>6, <2>1
  <1> QED BY <1>7 DEF Max

\* The positions that a memory notes stay positions.
LEMMA PastTyped ==
  ASSUME TypeOK, NEW J \in SUBSET Tokens, NEW s \in Seq_id
  PROVE  Max({past[s]} \cup {batch[i].pos : i \in J}) \in Nat \cup {-1}
  <1>1. PICK n \in Nat : n = Len(batch) /\ Tokens = 1 .. n
    BY TheBatch
  <1>2. PICK g : g = [i \in 1 .. n |-> batch[i].pos]
    OBVIOUS
  <1>3. \A i \in 1 .. n : batch[i].pos \in Nat
    BY <1>1, TheBatch
  <1>4. g \in [1 .. n -> Int]
    BY <1>2, <1>3
  <1>5. past[s] \in Nat \cup {-1}
    BY DEF TypeOK
  <1>6. {batch[i].pos : i \in J} = {g[i] : i \in J}
    BY <1>1, <1>2
  <1>7. PICK p : p = past[s]
    OBVIOUS
  <1>8. Max({p} \cup {g[i] : i \in J}) \in {p} \cup {g[i] : i \in J}
    <2>1. J \in SUBSET (1 .. n) /\ p \in Int
      BY <1>1, <1>5, <1>7
    <2> QED BY <1>4, <2>1, GreatestOf, Zenon
  <1>9. {p} \cup {g[i] : i \in J} \subseteq Nat \cup {-1}
    BY <1>1, <1>2, <1>3, <1>5, <1>7
  <1> QED BY <1>6, <1>7, <1>8, <1>9, Zenon

\* After the last ubatch: the map that decode() makes of the outputs, and what
\* the swaps make of the rows that have been written in the order of the ubatches.
LEMMA DoneMatches ==
  ASSUME TypeOK, Splits, Used = Tokens, NEW rs \in Buffer, NEW ds \in Buffer,
         Holds(rs, out_ids), Holds(ds, Order),
         NEW map, map = Mapping(Sorted(out_ids).ids), NEW ws, ws = Sorted(out_ids).swaps
  PROVE  /\ map \in Buffer /\ ws \in Seq(Pairs(NBatch))
         /\ \A i \in Outputs : map[i] # 0 /\ Applied(ws, rs)[map[i]] = i
         /\ \A i, j \in Outputs : i < j => map[i] < map[j]
         /\ Outputs = Tokens => \A i \in Tokens : Applied(ws, ds)[i] = i
  <1>1. PICK ids, o : ids = out_ids /\ o = Order
    OBVIOUS
  <1>2. /\ o \in Seq(Tokens) /\ Len(o) <= NBatch /\ Goes(o, InTheirOrder) /\ ToSet(o) = Tokens
        /\ ids = Those(o, Outputs) /\ Len(o) = Cardinality(Used)
    <2>1. ToSet(o) = Tokens
      BY <1>1 DEF Used
    <2> QED BY <1>1, <2>1, OrderOnce DEF Splits, WithOutput
  <1>3. /\ Tokens \in SUBSET Nat /\ NBatch \in Nat /\ Len(batch) <= NBatch /\ Tokens = 1 .. Len(batch)
        /\ Len(batch) \in Nat /\ Cardinality(Tokens) = Len(batch) /\ Outputs \subseteq Tokens
    BY TheBatch DEF Outputs
  <1>4. /\ ids \in Seq(Tokens) /\ (\A x : x \in ToSet(ids) <=> x \in ToSet(o) /\ x \in Outputs)
        /\ Goes(ids, InTheirOrder)
    BY <1>2, ThoseItems, ThoseGoes
  <1>5. ToSet(ids) = Outputs
    BY <1>2, <1>3, <1>4
  <1>6. PICK n \in Nat : n = Len(ids) /\ n <= NBatch /\ DOMAIN ids = 1 .. n
    <2>1. Len(ids) \in Nat /\ Len(ids) <= Len(o)
      BY <1>2, ThoseLength
    <2>2. Len(o) \in Nat
      BY <1>2
    <2> QED BY <1>2, <1>3, <1>4, <2>1, <2>2
  <1>7. \A k, l \in DOMAIN ids : k # l => ids[k] # ids[l]
    <2>1. \A x : <<x, x>> \notin InTheirOrder
      BY DEF InTheirOrder
    <2> QED BY <1>4, <2>1, GoesLength
  <1>8. SortedTo(Sorted(ids), ids, n)
    BY <1>3, <1>4, <1>6, <1>7, SortedItems
  <1>9. PICK r : r = Sorted(ids).ids
    OBVIOUS
  <1>10. /\ r \in [1 .. n -> Outputs] /\ ws \in Seq(Pairs(n))
         /\ \A x \in Outputs : \E k \in 1 .. n : r[k] = x
         /\ \A k \in 1 .. n, l \in 1 .. n : k < l => r[k] < r[l]
         /\ \A buf \in Buffer : Holds(buf, ids) => Holds(Applied(ws, buf), r)
    BY <1>1, <1>5, <1>6, <1>8, <1>9, Zenon DEF SortedTo
  <1>11. ws \in Seq(Pairs(NBatch))
    <2>1. \A k \in 1 .. n : k \in 1 .. NBatch
      BY <1>3, <1>6
    <2>2. Pairs(n) \subseteq Pairs(NBatch)
      BY <2>1 DEF Pairs
    <2>3. Len(ws) \in Nat /\ ws \in [1 .. Len(ws) -> Pairs(n)]
      BY <1>10
    <2>4. ws \in [1 .. Len(ws) -> Pairs(NBatch)]
      BY <2>2, <2>3
    <2> QED BY <2>3, <2>4
  <1>12. DOMAIN r = 1 .. n /\ \A x : x \in ToSet(r) <=> x \in Outputs
    BY <1>10 DEF ToSet
  <1>13. map = [i \in 1 .. NBatch |-> IF i \in ToSet(r) THEN CHOOSE k \in DOMAIN r : r[k] = i ELSE 0]
    <2>1. map = Mapping(r)
      BY <1>1, <1>9, Zenon
    <2> QED BY <2>1 DEF Mapping
  <1>14. ASSUME NEW i \in Outputs PROVE i \in 1 .. NBatch /\ map[i] \in 1 .. n /\ r[map[i]] = i
    <2>1. i \in 1 .. NBatch
      BY <1>3
    <2>2. map[i] = CHOOSE k \in DOMAIN r : r[k] = i
      BY <1>12, <1>13, <2>1
    <2>3. \E k \in DOMAIN r : r[k] = i
      BY <1>10, <1>12
    <2> QED BY <1>12, <2>1, <2>2, <2>3
  <1>15. map \in Buffer
    <2>1. ASSUME NEW i \in 1 .. NBatch PROVE map[i] \in 0 .. NBatch
      <3>1. CASE i \in Outputs
        <4>1. map[i] \in 1 .. n
          BY <1>14, <3>1
        <4> QED BY <1>3, <1>6, <4>1
      <3>2. CASE i \notin Outputs
        <4>1. map[i] = 0
          BY <1>12, <1>13, <3>2
        <4> QED BY <1>3, <4>1
      <3> QED BY <3>1, <3>2
    <2>2. PICK D, V : D = 1 .. NBatch /\ V = 0 .. NBatch
      OBVIOUS
    <2>3. map = [i \in D |-> map[i]] /\ \A i \in D : map[i] \in V
      BY <1>13, <2>1, <2>2
    <2>4. map \in [D -> V]
      BY <2>3
    <2> QED BY <2>2, <2>4 DEF Buffer
  <1>16. ASSUME NEW i \in Outputs PROVE map[i] # 0 /\ Applied(ws, rs)[map[i]] = i
    <2>1. Holds(Applied(ws, rs), r)
      BY <1>1, <1>10
    <2>2. map[i] \in 1 .. n /\ r[map[i]] = i
      BY <1>14
    <2>3. map[i] # 0
      BY <2>2
    <2> QED BY <1>12, <2>1, <2>2, <2>3, Zenon DEF Holds
  <1>17. ASSUME NEW i \in Outputs, NEW j \in Outputs, i < j PROVE map[i] < map[j]
    <2>1. PICK a \in 1 .. n, b \in 1 .. n : a = map[i] /\ b = map[j] /\ r[a] = i /\ r[b] = j
      BY <1>14
    <2>2. i \in Nat /\ j \in Nat
      BY <1>3
    <2>3. a # b
      BY <1>17, <2>1, <2>2
    <2>4. ~(b < a)
      <3> SUFFICES ASSUME b < a PROVE FALSE
        OBVIOUS
      <3>1. r[b] < r[a]
        BY <1>10
      <3>2. j < i
        BY <2>1, <3>1, Zenon
      <3> QED BY <1>17, <2>2, <3>2
    <2>5. a < b
      BY <2>3, <2>4
    <2> QED BY <2>1, <2>5
  <1>18. ASSUME Outputs = Tokens, NEW i \in Tokens PROVE Applied(ws, ds)[i] = i
    <2>1. ids = o
      <3>1. Those(o, Outputs) = o
        BY <1>2, <1>18, ThoseAll
      <3> QED BY <1>2, <3>1
    <2>2. n = Len(batch) /\ Tokens = 1 .. n
      BY <1>2, <1>3, <1>6, <2>1
    <2>3. \A k \in 1 .. n : r[k] = k
      <3>1. /\ r \in [1 .. n -> 1 .. n] /\ \A x \in 1 .. n : \E k \in 1 .. n : r[k] = x
            /\ \A k, l \in 1 .. n : k < l => r[k] < r[l]
        BY <1>10, <1>18, <2>2
      <3> QED BY <3>1, RisingIsIdentity
    <2>4. Holds(Applied(ws, ds), r)
      BY <1>1, <1>10, <2>1
    <2>5. i \in DOMAIN r /\ r[i] = i
      BY <1>12, <2>2, <2>3
    <2> QED BY <2>4, <2>5, Zenon DEF Holds
  <1> QED BY <1>11, <1>15, <1>16, <1>17, <1>18

\* The rows of the next ubatch come behind those of the others; after the last
\* one the outputs are sorted.
LEMMA ComputeInv == IInv /\ Compute => IInv'
  <1> SUFFICES ASSUME IInv, Compute PROVE IInv'
    OBVIOUS
  <1>0. TypeOK /\ Shape /\ Splits /\ Progress
    BY DEF IInv
  <1>1. PICK us, c, d, b, t : /\ us = ubatches /\ c = computed /\ d = c + 1 /\ b = Before
                              /\ t = Flat(us[d])
    OBVIOUS
  <1>2. /\ phase = "compute"
        /\ rows' = Write(rows, WithOutput(t), Len(WithOutput(b)))
        /\ dense' = Write(dense, t, Len(b))
        /\ computed' = d
        /\ ways' = ways /\ n_ubatch' = n_ubatch /\ batch' = batch /\ try' = try
        /\ ubatches' = ubatches /\ out_ids' = out_ids
    BY <1>1, Zenon DEF Compute
  <1>3. IF d = Len(us)
        THEN /\ phase' = "done" /\ output_ids' = Mapping(Sorted(out_ids).ids)
             /\ swaps' = swaps \o Sorted(out_ids).swaps
             /\ past' = [s \in Seq_id |-> Max({past[s]} \cup PosOf(batch, s))]
        ELSE phase' = phase /\ output_ids' = output_ids /\ swaps' = swaps /\ past' = past
    BY <1>1, <1>2, Zenon DEF Compute
  <1>4. /\ Tokens' = Tokens /\ Outputs' = Outputs /\ InTheirOrder' = InTheirOrder
        /\ (\A U : Closed(U)' <=> Closed(U)) /\ \A s : WithOutput(s)' = WithOutput(s)
    BY <1>2, SameBatch
  <1>5. Order' = Order /\ Used' = Used
    BY <1>2, Zenon DEF Order, Used
  <1>6. /\ us \in Seq(Seq(Seq(Tokens))) /\ Len(us) \in Nat /\ c \in Nat /\ c < Len(us)
        /\ Holds(rows, WithOutput(b)) /\ Holds(dense, b) /\ swaps = <<>>
    <2>1. us \in Seq(Seq(Seq(Tokens))) /\ c \in 0 .. Len(us)
      BY <1>0, <1>1 DEF TypeOK
    <2>2. Len(us) \in Nat /\ c \in Nat
      BY <2>1
    <2>3. c < Len(us) /\ Holds(rows, WithOutput(b)) /\ Holds(dense, b)
      BY <1>0, <1>1, <1>2, Zenon DEF Progress, Holds
    <2>4. swaps = <<>>
      BY <1>0, <1>2 DEF Progress
    <2> QED BY <2>1, <2>2, <2>3, <2>4
  <1>7. d \in 0 .. Len(us) /\ d \in Nat
    BY <1>1, <1>6
  <1>8. PICK e : e = BeforeOf(us, d)
    OBVIOUS
  <1>9. b \in Seq(Tokens) /\ t \in Seq(Tokens) /\ e = b \o t
    <2>1. /\ BeforeOf(us, c) \in Seq(Tokens) /\ Flat(us[d]) \in Seq(Tokens)
          /\ BeforeOf(us, d) = BeforeOf(us, c) \o Flat(us[d])
      BY <1>1, <1>6, BeforeNext, Zenon
    <2>2. b = BeforeOf(us, c)
      BY <1>1, OrderIs
    <2> QED BY <1>1, <1>8, <2>1, <2>2, Zenon
  <1>10. Before' = e
    <2>1. Before' = BeforeOf(ubatches', computed')
      BY Zenon DEF Before, BeforeOf
    <2> QED BY <1>1, <1>2, <1>8, <2>1, Zenon
  <1>11. e \in Seq(Tokens) /\ Len(e) <= NBatch /\ Len(e) \in Nat
    <2>1. e \in Seq(Tokens) /\ Len(e) <= Len(OrderOf(us))
      BY <1>6, <1>7, <1>8, BeforeBegins
    <2>2. Order \in Seq(Tokens) /\ Order = OrderOf(us) /\ Len(Order) <= NBatch
      BY <1>0, <1>1, OrderIs, OrderOnce
    <2>3. PICK m \in Nat : m = Len(Order)
      BY <2>2
    <2>4. Len(e) \in Nat /\ NBatch \in Nat
      BY <1>0, <2>1, TheBatch
    <2> QED BY <2>1, <2>2, <2>3, <2>4
  <1>12. PICK wb, wt, we : wb = WithOutput(b) /\ wt = WithOutput(t) /\ we = WithOutput(e)
    OBVIOUS
  <1>13. wb \in Seq(Tokens) /\ wt \in Seq(Tokens) /\ we = wb \o wt /\ Len(we) <= NBatch
    <2>1. Those(b \o t, Outputs) = Those(b, Outputs) \o Those(t, Outputs)
      BY <1>9, ThoseConcat
    <2>2. we = wb \o wt
      BY <1>9, <1>12, <2>1, Zenon DEF WithOutput
    <2>3. wb \in Seq(Tokens) /\ wt \in Seq(Tokens)
      BY <1>9, <1>12, ThoseItems DEF WithOutput
    <2>4. Len(we) \in Nat /\ Len(we) <= Len(e)
      BY <1>11, <1>12, ThoseLength DEF WithOutput
    <2>5. NBatch \in Nat
      BY <1>0, TheBatch
    <2> QED BY <1>11, <2>2, <2>3, <2>4, <2>5
  <1>14. Tokens \in SUBSET (0 .. NBatch) /\ rows \in Buffer /\ dense \in Buffer /\ output_ids \in Buffer
    BY <1>0, TheBatch DEF TypeOK, Buffer
  <1>15. rows' \in Buffer /\ Holds(rows', we)
    <2>1. PICK n : n = Len(wb)
      OBVIOUS
    <2>2. Holds(rows, wb) /\ Len(wb \o wt) <= NBatch
      BY <1>6, <1>12, <1>13
    <2>3. Write(rows, wt, n) \in Buffer /\ Holds(Write(rows, wt, n), wb \o wt)
      BY <1>13, <1>14, <2>1, <2>2, Written
    <2> QED BY <1>2, <1>12, <1>13, <2>1, <2>3, Zenon
  <1>16. dense' \in Buffer /\ Holds(dense', e)
    <2>1. PICK n : n = Len(b)
      OBVIOUS
    <2>2. Len(b \o t) <= NBatch
      BY <1>9, <1>11
    <2>3. Write(dense, t, n) \in Buffer /\ Holds(Write(dense, t, n), b \o t)
      BY <1>6, <1>9, <1>14, <2>1, <2>2, Written
    <2> QED BY <1>2, <1>9, <2>1, <2>3, Zenon
  <1>17. Used = Tokens
    BY <1>0, <1>2 DEF Splits
  <1>18. Splits'
    <2>1. Goes(Order, InTheirOrder) /\ Closed(Used) /\ out_ids = WithOutput(Order)
      BY <1>0 DEF Splits
    <2> QED BY <1>2, <1>4, <1>5, <1>17, <2>1, Zenon DEF Splits
  <1>19. Shape'
    BY <1>0, <1>2, SameShape, Zenon DEF Shape
  <1>20. /\ ways' \in Ways /\ n_ubatch' \in Sizes
         /\ batch' \in Seq(Token) /\ Len(batch') \in 1 .. NBatch /\ try' \in DOMAIN ways'
         /\ ubatches' \in Seq(Seq(Seq(Tokens'))) /\ out_ids' \in Seq(Tokens')
         /\ computed' \in 0 .. Len(ubatches')
    <2>1. /\ ways \in Ways /\ n_ubatch \in Sizes
          /\ batch \in Seq(Token) /\ Len(batch) \in 1 .. NBatch /\ try \in DOMAIN ways
          /\ ubatches \in Seq(Seq(Seq(Tokens))) /\ out_ids \in Seq(Tokens)
      BY <1>0, Zenon DEF TypeOK
    <2> QED BY <1>1, <1>2, <1>4, <1>7, <2>1, Zenon
  <1>21. CASE d = Len(us)
    <2>1. /\ phase' = "done" /\ output_ids' = Mapping(Sorted(out_ids).ids)
          /\ swaps' = swaps \o Sorted(out_ids).swaps
          /\ past' = [s \in Seq_id |-> Max({past[s]} \cup PosOf(batch, s))]
      BY <1>3, <1>21
    <2>2. PICK o, ws : o = Order /\ ws = Sorted(out_ids).swaps
      OBVIOUS
    <2>3. e = o
      BY <1>1, <1>6, <1>8, <1>21, <2>2, BeforeAll, OrderIs
    <2>4. out_ids = we
      BY <1>0, <1>12, <2>2, <2>3 DEF Splits
    <2>5. Holds(rows', out_ids) /\ Holds(dense', Order)
      BY <1>15, <1>16, <2>2, <2>3, <2>4
    <2>6. /\ output_ids' \in Buffer /\ ws \in Seq(Pairs(NBatch))
          /\ \A i \in Outputs : output_ids'[i] # 0 /\ Applied(ws, rows')[output_ids'[i]] = i
          /\ \A i, j \in Outputs : i < j => output_ids'[i] < output_ids'[j]
          /\ Outputs = Tokens => \A i \in Tokens : Applied(ws, dense')[i] = i
      <3>1. PICK rs \in Buffer, ds \in Buffer : rs = rows' /\ ds = dense'
        BY <1>15, <1>16
      <3>2. PICK m : m = output_ids'
        OBVIOUS
      <3>3. Holds(rs, out_ids) /\ Holds(ds, Order) /\ m = Mapping(Sorted(out_ids).ids)
        BY <2>1, <2>5, <3>1, <3>2, Zenon
      <3>4. /\ m \in Buffer /\ ws \in Seq(Pairs(NBatch))
            /\ \A i \in Outputs : m[i] # 0 /\ Applied(ws, rs)[m[i]] = i
            /\ \A i, j \in Outputs : i < j => m[i] < m[j]
            /\ Outputs = Tokens => \A i \in Tokens : Applied(ws, ds)[i] = i
        BY <1>0, <1>17, <2>2, <3>3, DoneMatches
      <3> QED BY <3>1, <3>2, <3>4, Zenon
    <2>7. swaps' = ws
      <3>1. <<>> \o ws = ws
        BY <2>6, ConcatEmptySeq
      <3> QED BY <1>6, <2>1, <2>2, <3>1, Zenon
    <2>8. past' \in [Seq_id -> Nat \cup {-1}]
      <3>1. ASSUME NEW s \in Seq_id PROVE Max({past[s]} \cup PosOf(batch, s)) \in Nat \cup {-1}
        <4>1. PICK J \in SUBSET Tokens : J = {j \in DOMAIN batch : s \in batch[j].seqs}
          BY DEF Tokens
        <4>2. Max({past[s]} \cup {batch[i].pos : i \in J}) \in Nat \cup {-1}
          BY <1>0, PastTyped
        <4> QED BY <4>1, <4>2, Zenon DEF PosOf
      <3> QED BY <2>1, <3>1
    <2>9. TypeOK'
      <3>1. {rows', dense', output_ids'} \subseteq [1 .. NBatch -> 0 .. NBatch]
        BY <1>15, <1>16, <2>6 DEF Buffer
      <3>2. swaps' \in Seq((1 .. NBatch) \X (1 .. NBatch))
        BY <2>6, <2>7 DEF Pairs
      <3>3. phase' \in {"split", "compute", "done", "failed"}
        BY <2>1
      <3> QED BY <1>20, <2>8, <3>1, <3>2, <3>3, Zenon DEF TypeOK
    <2>10. Progress'
      BY <2>1 DEF Progress
    <2>11. OutputsMatch'
      <3>1. Swapped(rows)' = Applied(ws, rows') /\ Swapped(dense)' = Applied(ws, dense')
        BY <2>7, Zenon DEF Swapped
      <3> QED BY <1>4, <2>6, <3>1, Zenon DEF OutputsMatch
    <2> QED BY <1>18, <1>19, <2>9, <2>10, <2>11 DEF IInv
  <1>22. CASE d # Len(us)
    <2>1. phase' = phase /\ output_ids' = output_ids /\ swaps' = swaps /\ past' = past
      BY <1>3, <1>22
    <2>2. TypeOK'
      <3>1. {rows', dense', output_ids'} \subseteq [1 .. NBatch -> 0 .. NBatch]
        BY <1>14, <1>15, <1>16, <2>1 DEF Buffer
      <3>2. /\ swaps \in Seq((1 .. NBatch) \X (1 .. NBatch)) /\ past \in [Seq_id -> Nat \cup {-1}]
            /\ phase \in {"split", "compute", "done", "failed"}
        BY <1>0, Zenon DEF TypeOK
      <3> QED BY <1>20, <2>1, <3>1, <3>2, Zenon DEF TypeOK
    <2>3. Progress'
      <3>1. d < Len(us)
        BY <1>1, <1>6, <1>22
      <3>2. WithOutput(Before)' = we
        BY <1>4, <1>10, <1>12, Zenon DEF WithOutput
      <3>3. /\ \A k \in DOMAIN WithOutput(Before)' : rows'[k] = WithOutput(Before)'[k]
            /\ \A k \in DOMAIN Before' : dense'[k] = Before'[k]
        BY <1>10, <1>15, <1>16, <3>2, Zenon DEF Holds
      <3>4. phase' = "compute" /\ swaps' = <<>> /\ computed' < Len(ubatches')
        BY <1>1, <1>2, <1>6, <2>1, <3>1
      <3>5. phase' # "split"
        BY <3>4
      <3> QED BY <3>3, <3>4, <3>5, Zenon DEF Progress
    <2>4. OutputsMatch'
      BY <1>2, <2>1 DEF OutputsMatch
    <2> QED BY <1>18, <1>19, <2>2, <2>3, <2>4 DEF IInv
  <1> QED BY <1>21, <1>22

\* What was computed stays, and no output is looked at.
LEMMA ComputeFailsInv == IInv /\ ComputeFails => IInv'
  <1> SUFFICES ASSUME IInv, ComputeFails PROVE IInv'
    OBVIOUS
  <1>0. TypeOK /\ Shape /\ Splits /\ Progress
    BY DEF IInv
  <1>1. /\ phase = "compute" /\ phase' = "failed"
        /\ ways' = ways /\ n_ubatch' = n_ubatch /\ batch' = batch /\ try' = try
        /\ ubatches' = ubatches /\ computed' = computed /\ out_ids' = out_ids
        /\ rows' = rows /\ dense' = dense /\ output_ids' = output_ids /\ swaps' = swaps
    BY Zenon DEF ComputeFails, Buffers
  <1>2. /\ Tokens' = Tokens /\ InTheirOrder' = InTheirOrder
        /\ (\A U : Closed(U)' <=> Closed(U)) /\ \A s : WithOutput(s)' = WithOutput(s)
    BY <1>1, SameBatch
  <1>3. Order' = Order /\ Used' = Used
    BY <1>1, Zenon DEF Order, Used
  <1>4. \A x \in ToSet(Before) \cup ToSet(Failing) : x \in Tokens
    <2>1. ubatches \in Seq(Seq(Seq(Tokens))) /\ computed \in 0 .. Len(ubatches)
      BY <1>0 DEF TypeOK
    <2>2. PICK d : d = computed + 1
      OBVIOUS
    <2>3. computed \in Nat /\ computed < Len(ubatches)
      BY <1>0, <1>1, <2>1 DEF Progress
    <2>4. BeforeOf(ubatches, computed) \in Seq(Tokens) /\ Flat(ubatches[d]) \in Seq(Tokens)
      BY <2>1, <2>2, <2>3, BeforeNext, Zenon
    <2>5. Before \in Seq(Tokens) /\ Failing \in Seq(Tokens)
      BY <2>2, <2>4, OrderIs DEF Failing
    <2> QED BY <2>5, SequenceItems
  <1>5. past' \in [Seq_id -> Nat \cup {-1}]
    <2>1. PICK first : past' = [s \in Seq_id |->
                                  Max({past[s]} \cup {batch[i].pos : i \in StillHeld(s, first)})]
      BY Zenon DEF ComputeFails
    <2>2. ASSUME NEW s \in Seq_id
          PROVE  Max({past[s]} \cup {batch[i].pos : i \in StillHeld(s, first)}) \in Nat \cup {-1}
      <3>1. PICK J \in SUBSET Tokens : J = StillHeld(s, first)
        BY <1>4 DEF StillHeld
      <3>2. Max({past[s]} \cup {batch[i].pos : i \in J}) \in Nat \cup {-1}
        BY <1>0, PastTyped
      <3> QED BY <3>1, <3>2, Zenon
    <2> QED BY <2>1, <2>2
  <1>6. TypeOK'
    <2>1. /\ ways \in Ways /\ n_ubatch \in Sizes
          /\ batch \in Seq(Token) /\ Len(batch) \in 1 .. NBatch /\ try \in DOMAIN ways
          /\ ubatches \in Seq(Seq(Seq(Tokens))) /\ computed \in 0 .. Len(ubatches)
          /\ out_ids \in Seq(Tokens)
          /\ {rows, dense, output_ids} \subseteq [1 .. NBatch -> 0 .. NBatch]
          /\ swaps \in Seq((1 .. NBatch) \X (1 .. NBatch))
      BY <1>0, Zenon DEF TypeOK
    <2>2. phase' \in {"split", "compute", "done", "failed"}
      BY <1>1
    <2> QED BY <1>1, <1>2, <1>5, <2>1, <2>2, Zenon DEF TypeOK
  <1>7. Shape'
    BY <1>0, <1>1, SameShape, Zenon DEF Shape
  <1>8. Splits'
    <2>1. Goes(Order, InTheirOrder) /\ Closed(Used) /\ out_ids = WithOutput(Order)
      BY <1>0 DEF Splits
    <2>2. phase' \notin {"compute", "done"}
      BY <1>1
    <2> QED BY <1>1, <1>2, <1>3, <2>1, <2>2, Zenon DEF Splits
  <1>9. Progress'
    <2>1. swaps = <<>>
      BY <1>0, <1>1 DEF Progress
    <2> QED BY <1>1, <2>1 DEF Progress
  <1>10. OutputsMatch'
    BY <1>1 DEF OutputsMatch
  <1> QED BY <1>6, <1>7, <1>8, <1>9, <1>10 DEF IInv

\* The swaps are applied to every buffer, once.
LEMMA ReadInv == IInv /\ Read => IInv'
  <1> SUFFICES ASSUME IInv, Read PROVE IInv'
    OBVIOUS
  <1>0. TypeOK /\ Shape /\ Splits /\ OutputsMatch
    BY DEF IInv
  <1>1. /\ phase = "done" /\ rows' = Applied(swaps, rows) /\ dense' = Applied(swaps, dense)
        /\ swaps' = <<>>
        /\ ways' = ways /\ n_ubatch' = n_ubatch /\ past' = past /\ batch' = batch
        /\ phase' = phase /\ try' = try /\ ubatches' = ubatches /\ computed' = computed
        /\ out_ids' = out_ids /\ output_ids' = output_ids
    BY Zenon DEF Read, Input, Swapped
  <1>2. /\ Tokens' = Tokens /\ InTheirOrder' = InTheirOrder /\ Outputs' = Outputs
        /\ (\A U : Closed(U)' <=> Closed(U)) /\ \A s : WithOutput(s)' = WithOutput(s)
    BY <1>1, SameBatch
  <1>3. Order' = Order /\ Used' = Used
    BY <1>1, Zenon DEF Order, Used
  <1>4. rows' \in Buffer /\ dense' \in Buffer
    <2>1. rows \in Buffer /\ dense \in Buffer /\ swaps \in Seq(Pairs(NBatch))
      BY <1>0 DEF TypeOK, Buffer, Pairs
    <2> QED BY <1>1, <2>1, AppliedBuffer
  <1>5. TypeOK'
    <2>1. /\ ways \in Ways /\ n_ubatch \in Sizes /\ past \in [Seq_id -> Nat \cup {-1}]
          /\ batch \in Seq(Token) /\ Len(batch) \in 1 .. NBatch /\ try \in DOMAIN ways
          /\ phase \in {"split", "compute", "done", "failed"}
          /\ ubatches \in Seq(Seq(Seq(Tokens))) /\ computed \in 0 .. Len(ubatches)
          /\ out_ids \in Seq(Tokens)
      BY <1>0, Zenon DEF TypeOK
    <2>2. output_ids \in [1 .. NBatch -> 0 .. NBatch]
      BY <1>0 DEF TypeOK
    <2>3. {rows', dense', output_ids'} \subseteq [1 .. NBatch -> 0 .. NBatch]
      BY <1>1, <1>4, <2>2 DEF Buffer
    <2>4. <<>> \in Seq((1 .. NBatch) \X (1 .. NBatch))
      OBVIOUS
    <2> QED BY <1>1, <1>2, <2>1, <2>3, <2>4, Zenon DEF TypeOK
  <1>6. Shape'
    BY <1>0, <1>1, SameShape, Zenon DEF Shape
  <1>7. Splits'
    <2>1. /\ Goes(Order, InTheirOrder) /\ Closed(Used) /\ out_ids = WithOutput(Order)
          /\ phase \in {"compute", "done"} => Used = Tokens
      BY <1>0 DEF Splits
    <2> QED BY <1>1, <1>2, <1>3, <2>1, Zenon DEF Splits
  <1>8. Progress'
    BY <1>1 DEF Progress
  <1>9. OutputsMatch'
    <2>1. Swapped(rows)' = Swapped(rows) /\ Swapped(dense)' = Swapped(dense)
      <3>1. Applied(<<>>, rows') = rows' /\ Applied(<<>>, dense') = dense'
        BY <1>4, AppliedNone
      <3>2. Swapped(rows)' = Applied(swaps', rows') /\ Swapped(dense)' = Applied(swaps', dense')
        BY Zenon DEF Swapped
      <3>3. rows' = Swapped(rows) /\ dense' = Swapped(dense)
        BY <1>1, Zenon DEF Swapped
      <3> QED BY <1>1, <3>1, <3>2, <3>3, Zenon
    <2>2. /\ \A i \in Outputs : output_ids[i] # 0 /\ Swapped(rows)[output_ids[i]] = i
          /\ \A i, j \in Outputs : i < j => output_ids[i] < output_ids[j]
          /\ Outputs = Tokens => \A i \in Tokens : Swapped(dense)[i] = i
      BY <1>0, <1>1 DEF OutputsMatch
    <2> QED BY <1>1, <1>2, <2>1, <2>2, Zenon DEF OutputsMatch
  <1> QED BY <1>5, <1>6, <1>7, <1>8, <1>9 DEF IInv

\* What a generation decodes next is a batch.
LEMMA FollowingTyped ==
  ASSUME TypeOK, NEW order \in {Ascending, Descending}, Following(order) # <<>>
  PROVE  Following(order) \in Seq(Token) /\ Len(Following(order)) \in 1 .. NBatch
  <1>1. PICK n \in Nat : n = Cardinality(Seq_id) /\ Seq_id = 0 .. n - 1 /\ n <= NBatch /\ NBatch \in Nat
    BY SomeSequence, BatchAssumption DEF BatchAssumption
  <1>2. order \in Seq(Seq_id) /\ Len(order) = n
    <2>1. Ascending \in Seq(Seq_id) /\ Len(Ascending) = n
      BY <1>1 DEF Ascending
    <2>2. Descending \in Seq(Seq_id) /\ Len(Descending) = n
      <3>1. Descending = [i \in 1 .. n |-> Ascending[n - i + 1]]
        BY <2>1 DEF Descending, Reverse
      <3>2. ASSUME NEW i \in 1 .. n PROVE Ascending[n - i + 1] \in Seq_id
        <4>1. n - i + 1 \in 1 .. n
          OBVIOUS
        <4> QED BY <2>1, <4>1
      <3> QED BY <3>1, <3>2
    <2> QED BY <2>1, <2>2
  <1>3. PICK S, ids, f : /\ S = {s \in Seq_id : past[s] \in 0 .. LastPos - 1} /\ ids = Those(order, S)
                         /\ f = [k \in DOMAIN ids |->
                                   [seqs |-> {ids[k]}, pos |-> past[ids[k]] + 1, out |-> TRUE]]
    OBVIOUS
  <1>4. f = Following(order)
    BY <1>3, Zenon DEF Following
  <1>5. PICK m \in Nat : ids \in Seq(Seq_id) /\ DOMAIN ids = 1 .. m /\ m <= n
    <2>1. ids \in Seq(Seq_id) /\ Len(ids) \in Nat /\ Len(ids) <= n
      BY <1>2, <1>3, ThoseItems, ThoseLength
    <2> QED BY <2>1
  <1>6. ASSUME NEW k \in 1 .. m PROVE f[k] \in Token
    <2>1. ids[k] \in Seq_id /\ ids[k] \in ToSet(ids)
      BY <1>5 DEF ToSet
    <2>2. ids[k] \in S
      BY <1>2, <1>3, <2>1, ThoseItems
    <2>3. past[ids[k]] + 1 \in Nat
      BY <1>3, <2>2
    <2>4. {ids[k]} \in (SUBSET Seq_id) \ {{}}
      BY <2>1
    <2>5. [seqs |-> {ids[k]}, pos |-> past[ids[k]] + 1, out |-> TRUE] \in Token
      BY <2>3, <2>4 DEF Token
    <2> QED BY <1>3, <1>5, <2>5
  <1>7. f \in Seq(Token) /\ Len(f) = m
    <2>1. f = [k \in 1 .. m |-> f[k]]
      BY <1>3, <1>5
    <2> QED BY <1>6, <2>1
  <1>8. m # 0
    BY <1>4, <1>7, EmptySeq
  <1> QED BY <1>1, <1>4, <1>5, <1>7, <1>8

\* Another batch, and swaps that nobody has looked at are forgotten.
LEMMA DecodeInv == ASSUME IInv, NEW order \in {Ascending, Descending}, Decode(order) PROVE IInv'
  <1>0. TypeOK
    BY DEF IInv
  <1>1. /\ Following(order) # <<>> /\ batch' = Following(order) /\ phase' = "split" /\ try' = 1
        /\ ubatches' = <<>> /\ computed' = 0 /\ out_ids' = <<>> /\ swaps' = <<>>
        /\ ways' = ways /\ n_ubatch' = n_ubatch /\ past' = past
        /\ rows' = rows /\ dense' = dense /\ output_ids' = output_ids
    BY Zenon DEF Decode
  <1>2. Order' = <<>> /\ Used' = {}
    <2>1. Order' = OrderOf(ubatches')
      BY Zenon DEF Order, OrderOf
    <2>2. Order' = <<>>
      BY <1>1, <2>1, OrderNone
    <2> QED BY <2>2 DEF Used, ToSet
  <1>3. TypeOK'
    <2>1. /\ ways \in Ways /\ n_ubatch \in Sizes /\ past \in [Seq_id -> Nat \cup {-1}]
          /\ {rows, dense, output_ids} \subseteq [1 .. NBatch -> 0 .. NBatch]
      BY <1>0, Zenon DEF TypeOK
    <2>2. batch' \in Seq(Token) /\ Len(batch') \in 1 .. NBatch
      BY <1>0, <1>1, FollowingTyped
    <2>3. 1 \in DOMAIN ways
      BY <2>1, BatchAssumption DEF BatchAssumption
    <2>4. /\ <<>> \in Seq(Seq(Seq(Tokens'))) /\ <<>> \in Seq(Tokens') /\ computed' \in 0 .. Len(<<>>)
          /\ <<>> \in Seq((1 .. NBatch) \X (1 .. NBatch))
      BY <1>1
    <2>5. phase' \in {"split", "compute", "done", "failed"}
      BY <1>1
    <2> QED BY <1>1, <2>1, <2>2, <2>3, <2>4, <2>5, Zenon DEF TypeOK
  <1>4. Shape'
    BY <1>1 DEF Shape, ToSet
  <1>5. Splits'
    <2>1. Goes(<<>>, InTheirOrder')
      BY DEF Goes
    <2>2. Closed({})'
      BY DEF Closed
    <2>3. WithOutput(<<>>)' = <<>>
      BY ThoseNone DEF WithOutput
    <2>4. WithOutput(Order)' = <<>>
      BY <1>2, <2>3, Zenon DEF WithOutput
    <2>5. phase' \notin {"compute", "done"}
      BY <1>1
    <2> QED BY <1>1, <1>2, <2>1, <2>2, <2>4, <2>5, Zenon DEF Splits
  <1>6. Progress'
    BY <1>1 DEF Progress
  <1>7. OutputsMatch'
    BY <1>1 DEF OutputsMatch
  <1> QED BY <1>3, <1>4, <1>5, <1>6, <1>7 DEF IInv

\* A step that changes nothing.
LEMMA NothingInv == IInv /\ UNCHANGED vars => IInv'
  <1> SUFFICES ASSUME IInv, UNCHANGED vars PROVE IInv'
    OBVIOUS
  <1>1. /\ ways' = ways /\ n_ubatch' = n_ubatch /\ past' = past /\ batch' = batch /\ phase' = phase
        /\ try' = try /\ ubatches' = ubatches /\ computed' = computed /\ out_ids' = out_ids
        /\ rows' = rows /\ dense' = dense /\ output_ids' = output_ids /\ swaps' = swaps
    BY DEF vars
  <1>2. /\ Tokens' = Tokens /\ InTheirOrder' = InTheirOrder /\ Outputs' = Outputs
        /\ (\A U : Closed(U)' <=> Closed(U)) /\ \A s : WithOutput(s)' = WithOutput(s)
    BY <1>1, SameBatch
  <1>3. Order' = Order /\ Used' = Used /\ Before' = Before
    BY <1>1, Zenon DEF Order, Used, Before
  <1>4. TypeOK'
    BY <1>1, <1>2, Zenon DEF IInv, TypeOK
  <1>5. Shape'
    BY <1>1, SameShape, Zenon DEF IInv, Shape
  <1>6. Splits'
    <2>1. /\ Goes(Order, InTheirOrder) /\ Closed(Used) /\ out_ids = WithOutput(Order)
          /\ phase \in {"compute", "done"} => Used = Tokens
      BY DEF IInv, Splits
    <2> QED BY <1>1, <1>2, <1>3, <2>1, Zenon DEF Splits
  <1>7. Progress'
    <2>1. WithOutput(Before)' = WithOutput(Before)
      BY <1>2, <1>3, Zenon DEF WithOutput
    <2> QED BY <1>1, <1>3, <2>1, Zenon DEF IInv, Progress
  <1>8. OutputsMatch'
    <2>1. Swapped(rows)' = Swapped(rows) /\ Swapped(dense)' = Swapped(dense)
      BY <1>1, Zenon DEF Swapped
    <2> QED BY <1>1, <1>2, <2>1, Zenon DEF IInv, OutputsMatch
  <1> QED BY <1>4, <1>5, <1>6, <1>7, <1>8 DEF IInv

\* llama_batch_allocr and decode(): the invariant is inductive, for any number of
\* sequences and tokens, any batches, and any sizes of ubatches.
THEOREM BatchInductive == Spec => []IInv
  <1>1. Init => IInv
    BY InitInv
  <1>2. IInv /\ [Next]_vars => IInv'
    BY SplitInv, PreparedInv, NoRoomInv, ComputeInv, ComputeFailsInv, ReadInv, DecodeInv, NothingInv
       DEF Next, Quit
  <1> QED BY <1>1, <1>2, PTL DEF Spec

\* split_simple(), split_seq() and split_equal(): no token of a batch is computed
\* twice or left out, the tokens of a sequence are in the order of their positions,
\* and the ubatches have the shape that the memories and the reserved graph want.
THEOREM EachTokenOnceInOrder == Spec => []OnceInOrder
  <1>1. IInv => OnceInOrder
    <2> SUFFICES ASSUME IInv PROVE OnceInOrder
      OBVIOUS
    <2>1. TypeOK /\ Shape /\ Splits
      BY DEF IInv
    <2>2. Order \in Seq(Tokens) /\ Cardinality(Used) = Len(Order) /\ Goes(Order, InTheirOrder)
      BY <2>1, OrderOnce DEF Splits
    <2>3. ASSUME Orderly(batch), NEW k \in DOMAIN Order, NEW l \in DOMAIN Order, k < l,
                 SeqSet(Order[k]) \cap SeqSet(Order[l]) # {}
          PROVE  batch[Order[k]].pos <= batch[Order[l]].pos
      <3>1. <<Order[k], Order[l]>> \in InTheirOrder
        BY <2>2, <2>3, Zenon DEF Goes
      <3>2. PICK i \in Tokens, j \in Tokens : i = Order[k] /\ j = Order[l]
        BY <2>2
      <3>3. <<i, j>> \in InTheirOrder /\ Share(i, j)
        BY <2>3, <3>1, <3>2, Zenon DEF Share
      <3>4. i < j
        BY <2>3, <3>3 DEF InTheirOrder
      <3>5. batch[i].pos <= batch[j].pos
        BY <2>3, <3>3, <3>4, Zenon DEF Orderly, Share, SeqSet, Tokens
      <3> QED BY <3>2, <3>5, Zenon
    <2>4. Orderly(batch) => InOrder
      BY <2>3 DEF InOrder
    <2>5. phase \in {"compute", "done"} => Used = Tokens
      BY <2>1 DEF Splits
    <2> QED BY <2>1, <2>2, <2>4, <2>5 DEF OnceInOrder
  <1> QED BY <1>1, BatchInductive, PTL

\* output_reserve(), the copies of process_ubatch()'s rows, the selection sort of
\* decode() and output_reorder(): logits and hidden states that are looked at are
\* those of the token asked for, whatever was split and swapped before.
THEOREM OutputsFound == Spec => []OutputsMatch
  <1>1. IInv => OutputsMatch
    BY DEF IInv
  <1> QED BY <1>1, BatchInductive, PTL
==============================================================================
