----------------------- MODULE RecurrentMemory_proofs ------------------------
(***************************************************************************)
(* What is proved about RecurrentMemory, for any numbers of sequences,     *)
(* cells and snapshots and any ubatches: its cells stay sound, and they    *)
(* implement RecurrentStates.                                              *)
(*                                                                         *)
(* CellsInv says of the cells what find_slot() relies on.  StatesInv adds  *)
(* what its groups of rows hold: the states before the last tokens of each *)
(* sequence, one group for each token that may be taken back.              *)
(***************************************************************************)
EXTENDS RecurrentMemory, Subsequences_proofs

----------------------------------------------------------------------------
(* Numbers *)

\* Max() of numbers up to n, -1 among them perhaps.
LEMMA MaxOf ==
  ASSUME NEW n \in Nat, NEW S \in SUBSET (-1 .. n), S # {}
  PROVE  Max(S) \in S /\ \A x \in S : Max(S) >= x
  <1>1. PICK T : T = {n - x : x \in S}
    OBVIOUS
  <1>2. T \in SUBSET Nat /\ T # {}
    <2>1. ASSUME NEW x \in S PROVE n - x \in Nat
      <3>1. x \in -1 .. n
        OBVIOUS
      <3>2. n - x \in Int /\ n - x >= 0
        BY <3>1
      <3> QED BY <3>2
    <2> QED BY <1>1, <2>1
  <1>3. PICK m \in T : \A k \in T : m <= k
    BY <1>2, Least
  <1>4. PICK x \in S : m = n - x
    BY <1>1
  <1>5. ASSUME NEW y \in S PROVE x >= y
    <2>1. n - y \in T /\ m <= n - y
      BY <1>1, <1>3
    <2>2. x \in -1 .. n /\ y \in -1 .. n
      OBVIOUS
    <2> QED BY <1>4, <2>1, <2>2
  <1>6. \E z \in S : \A y \in S : z >= y
    BY <1>5
  <1> QED BY <1>6 DEF Max

\* "%" within one turn of the cells.
LEMMA Turned ==
  ASSUME NEW n \in Nat \ {0}, NEW a \in 0 .. n, NEW i \in 0 .. n - 1
  PROVE  (a + i) % n = IF a + i < n THEN a + i ELSE a + i - n
  <1> DEFINE x == a + i
             q == x \div n
             r == x % n
  <1>1. x = n * q + r /\ r \in 0 .. n - 1 /\ q \in Int /\ x \in Int /\ 0 <= x /\ x < 2 * n
    OBVIOUS
  <1>2. x < n => q = 0
    BY <1>1
  <1>3. n <= x => q = 1
    BY <1>1
  <1> QED BY <1>1, <1>2, <1>3

----------------------------------------------------------------------------
(* The cells *)

\* Numbers of a configuration.
Configured == /\ size \in Nat \ {0} /\ n_rs_seq \in Nat
              /\ conf.len \in Nat /\ conf.tokens \in Nat

LEMMA ConfIs ==
  ASSUME conf \in Confs
  PROVE  Configured
  BY RecurrentAssumption DEF RecurrentAssumption, Configured, size, n_rs_seq

\* Sequences and cells have the same numbers.
LEMMA SequencesAre ==
  ASSUME Configured
  PROVE  /\ Sequence = 0 .. size - 1 /\ Cell = 0 .. size - 1 /\ Groups = 0 .. n_rs_seq
         /\ Cell \in SUBSET Nat /\ Sequence \in SUBSET Nat /\ 0 \in Cell /\ 0 \in Groups
         /\ IsFiniteSet(Cell) /\ Cardinality(Cell) = size
         /\ \A i \in Cell : i \in Nat /\ i >= 0 /\ i < size
         /\ None \notin Cell
  <1>1. size \in Nat \ {0} /\ n_rs_seq \in Nat
    BY DEF Configured
  <1>2. Sequence = 0 .. size - 1 /\ Cell = 0 .. size - 1 /\ Groups = 0 .. n_rs_seq
    BY DEF Sequence, Cell, Groups
  <1>3. IsFiniteSet(0 .. size - 1) /\ Cardinality(0 .. size - 1) = size
    <2>1. 0 \in Int /\ size - 1 \in Int /\ ~(0 > size - 1)
      BY <1>1
    <2>2. IsFiniteSet(0 .. size - 1) /\ Cardinality(0 .. size - 1) = size - 1 - 0 + 1
      BY <2>1, FS_Interval
    <2> QED BY <1>1, <2>2
  <1>4. /\ 0 .. size - 1 \in SUBSET Nat /\ 0 \in 0 .. size - 1 /\ 0 \in 0 .. n_rs_seq
        /\ \A i \in 0 .. size - 1 : i \in Nat /\ i >= 0 /\ i < size /\ i # None
    BY <1>1 DEF None
  <1> QED BY <1>2, <1>3, <1>4

CellSet == [pos : -1 .. conf.len - 1, src : Cell \cup {None}, seq_id : SUBSET Sequence]

\* The tails are those of the cells, and a cell that is in use has its state in its own row.
Kempt(cs, t) ==
  /\ cs \in [Cell -> CellSet] /\ t \in [Sequence -> Cell \cup {None}]
  /\ \A s \in Sequence, i \in Cell : s \in cs[i].seq_id <=> t[s] = i
  /\ \A i \in Cell : /\ Bare(cs[i]) <=> cs[i].pos = -1
                     /\ cs[i].src \in {None, i} /\ (~Bare(cs[i]) => cs[i].src = i)

\* An empty cell.
LEMMA EmptyIs == /\ Empty.pos = -1 /\ Empty.src = None /\ Empty.seq_id = {} /\ Bare(Empty)
                 /\ Configured => Empty \in CellSet
  <1>1. Empty.pos = -1 /\ Empty.src = None /\ Empty.seq_id = {} /\ Bare(Empty)
    BY DEF Empty, Bare
  <1>2. Configured => -1 \in -1 .. conf.len - 1
    BY DEF Configured
  <1> QED BY <1>1, <1>2 DEF Empty, CellSet

\* Some cell has none of the sequences but s.
LEMMA Spare ==
  ASSUME Configured, NEW t \in [Sequence -> Cell \cup {None}], NEW s \in Sequence
  PROVE  \E c \in Cell : \A x \in Sequence : x # s => t[x] # c
  <1> SUFFICES ASSUME \A c \in Cell : \E x \in Sequence : x # s /\ t[x] = c
               PROVE  FALSE
    OBVIOUS
  <1>1. /\ Sequence = Cell /\ IsFiniteSet(Cell) /\ Cardinality(Cell) = size
        /\ size \in Nat
    BY SequencesAre DEF Configured
  <1>2. PICK S : S = Sequence \ {s}
    OBVIOUS
  <1>3. IsFiniteSet(S) /\ Cardinality(S) = size - 1
    BY <1>1, <1>2, FS_RemoveElement
  <1>4. PICK g : g = [c \in Cell |-> CHOOSE x \in S : t[x] = c]
    OBVIOUS
  <1>5. \A c \in Cell : g[c] \in S /\ t[g[c]] = c
    BY <1>2, <1>4
  <1>6. g \in Injection(Cell, S)
    BY <1>4, <1>5 DEF Injection, IsInjective
  <1>7. Cardinality(Cell) <= Cardinality(S)
    BY <1>1, <1>3, <1>6, FS_Injection
  <1> QED BY <1>1, <1>3, <1>7

\* The cells after some sequences have left theirs.
DetachedFrom(m, D, d) ==
  /\ Kempt(d.cells, d.tail)
  /\ \A s \in Sequence : d.tail[s] = IF s \in D THEN None ELSE m.tail[s]
  /\ \A i \in Cell :
       /\ d.cells[i].seq_id = m.cells[i].seq_id \ D
       /\ ~Bare(d.cells[i]) => d.cells[i].pos = m.cells[i].pos
       /\ Bare(d.cells[i]) /\ d.cells[i].src = i => Bare(m.cells[i]) /\ m.cells[i].src = i
       /\ m.cells[i].seq_id \cap D = {} => d.cells[i] = m.cells[i]

LEMMA DetachedIs ==
  ASSUME Configured, NEW m, Kempt(m.cells, m.tail), NEW D \in SUBSET Sequence
  PROVE  DetachedFrom(m, D, Detached(m, D))
  <1>1. PICK d : d = Detached(m, D)
    OBVIOUS
  <1>2. /\ m.cells \in [Cell -> CellSet] /\ m.tail \in [Sequence -> Cell \cup {None}]
        /\ \A s \in Sequence, i \in Cell : s \in m.cells[i].seq_id <=> m.tail[s] = i
        /\ \A i \in Cell : /\ Bare(m.cells[i]) <=> m.cells[i].pos = -1
                           /\ m.cells[i].src \in {None, i}
                           /\ ~Bare(m.cells[i]) => m.cells[i].src = i
    BY DEF Kempt
  <1>3. d.tail = [s \in Sequence |-> IF s \in D THEN None ELSE m.tail[s]]
    BY <1>1 DEF Detached
  <1>4. ASSUME NEW i \in Cell
        PROVE  LET gone == {s \in D : m.tail[s] = i}
                   c    == [m.cells[i] EXCEPT !.seq_id = @ \ gone]
               IN d.cells[i] = IF gone # {} /\ Bare(c) THEN Empty ELSE c
    BY <1>1 DEF Detached
  <1>5. ASSUME NEW i \in Cell
        PROVE  /\ d.cells[i] \in CellSet
               /\ d.cells[i].seq_id = m.cells[i].seq_id \ D
               /\ ~Bare(d.cells[i]) => d.cells[i].pos = m.cells[i].pos /\ d.cells[i].src = i
               /\ Bare(d.cells[i]) => d.cells[i].pos = -1 /\ d.cells[i].src \in {None, i}
               /\ Bare(d.cells[i]) /\ d.cells[i].src = i => Bare(m.cells[i]) /\ m.cells[i].src = i
               /\ m.cells[i].seq_id \cap D = {} => d.cells[i] = m.cells[i]
    <2>1. PICK a, gone, c : a = m.cells[i] /\ gone = {s \in D : m.tail[s] = i}
                            /\ c = [a EXCEPT !.seq_id = @ \ gone]
      OBVIOUS
    <2>2. a \in CellSet /\ a.seq_id \in SUBSET Sequence
      BY <1>2, <2>1 DEF CellSet
    <2>3. gone = a.seq_id \cap D
      BY <1>2, <2>1
    <2>4. /\ c.seq_id = a.seq_id \ D /\ c.pos = a.pos /\ c.src = a.src /\ c \in CellSet
          /\ gone = {} => c = a
      BY <2>1, <2>2, <2>3 DEF CellSet
    <2>5. d.cells[i] = IF gone # {} /\ Bare(c) THEN Empty ELSE c
      BY <1>4, <2>1
    <2>6. /\ Bare(a) <=> a.seq_id = {}
          /\ Bare(c) <=> c.seq_id = {}
          /\ Bare(a) <=> a.pos = -1 /\ a.src \in {None, i} /\ (~Bare(a) => a.src = i)
      BY <1>2, <2>1 DEF Bare
    <2>7. CASE gone # {} /\ Bare(c)
      <3>1. d.cells[i] = Empty
        BY <2>5, <2>7
      <3>2. a.seq_id \cap D # {} /\ c.seq_id = {} /\ Empty.src # i
        BY <2>3, <2>6, <2>7, EmptyIs, SequencesAre
      <3> QED BY <2>1, <2>4, <3>1, <3>2, EmptyIs
    <2>8. CASE ~(gone # {} /\ Bare(c))
      <3>1. d.cells[i] = c
        BY <2>5, <2>8
      <3>2. CASE gone = {}
        <4>1. c = a
          BY <2>4, <3>2
        <4>2. Bare(a) => a.pos = -1
          BY <1>2, <2>1
        <4>3. Bare(a) \/ a.src = i
          BY <1>2, <2>1
        <4>4. a.src \in {None, i} /\ a.seq_id = a.seq_id \ D
          BY <1>2, <2>1, <2>4, <4>1
        <4> QED BY <2>1, <2>2, <3>1, <4>1, <4>2, <4>3, <4>4
      <3>3. CASE gone # {}
        <4>1. ~Bare(c) /\ ~Bare(a)
          BY <2>3, <2>6, <2>8, <3>3
        <4>2. a.src = i /\ a.seq_id \cap D # {}
          BY <1>2, <2>1, <2>3, <3>3, <4>1
        <4> QED BY <2>1, <2>4, <3>1, <4>1, <4>2
      <3> QED BY <3>2, <3>3
    <2> QED BY <2>7, <2>8
  <1>6. DOMAIN d.cells = Cell /\ d.cells = [i \in Cell |-> d.cells[i]]
    BY <1>1 DEF Detached
  <1>7. d.cells \in [Cell -> CellSet]
    BY <1>5, <1>6
  <1>8. d.tail \in [Sequence -> Cell \cup {None}]
    BY <1>2, <1>3
  <1>9. ASSUME NEW s \in Sequence, NEW i \in Cell PROVE s \in d.cells[i].seq_id <=> d.tail[s] = i
    <2>1. None # i
      BY SequencesAre
    <2> QED BY <1>2, <1>3, <1>5, <2>1
  <1>10. \A i \in Cell : /\ Bare(d.cells[i]) <=> d.cells[i].pos = -1
                         /\ d.cells[i].src \in {None, i} /\ (~Bare(d.cells[i]) => d.cells[i].src = i)
    <2> TAKE i \in Cell
    <2>1. ~Bare(d.cells[i]) => m.cells[i].pos # -1
      <3>1. ~Bare(d.cells[i]) => ~Bare(m.cells[i])
        BY <1>5 DEF Bare
      <3> QED BY <1>2, <3>1
    <2> QED BY <1>5, <2>1
  <1>11. Kempt(d.cells, d.tail)
    BY <1>7, <1>8, <1>9, <1>10, Zenon DEF Kempt
  <1> QED BY <1>1, <1>3, <1>5, <1>11 DEF DetachedFrom

----------------------------------------------------------------------------
(* The search for an empty cell *)

\* How far cell c is from cell a, going round.
Off(a, c) == IF c >= a THEN c - a ELSE c - a + size

\* The first of them is empty if any is.
LEMMA NextEmptyIs ==
  ASSUME Configured, NEW cs, NEW from \in 0 .. size
  PROVE  /\ NextEmpty(cs, from) \in Cell
         /\ \A c \in Cell : Bare(cs[c]) => /\ Bare(cs[NextEmpty(cs, from)])
                                           /\ Off(from, NextEmpty(cs, from)) <= Off(from, c)
  <1>0. size \in Nat \ {0} /\ Cell = 0 .. size - 1
    BY SequencesAre DEF Configured
  <1>1. PICK at : at = [i \in Cell |-> IF from + i < size THEN from + i ELSE from + i - size]
    OBVIOUS
  <1>2. \A i \in Cell : (from + i) % size = at[i]
    BY <1>0, <1>1, Turned
  <1>3. PICK E : E = {i \in Cell : Bare(cs[at[i]])}
    OBVIOUS
  <1>4. PICK r : r = NextEmpty(cs, from)
    OBVIOUS
  <1>5. from % size = at[0] /\ 0 \in Cell
    <2>1. 0 \in Cell /\ from + 0 = from
      BY <1>0
    <2> QED BY <1>2, <2>1
  <1>6. r = IF E = {} THEN at[0] ELSE at[Min(E)]
    <2>1. {i \in Cell : Bare(cs[(from + i) % size])} = E
      BY <1>2, <1>3
    <2>2. E # {} => Min(E) \in Cell
      <3>1. E # {} => Min(E) \in E
        BY <1>0, <1>3, MinOf
      <3> QED BY <1>3, <3>1
    <2>3. r = IF E = {} THEN from % size ELSE (from + Min(E)) % size
      BY <1>4, <2>1, Zenon DEF NextEmpty
    <2> QED BY <1>2, <1>5, <2>2, <2>3
  <1>7. ASSUME NEW i \in Cell PROVE at[i] \in Cell /\ Off(from, at[i]) = i
    <2>1. PICK c : c = at[i]
      OBVIOUS
    <2>2. c = (IF from + i < size THEN from + i ELSE from + i - size) /\ i \in 0 .. size - 1
      BY <1>0, <1>1, <2>1
    <2>3. c \in 0 .. size - 1 /\ (IF c >= from THEN c - from ELSE c - from + size) = i
      BY <1>0, <2>2
    <2> QED BY <1>0, <2>1, <2>3 DEF Off
  <1>8. \A c \in Cell : Off(from, c) \in Cell /\ at[Off(from, c)] = c
    <2>1. ASSUME NEW c \in Cell, from < size PROVE Off(from, c) \in Cell /\ at[Off(from, c)] = c
      BY <1>0, <1>1, <2>1 DEF Off
    <2>2. ASSUME NEW c \in Cell, from = size PROVE Off(from, c) \in Cell /\ at[Off(from, c)] = c
      BY <1>0, <1>1, <2>2 DEF Off
    <2> QED BY <1>0, <2>1, <2>2
  <1>9. CASE E = {}
    <2>1. \A c \in Cell : ~Bare(cs[c])
      BY <1>3, <1>8, <1>9
    <2> QED BY <1>4, <1>5, <1>6, <1>7, <1>9, <2>1
  <1>10. CASE E # {}
    <2>0. E \in SUBSET Nat
      BY <1>0, <1>3
    <2>1. Min(E) \in E /\ \A x \in E : Min(E) <= x
      BY <1>10, <2>0, MinOf
    <2>2. PICK e : e = Min(E)
      OBVIOUS
    <2>3. e \in Cell /\ r = at[e] /\ Bare(cs[r]) /\ Off(from, r) = e
      BY <1>3, <1>6, <1>7, <1>10, <2>1, <2>2
    <2>4. ASSUME NEW c \in Cell, Bare(cs[c]) PROVE e <= Off(from, c)
      BY <1>3, <1>8, <2>1, <2>2, <2>4
    <2> QED BY <1>4, <1>7, <2>3, <2>4
  <1> QED BY <1>9, <1>10

----------------------------------------------------------------------------
(* A cell for each set of the ubatch *)

\* What the loop works on.
SeatSet == [cells : [Cell -> CellSet], tail : [Sequence -> Cell \cup {None}],
            ok : {TRUE}, empty : Cell]

\* A sequence stays in the cell that it has for itself.
LEMMA PlaceStays ==
  ASSUME Configured, NEW x \in SeatSet, NEW s \in Sequence, x.tail[s] # None,
         x.cells[x.tail[s]].seq_id = {s}
  PROVE  Place(x, s) = x
  <1>1. Cardinality({s}) = 1 /\ s \in {s}
    BY FS_Singleton
  <1>2. PICK y : y = [x EXCEPT !.ok = @ /\ s \in {s}]
    OBVIOUS
  <1>3. Place(x, s) = y
    BY <1>1, <1>2 DEF Place
  <1>4. y = x
    BY <1>2 DEF SeatSet
  <1> QED BY <1>3, <1>4

\* Or it gets the next empty one.
Moves(x, s, y) ==
  LET t == x.tail[s]
      e == x.empty
  IN /\ y \in SeatSet
     /\ y.tail = [x.tail EXCEPT ![s] = e]
     /\ y.cells[e].seq_id = (IF t = None THEN x.cells[e].seq_id ELSE {s})
     /\ y.cells[e].src = (IF t = None THEN x.cells[e].src ELSE x.cells[t].src)
     /\ \A i \in Cell : i # e /\ i # t => y.cells[i] = x.cells[i]
     /\ t # None => /\ y.cells[t].pos = x.cells[t].pos /\ y.cells[t].src = x.cells[t].src
                    /\ y.cells[t].seq_id = x.cells[t].seq_id \ {s}
     /\ y.empty = NextEmpty(y.cells, e + 1)

LEMMA PlaceMoves ==
  ASSUME Configured, NEW x \in SeatSet, NEW s \in Sequence,
         x.tail[s] # None => /\ s \in x.cells[x.tail[s]].seq_id
                             /\ x.cells[x.tail[s]].seq_id # {s},
         Bare(x.cells[x.empty])
  PROVE  Moves(x, s, Place(x, s))
  <1>1. PICK t, e, cx, y : t = x.tail[s] /\ e = x.empty /\ cx = x.cells /\ y = Place(x, s)
    OBVIOUS
  <1>2. /\ cx \in [Cell -> CellSet] /\ x.tail \in [Sequence -> Cell \cup {None}]
        /\ e \in Cell /\ t \in Cell \cup {None} /\ x.ok = TRUE
    BY <1>1 DEF SeatSet
  <1>3. PICK old : old = IF t = None THEN Empty ELSE cx[t]
    OBVIOUS
  <1>4. PICK cs : cs = IF t = None THEN cx
                       ELSE [cx EXCEPT ![e] = [old EXCEPT !.seq_id = {s}], ![t].seq_id = @ \ {s}]
    OBVIOUS
  <1>5. None \notin Cell /\ size \in Nat \ {0} /\ Cell = 0 .. size - 1
    BY SequencesAre DEF Configured
  <1>6. ~(t # None /\ Cardinality(old.seq_id) = 1)
    <2>1. SUFFICES ASSUME t # None, Cardinality(old.seq_id) = 1 PROVE FALSE
      OBVIOUS
    <2>2. s \in old.seq_id /\ old.seq_id # {s} /\ old.seq_id \in SUBSET Sequence
      BY <1>1, <1>2, <1>3, <2>1 DEF CellSet
    <2>3. IsFiniteSet(old.seq_id)
      BY <2>2, SequencesAre, FS_Subset
    <2>4. PICK z : old.seq_id = {z}
      BY <2>1, <2>3, FS_Singleton
    <2> QED BY <2>2, <2>4
  <1>7. t # None => t # e /\ t \in Cell /\ old = cx[t] /\ old \in CellSet
                    /\ old.seq_id # {} /\ old.seq_id \ {s} # {} /\ s \in old.seq_id
    BY <1>1, <1>2, <1>3 DEF Bare, CellSet
  <1>8. /\ cs \in [Cell -> CellSet]
        /\ cs[e].seq_id = (IF t = None THEN cx[e].seq_id ELSE {s})
        /\ cs[e].src = (IF t = None THEN cx[e].src ELSE cx[t].src)
        /\ \A i \in Cell : i # e /\ i # t => cs[i] = cx[i]
        /\ t # None => /\ cs[t].pos = cx[t].pos /\ cs[t].src = cx[t].src
                       /\ cs[t].seq_id = cx[t].seq_id \ {s}
    <2>1. CASE t = None
      BY <1>2, <1>4, <2>1
    <2>2. CASE t # None
      <3>1. PICK a, b : /\ a = [old EXCEPT !.seq_id = {s}]
                        /\ b = [cx[t] EXCEPT !.seq_id = @ \ {s}]
        OBVIOUS
      <3>2. /\ a \in CellSet /\ a.seq_id = {s} /\ a.src = cx[t].src
            /\ b \in CellSet /\ b.pos = cx[t].pos /\ b.src = cx[t].src
            /\ b.seq_id = cx[t].seq_id \ {s}
        BY <1>7, <2>2, <3>1 DEF CellSet
      <3>3. cs = [cx EXCEPT ![e] = a, ![t] = b]
        BY <1>2, <1>4, <1>7, <2>2, <3>1
      <3> QED BY <1>2, <1>7, <2>2, <3>2, <3>3
    <2> QED BY <2>1, <2>2
  <1>9. t # None => s \in old.seq_id /\ ~Bare(cs[t])
    BY <1>7, <1>8 DEF Bare
  <1>10. y = [x EXCEPT !.ok = /\ @
                              /\ t # None => s \in old.seq_id /\ ~Bare(cs[t])
                              /\ Bare(cx[e]),
                       !.cells = cs, !.tail[s] = e, !.empty = NextEmpty(cs, e + 1)]
    BY <1>1, <1>3, <1>4, <1>6, Zenon DEF Place
  <1>11. NextEmpty(cs, e + 1) \in Cell
    <2>1. e + 1 \in 0 .. size
      BY <1>2, <1>5
    <2> QED BY <2>1, NextEmptyIs
  <1>12. PICK q, v : q = NextEmpty(cs, e + 1) /\ v = [x.tail EXCEPT ![s] = e]
    OBVIOUS
  <1>13. y = [x EXCEPT !.ok = TRUE, !.cells = cs, !.tail = v, !.empty = q]
    <2>1. (/\ x.ok
           /\ t # None => s \in old.seq_id /\ ~Bare(cs[t])
           /\ Bare(cx[e])) = TRUE
      BY <1>1, <1>2, <1>9
    <2> QED BY <1>10, <1>12, <2>1
  <1>14. v \in [Sequence -> Cell \cup {None}]
    BY <1>2, <1>12
  <1>15. y.cells = cs /\ y.tail = v /\ y.empty = q /\ y.ok = TRUE /\ y \in SeatSet
    BY <1>8, <1>11, <1>12, <1>13, <1>14 DEF SeatSet
  <1> QED BY <1>1, <1>8, <1>12, <1>15, Zenon DEF Moves

\* The cells that some sequences of x have.
Taken(x, done) == {x.tail[s] : s \in done}

\* When each sequence of "done" has got a cell, and d was the memory before: their cells are
\* all different; those of others are as they were, but for the sequences that have left;
TailsTo(done, d, x) ==
  /\ \A s \in Sequence \ done : x.tail[s] = d.tail[s]
  /\ \A s \in done : x.tail[s] \in Cell
  /\ \A s, t \in done : x.tail[s] = x.tail[t] => s = t

CellsTo(done, d, x) ==
  /\ \A s \in done :
       /\ \/ Bare(d.cells[x.tail[s]])
          \/ x.tail[s] = d.tail[s] /\ d.cells[x.tail[s]].seq_id \subseteq done
       /\ x.cells[x.tail[s]].seq_id = (IF d.tail[s] = None THEN {} ELSE {s})
       /\ x.cells[x.tail[s]].src = (IF d.tail[s] = None THEN d.cells[x.tail[s]].src ELSE d.tail[s])
  /\ \A i \in Cell \ Taken(x, done) :
       /\ x.cells[i].pos = d.cells[i].pos /\ x.cells[i].src = d.cells[i].src
       /\ x.cells[i].seq_id = d.cells[i].seq_id \ done
       /\ Bare(x.cells[i]) => Bare(d.cells[i])

\* and the next empty cell is the first one from "from" on that is not taken.
EmptyTo(done, d, from, x) ==
  \A c \in Cell \ Taken(x, done) : Bare(d.cells[c]) =>
     /\ x.empty \notin Taken(x, done) /\ Bare(d.cells[x.empty])
     /\ Off(from, x.empty) <= Off(from, c)
     /\ \A b \in Taken(x, done) : Bare(d.cells[b]) => Off(from, b) < Off(from, x.empty)

SeatedTo(done, d, from, x) ==
  x \in SeatSet /\ TailsTo(done, d, x) /\ CellsTo(done, d, x) /\ EmptyTo(done, d, from, x)

\* Distances seen from the cell after another one.
LEMMA OffFrom ==
  ASSUME Configured, NEW a \in Cell, NEW e \in Cell, NEW c \in Cell
  PROVE  /\ Off(a, c) \in Cell
         /\ Off(e + 1, c) = IF Off(a, c) > Off(a, e) THEN Off(a, c) - Off(a, e) - 1
                            ELSE Off(a, c) - Off(a, e) - 1 + size
         /\ Off(a, c) = Off(a, e) => c = e
  <1>1. size \in Nat \ {0} /\ Cell = 0 .. size - 1
    BY SequencesAre DEF Configured
  <1>2. a \in 0 .. size - 1 /\ e \in 0 .. size - 1 /\ c \in 0 .. size - 1
    BY <1>1
  <1> QED BY <1>1, <1>2 DEF Off

\* There is an empty cell for a sequence that has none of its own.
LEMMA EmptyFound ==
  ASSUME Configured, NEW d, Kempt(d.cells, d.tail), NEW from \in Cell,
         NEW done \in SUBSET Sequence, NEW s \in Sequence \ done,
         NEW x, SeatedTo(done, d, from, x),
         x.tail[s] # None => x.cells[x.tail[s]].seq_id # {s}
  PROVE  x.empty \in Cell \ Taken(x, done) /\ Bare(d.cells[x.empty])
  <1>1. /\ x \in SeatSet /\ x.tail \in [Sequence -> Cell \cup {None}] /\ x.empty \in Cell
        /\ x.cells \in [Cell -> CellSet]
    BY DEF SeatedTo, SeatSet
  <1>2. PICK c \in Cell : \A y \in Sequence : y # s => x.tail[y] # c
    BY <1>1, Spare
  <1>3. c \notin Taken(x, done)
    BY <1>2 DEF Taken
  <1>4. x.cells[c].seq_id = d.cells[c].seq_id \ done /\ (Bare(x.cells[c]) => Bare(d.cells[c]))
    BY <1>3 DEF SeatedTo, CellsTo
  <1>5. \A y \in x.cells[c].seq_id : y \in Sequence /\ x.tail[y] = c
    <2>1. d.cells[c].seq_id \in SUBSET Sequence /\ \A y \in Sequence : y \in d.cells[c].seq_id => d.tail[y] = c
      BY DEF Kempt, CellSet
    <2> QED BY <1>4, <2>1 DEF SeatedTo, TailsTo
  <1>6. x.cells[c].seq_id \in SUBSET {s}
    BY <1>2, <1>5
  <1>7. x.cells[c].seq_id # {s}
    <2>1. SUFFICES ASSUME x.cells[c].seq_id = {s} PROVE FALSE
      OBVIOUS
    <2>2. x.tail[s] = c /\ c # None
      BY <1>5, <2>1, SequencesAre
    <2> QED BY <2>1, <2>2
  <1>8. Bare(x.cells[c])
    BY <1>6, <1>7 DEF Bare
  <1> QED BY <1>1, <1>3, <1>4, <1>8 DEF SeatedTo, EmptyTo

\* One sequence gets its cell.
LEMMA SeatedStep ==
  ASSUME Configured, NEW d, Kempt(d.cells, d.tail), NEW from \in Cell,
         NEW done \in SUBSET Sequence, NEW s \in Sequence \ done,
         NEW x, SeatedTo(done, d, from, x)
  PROVE  SeatedTo(done \cup {s}, d, from, Place(x, s))
  <1>1. /\ x \in SeatSet /\ x.tail \in [Sequence -> Cell \cup {None}] /\ x.empty \in Cell
        /\ x.cells \in [Cell -> CellSet]
        /\ TailsTo(done, d, x) /\ CellsTo(done, d, x) /\ EmptyTo(done, d, from, x)
    BY DEF SeatedTo, SeatSet
  <1>2. /\ \A y \in Sequence, i \in Cell : y \in d.cells[i].seq_id <=> d.tail[y] = i
        /\ \A i \in Cell : d.cells[i].seq_id \in SUBSET Sequence
                           /\ (~Bare(d.cells[i]) => d.cells[i].src = i)
    BY DEF Kempt, CellSet
  <1>3. PICK t : t = x.tail[s]
    OBVIOUS
  <1>4. t = d.tail[s] /\ t \in Cell \cup {None} /\ None \notin Cell
    BY <1>1, <1>3, SequencesAre DEF TailsTo
  <1>5. t # None => /\ t \in Cell /\ t \notin Taken(x, done) /\ ~Bare(d.cells[t])
                    /\ s \in x.cells[t].seq_id /\ x.cells[t].seq_id = d.cells[t].seq_id \ done
    <2> SUFFICES ASSUME t # None
                 PROVE  /\ t \in Cell /\ t \notin Taken(x, done) /\ ~Bare(d.cells[t])
                        /\ s \in x.cells[t].seq_id /\ x.cells[t].seq_id = d.cells[t].seq_id \ done
      OBVIOUS
    <2>1. t \in Cell /\ s \in d.cells[t].seq_id /\ ~Bare(d.cells[t])
      BY <1>2, <1>4 DEF Bare
    <2>2. ASSUME NEW y \in done, x.tail[y] = t PROVE FALSE
      BY <1>1, <2>1, <2>2 DEF CellsTo
    <2>3. t \notin Taken(x, done)
      BY <2>2 DEF Taken
    <2> QED BY <1>1, <2>1, <2>3 DEF CellsTo
  <1>6. PICK new : new = done \cup {s}
    OBVIOUS
  <1>7. CASE t # None /\ x.cells[t].seq_id = {s}
    <2>1. Place(x, s) = x
      BY <1>1, <1>3, <1>7, PlaceStays
    <2>2. Taken(x, new) = Taken(x, done) \cup {t}
      BY <1>3, <1>6 DEF Taken
    <2>3. TailsTo(new, d, x)
      <3>1. \A y \in done : x.tail[y] # t
        BY <1>5, <1>7 DEF Taken
      <3> QED BY <1>1, <1>3, <1>5, <1>6, <1>7, <3>1 DEF TailsTo
    <2>4. CellsTo(new, d, x)
      <3>1. ASSUME NEW y \in new
            PROVE  /\ \/ Bare(d.cells[x.tail[y]])
                      \/ x.tail[y] = d.tail[y] /\ d.cells[x.tail[y]].seq_id \subseteq new
                   /\ x.cells[x.tail[y]].seq_id = (IF d.tail[y] = None THEN {} ELSE {y})
                   /\ x.cells[x.tail[y]].src = (IF d.tail[y] = None THEN d.cells[x.tail[y]].src ELSE d.tail[y])
        <4>1. CASE y \in done
          BY <1>1, <1>6, <4>1 DEF CellsTo
        <4>2. CASE y = s
          <5>1. d.cells[t].seq_id \subseteq new
            BY <1>5, <1>6, <1>7
          <5>2. x.cells[t].src = t
            BY <1>1, <1>2, <1>5, <1>7 DEF CellsTo
          <5> QED BY <1>3, <1>4, <1>7, <4>2, <5>1, <5>2
        <4> QED BY <1>6, <4>1, <4>2
      <3>2. ASSUME NEW i \in Cell \ Taken(x, new)
            PROVE  /\ x.cells[i].pos = d.cells[i].pos /\ x.cells[i].src = d.cells[i].src
                   /\ x.cells[i].seq_id = d.cells[i].seq_id \ new
                   /\ Bare(x.cells[i]) => Bare(d.cells[i])
        <4>1. i \in Cell \ Taken(x, done) /\ i # t
          BY <2>2
        <4>2. /\ x.cells[i].pos = d.cells[i].pos /\ x.cells[i].src = d.cells[i].src
              /\ x.cells[i].seq_id = d.cells[i].seq_id \ done
              /\ Bare(x.cells[i]) => Bare(d.cells[i])
          BY <1>1, <4>1 DEF CellsTo
        <4>3. s \notin d.cells[i].seq_id
          BY <1>2, <1>4, <4>1
        <4> QED BY <1>6, <4>2, <4>3
      <3> QED BY <3>1, <3>2 DEF CellsTo
    <2>5. EmptyTo(new, d, from, x)
      <3>1. ASSUME NEW c \in Cell \ Taken(x, new), Bare(d.cells[c])
            PROVE  /\ x.empty \notin Taken(x, new) /\ Bare(d.cells[x.empty])
                   /\ Off(from, x.empty) <= Off(from, c)
                   /\ \A b \in Taken(x, new) : Bare(d.cells[b]) => Off(from, b) < Off(from, x.empty)
        <4>1. c \in Cell \ Taken(x, done)
          BY <2>2
        <4>2. /\ x.empty \notin Taken(x, done) /\ Bare(d.cells[x.empty])
              /\ Off(from, x.empty) <= Off(from, c)
              /\ \A b \in Taken(x, done) : Bare(d.cells[b]) => Off(from, b) < Off(from, x.empty)
          BY <1>1, <3>1, <4>1 DEF EmptyTo
        <4>3. ~Bare(d.cells[t])
          BY <1>5, <1>7
        <4>4. x.empty # t
          BY <4>2, <4>3
        <4> QED BY <2>2, <4>2, <4>3, <4>4
      <3> QED BY <3>1 DEF EmptyTo
    <2> QED BY <1>1, <1>6, <2>1, <2>3, <2>4, <2>5 DEF SeatedTo
  <1>8. CASE ~(t # None /\ x.cells[t].seq_id = {s})
    <2>1. x.tail[s] # None => x.cells[x.tail[s]].seq_id # {s} /\ s \in x.cells[x.tail[s]].seq_id
      BY <1>3, <1>5, <1>8
    <2>2. PICK e : e = x.empty
      OBVIOUS
    <2>3. e \in Cell \ Taken(x, done) /\ Bare(d.cells[e])
      BY <2>1, <2>2, EmptyFound
    <2>4. /\ x.cells[e].pos = d.cells[e].pos /\ x.cells[e].src = d.cells[e].src
          /\ x.cells[e].seq_id = {} /\ e # t
      <3>1. /\ x.cells[e].pos = d.cells[e].pos /\ x.cells[e].src = d.cells[e].src
            /\ x.cells[e].seq_id = d.cells[e].seq_id \ done
        BY <1>1, <2>3 DEF CellsTo
      <3>2. d.cells[e].seq_id = {}
        BY <2>3 DEF Bare
      <3>3. t # None => t # e
        BY <1>5, <2>3
      <3> QED BY <1>4, <2>3, <3>1, <3>2, <3>3
    <2>5. Bare(x.cells[x.empty])
      BY <2>2, <2>4 DEF Bare
    <2>6. PICK y : y = Place(x, s)
      OBVIOUS
    <2>7. Moves(x, s, y)
      BY <1>1, <2>1, <2>5, <2>6, PlaceMoves
    <2>8. /\ y \in SeatSet /\ y.tail = [x.tail EXCEPT ![s] = e]
          /\ y.cells[e].seq_id = (IF t = None THEN {} ELSE {s})
          /\ y.cells[e].src = (IF t = None THEN d.cells[e].src ELSE x.cells[t].src)
          /\ \A i \in Cell : i # e /\ i # t => y.cells[i] = x.cells[i]
          /\ t # None => /\ y.cells[t].pos = x.cells[t].pos /\ y.cells[t].src = x.cells[t].src
                         /\ y.cells[t].seq_id = x.cells[t].seq_id \ {s}
          /\ y.empty = NextEmpty(y.cells, e + 1)
      BY <1>3, <2>2, <2>4, <2>7 DEF Moves
    <2>9. y.tail[s] = e /\ \A z \in Sequence : z # s => y.tail[z] = x.tail[z]
      BY <1>1, <2>8
    <2>10. Taken(y, new) = Taken(x, done) \cup {e}
      BY <1>6, <2>9 DEF Taken
    <2>11. TailsTo(new, d, y)
      <3>1. \A z \in done : x.tail[z] # e
        BY <2>3 DEF Taken
      <3>2. \A z \in done : y.tail[z] = x.tail[z] /\ z # s
        BY <2>9
      <3>3. \A z \in Sequence \ new : z # s /\ z \in Sequence \ done
        BY <1>6
      <3>4. \A a, b \in new : y.tail[a] = y.tail[b] => a = b
        BY <1>1, <1>6, <2>9, <3>1, <3>2 DEF TailsTo
      <3> QED BY <1>1, <1>6, <2>3, <2>9, <3>2, <3>3, <3>4 DEF TailsTo
    <2>12. CellsTo(new, d, y)
      <3>1. ASSUME NEW z \in new
            PROVE  /\ \/ Bare(d.cells[y.tail[z]])
                      \/ y.tail[z] = d.tail[z] /\ d.cells[y.tail[z]].seq_id \subseteq new
                   /\ y.cells[y.tail[z]].seq_id = (IF d.tail[z] = None THEN {} ELSE {z})
                   /\ y.cells[y.tail[z]].src = (IF d.tail[z] = None THEN d.cells[y.tail[z]].src ELSE d.tail[z])
        <4>1. CASE z \in done
          <5>1. y.tail[z] = x.tail[z] /\ x.tail[z] \in Taken(x, done) /\ x.tail[z] \in Cell
            BY <1>1, <2>9, <4>1 DEF Taken, TailsTo
          <5>2. x.tail[z] # e /\ x.tail[z] # t
            BY <1>4, <1>5, <2>3, <5>1
          <5>3. y.cells[y.tail[z]] = x.cells[x.tail[z]]
            BY <2>8, <5>1, <5>2
          <5>4. /\ \/ Bare(d.cells[x.tail[z]])
                   \/ x.tail[z] = d.tail[z] /\ d.cells[x.tail[z]].seq_id \subseteq done
                /\ x.cells[x.tail[z]].seq_id = (IF d.tail[z] = None THEN {} ELSE {z})
                /\ x.cells[x.tail[z]].src = (IF d.tail[z] = None THEN d.cells[x.tail[z]].src ELSE d.tail[z])
            BY <1>1, <4>1 DEF CellsTo
          <5> QED BY <1>6, <5>1, <5>3, <5>4
        <4>2. CASE z = s
          <5>1. t # None => x.cells[t].src = t
            BY <1>1, <1>2, <1>5 DEF CellsTo
          <5> QED BY <1>4, <2>3, <2>8, <2>9, <4>2, <5>1
        <4> QED BY <1>6, <4>1, <4>2
      <3>2. ASSUME NEW i \in Cell \ Taken(y, new)
            PROVE  /\ y.cells[i].pos = d.cells[i].pos /\ y.cells[i].src = d.cells[i].src
                   /\ y.cells[i].seq_id = d.cells[i].seq_id \ new
                   /\ Bare(y.cells[i]) => Bare(d.cells[i])
        <4>1. i \in Cell \ Taken(x, done) /\ i # e
          BY <2>10
        <4>2. /\ x.cells[i].pos = d.cells[i].pos /\ x.cells[i].src = d.cells[i].src
              /\ x.cells[i].seq_id = d.cells[i].seq_id \ done
              /\ Bare(x.cells[i]) => Bare(d.cells[i])
          BY <1>1, <4>1 DEF CellsTo
        <4>3. CASE i # t
          <5>1. s \notin d.cells[i].seq_id
            BY <1>2, <1>4, <4>1, <4>3
          <5> QED BY <1>6, <2>8, <4>1, <4>2, <4>3, <5>1
        <4>4. CASE i = t
          <5>1. t # None /\ x.cells[t].seq_id \ {s} # {}
            BY <1>4, <1>5, <1>8, <4>4
          <5>2. ~Bare(y.cells[i])
            BY <2>8, <4>4, <5>1 DEF Bare
          <5> QED BY <1>6, <2>8, <4>2, <4>4, <5>1, <5>2
        <4> QED BY <4>3, <4>4
      <3> QED BY <3>1, <3>2 DEF CellsTo
    <2>13. EmptyTo(new, d, from, y)
      <3>1. PICK r : r = y.empty
        OBVIOUS
      <3>2. SUFFICES ASSUME NEW c \in Cell \ Taken(y, new), Bare(d.cells[c])
                     PROVE  /\ r \notin Taken(y, new) /\ Bare(d.cells[r])
                            /\ Off(from, r) <= Off(from, c)
                            /\ \A b \in Taken(y, new) : Bare(d.cells[b]) => Off(from, b) < Off(from, r)
        BY <3>1 DEF EmptyTo
      <3>3. c \in Cell \ Taken(x, done) /\ c # e
        BY <2>10
      <3>4. /\ Off(from, e) <= Off(from, c)
            /\ \A b \in Taken(x, done) : Bare(d.cells[b]) => Off(from, b) < Off(from, e)
        BY <1>1, <2>2, <3>2, <3>3 DEF EmptyTo
      <3>5. Bare(y.cells[c])
        <4>1. y.cells[c].seq_id = d.cells[c].seq_id \ new
          BY <2>12 DEF CellsTo
        <4> QED BY <3>2, <4>1 DEF Bare
      <3>6. r \in Cell /\ Bare(y.cells[r]) /\ Off(e + 1, r) <= Off(e + 1, c)
        <4>1. e + 1 \in 0 .. size
          BY <2>3, SequencesAre DEF Configured
        <4> QED BY <2>8, <3>1, <3>5, <4>1, NextEmptyIs
      <3>7. /\ Off(from, r) \in Cell /\ Off(from, e) \in Cell /\ Off(from, c) \in Cell
            /\ Off(e + 1, r) = IF Off(from, r) > Off(from, e) THEN Off(from, r) - Off(from, e) - 1
                               ELSE Off(from, r) - Off(from, e) - 1 + size
            /\ Off(e + 1, c) = IF Off(from, c) > Off(from, e) THEN Off(from, c) - Off(from, e) - 1
                               ELSE Off(from, c) - Off(from, e) - 1 + size
            /\ Off(from, c) = Off(from, e) => c = e
        BY <2>3, <3>6, OffFrom
      <3>8. Off(from, r) > Off(from, e) /\ Off(from, r) <= Off(from, c)
        <4>1. PICK p, q, w : p = Off(from, r) /\ q = Off(from, e) /\ w = Off(from, c)
          OBVIOUS
        <4>2. /\ p \in 0 .. size - 1 /\ q \in 0 .. size - 1 /\ w \in 0 .. size - 1
              /\ size \in Nat
          BY <3>7, <4>1, SequencesAre DEF Configured
        <4>3. w # q /\ q <= w
          BY <3>3, <3>4, <3>7, <4>1
        <4>4. (IF p > q THEN p - q - 1 ELSE p - q - 1 + size) <= w - q - 1
          BY <3>6, <3>7, <4>1, <4>2, <4>3
        <4>5. p > q /\ p <= w
          BY <4>2, <4>3, <4>4
        <4> QED BY <4>1, <4>5
      <3>9. \A b \in Taken(y, new) : Bare(d.cells[b]) => b \in Cell /\ Off(from, b) <= Off(from, e)
        <4>1. \A b \in Taken(x, done) : b \in Cell
          BY <1>1 DEF Taken, TailsTo
        <4>2. \A b \in Taken(x, done) : Bare(d.cells[b]) => Off(from, b) <= Off(from, e)
          <5>1. \A b \in Cell : Off(from, b) \in Int
            BY OffFrom, SequencesAre
          <5> QED BY <2>3, <3>4, <4>1, <5>1
        <4>3. Off(from, e) <= Off(from, e)
          BY <3>7, SequencesAre
        <4> QED BY <2>3, <2>10, <4>1, <4>2, <4>3
      <3>10. \A b \in Taken(y, new) : Bare(d.cells[b]) => Off(from, b) < Off(from, r)
        <4>1. \A b \in Cell : Off(from, b) \in Int
          BY OffFrom, SequencesAre
        <4> QED BY <2>3, <3>6, <3>8, <3>9, <4>1
      <3>11. Bare(d.cells[r]) /\ r \notin Taken(y, new)
        <4>1. ASSUME r \in Taken(y, new) PROVE Bare(d.cells[r])
          <5>1. PICK z \in new : r = y.tail[z]
            BY <4>1 DEF Taken
          <5>2. y.cells[r].seq_id = {}
            BY <3>6 DEF Bare
          <5>3. d.tail[z] = None
            BY <2>12, <5>1, <5>2 DEF CellsTo
          <5>4. \/ Bare(d.cells[r]) \/ r = d.tail[z]
            BY <2>12, <5>1 DEF CellsTo
          <5> QED BY <1>4, <3>6, <5>3, <5>4
        <4>2. r \notin Taken(y, new)
          <5>1. Off(from, r) \in Int
            BY <3>7, SequencesAre
          <5>2. ~(Off(from, r) < Off(from, r))
            BY <5>1
          <5> QED BY <3>10, <4>1, <5>2
        <4>3. Bare(d.cells[r])
          BY <2>12, <3>6, <4>2 DEF CellsTo
        <4> QED BY <4>2, <4>3
      <3> QED BY <3>8, <3>10, <3>11
    <2> QED BY <1>6, <2>6, <2>8, <2>11, <2>12, <2>13 DEF SeatedTo
  <1> QED BY <1>7, <1>8

\* The sets of sequences of a ubatch.
Ubatch(u) ==
  /\ u \in Seq((SUBSET Sequence) \ {{}}) /\ Len(u) > 0
  /\ \A k, l \in 1 .. Len(u) : u[k] \cap u[l] # {} => k = l

\* The sequences that get a cell, and those that share it.
Firsts(u, n) == {Seq0(u[k]) : k \in 1 .. n}
Others(u) == UNION {u[k] \ {Seq0(u[k])} : k \in DOMAIN u}

LEMMA UbatchIs ==
  ASSUME Configured, NEW u, Ubatch(u)
  PROVE  /\ Len(u) \in Nat \ {0} /\ DOMAIN u = 1 .. Len(u)
         /\ \A k \in 1 .. Len(u) : /\ u[k] \in SUBSET Sequence /\ Seq0(u[k]) \in u[k]
                                   /\ Seq0(u[k]) \in Sequence
                                   /\ \A s \in u[k] : Seq0(u[k]) <= s
         /\ \A k, l \in 1 .. Len(u) : Seq0(u[k]) \in u[l] => k = l
         /\ \A k, l \in 1 .. Len(u) : \A s \in u[k] : s \in u[l] => k = l
         /\ Others(u) \in SUBSET Sequence
         /\ Members(u) = Firsts(u, Len(u)) \cup Others(u)
         /\ Firsts(u, Len(u)) \in SUBSET Sequence /\ Firsts(u, Len(u)) \cap Others(u) = {}
  <1>1. /\ u \in Seq((SUBSET Sequence) \ {{}}) /\ Len(u) \in Nat \ {0} /\ DOMAIN u = 1 .. Len(u)
        /\ \A k, l \in 1 .. Len(u) : u[k] \cap u[l] # {} => k = l
    BY DEF Ubatch
  <1>2. ASSUME NEW k \in 1 .. Len(u)
        PROVE  /\ u[k] \in SUBSET Sequence /\ Seq0(u[k]) \in u[k]
               /\ \A s \in u[k] : Seq0(u[k]) <= s
    <2>1. u[k] \in (SUBSET Sequence) \ {{}}
      BY <1>1
    <2>2. u[k] \in SUBSET Nat /\ u[k] # {}
      <3>1. Sequence \in SUBSET Nat
        BY SequencesAre
      <3> QED BY <2>1, <3>1
    <2> QED BY <2>1, <2>2, MinOf DEF Seq0
  <1>3. \A k, l \in 1 .. Len(u) : \A s \in u[k] : s \in u[l] => k = l
    BY <1>1
  <1>4. Others(u) \in SUBSET Sequence /\ Members(u) = Firsts(u, Len(u)) \cup Others(u)
    BY <1>1, <1>2 DEF Others, Members, Firsts
  <1>5. Firsts(u, Len(u)) \cap Others(u) = {}
    BY <1>1, <1>2, <1>3 DEF Others, Firsts
  <1>6. Firsts(u, Len(u)) \in SUBSET Sequence
    BY <1>2 DEF Firsts
  <1> QED BY <1>1, <1>2, <1>3, <1>4, <1>5, <1>6

\* Before the first of them.
LEMMA SeatedNone ==
  ASSUME Configured, NEW d, Kempt(d.cells, d.tail), NEW from \in Cell
  PROVE  SeatedTo({}, d, from, [cells |-> d.cells, tail |-> d.tail, ok |-> TRUE,
                                empty |-> NextEmpty(d.cells, from)])
  <1>1. PICK x : x = [cells |-> d.cells, tail |-> d.tail, ok |-> TRUE,
                      empty |-> NextEmpty(d.cells, from)]
    OBVIOUS
  <1>2. /\ x.empty \in Cell
        /\ \A c \in Cell : Bare(d.cells[c]) => Bare(d.cells[x.empty]) /\ Off(from, x.empty) <= Off(from, c)
    <2>1. from \in 0 .. size
      BY SequencesAre DEF Configured
    <2>2. x.empty = NextEmpty(d.cells, from)
      BY <1>1
    <2> QED BY <2>1, <2>2, NextEmptyIs
  <1>3. x \in SeatSet /\ x.cells = d.cells /\ x.tail = d.tail
    BY <1>1, <1>2 DEF SeatSet, Kempt
  <1>4. Taken(x, {}) = {}
    BY DEF Taken
  <1>5. TailsTo({}, d, x)
    BY <1>3 DEF TailsTo
  <1>6. CellsTo({}, d, x)
    <2>1. \A i \in Cell : d.cells[i].seq_id = d.cells[i].seq_id \ {}
      OBVIOUS
    <2> QED BY <1>3, <2>1 DEF CellsTo
  <1>7. EmptyTo({}, d, from, x)
    BY <1>2, <1>4 DEF EmptyTo
  <1> QED BY <1>1, <1>3, <1>5, <1>6, <1>7 DEF SeatedTo

\* All of them.
LEMMA SeatedIs ==
  ASSUME Configured, NEW m, Kempt(m.cells, m.tail), m.head \in Cell, m.used \in 0 .. size,
         NEW u, Ubatch(u)
  PROVE  \E d, from : /\ from \in Cell /\ DetachedFrom(m, Others(u), d)
                      /\ SeatedTo(Firsts(u, Len(u)), d, from, Seated(m, u))
  <1>1. PICK n, d, from : /\ n = Len(u) /\ d = Detached(m, Others(u))
                          /\ from = IF m.head > m.used + 2 * n THEN 0 ELSE m.head
    OBVIOUS
  <1>2. /\ n \in Nat \ {0} /\ Others(u) \in SUBSET Sequence
        /\ \A k \in 1 .. n : Seq0(u[k]) \in Sequence /\ Seq0(u[k]) \in u[k]
        /\ \A k, l \in 1 .. n : Seq0(u[k]) \in u[l] => k = l
    BY <1>1, UbatchIs
  <1>3. DetachedFrom(m, Others(u), d) /\ Kempt(d.cells, d.tail)
    BY <1>1, <1>2, DetachedIs DEF DetachedFrom
  <1>4. from \in Cell
    BY <1>1, SequencesAre
  <1>5. PICK x0 : x0 = [cells |-> d.cells, tail |-> d.tail, ok |-> TRUE,
                        empty |-> NextEmpty(d.cells, from)]
    OBVIOUS
  <1>6. PICK W, op : /\ W = [k \in 0 .. n |-> {x \in SeatSet : SeatedTo(Firsts(u, k), d, from, x)}]
                     /\ op = [k \in 1 .. n |-> [x \in SeatSet |-> Place(x, Seq0(u[k]))]]
    OBVIOUS
  <1>7. x0 \in W[0]
    <2>1. Firsts(u, 0) = {}
      BY DEF Firsts
    <2>2. SeatedTo({}, d, from, x0)
      BY <1>3, <1>4, <1>5, SeatedNone
    <2>3. 0 \in 0 .. n
      BY <1>2
    <2> QED BY <1>6, <2>1, <2>2, <2>3 DEF SeatedTo
  <1>8. ASSUME NEW k \in 1 .. n, NEW x \in W[k - 1] PROVE op[k][x] \in W[k]
    <2>1. k \in 0 .. n /\ k - 1 \in 0 .. n /\ k - 1 \in Nat
      BY <1>2
    <2>2. x \in SeatSet /\ SeatedTo(Firsts(u, k - 1), d, from, x)
      BY <1>6, <2>1
    <2>3. \A j \in 1 .. k - 1 : j \in 1 .. n /\ j # k
      BY <1>2
    <2>4. Firsts(u, k - 1) \in SUBSET Sequence /\ Seq0(u[k]) \in Sequence \ Firsts(u, k - 1)
      BY <1>2, <2>3 DEF Firsts
    <2>5. Firsts(u, k) = Firsts(u, k - 1) \cup {Seq0(u[k])}
      <3>1. \A j : j \in 1 .. k <=> j \in 1 .. k - 1 \/ j = k
        BY <1>2
      <3> QED BY <3>1 DEF Firsts
    <2>6. SeatedTo(Firsts(u, k), d, from, Place(x, Seq0(u[k])))
      BY <1>3, <1>4, <2>2, <2>4, <2>5, SeatedStep
    <2>7. op[k][x] = Place(x, Seq0(u[k]))
      BY <1>6, <2>2
    <2> QED BY <1>6, <2>1, <2>6, <2>7 DEF SeatedTo
  <1>9. PICK f : Turns(f, n, W, x0, op)
    BY <1>2, <1>7, <1>8, LoopExists
  <1>10. f = [k \in 0 .. n |-> IF k = 0 THEN x0 ELSE Place(f[k - 1], Seq0(u[k]))]
    <2>1. ASSUME NEW k \in 0 .. n, k # 0 PROVE op[k][f[k - 1]] = Place(f[k - 1], Seq0(u[k]))
      <3>1. k \in 1 .. n /\ k - 1 \in 0 .. n
        BY <1>2, <2>1
      <3>2. f[k - 1] \in SeatSet
        BY <1>6, <1>9, <3>1 DEF Turns
      <3> QED BY <1>6, <3>1, <3>2
    <2> QED BY <1>9, <2>1, Zenon DEF Turns
  <1>11. ASSUME NEW g, g = [k \in 0 .. n |-> IF k = 0 THEN x0 ELSE Place(g[k - 1], Seq0(u[k]))]
         PROVE  g[n] = f[n]
    <2>1. g[0] = f[0]
      BY <1>2, <1>10, <1>11
    <2>2. ASSUME NEW k \in 1 .. n, g[k - 1] = f[k - 1] PROVE g[k] = f[k]
      <3>1. k \in 0 .. n /\ k # 0
        BY <1>2
      <3> QED BY <1>10, <1>11, <2>2, <3>1, Zenon
    <2> QED BY <1>2, <2>1, <2>2, SameLoop
  <1>12. Seated(m, u) = f[n]
    <2>1. Seated(m, u) = For(LAMBDA x, k : Place(x, Seq0(u[k])), x0, n)
      BY <1>1, <1>5, Zenon DEF Seated, Others
    <2> QED BY <1>10, <1>11, <2>1, Zenon DEF For
  <1>13. f[n] \in W[n] /\ n \in 0 .. n
    BY <1>2, <1>9 DEF Turns
  <1>14. SeatedTo(Firsts(u, n), d, from, Seated(m, u))
    BY <1>6, <1>12, <1>13
  <1> QED BY <1>1, <1>3, <1>4, <1>14

----------------------------------------------------------------------------
(* The cells of the ubatch are made neighbours *)

PairSet == [cells : [Cell -> CellSet], tail : [Sequence -> Cell \cup {None}]]

\* The cells of y are those of x, p says which; they are the same outside lo .. hi.
Permuted(x, y, p, lo, hi) ==
  /\ p \in [Cell -> Cell] /\ \A i, j \in Cell : p[i] = p[j] => i = j
  /\ \A i \in Cell : IF i \in lo .. hi THEN p[i] \in lo .. hi ELSE p[i] = i
  /\ \A i \in Cell : y.cells[i] = x.cells[p[i]]
  /\ \A s \in Sequence : /\ y.tail[s] = None <=> x.tail[s] = None
                         /\ y.tail[s] # None => p[y.tail[s]] = x.tail[s]

\* The cells a and b of y have been exchanged.
SwappedTo(y, a, b, z) ==
  /\ z \in PairSet
  /\ \A s \in Sequence : /\ y.tail[s] = a => z.tail[s] = b
                         /\ y.tail[s] = b => z.tail[s] = a
                         /\ y.tail[s] # a /\ y.tail[s] # b => z.tail[s] = y.tail[s]

LEMMA SwapIs ==
  ASSUME Configured, NEW x, NEW y \in PairSet, NEW p, NEW lo, NEW hi, Permuted(x, y, p, lo, hi),
         NEW a \in Cell, NEW b \in Cell, a \in lo .. hi, b \in lo .. hi, a # b
  PROVE  /\ SwappedTo(y, a, b, SwapCells(y, a, b))
         /\ \E q : Permuted(x, SwapCells(y, a, b), q, lo, hi)
  <1>1. /\ y.cells \in [Cell -> CellSet] /\ y.tail \in [Sequence -> Cell \cup {None}]
        /\ None \notin Cell
    BY SequencesAre DEF PairSet
  <1>2. PICK z, cs, t : /\ z = SwapCells(y, a, b)
                        /\ cs = [y.cells EXCEPT ![a] = y.cells[b], ![b] = y.cells[a]]
                        /\ t = [s \in Sequence |-> CASE y.tail[s] = a -> b
                                                     [] y.tail[s] = b -> a
                                                     [] OTHER -> y.tail[s]]
    OBVIOUS
  <1>3. z = [y EXCEPT !.cells = cs, !.tail = t]
    BY <1>2 DEF SwapCells, PairSet
  <1>4. /\ cs \in [Cell -> CellSet] /\ cs[a] = y.cells[b] /\ cs[b] = y.cells[a]
        /\ \A i \in Cell : i # a /\ i # b => cs[i] = y.cells[i]
    BY <1>1, <1>2
  <1>5. \A s \in Sequence : /\ y.tail[s] = a => t[s] = b
                            /\ y.tail[s] = b => t[s] = a
                            /\ y.tail[s] # a /\ y.tail[s] # b => t[s] = y.tail[s]
    BY <1>2
  <1>6. t \in [Sequence -> Cell \cup {None}]
    <2>1. \A s \in Sequence : t[s] \in Cell \cup {None}
      BY <1>1, <1>5
    <2> QED BY <1>2, <2>1
  <1>7. z.cells = cs /\ z.tail = t /\ z \in PairSet
    BY <1>3, <1>4, <1>6 DEF PairSet
  <1>8. PICK q : q = [p EXCEPT ![a] = p[b], ![b] = p[a]]
    OBVIOUS
  <1>9. /\ p \in [Cell -> Cell] /\ \A i, j \in Cell : p[i] = p[j] => i = j
        /\ \A i \in Cell : IF i \in lo .. hi THEN p[i] \in lo .. hi ELSE p[i] = i
        /\ \A i \in Cell : y.cells[i] = x.cells[p[i]]
        /\ \A s \in Sequence : /\ y.tail[s] = None <=> x.tail[s] = None
                               /\ y.tail[s] # None => p[y.tail[s]] = x.tail[s]
    BY DEF Permuted
  <1>10. /\ q \in [Cell -> Cell] /\ q[a] = p[b] /\ q[b] = p[a]
         /\ \A i \in Cell : i # a /\ i # b => q[i] = p[i]
    BY <1>8, <1>9
  <1>11. \A i, j \in Cell : q[i] = q[j] => i = j
    BY <1>9, <1>10
  <1>12. \A i \in Cell : IF i \in lo .. hi THEN q[i] \in lo .. hi ELSE q[i] = i
    BY <1>9, <1>10
  <1>13. \A i \in Cell : z.cells[i] = x.cells[q[i]]
    BY <1>4, <1>7, <1>9, <1>10
  <1>14. \A s \in Sequence : /\ z.tail[s] = None <=> x.tail[s] = None
                             /\ z.tail[s] # None => q[z.tail[s]] = x.tail[s]
    <2> TAKE s \in Sequence
    <2>1. CASE y.tail[s] = a
      BY <1>1, <1>5, <1>7, <1>9, <1>10, <2>1
    <2>2. CASE y.tail[s] = b
      BY <1>1, <1>5, <1>7, <1>9, <1>10, <2>2
    <2>3. CASE y.tail[s] # a /\ y.tail[s] # b
      <3>1. z.tail[s] = y.tail[s]
        BY <1>5, <1>7, <2>3
      <3>2. y.tail[s] # None => y.tail[s] \in Cell /\ q[y.tail[s]] = p[y.tail[s]]
        BY <1>1, <1>10, <2>3
      <3> QED BY <1>9, <3>1, <3>2
    <2> QED BY <2>1, <2>2, <2>3
  <1>15. Permuted(x, z, q, lo, hi)
    BY <1>10, <1>11, <1>12, <1>13, <1>14 DEF Permuted
  <1>16. SwappedTo(y, a, b, z)
    BY <1>5, <1>7 DEF SwappedTo
  <1> QED BY <1>2, <1>15, <1>16

GatheredTo(x, u, lo, hi, k, y) ==
  /\ y \in PairSet /\ \E p : Permuted(x, y, p, lo, hi)
  /\ \A j \in 1 .. k : y.tail[Seq0(u[j])] = lo + j - 1

\* What a round of the loop makes of y.
Brought(y, u, lo, k) ==
  LET t == y.tail[Seq0(u[k])] IN IF t = lo + k - 1 THEN y ELSE SwapCells(y, lo + k - 1, t)

\* Apart means: each sequence of the ubatch has a cell of its own in lo .. hi.
Apart(x, u, lo, hi) ==
  /\ x \in PairSet /\ lo \in Cell /\ hi \in Cell /\ Len(u) <= hi - lo + 1
  /\ \A k \in 1 .. Len(u) : x.tail[Seq0(u[k])] \in lo .. hi
  /\ \A k, l \in 1 .. Len(u) : x.tail[Seq0(u[k])] = x.tail[Seq0(u[l])] => k = l

LEMMA BroughtIs ==
  ASSUME Configured, NEW u, Ubatch(u), NEW x, NEW lo, NEW hi, Apart(x, u, lo, hi),
         NEW k \in 1 .. Len(u), NEW y, GatheredTo(x, u, lo, hi, k - 1, y)
  PROVE  GatheredTo(x, u, lo, hi, k, Brought(y, u, lo, k))
  <1>1. /\ lo \in Cell /\ hi \in Cell /\ Len(u) \in Nat /\ Len(u) <= hi - lo + 1
        /\ Cell = 0 .. size - 1 /\ size \in Nat /\ None \notin Cell
        /\ \A j \in 1 .. Len(u) : Seq0(u[j]) \in Sequence /\ x.tail[Seq0(u[j])] \in lo .. hi
        /\ \A j \in 1 .. Len(u) : x.tail[Seq0(u[k])] = x.tail[Seq0(u[j])] => k = j
    BY UbatchIs, SequencesAre DEF Apart, Configured
  <1>2. PICK p : Permuted(x, y, p, lo, hi)
    BY DEF GatheredTo
  <1>3. y \in PairSet /\ \A j \in 1 .. k - 1 : y.tail[Seq0(u[j])] = lo + j - 1
    BY DEF GatheredTo
  <1>4. PICK a, t : a = lo + k - 1 /\ t = y.tail[Seq0(u[k])]
    OBVIOUS
  <1>5. a \in Cell /\ a \in lo .. hi
    BY <1>1, <1>4
  <1>6. t \in Cell /\ t \in lo .. hi
    <2>1. PICK o : o = x.tail[Seq0(u[k])]
      OBVIOUS
    <2>2. o \in lo .. hi /\ o \in Cell
      BY <1>1, <2>1
    <2>3. t \in Cell \cup {None} /\ t # None /\ p[t] = o
      BY <1>1, <1>2, <1>3, <1>4, <2>1, <2>2 DEF Permuted, PairSet
    <2> QED BY <1>2, <2>2, <2>3 DEF Permuted
  <1>7. \A j \in 1 .. k - 1 : y.tail[Seq0(u[j])] # a /\ y.tail[Seq0(u[j])] # t
    <2> TAKE j \in 1 .. k - 1
    <2>1. j \in 1 .. Len(u) /\ j # k
      BY <1>1
    <2>2. y.tail[Seq0(u[j])] # a
      BY <1>1, <1>3, <1>4
    <2>3. ASSUME y.tail[Seq0(u[j])] = t PROVE FALSE
      <3>a. \A s \in Sequence : y.tail[s] # None => p[y.tail[s]] = x.tail[s]
        BY <1>2 DEF Permuted
      <3>b. Seq0(u[j]) \in Sequence /\ Seq0(u[k]) \in Sequence /\ t # None
        BY <1>1, <1>6, <2>1
      <3>1. x.tail[Seq0(u[j])] = p[t] /\ x.tail[Seq0(u[k])] = p[t]
        BY <1>4, <2>3, <3>a, <3>b
      <3> QED BY <1>1, <2>1, <3>1
    <2> QED BY <2>2, <2>3
  <1>8. \A j \in 1 .. k : j = k \/ j \in 1 .. k - 1
    BY <1>1
  <1>9. CASE t = a
    <2>1. Brought(y, u, lo, k) = y
      BY <1>4, <1>9 DEF Brought
    <2> QED BY <1>2, <1>3, <1>4, <1>8, <1>9, <2>1 DEF GatheredTo
  <1>10. CASE t # a
    <2>1. PICK z : z = SwapCells(y, a, t)
      OBVIOUS
    <2>2. Brought(y, u, lo, k) = z
      BY <1>4, <1>10, <2>1 DEF Brought
    <2>c. SwappedTo(y, a, t, z) /\ \E q : Permuted(x, z, q, lo, hi)
      <3>1. y \in PairSet /\ Permuted(x, y, p, lo, hi)
        BY <1>2, <1>3
      <3>2. a \in Cell /\ t \in Cell /\ a \in lo .. hi /\ t \in lo .. hi /\ a # t
        BY <1>5, <1>6, <1>10
      <3> QED BY <2>1, <3>1, <3>2, SwapIs
    <2>3. /\ z \in PairSet
          /\ \E q : Permuted(x, z, q, lo, hi)
          /\ \A s \in Sequence :
               /\ y.tail[s] = a => z.tail[s] = t
               /\ y.tail[s] = t => z.tail[s] = a
               /\ y.tail[s] # a /\ y.tail[s] # t => z.tail[s] = y.tail[s]
      BY <2>c DEF SwappedTo
    <2>4. z.tail[Seq0(u[k])] = a
      BY <1>1, <1>4, <1>10, <2>3
    <2>5. \A j \in 1 .. k - 1 : z.tail[Seq0(u[j])] = lo + j - 1
      <3> TAKE j \in 1 .. k - 1
      <3>1. j \in 1 .. Len(u)
        BY <1>1
      <3>2. Seq0(u[j]) \in Sequence
        BY <1>1, <3>1
      <3>3. z.tail[Seq0(u[j])] = y.tail[Seq0(u[j])]
        BY <1>7, <2>3, <3>2
      <3> QED BY <1>3, <3>3
    <2> QED BY <1>4, <1>8, <2>2, <2>3, <2>4, <2>5 DEF GatheredTo
  <1> QED BY <1>9, <1>10

LEMMA GatherIs ==
  ASSUME Configured, NEW u, Ubatch(u), NEW x, NEW lo, NEW hi, Apart(x, u, lo, hi)
  PROVE  GatheredTo(x, u, lo, hi, Len(u), Gather(x, u, lo))
  <1>1. PICK n : n = Len(u)
    OBVIOUS
  <1>2. n \in Nat \ {0} /\ x \in PairSet
    BY <1>1, UbatchIs DEF Apart
  <1>3. PICK W, op : /\ W = [k \in 0 .. n |-> {y \in PairSet : GatheredTo(x, u, lo, hi, k, y)}]
                     /\ op = [k \in 1 .. n |-> [y \in PairSet |-> Brought(y, u, lo, k)]]
    OBVIOUS
  <1>4. x \in W[0]
    <2>1. PICK p : p = [i \in Cell |-> i]
      OBVIOUS
    <2>2. p \in [Cell -> Cell] /\ \A i \in Cell : p[i] = i
      BY <2>1
    <2>3. \A s \in Sequence : x.tail[s] # None => x.tail[s] \in Cell
      BY <1>2 DEF PairSet
    <2>4. Permuted(x, x, p, lo, hi)
      BY <2>2, <2>3 DEF Permuted
    <2>5. GatheredTo(x, u, lo, hi, 0, x)
      BY <1>2, <2>4 DEF GatheredTo
    <2>6. 0 \in 0 .. n
      BY <1>2
    <2> QED BY <1>2, <1>3, <2>5, <2>6
  <1>5. ASSUME NEW k \in 1 .. n, NEW y \in W[k - 1] PROVE op[k][y] \in W[k]
    <2>1. k \in 0 .. n /\ k - 1 \in 0 .. n
      BY <1>2
    <2>2. y \in PairSet /\ GatheredTo(x, u, lo, hi, k - 1, y)
      BY <1>3, <2>1
    <2>3. GatheredTo(x, u, lo, hi, k, Brought(y, u, lo, k))
      BY <1>1, <2>2, BroughtIs
    <2>4. op[k][y] = Brought(y, u, lo, k)
      BY <1>3, <2>2
    <2> QED BY <1>3, <2>1, <2>3, <2>4 DEF GatheredTo
  <1>6. PICK f : Turns(f, n, W, x, op)
    BY <1>2, <1>4, <1>5, LoopExists
  <1>7. f = [k \in 0 .. n |-> IF k = 0 THEN x ELSE Brought(f[k - 1], u, lo, k)]
    <2>1. ASSUME NEW k \in 0 .. n, k # 0 PROVE op[k][f[k - 1]] = Brought(f[k - 1], u, lo, k)
      <3>1. k \in 1 .. n /\ k - 1 \in 0 .. n
        BY <1>2, <2>1
      <3>2. f[k - 1] \in PairSet
        BY <1>3, <1>6, <3>1 DEF Turns
      <3> QED BY <1>3, <3>1, <3>2
    <2> QED BY <1>6, <2>1, Zenon DEF Turns
  <1>8. ASSUME NEW g, g = [k \in 0 .. n |-> IF k = 0 THEN x ELSE Brought(g[k - 1], u, lo, k)]
        PROVE  g[n] = f[n]
    <2>1. g[0] = f[0]
      BY <1>2, <1>7, <1>8
    <2>2. ASSUME NEW k \in 1 .. n, g[k - 1] = f[k - 1] PROVE g[k] = f[k]
      <3>1. k \in 0 .. n /\ k # 0
        BY <1>2
      <3> QED BY <1>7, <1>8, <2>2, <3>1, Zenon
    <2> QED BY <1>2, <2>1, <2>2, SameLoop
  <1>9. Gather(x, u, lo) = f[n]
    <2>1. Gather(x, u, lo) = For(LAMBDA y, k : Brought(y, u, lo, k), x, n)
      BY <1>1, Zenon DEF Gather, Brought
    <2> QED BY <1>7, <1>8, <2>1, Zenon DEF For
  <1>10. f[n] \in W[n] /\ n \in 0 .. n
    BY <1>2, <1>6 DEF Turns
  <1> QED BY <1>1, <1>3, <1>9, <1>10

----------------------------------------------------------------------------
(* What find_slot() does *)

\* A row that no sequence of m has its state in, and that is empty, or none at all.
Untouched(m, r) == r = None \/ (r \in Cell /\ Bare(m.cells[r]) /\ m.cells[r].src = r)

\* The cells x when each set of the ubatch has its own: the sources say where the
\* states were in m, and the other cells have lost the sequences of the ubatch.
Seats(m, u, x) ==
  /\ x.cells \in [Cell -> CellSet] /\ x.tail \in [Sequence -> Cell \cup {None}]
  /\ \A k \in 1 .. Len(u) :
       /\ x.tail[Seq0(u[k])] \in Cell
       /\ \A l \in 1 .. Len(u) : x.tail[Seq0(u[k])] = x.tail[Seq0(u[l])] => k = l
       /\ IF m.tail[Seq0(u[k])] = None THEN Untouched(m, x.cells[x.tail[Seq0(u[k])]].src)
                                       ELSE x.cells[x.tail[Seq0(u[k])]].src = m.tail[Seq0(u[k])]
  /\ \A s \in Sequence \ Members(u) :
       x.tail[s] = m.tail[s] /\ \A k \in 1 .. Len(u) : x.tail[s] # x.tail[Seq0(u[k])]
  /\ \A c \in Cell : (\A k \in 1 .. Len(u) : c # x.tail[Seq0(u[k])]) =>
       /\ x.cells[c].seq_id = m.cells[c].seq_id \ Members(u)
       /\ Bare(x.cells[c]) <=> x.cells[c].pos = -1
       /\ x.cells[c].src \in {None, c}
       /\ IF Bare(x.cells[c]) THEN Untouched(m, x.cells[c].src)
                              ELSE x.cells[c].src = c /\ x.cells[c].pos = m.cells[c].pos

LEMMA SeatsAre ==
  ASSUME Configured, NEW m, Kempt(m.cells, m.tail), NEW u, Ubatch(u), NEW d,
         DetachedFrom(m, Others(u), d), NEW from, NEW x, SeatedTo(Firsts(u, Len(u)), d, from, x)
  PROVE  Seats(m, u, x)
  <1>1. PICK n, F : n = Len(u) /\ F = Firsts(u, n)
    OBVIOUS
  <1>2. /\ \A k \in 1 .. n : Seq0(u[k]) \in Sequence /\ Seq0(u[k]) \in F
        /\ \A k, l \in 1 .. n : Seq0(u[k]) = Seq0(u[l]) => k = l
        /\ F \in SUBSET Sequence /\ Members(u) = F \cup Others(u) /\ F \cap Others(u) = {}
    <2>1. \A k, l \in 1 .. n : Seq0(u[k]) = Seq0(u[l]) => k = l
      BY <1>1, UbatchIs
    <2> QED BY <1>1, <2>1, UbatchIs DEF Firsts
  <1>3. x \in SeatSet /\ TailsTo(F, d, x) /\ CellsTo(F, d, x)
    BY <1>1 DEF SeatedTo
  <1>4. /\ Kempt(d.cells, d.tail)
        /\ \A s \in Sequence : d.tail[s] = IF s \in Others(u) THEN None ELSE m.tail[s]
        /\ \A i \in Cell :
             /\ d.cells[i].seq_id = m.cells[i].seq_id \ Others(u)
             /\ ~Bare(d.cells[i]) => d.cells[i].pos = m.cells[i].pos
             /\ Bare(d.cells[i]) /\ d.cells[i].src = i => Bare(m.cells[i]) /\ m.cells[i].src = i
    BY DEF DetachedFrom
  <1>5. /\ \A s \in Sequence, i \in Cell : s \in d.cells[i].seq_id <=> d.tail[s] = i
        /\ \A i \in Cell : /\ Bare(d.cells[i]) <=> d.cells[i].pos = -1
                           /\ d.cells[i].src \in {None, i} /\ (~Bare(d.cells[i]) => d.cells[i].src = i)
    BY <1>4 DEF Kempt
  <1>6. \A i \in Cell : Bare(d.cells[i]) => Untouched(m, d.cells[i].src)
    BY <1>4, <1>5 DEF Untouched
  <1>7. /\ x.cells \in [Cell -> CellSet] /\ x.tail \in [Sequence -> Cell \cup {None}]
        /\ None \notin Cell
    BY <1>3, SequencesAre DEF SeatSet
  <1>8. ASSUME NEW k \in 1 .. n
        PROVE  /\ x.tail[Seq0(u[k])] \in Cell
               /\ \A l \in 1 .. n : x.tail[Seq0(u[k])] = x.tail[Seq0(u[l])] => k = l
               /\ IF m.tail[Seq0(u[k])] = None THEN Untouched(m, x.cells[x.tail[Seq0(u[k])]].src)
                                               ELSE x.cells[x.tail[Seq0(u[k])]].src = m.tail[Seq0(u[k])]
    <2>1. PICK s, c : s = Seq0(u[k]) /\ c = x.tail[s]
      OBVIOUS
    <2>2. s \in F /\ s \in Sequence /\ s \notin Others(u) /\ c \in Cell /\ d.tail[s] = m.tail[s]
      BY <1>2, <1>3, <1>4, <2>1 DEF TailsTo
    <2>3. \A l \in 1 .. n : c = x.tail[Seq0(u[l])] => k = l
      BY <1>2, <1>3, <2>1, <2>2 DEF TailsTo
    <2>4. /\ Bare(d.cells[c]) \/ c = d.tail[s]
          /\ x.cells[c].src = (IF d.tail[s] = None THEN d.cells[c].src ELSE d.tail[s])
      BY <1>3, <2>1, <2>2 DEF CellsTo
    <2>5. IF m.tail[s] = None THEN Untouched(m, x.cells[c].src) ELSE x.cells[c].src = m.tail[s]
      BY <1>6, <1>7, <2>2, <2>4
    <2> QED BY <2>1, <2>2, <2>3, <2>5
  <1>9. ASSUME NEW s \in Sequence \ Members(u)
        PROVE  x.tail[s] = m.tail[s] /\ \A k \in 1 .. n : x.tail[s] # x.tail[Seq0(u[k])]
    <2>1. s \notin F /\ s \notin Others(u)
      BY <1>2
    <2>2. x.tail[s] = d.tail[s] /\ d.tail[s] = m.tail[s]
      BY <1>3, <1>4, <2>1 DEF TailsTo
    <2>3. ASSUME NEW k \in 1 .. n, x.tail[s] = x.tail[Seq0(u[k])] PROVE FALSE
      <3>1. PICK z, c : z = Seq0(u[k]) /\ c = x.tail[z]
        OBVIOUS
      <3>2. z \in F /\ c \in Cell
        BY <1>2, <1>8, <3>1
      <3>3. s \in d.cells[c].seq_id
        BY <1>5, <2>2, <2>3, <3>1, <3>2
      <3>4. Bare(d.cells[c]) \/ d.cells[c].seq_id \subseteq F
        BY <1>3, <3>1, <3>2 DEF CellsTo
      <3> QED BY <2>1, <3>3, <3>4 DEF Bare
    <2> QED BY <2>2, <2>3
  <1>10. ASSUME NEW c \in Cell, \A k \in 1 .. n : c # x.tail[Seq0(u[k])]
         PROVE  /\ x.cells[c].seq_id = m.cells[c].seq_id \ Members(u)
                /\ Bare(x.cells[c]) <=> x.cells[c].pos = -1
                /\ x.cells[c].src \in {None, c}
                /\ IF Bare(x.cells[c]) THEN Untouched(m, x.cells[c].src)
                                       ELSE x.cells[c].src = c /\ x.cells[c].pos = m.cells[c].pos
    <2>1. c \notin Taken(x, F)
      BY <1>1, <1>10 DEF Taken, Firsts
    <2>2. /\ x.cells[c].pos = d.cells[c].pos /\ x.cells[c].src = d.cells[c].src
          /\ x.cells[c].seq_id = d.cells[c].seq_id \ F
          /\ Bare(x.cells[c]) => Bare(d.cells[c])
      BY <1>3, <2>1 DEF CellsTo
    <2>3. x.cells[c].seq_id = m.cells[c].seq_id \ Members(u)
      BY <1>2, <1>4, <2>2
    <2>4. Bare(d.cells[c]) => Bare(x.cells[c])
      BY <2>2 DEF Bare
    <2> QED BY <1>4, <1>5, <1>6, <2>2, <2>3, <2>4
  <1> QED BY <1>1, <1>7, <1>8, <1>9, <1>10, Zenon DEF Seats

\* The cells of the ubatch lie between two cells, with room for all of them.
TailsOf(x, u) == {x.tail[Seq0(u[k])] : k \in DOMAIN u}

LEMMA WindowIs ==
  ASSUME Configured, NEW m, NEW u, Ubatch(u), NEW x, Seats(m, u, x)
  PROVE  /\ Cardinality(TailsOf(x, u)) = Len(u)
         /\ Apart([cells |-> x.cells, tail |-> x.tail], u, Min(TailsOf(x, u)), Max(TailsOf(x, u)))
  <1>a. PICK tails : tails = TailsOf(x, u)
    OBVIOUS
  <1>b. tails = {x.tail[Seq0(u[k])] : k \in DOMAIN u}
    BY <1>a DEF TailsOf
  <1>1. PICK n : n = Len(u)
    OBVIOUS
  <1>2. n \in Nat \ {0} /\ DOMAIN u = 1 .. n
    BY <1>1, UbatchIs
  <1>3. /\ \A k \in 1 .. n : x.tail[Seq0(u[k])] \in Cell
        /\ \A k, l \in 1 .. n : x.tail[Seq0(u[k])] = x.tail[Seq0(u[l])] => k = l
        /\ [cells |-> x.cells, tail |-> x.tail] \in PairSet
    BY <1>1 DEF Seats, PairSet
  <1>4. tails \in SUBSET Cell /\ tails # {}
    <2>1. 1 \in 1 .. n
      BY <1>2
    <2> QED BY <1>b, <1>2, <1>3, <2>1
  <1>5. Cell = 0 .. size - 1 /\ size \in Nat \ {0} /\ Cell \in SUBSET Nat /\ IsFiniteSet(Cell)
    BY SequencesAre DEF Configured
  <1>6. Cardinality(tails) = n
    <2>1. PICK f : f = [k \in 1 .. n |-> x.tail[Seq0(u[k])]]
      OBVIOUS
    <2>2. \A k \in 1 .. n : f[k] = x.tail[Seq0(u[k])] /\ f[k] \in tails
      BY <1>b, <1>2, <2>1
    <2>3. f \in Surjection(1 .. n, tails)
      <3>1. \A t \in tails : \E k \in 1 .. n : f[k] = t
        BY <1>b, <1>2, <2>2
      <3> QED BY <2>1, <2>2, <3>1 DEF Surjection
    <2>4. f \in Injection(1 .. n, tails)
      <3>1. \A k, l \in 1 .. n : f[k] = f[l] => k = l
        BY <1>3, <2>2
      <3> QED BY <2>1, <2>2, <3>1 DEF Injection, IsInjective
    <2>5. IsFiniteSet(1 .. n) /\ Cardinality(1 .. n) = n
      BY <1>2, Interval
    <2> QED BY <2>3, <2>4, <2>5, FS_Surjection
  <1>7. PICK lo, hi : lo = Min(tails) /\ hi = Max(tails)
    OBVIOUS
  <1>8. lo \in tails /\ hi \in tails /\ \A t \in tails : lo <= t /\ t <= hi
    <2>1. lo \in tails /\ \A t \in tails : lo <= t
      <3>1. tails \in SUBSET Nat
        BY <1>4, <1>5
      <3> QED BY <1>4, <1>7, <3>1, MinOf
    <2>2. hi \in tails /\ \A t \in tails : hi >= t
      <3>1. tails \in SUBSET (-1 .. size) /\ size \in Nat
        <4>1. 0 .. size - 1 \in SUBSET (-1 .. size)
          BY <1>5
        <4> QED BY <1>4, <1>5, <4>1
      <3> QED BY <1>4, <1>7, <3>1, MaxOf
    <2>3. \A t \in tails : t \in Nat
      BY <1>4, <1>5
    <2> QED BY <2>1, <2>2, <2>3
  <1>9. lo \in Cell /\ hi \in Cell /\ lo \in Nat /\ hi \in Nat
    BY <1>4, <1>5, <1>8
  <1>10. tails \in SUBSET (lo .. hi)
    <2>1. ASSUME NEW t \in tails PROVE t \in lo .. hi
      <3>1. t \in Nat
        BY <1>4, <1>5
      <3>2. lo <= t /\ t <= hi /\ lo \in Nat /\ hi \in Nat
        BY <1>8, <1>9
      <3> QED BY <3>1, <3>2
    <2> QED BY <2>1
  <1>11. n <= hi - lo + 1
    <2>1. IsFiniteSet(lo .. hi) /\ Cardinality(lo .. hi) = IF lo > hi THEN 0 ELSE hi - lo + 1
      BY <1>9, FS_Interval
    <2>2. Cardinality(tails) <= Cardinality(lo .. hi)
      BY <1>10, <2>1, FS_Subset
    <2>3. lo <= hi
      BY <1>8
    <2>4. ~(lo > hi)
      BY <1>9, <2>3
    <2> QED BY <1>6, <2>1, <2>2, <2>4
  <1>12. \A k \in 1 .. n : x.tail[Seq0(u[k])] \in lo .. hi
    BY <1>b, <1>2, <1>10
  <1> QED BY <1>a, <1>1, <1>3, <1>6, <1>7, <1>9, <1>11, <1>12 DEF Apart

\* The cells of the ubatch get its sequences and positions.
LEMMA OccupyIs ==
  ASSUME Configured, NEW g \in PairSet, NEW u, Ubatch(u), NEW lo \in Cell, lo + Len(u) - 1 \in Cell,
         NEW last \in [1 .. Len(u) -> 0 .. conf.len - 1]
  PROVE  LET w == Occupy(g, u, lo, last) IN
         /\ w.cells \in [Cell -> CellSet] /\ w.tail \in [Sequence -> Cell \cup {None}]
         /\ \A k \in 1 .. Len(u) :
              /\ w.cells[lo + k - 1].seq_id = u[k] /\ w.cells[lo + k - 1].pos = last[k]
              /\ w.cells[lo + k - 1].src = g.cells[lo + k - 1].src
              /\ \A s \in u[k] : w.tail[s] = lo + k - 1
         /\ \A i \in Cell \ (lo .. lo + Len(u) - 1) : w.cells[i] = g.cells[i]
         /\ \A s \in Sequence \ Members(u) : w.tail[s] = g.tail[s]
  <1>1. PICK w, n : w = Occupy(g, u, lo, last) /\ n = Len(u)
    OBVIOUS
  <1>2. /\ n \in Nat \ {0} /\ DOMAIN u = 1 .. n /\ size \in Nat \ {0} /\ conf.len \in Nat
        /\ Cell = 0 .. size - 1 /\ lo \in 0 .. size - 1 /\ lo + n - 1 \in 0 .. size - 1
        /\ \A k \in 1 .. n : u[k] \in SUBSET Sequence
        /\ \A k, l \in 1 .. n : \A s \in u[k] : s \in u[l] => k = l
    BY <1>1, UbatchIs, SequencesAre DEF Configured
  <1>3. g.cells \in [Cell -> CellSet] /\ g.tail \in [Sequence -> Cell \cup {None}]
    BY DEF PairSet
  <1>4. /\ w.cells = [i \in Cell |-> IF i - lo + 1 \in 1 .. n
                                     THEN [g.cells[i] EXCEPT !.pos = last[i - lo + 1], !.seq_id = u[i - lo + 1]]
                                     ELSE g.cells[i]]
        /\ w.tail = [s \in Sequence |-> IF \E j \in 1 .. n : s \in u[j]
                                        THEN lo - 1 + (CHOOSE j \in 1 .. n : s \in u[j])
                                        ELSE g.tail[s]]
    BY <1>1 DEF Occupy, PairSet
  <1>5. ASSUME NEW k \in 1 .. n
        PROVE  /\ w.cells[lo + k - 1] \in CellSet
               /\ w.cells[lo + k - 1].seq_id = u[k] /\ w.cells[lo + k - 1].pos = last[k]
               /\ w.cells[lo + k - 1].src = g.cells[lo + k - 1].src
    <2>1. PICK i : i = lo + k - 1
      OBVIOUS
    <2>2. i \in Cell /\ i - lo + 1 = k
      BY <1>2, <2>1
    <2>3. PICK a : a = g.cells[i]
      OBVIOUS
    <2>4. w.cells[i] = [a EXCEPT !.pos = last[k], !.seq_id = u[k]] /\ a \in CellSet
      BY <1>3, <1>4, <2>2, <2>3
    <2>5. last[k] \in -1 .. conf.len - 1 /\ u[k] \in SUBSET Sequence
      <3>1. last[k] \in 0 .. conf.len - 1
        BY <1>1
      <3> QED BY <1>2, <3>1
    <2> QED BY <2>1, <2>3, <2>4, <2>5 DEF CellSet
  <1>6. ASSUME NEW i \in Cell \ (lo .. lo + n - 1) PROVE w.cells[i] = g.cells[i]
    <2>1. ~(i - lo + 1 \in 1 .. n)
      BY <1>2
    <2> QED BY <1>4, <2>1
  <1>7. \A i \in lo .. lo + n - 1 : \E k \in 1 .. n : i = lo + k - 1
    <2> TAKE i \in lo .. lo + n - 1
    <2>1. i - lo + 1 \in 1 .. n /\ i = lo + (i - lo + 1) - 1
      BY <1>2
    <2> QED BY <2>1
  <1>8. w.cells \in [Cell -> CellSet]
    <2>1. \A i \in Cell : w.cells[i] \in CellSet
      BY <1>3, <1>5, <1>6, <1>7
    <2> QED BY <1>4, <2>1
  <1>9. ASSUME NEW k \in 1 .. n, NEW s \in u[k] PROVE w.tail[s] = lo + k - 1
    <2>1. s \in Sequence /\ \A j \in 1 .. n : s \in u[j] => j = k
      BY <1>2
    <2>2. (CHOOSE j \in 1 .. n : s \in u[j]) = k
      BY <2>1
    <2>3. w.tail[s] = lo - 1 + k
      BY <1>4, <2>1, <2>2
    <2> QED BY <1>2, <2>3
  <1>10. ASSUME NEW s \in Sequence \ Members(u) PROVE w.tail[s] = g.tail[s]
    <2>1. ~\E j \in 1 .. n : s \in u[j]
      BY <1>2 DEF Members
    <2> QED BY <1>4, <2>1
  <1>11. w.tail \in [Sequence -> Cell \cup {None}]
    <2>1. ASSUME NEW s \in Sequence PROVE w.tail[s] \in Cell \cup {None}
      <3>1. CASE s \in Members(u)
        <4>1. PICK k \in 1 .. n : s \in u[k]
          BY <1>2, <3>1 DEF Members
        <4>2. lo + k - 1 \in Cell
          BY <1>2
        <4> QED BY <1>9, <4>1, <4>2
      <3>2. CASE s \notin Members(u)
        BY <1>3, <1>10, <3>2
      <3> QED BY <3>1, <3>2
    <2> QED BY <1>4, <2>1
  <1> QED BY <1>1, <1>5, <1>6, <1>8, <1>9, <1>10, <1>11, Zenon

\* The memory w after that: which state of m is where.
Refit(m, u, last, lo, hi, w) ==
  /\ w.cells \in [Cell -> CellSet] /\ w.tail \in [Sequence -> Cell \cup {None}]
  /\ lo \in Cell /\ hi \in Cell /\ lo + Len(u) - 1 <= hi
  /\ \A k \in 1 .. Len(u) :
       /\ w.cells[lo + k - 1].seq_id = u[k] /\ w.cells[lo + k - 1].pos = last[k]
       /\ IF m.tail[Seq0(u[k])] = None THEN Untouched(m, w.cells[lo + k - 1].src)
                                       ELSE w.cells[lo + k - 1].src = m.tail[Seq0(u[k])]
       /\ \A s \in u[k] : w.tail[s] = lo + k - 1
  /\ \A s \in Sequence \ Members(u) :
       /\ w.tail[s] = None <=> m.tail[s] = None
       /\ w.tail[s] # None =>
            /\ w.tail[s] \notin lo .. lo + Len(u) - 1
            /\ w.cells[w.tail[s]].pos = m.cells[m.tail[s]].pos
            /\ w.cells[w.tail[s]].seq_id = m.cells[m.tail[s]].seq_id \ Members(u)
            /\ w.cells[w.tail[s]].src = m.tail[s]
            /\ w.tail[s] \in lo .. hi \/ w.tail[s] = m.tail[s]
  /\ \A i \in Cell \ (lo .. lo + Len(u) - 1) :
       /\ \A s \in w.cells[i].seq_id : s \notin Members(u) /\ w.tail[s] = i
       /\ Bare(w.cells[i]) <=> w.cells[i].pos = -1
       /\ Bare(w.cells[i]) => Untouched(m, w.cells[i].src)
       /\ i \in lo .. hi \/ w.cells[i].src \in {None, i}

LEMMA RefitIs ==
  ASSUME Configured, NEW m, Kempt(m.cells, m.tail), NEW u, Ubatch(u), NEW x, Seats(m, u, x),
         NEW lo, NEW hi, Apart([cells |-> x.cells, tail |-> x.tail], u, lo, hi),
         NEW last \in [1 .. Len(u) -> 0 .. conf.len - 1]
  PROVE  Refit(m, u, last, lo, hi, Occupy(Gather([cells |-> x.cells, tail |-> x.tail], u, lo), u, lo, last))
  <1>1. PICK n, y, g, w : /\ n = Len(u) /\ y = [cells |-> x.cells, tail |-> x.tail]
                          /\ g = Gather(y, u, lo) /\ w = Occupy(g, u, lo, last)
    OBVIOUS
  <1>2. /\ n \in Nat \ {0} /\ DOMAIN u = 1 .. n
        /\ \A k \in 1 .. n : Seq0(u[k]) \in Sequence /\ Seq0(u[k]) \in u[k]
    BY <1>1, UbatchIs
  <1>3. lo \in Cell /\ hi \in Cell /\ n <= hi - lo + 1
    BY <1>1 DEF Apart
  <1>4. Cell = 0 .. size - 1 /\ size \in Nat /\ None \notin Cell
    BY SequencesAre DEF Configured
  <1>5. lo + n - 1 \in Cell /\ lo + n - 1 <= hi
    BY <1>2, <1>3, <1>4
  <1>6. GatheredTo(y, u, lo, hi, n, g)
    BY <1>1, GatherIs
  <1>7. PICK p : Permuted(y, g, p, lo, hi)
    BY <1>6 DEF GatheredTo
  <1>8. /\ p \in [Cell -> Cell] /\ \A i, j \in Cell : p[i] = p[j] => i = j
        /\ \A i \in Cell : IF i \in lo .. hi THEN p[i] \in lo .. hi ELSE p[i] = i
        /\ \A i \in Cell : g.cells[i] = x.cells[p[i]]
        /\ \A s \in Sequence : /\ g.tail[s] = None <=> x.tail[s] = None
                               /\ g.tail[s] # None => p[g.tail[s]] = x.tail[s]
    BY <1>1, <1>7 DEF Permuted
  <1>9. g \in PairSet /\ \A k \in 1 .. n : g.tail[Seq0(u[k])] = lo + k - 1
    BY <1>6 DEF GatheredTo
  <1>10. /\ w.cells \in [Cell -> CellSet] /\ w.tail \in [Sequence -> Cell \cup {None}]
         /\ \A k \in 1 .. n :
              /\ w.cells[lo + k - 1].seq_id = u[k] /\ w.cells[lo + k - 1].pos = last[k]
              /\ w.cells[lo + k - 1].src = g.cells[lo + k - 1].src
              /\ \A s \in u[k] : w.tail[s] = lo + k - 1
         /\ \A i \in Cell \ (lo .. lo + n - 1) : w.cells[i] = g.cells[i]
         /\ \A s \in Sequence \ Members(u) : w.tail[s] = g.tail[s]
    BY <1>1, <1>3, <1>5, <1>9, OccupyIs
  <1>11. /\ x.cells \in [Cell -> CellSet] /\ x.tail \in [Sequence -> Cell \cup {None}]
         /\ \A k \in 1 .. n :
              /\ x.tail[Seq0(u[k])] \in Cell
              /\ IF m.tail[Seq0(u[k])] = None THEN Untouched(m, x.cells[x.tail[Seq0(u[k])]].src)
                                              ELSE x.cells[x.tail[Seq0(u[k])]].src = m.tail[Seq0(u[k])]
         /\ \A s \in Sequence \ Members(u) :
              x.tail[s] = m.tail[s] /\ \A k \in 1 .. n : x.tail[s] # x.tail[Seq0(u[k])]
         /\ \A c \in Cell : (\A k \in 1 .. n : c # x.tail[Seq0(u[k])]) =>
              /\ x.cells[c].seq_id = m.cells[c].seq_id \ Members(u)
              /\ Bare(x.cells[c]) <=> x.cells[c].pos = -1
              /\ x.cells[c].src \in {None, c}
              /\ IF Bare(x.cells[c]) THEN Untouched(m, x.cells[c].src)
                                     ELSE x.cells[c].src = c /\ x.cells[c].pos = m.cells[c].pos
    BY <1>1 DEF Seats
  <1>12. /\ \A s \in Sequence, i \in Cell : s \in m.cells[i].seq_id <=> m.tail[s] = i
         /\ m.cells \in [Cell -> CellSet] /\ m.tail \in [Sequence -> Cell \cup {None}]
    BY DEF Kempt
  \* The cells of the ubatch.
  <1>13. ASSUME NEW k \in 1 .. n
         PROVE  /\ lo + k - 1 \in Cell /\ p[lo + k - 1] = x.tail[Seq0(u[k])]
                /\ IF m.tail[Seq0(u[k])] = None THEN Untouched(m, w.cells[lo + k - 1].src)
                                                ELSE w.cells[lo + k - 1].src = m.tail[Seq0(u[k])]
    <2>1. PICK s, i : s = Seq0(u[k]) /\ i = lo + k - 1
      OBVIOUS
    <2>2. i \in Cell /\ s \in Sequence
      BY <1>2, <1>3, <1>4, <1>5, <2>1
    <2>3. g.tail[s] = i /\ i # None
      BY <1>4, <1>9, <2>1, <2>2
    <2>4. p[i] = x.tail[s]
      BY <1>8, <2>2, <2>3
    <2>5. w.cells[i].src = x.cells[x.tail[s]].src
      BY <1>8, <1>10, <2>1, <2>2, <2>4
    <2>6. IF m.tail[s] = None THEN Untouched(m, x.cells[x.tail[s]].src)
                              ELSE x.cells[x.tail[s]].src = m.tail[s]
      BY <1>11, <2>1
    <2> QED BY <2>1, <2>2, <2>4, <2>5, <2>6
  \* Other cells.
  <1>14. ASSUME NEW i \in Cell \ (lo .. lo + n - 1)
         PROVE  /\ p[i] \in Cell /\ w.cells[i] = x.cells[p[i]]
                /\ \A k \in 1 .. n : p[i] # x.tail[Seq0(u[k])]
    <2>1. ASSUME NEW k \in 1 .. n, p[i] = x.tail[Seq0(u[k])] PROVE FALSE
      <3>1. i = lo + k - 1
        BY <1>8, <1>13, <2>1
      <3> QED BY <1>2, <1>3, <1>4, <3>1
    <2> QED BY <1>8, <1>10, <2>1
  <1>15. ASSUME NEW s \in Sequence \ Members(u)
         PROVE  /\ w.tail[s] = None <=> m.tail[s] = None
                /\ w.tail[s] # None => /\ w.tail[s] \in Cell \ (lo .. lo + n - 1)
                                       /\ p[w.tail[s]] = m.tail[s]
    <2>1. /\ w.tail[s] = g.tail[s] /\ x.tail[s] = m.tail[s]
          /\ \A k \in 1 .. n : x.tail[s] # x.tail[Seq0(u[k])]
      BY <1>10, <1>11
    <2>2. /\ w.tail[s] = None <=> m.tail[s] = None
          /\ w.tail[s] # None => p[w.tail[s]] = m.tail[s] /\ w.tail[s] \in Cell
      BY <1>8, <1>10, <2>1
    <2>3. ASSUME w.tail[s] # None, w.tail[s] \in lo .. lo + n - 1 PROVE FALSE
      <3>1. PICK i : i = w.tail[s]
        OBVIOUS
      <3>2. i - lo + 1 \in 1 .. n /\ i = lo + (i - lo + 1) - 1
        BY <1>2, <1>3, <1>4, <2>3, <3>1
      <3>3. PICK k \in 1 .. n : i = lo + k - 1
        BY <3>2
      <3>4. p[i] = x.tail[Seq0(u[k])]
        BY <1>13, <3>3
      <3> QED BY <2>1, <2>2, <2>3, <3>1, <3>4
    <2> QED BY <2>2, <2>3
  <1>16. ASSUME NEW s \in Sequence \ Members(u), w.tail[s] # None
         PROVE  /\ w.cells[w.tail[s]].pos = m.cells[m.tail[s]].pos
                /\ w.cells[w.tail[s]].seq_id = m.cells[m.tail[s]].seq_id \ Members(u)
                /\ w.cells[w.tail[s]].src = m.tail[s]
                /\ w.tail[s] \in lo .. hi \/ w.tail[s] = m.tail[s]
    <2>1. PICK i, c : i = w.tail[s] /\ c = m.tail[s]
      OBVIOUS
    <2>2. i \in Cell \ (lo .. lo + n - 1) /\ p[i] = c /\ c \in Cell
      BY <1>8, <1>15, <1>16, <2>1
    <2>3. /\ w.cells[i] = x.cells[c]
          /\ \A k \in 1 .. n : c # x.tail[Seq0(u[k])]
      BY <1>14, <2>2
    <2>4. x.cells[c].seq_id = m.cells[c].seq_id \ Members(u) /\ s \in m.cells[c].seq_id
      BY <1>11, <1>12, <2>1, <2>2, <2>3
    <2>5. ~Bare(x.cells[c])
      BY <2>4 DEF Bare
    <2>6. x.cells[c].src = c /\ x.cells[c].pos = m.cells[c].pos
      BY <1>11, <2>2, <2>3, <2>5
    <2>7. i \in lo .. hi \/ i = c
      BY <1>8, <2>2
    <2> QED BY <2>1, <2>3, <2>4, <2>6, <2>7
  <1>17. ASSUME NEW i \in Cell \ (lo .. lo + n - 1)
         PROVE  /\ \A s \in w.cells[i].seq_id : s \notin Members(u) /\ w.tail[s] = i
                /\ Bare(w.cells[i]) <=> w.cells[i].pos = -1
                /\ Bare(w.cells[i]) => Untouched(m, w.cells[i].src)
                /\ i \in lo .. hi \/ w.cells[i].src \in {None, i}
    <2>1. PICK c : c = p[i]
      OBVIOUS
    <2>2. /\ c \in Cell /\ w.cells[i] = x.cells[c]
          /\ x.cells[c].seq_id = m.cells[c].seq_id \ Members(u)
          /\ Bare(x.cells[c]) <=> x.cells[c].pos = -1
          /\ x.cells[c].src \in {None, c}
          /\ Bare(x.cells[c]) => Untouched(m, x.cells[c].src)
      BY <1>11, <1>14, <2>1
    <2>3. ASSUME NEW s \in w.cells[i].seq_id PROVE s \notin Members(u) /\ w.tail[s] = i
      <3>1. m.cells[c].seq_id \in SUBSET Sequence
        BY <1>12, <2>2 DEF CellSet
      <3>2. s \in Sequence \ Members(u) /\ s \in m.cells[c].seq_id
        BY <2>2, <2>3, <3>1
      <3>3. m.tail[s] = c /\ c # None
        BY <1>4, <1>12, <2>2, <3>2
      <3>4. w.tail[s] \in Cell /\ p[w.tail[s]] = p[i]
        BY <1>15, <2>1, <3>2, <3>3
      <3> QED BY <1>8, <3>2, <3>4
    <2>4. i \in lo .. hi \/ c = i
      BY <1>8, <2>1
    <2> QED BY <2>2, <2>3, <2>4
  <1>18. \A k \in 1 .. n :
           /\ w.cells[lo + k - 1].seq_id = u[k] /\ w.cells[lo + k - 1].pos = last[k]
           /\ IF m.tail[Seq0(u[k])] = None THEN Untouched(m, w.cells[lo + k - 1].src)
                                           ELSE w.cells[lo + k - 1].src = m.tail[Seq0(u[k])]
           /\ \A s \in u[k] : w.tail[s] = lo + k - 1
    BY <1>10, <1>13
  <1>19. \A s \in Sequence \ Members(u) :
           /\ w.tail[s] = None <=> m.tail[s] = None
           /\ w.tail[s] # None =>
                /\ w.tail[s] \notin lo .. lo + n - 1
                /\ w.cells[w.tail[s]].pos = m.cells[m.tail[s]].pos
                /\ w.cells[w.tail[s]].seq_id = m.cells[m.tail[s]].seq_id \ Members(u)
                /\ w.cells[w.tail[s]].src = m.tail[s]
                /\ w.tail[s] \in lo .. hi \/ w.tail[s] = m.tail[s]
    BY <1>15, <1>16
  <1>20. Refit(m, u, last, lo, hi, w)
    BY <1>1, <1>3, <1>5, <1>10, <1>17, <1>18, <1>19, Zenon DEF Refit
  <1> QED BY <1>1, <1>20

\* When a cell has no source some row is the source of no cell: those outside the window
\* have their sources outside.
LEMMA ZeroIs ==
  ASSUME Configured, NEW c \in [Cell -> CellSet], NEW lo \in Cell, NEW hi \in Cell,
         \A j \in Cell : j \in lo .. hi \/ c[j].src \in {None, j},
         NEW b \in lo .. hi, c[b].src < 0
  PROVE  \E i \in lo .. hi : \A j \in Cell : c[j].src # i
  <1> SUFFICES ASSUME \A i \in lo .. hi : \E j \in Cell : c[j].src = i PROVE FALSE
    OBVIOUS
  <1>1. Cell = 0 .. size - 1 /\ size \in Nat /\ IsFiniteSet(Cell) /\ None \notin Cell
    BY SequencesAre DEF Configured
  <1>2. PICK W : W = lo .. hi
    OBVIOUS
  <1>3. W \in SUBSET Cell /\ IsFiniteSet(W) /\ \A i \in W : i \in Nat
    <2>1. W \in SUBSET Cell /\ \A i \in W : i \in Nat
      BY <1>1, <1>2
    <2> QED BY <1>1, <2>1, FS_Subset
  <1>4. ASSUME NEW i \in W PROVE \E j \in W : c[j].src = i
    <2>1. PICK j \in Cell : c[j].src = i
      BY <1>2
    <2>2. i \in Cell /\ i # None
      BY <1>1, <1>3
    <2> QED BY <1>2, <2>1, <2>2
  <1> DEFINE from(i) == CHOOSE j \in W : c[j].src = i
             h == [i \in W |-> from(i)]
  <1>5. \A i \in W : from(i) \in W /\ c[from(i)].src = i
    BY <1>4
  <1>6. h \in Injection(W, W) /\ \A i \in W : c[h[i]].src = i
    <2> HIDE DEF from
    <2>1. h \in [W -> W] /\ \A i \in W : h[i] = from(i)
      BY <1>5
    <2> HIDE DEF h
    <2>2. \A i \in W : c[h[i]].src = i
      BY <1>5, <2>1
    <2>3. \A i, j \in W : h[i] = h[j] => i = j
      BY <2>2
    <2> QED BY <2>1, <2>2, <2>3 DEF Injection, IsInjective
  <1> HIDE DEF h
  <1>7. h \in Surjection(W, W)
    BY <1>3, <1>6, FS_Injection
  <1>8. PICK i \in W : h[i] = b
    BY <1>2, <1>7 DEF Surjection
  <1>9. c[b].src = i /\ i \in Nat
    BY <1>3, <1>6, <1>8
  <1> QED BY <1>9

\* A row that is empty when the states are copied: the zero row, or one that was not used.
BlankRow(m, f, r) == (r = f.zero /\ r # None) \/ (r # None /\ Untouched(m, r))

\* Each sequence of the ubatch is in its cell, others are in theirs or have been moved
\* within the window; and src0 says where the states were.
Found(m, u, last, f) ==
  /\ f.ok /\ Kempt(f.cells, f.tail)
  /\ f.min \in Cell /\ f.max \in Cell /\ f.min + Len(u) - 1 <= f.max
  /\ f.head = f.min /\ f.rs_idx = m.rs_idx /\ f.used = Cardinality({i \in Cell : ~Bare(f.cells[i])})
  /\ f.zero = None \/ f.zero \in f.min .. f.max
  /\ \A k \in 1 .. Len(u) :
       /\ f.cells[f.min + k - 1].seq_id = u[k] /\ f.cells[f.min + k - 1].pos = last[k]
       /\ IF m.tail[Seq0(u[k])] = None
          THEN BlankRow(m, f, f.src0[f.min + k - 1])
          ELSE f.src0[f.min + k - 1] = m.tail[Seq0(u[k])] /\ m.tail[Seq0(u[k])] # f.zero
       /\ \A s \in u[k] : f.tail[s] = f.min + k - 1
  /\ \A s \in Sequence \ Members(u) :
       /\ f.tail[s] = None <=> m.tail[s] = None
       /\ f.tail[s] # None =>
            /\ f.tail[s] \notin f.min .. f.min + Len(u) - 1
            /\ f.cells[f.tail[s]].pos = m.cells[m.tail[s]].pos
            /\ f.cells[f.tail[s]].seq_id = m.cells[m.tail[s]].seq_id \ Members(u)
            /\ IF f.tail[s] \in f.min .. f.max
               THEN f.src0[f.tail[s]] = m.tail[s] /\ m.tail[s] # f.zero
               ELSE f.tail[s] = m.tail[s]
  /\ \A i \in Cell : Bare(f.cells[i]) =>
       /\ i \notin f.min .. f.min + Len(u) - 1
       /\ IF i \in f.min .. f.max THEN BlankRow(m, f, f.src0[i])
                                  ELSE f.cells[i].src = i => Untouched(m, i)

\* The sources are set, and a row is found for the cells that have none.
Sourced(m0, w, min, max, seated, each) ==
  LET free   == {i \in min .. max : \A j \in Cell : w.cells[j].src # i}
      zero   == IF free = {} THEN None ELSE Min(free)
      bare   == {i \in min .. max : w.cells[i].src < 0}
  IN [cells |-> [i \in Cell |-> IF i \in min .. max THEN [w.cells[i] EXCEPT !.src = i]
                                                    ELSE w.cells[i]],
      tail |-> w.tail, head |-> min,
      used |-> Cardinality({i \in Cell : ~Bare(w.cells[i])}), rs_idx |-> m0.rs_idx,
      min |-> min, max |-> max, zero |-> zero,
      src0 |-> [i \in min .. max |-> IF i \in bare THEN zero ELSE w.cells[i].src],
      ok |-> seated /\ each /\ (bare # {} => zero # None)]

LEMMA SourcedIs ==
  ASSUME Configured, NEW m, Kempt(m.cells, m.tail), NEW u, Ubatch(u), NEW lo, NEW hi,
         NEW last \in [1 .. Len(u) -> 0 .. conf.len - 1], NEW w, Refit(m, u, last, lo, hi, w)
  PROVE  Found(m, u, last, Sourced(m, w, lo, hi, TRUE, TRUE))
  <1>1. PICK n, f, free, zero, bare :
          /\ n = Len(u) /\ f = Sourced(m, w, lo, hi, TRUE, TRUE)
          /\ free = {i \in lo .. hi : \A j \in Cell : w.cells[j].src # i}
          /\ zero = IF free = {} THEN None ELSE Min(free)
          /\ bare = {i \in lo .. hi : w.cells[i].src < 0}
    OBVIOUS
  <1>2. /\ n \in Nat \ {0} /\ DOMAIN u = 1 .. n /\ size \in Nat /\ Cell = 0 .. size - 1
        /\ None \notin Cell /\ None = -1
        /\ \A k \in 1 .. n : Seq0(u[k]) \in Sequence /\ u[k] \in SUBSET Sequence /\ Seq0(u[k]) \in u[k]
    BY <1>1, UbatchIs, SequencesAre DEF Configured, None
  <1>3. /\ w.cells \in [Cell -> CellSet] /\ w.tail \in [Sequence -> Cell \cup {None}]
        /\ lo \in Cell /\ hi \in Cell /\ lo + n - 1 <= hi
        /\ \A k \in 1 .. n :
             /\ w.cells[lo + k - 1].seq_id = u[k] /\ w.cells[lo + k - 1].pos = last[k]
             /\ IF m.tail[Seq0(u[k])] = None THEN Untouched(m, w.cells[lo + k - 1].src)
                                             ELSE w.cells[lo + k - 1].src = m.tail[Seq0(u[k])]
             /\ \A s \in u[k] : w.tail[s] = lo + k - 1
        /\ \A s \in Sequence \ Members(u) :
             /\ w.tail[s] = None <=> m.tail[s] = None
             /\ w.tail[s] # None =>
                  /\ w.tail[s] \notin lo .. lo + n - 1
                  /\ w.cells[w.tail[s]].pos = m.cells[m.tail[s]].pos
                  /\ w.cells[w.tail[s]].seq_id = m.cells[m.tail[s]].seq_id \ Members(u)
                  /\ w.cells[w.tail[s]].src = m.tail[s]
                  /\ w.tail[s] \in lo .. hi \/ w.tail[s] = m.tail[s]
        /\ \A i \in Cell \ (lo .. lo + n - 1) :
             /\ \A s \in w.cells[i].seq_id : s \notin Members(u) /\ w.tail[s] = i
             /\ Bare(w.cells[i]) <=> w.cells[i].pos = -1
             /\ Bare(w.cells[i]) => Untouched(m, w.cells[i].src)
             /\ i \in lo .. hi \/ w.cells[i].src \in {None, i}
    BY <1>1, Zenon DEF Refit
  <1>4. /\ \A s \in Sequence, i \in Cell : s \in m.cells[i].seq_id <=> m.tail[s] = i
        /\ m.tail \in [Sequence -> Cell \cup {None}]
    BY DEF Kempt
  <1>5. /\ \A i \in lo .. lo + n - 1 : i \in Cell /\ i \in lo .. hi /\ \E k \in 1 .. n : i = lo + k - 1
        /\ \A k \in 1 .. n : lo + k - 1 \in lo .. lo + n - 1
        /\ lo .. hi \in SUBSET Cell /\ lo .. hi \in SUBSET Nat
    <2>1. \A i \in lo .. lo + n - 1 : i - lo + 1 \in 1 .. n /\ i = lo + (i - lo + 1) - 1
      BY <1>2, <1>3
    <2>2. /\ \A k \in 1 .. n : lo + k - 1 \in lo .. lo + n - 1
          /\ lo .. hi \in SUBSET Cell /\ lo .. hi \in SUBSET Nat
          /\ \A i \in lo .. lo + n - 1 : i \in Cell /\ i \in lo .. hi
      BY <1>2, <1>3
    <2> QED BY <2>1, <2>2
  <1>6. \A j \in Cell : w.cells[j].src \in Cell \cup {None} /\ w.cells[j] \in CellSet
    BY <1>3 DEF CellSet
  <1>7. bare # {} => free # {}
    <2>1. SUFFICES ASSUME NEW b \in bare PROVE free # {}
      OBVIOUS
    <2>2. \A j \in Cell : j \in lo .. hi \/ w.cells[j].src \in {None, j}
      BY <1>3, <1>5
    <2>3. b \in lo .. hi /\ w.cells[b].src < 0
      BY <1>1, <2>1
    <2>4. \E i \in lo .. hi : \A j \in Cell : w.cells[j].src # i
      <3>1. w.cells \in [Cell -> CellSet] /\ lo \in Cell /\ hi \in Cell
        BY <1>3
      <3> QED BY <2>2, <2>3, <3>1, ZeroIs
    <2> QED BY <1>1, <2>4
  <1>8. /\ zero = None \/ zero \in lo .. hi
        /\ zero # None <=> free # {}
        /\ \A j \in Cell : w.cells[j].src # None => w.cells[j].src # zero
    <2>1. free # {} => zero \in free
      <3>1. free \in SUBSET Nat
        BY <1>1, <1>5
      <3> QED BY <1>1, <3>1, MinOf
    <2>2. free = {} => zero = None
      BY <1>1
    <2>3. zero \in free => zero \in Cell /\ zero # None
      BY <1>1, <1>2, <1>5
    <2> QED BY <1>1, <2>1, <2>2, <2>3
  <1>9. bare # {} => zero # None
    BY <1>7, <1>8
  <1>10. /\ f.cells = [i \in Cell |-> IF i \in lo .. hi THEN [w.cells[i] EXCEPT !.src = i] ELSE w.cells[i]]
         /\ f.tail = w.tail /\ f.head = lo /\ f.min = lo /\ f.max = hi /\ f.zero = zero
         /\ f.used = Cardinality({i \in Cell : ~Bare(w.cells[i])}) /\ f.rs_idx = m.rs_idx
         /\ f.src0 = [i \in lo .. hi |-> IF i \in bare THEN zero ELSE w.cells[i].src]
         /\ f.ok = (TRUE /\ TRUE /\ (bare # {} => zero # None))
    BY <1>1, Zenon DEF Sourced
  <1>11. f.ok
    BY <1>9, <1>10
  <1>12. \A i \in Cell : /\ f.cells[i] \in CellSet
                         /\ f.cells[i].pos = w.cells[i].pos /\ f.cells[i].seq_id = w.cells[i].seq_id
                         /\ f.cells[i].src = IF i \in lo .. hi THEN i ELSE w.cells[i].src
    <2> TAKE i \in Cell
    <2>1. PICK a : a = w.cells[i]
      OBVIOUS
    <2>2. a \in CellSet /\ f.cells[i] = IF i \in lo .. hi THEN [a EXCEPT !.src = i] ELSE a
      BY <1>6, <1>10, <2>1
    <2> QED BY <2>1, <2>2 DEF CellSet
  <1>13. \A i \in Cell : Bare(f.cells[i]) <=> Bare(w.cells[i])
    BY <1>12 DEF Bare
  <1>14. {i \in Cell : ~Bare(f.cells[i])} = {i \in Cell : ~Bare(w.cells[i])}
    BY <1>13
  \* Where the states were.
  <1>15. ASSUME NEW i \in lo .. hi
         PROVE  /\ w.cells[i].src = None => f.src0[i] = zero /\ zero # None
                /\ w.cells[i].src # None => f.src0[i] = w.cells[i].src /\ w.cells[i].src # zero
    <2>1. i \in Cell /\ w.cells[i].src \in Cell \cup {None}
      BY <1>5, <1>6
    <2>2. i \in bare <=> w.cells[i].src = None
      BY <1>1, <1>2, <2>1
    <2> QED BY <1>8, <1>9, <1>10, <2>1, <2>2
  <1>16. \A i \in lo .. hi : Untouched(m, w.cells[i].src) => BlankRow(m, f, f.src0[i])
    BY <1>10, <1>15 DEF BlankRow
  <1>17. \A s \in Sequence : m.tail[s] # None => m.tail[s] \in Cell
    BY <1>4
  <1>18. ASSUME NEW k \in 1 .. n
         PROVE  /\ f.cells[lo + k - 1].seq_id = u[k] /\ f.cells[lo + k - 1].pos = last[k]
                /\ IF m.tail[Seq0(u[k])] = None
                   THEN BlankRow(m, f, f.src0[lo + k - 1])
                   ELSE f.src0[lo + k - 1] = m.tail[Seq0(u[k])] /\ m.tail[Seq0(u[k])] # f.zero
                /\ \A s \in u[k] : f.tail[s] = lo + k - 1
    <2>1. PICK i : i = lo + k - 1
      OBVIOUS
    <2>2. i \in Cell /\ i \in lo .. hi
      BY <1>5, <2>1
    <2>3. /\ w.cells[i].seq_id = u[k] /\ w.cells[i].pos = last[k]
          /\ IF m.tail[Seq0(u[k])] = None THEN Untouched(m, w.cells[i].src)
                                          ELSE w.cells[i].src = m.tail[Seq0(u[k])]
          /\ \A s \in u[k] : w.tail[s] = i
      BY <1>3, <2>1
    <2>4. IF m.tail[Seq0(u[k])] = None
          THEN BlankRow(m, f, f.src0[i])
          ELSE f.src0[i] = m.tail[Seq0(u[k])] /\ m.tail[Seq0(u[k])] # f.zero
      BY <1>10, <1>15, <1>16, <2>2, <2>3
    <2> QED BY <1>10, <1>12, <2>1, <2>2, <2>3, <2>4
  <1>19. ASSUME NEW s \in Sequence \ Members(u)
         PROVE  /\ f.tail[s] = None <=> m.tail[s] = None
                /\ f.tail[s] # None =>
                     /\ f.tail[s] \notin lo .. lo + n - 1
                     /\ f.cells[f.tail[s]].pos = m.cells[m.tail[s]].pos
                     /\ f.cells[f.tail[s]].seq_id = m.cells[m.tail[s]].seq_id \ Members(u)
                     /\ IF f.tail[s] \in lo .. hi
                        THEN f.src0[f.tail[s]] = m.tail[s] /\ m.tail[s] # f.zero
                        ELSE f.tail[s] = m.tail[s]
    <2>1. PICK i, c : i = w.tail[s] /\ c = m.tail[s]
      OBVIOUS
    <2>2. f.tail[s] = i /\ (i = None <=> c = None)
      BY <1>3, <1>10, <2>1
    <2>3. CASE i = None
      BY <2>1, <2>2, <2>3
    <2>4. CASE i # None
      <3>1. /\ i \notin lo .. lo + n - 1
            /\ w.cells[i].pos = m.cells[c].pos
            /\ w.cells[i].seq_id = m.cells[c].seq_id \ Members(u)
            /\ w.cells[i].src = c
            /\ i \in lo .. hi \/ i = c
        BY <1>3, <2>1, <2>4
      <3>2. i \in Cell /\ c # None
        BY <1>3, <2>1, <2>2, <2>4
      <3>3. i \in lo .. hi => f.src0[i] = c /\ c # f.zero
        BY <1>10, <1>15, <3>1, <3>2
      <3> QED BY <1>12, <2>1, <2>2, <3>1, <3>2, <3>3
    <2> QED BY <2>3, <2>4
  <1>20. ASSUME NEW i \in Cell, Bare(f.cells[i])
         PROVE  /\ i \notin lo .. lo + n - 1
                /\ IF i \in lo .. hi THEN BlankRow(m, f, f.src0[i])
                                     ELSE f.cells[i].src = i => Untouched(m, i)
    <2>1. Bare(w.cells[i])
      BY <1>13, <1>20
    <2>2. i \notin lo .. lo + n - 1
      <3>1. ASSUME NEW k \in 1 .. n, i = lo + k - 1 PROVE FALSE
        <4>1. w.cells[i].seq_id = u[k] /\ Seq0(u[k]) \in u[k]
          BY <1>2, <1>3, <3>1
        <4> QED BY <2>1, <4>1 DEF Bare
      <3> QED BY <1>5, <3>1
    <2>3. Untouched(m, w.cells[i].src)
      BY <1>3, <2>1, <2>2
    <2> QED BY <1>12, <1>16, <2>2, <2>3
  <1>21. Kempt(f.cells, f.tail)
    <2>1. f.cells \in [Cell -> CellSet] /\ f.tail \in [Sequence -> Cell \cup {None}]
      BY <1>3, <1>10, <1>12
    <2>2. ASSUME NEW s \in Sequence, NEW i \in Cell PROVE s \in f.cells[i].seq_id <=> f.tail[s] = i
      <3>1. f.cells[i].seq_id = w.cells[i].seq_id /\ f.tail[s] = w.tail[s]
        BY <1>10, <1>12
      <3>2. CASE i \in lo .. lo + n - 1
        <4>1. PICK k \in 1 .. n : i = lo + k - 1
          BY <1>5, <3>2
        <4>2. w.cells[i].seq_id = u[k] /\ \A z \in u[k] : w.tail[z] = i
          BY <1>3, <4>1
        <4>3. ASSUME w.tail[s] = i PROVE s \in u[k]
          <5>1. s \in Members(u)
            BY <1>2, <1>3, <3>2, <4>3
          <5>2. PICK l \in 1 .. n : s \in u[l]
            BY <1>2, <5>1 DEF Members
          <5>3. i = lo + l - 1
            BY <1>3, <4>3, <5>2
          <5>4. l = k
            BY <1>2, <1>3, <4>1, <5>3
          <5> QED BY <5>2, <5>4
        <4> QED BY <3>1, <4>2, <4>3
      <3>3. CASE i \notin lo .. lo + n - 1
        <4>1. \A z \in w.cells[i].seq_id : w.tail[z] = i
          BY <1>3, <3>3
        <4>2. ASSUME w.tail[s] = i PROVE s \in w.cells[i].seq_id
          <5>1. s \notin Members(u)
            <6>1. ASSUME s \in Members(u) PROVE FALSE
              <7>1. PICK l \in 1 .. n : s \in u[l]
                BY <1>2, <6>1 DEF Members
              <7> QED BY <1>3, <1>5, <3>3, <4>2, <7>1
            <6> QED BY <6>1
          <5>2. m.tail[s] # None /\ w.cells[i].seq_id = m.cells[m.tail[s]].seq_id \ Members(u)
            BY <1>2, <1>3, <4>2, <5>1
          <5>3. s \in m.cells[m.tail[s]].seq_id
            BY <1>4, <1>17, <5>2
          <5> QED BY <5>1, <5>2, <5>3
        <4> QED BY <3>1, <4>1, <4>2
      <3> QED BY <3>2, <3>3
    <2>3. ASSUME NEW i \in Cell
          PROVE  /\ Bare(f.cells[i]) <=> f.cells[i].pos = -1
                 /\ f.cells[i].src \in {None, i} /\ (~Bare(f.cells[i]) => f.cells[i].src = i)
      <3>1. CASE i \in lo .. lo + n - 1
        <4>1. PICK k \in 1 .. n : i = lo + k - 1
          BY <1>5, <3>1
        <4>2. f.cells[i].pos = last[k] /\ ~Bare(f.cells[i])
          BY <1>18, <1>20, <3>1, <4>1
        <4>3. last[k] # -1
          <5>1. last[k] \in 0 .. conf.len - 1
            BY <1>1
          <5> QED BY <5>1
        <4> QED BY <1>5, <1>12, <3>1, <4>2, <4>3
      <3>2. CASE i \notin lo .. lo + n - 1
        <4>1. /\ Bare(w.cells[i]) <=> w.cells[i].pos = -1
              /\ i \in lo .. hi \/ w.cells[i].src \in {None, i}
          BY <1>3, <3>2
        <4>2. ~Bare(f.cells[i]) /\ i \notin lo .. hi => f.cells[i].src = i
          <5>1. SUFFICES ASSUME ~Bare(f.cells[i]), i \notin lo .. hi PROVE f.cells[i].src = i
            OBVIOUS
          <5>2. PICK s \in Sequence : s \in f.cells[i].seq_id
            <6>1. f.cells[i].seq_id \in SUBSET Sequence
              BY <1>12 DEF CellSet
            <6> QED BY <5>1, <6>1 DEF Bare
          <5>3. s \notin Members(u) /\ w.tail[s] = i /\ i # None
            BY <1>2, <1>3, <1>12, <3>2, <5>2
          <5>4. w.cells[i].src = m.tail[s] /\ m.tail[s] = i
            BY <1>3, <5>1, <5>3
          <5> QED BY <1>12, <5>1, <5>4
        <4> QED BY <1>12, <1>13, <4>1, <4>2
      <3> QED BY <3>1, <3>2
    <2> QED BY <2>1, <2>2, <2>3, Zenon DEF Kempt
  <1>22. /\ f.min \in Cell /\ f.max \in Cell /\ f.min + n - 1 <= f.max
         /\ f.head = f.min /\ f.rs_idx = m.rs_idx /\ f.used = Cardinality({i \in Cell : ~Bare(f.cells[i])})
         /\ f.zero = None \/ f.zero \in f.min .. f.max
    BY <1>3, <1>8, <1>10, <1>14
  <1>23. /\ f.min = lo /\ f.max = hi /\ Len(u) = n
         /\ \A k \in 1 .. n : f.min + k - 1 = lo + k - 1
    BY <1>1, <1>10
  <1>24. \A k \in 1 .. Len(u) :
           /\ f.cells[f.min + k - 1].seq_id = u[k] /\ f.cells[f.min + k - 1].pos = last[k]
           /\ IF m.tail[Seq0(u[k])] = None
              THEN BlankRow(m, f, f.src0[f.min + k - 1])
              ELSE f.src0[f.min + k - 1] = m.tail[Seq0(u[k])] /\ m.tail[Seq0(u[k])] # f.zero
           /\ \A s \in u[k] : f.tail[s] = f.min + k - 1
    BY <1>18, <1>23
  <1>25. \A s \in Sequence \ Members(u) :
           /\ f.tail[s] = None <=> m.tail[s] = None
           /\ f.tail[s] # None =>
                /\ f.tail[s] \notin f.min .. f.min + Len(u) - 1
                /\ f.cells[f.tail[s]].pos = m.cells[m.tail[s]].pos
                /\ f.cells[f.tail[s]].seq_id = m.cells[m.tail[s]].seq_id \ Members(u)
                /\ IF f.tail[s] \in f.min .. f.max
                   THEN f.src0[f.tail[s]] = m.tail[s] /\ m.tail[s] # f.zero
                   ELSE f.tail[s] = m.tail[s]
    BY <1>19, <1>23
  <1>26. \A i \in Cell : Bare(f.cells[i]) =>
           /\ i \notin f.min .. f.min + Len(u) - 1
           /\ IF i \in f.min .. f.max THEN BlankRow(m, f, f.src0[i])
                                      ELSE f.cells[i].src = i => Untouched(m, i)
    BY <1>20, <1>23
  <1>27. Found(m, u, last, f)
    BY <1>1, <1>11, <1>21, <1>22, <1>24, <1>25, <1>26, Zenon DEF Found
  <1> QED BY <1>1, <1>27

LEMMA FindSlotSources ==
  ASSUME NEW m, NEW u, NEW last
  PROVE  LET x     == Seated(m, u)
             tails == {x.tail[Seq0(u[k])] : k \in DOMAIN u}
             w     == Occupy(Gather([cells |-> x.cells, tail |-> x.tail], u, Min(tails)), u, Min(tails), last)
         IN FindSlot(m, u, last) = Sourced(m, w, Min(tails), Max(tails), x.ok, Cardinality(tails) = Len(u))
  BY DEF FindSlot, Sourced

LEMMA FindSlotIs ==
  ASSUME Configured, NEW m, Kempt(m.cells, m.tail), m.head \in Cell, m.used \in 0 .. size,
         NEW u, Ubatch(u), NEW last \in [1 .. Len(u) -> 0 .. conf.len - 1]
  PROVE  Found(m, u, last, FindSlot(m, u, last))
  <1>1. PICK x, tails, min, max, w :
          /\ x = Seated(m, u) /\ tails = {x.tail[Seq0(u[k])] : k \in DOMAIN u}
          /\ min = Min(tails) /\ max = Max(tails)
          /\ w = Occupy(Gather([cells |-> x.cells, tail |-> x.tail], u, min), u, min, last)
    OBVIOUS
  <1>2. PICK d, from : /\ from \in Cell /\ DetachedFrom(m, Others(u), d)
                       /\ SeatedTo(Firsts(u, Len(u)), d, from, x)
    BY <1>1, SeatedIs
  <1>3. Seats(m, u, x)
    BY <1>2, SeatsAre
  <1>4. /\ Cardinality(tails) = Len(u)
        /\ Apart([cells |-> x.cells, tail |-> x.tail], u, min, max)
    <2>1. tails = TailsOf(x, u)
      BY <1>1 DEF TailsOf
    <2>2. /\ Cardinality(tails) = Len(u)
          /\ Apart([cells |-> x.cells, tail |-> x.tail], u, Min(tails), Max(tails))
      BY <1>3, <2>1, WindowIs
    <2> QED BY <1>1, <2>2
  <1>5. Refit(m, u, last, min, max, w)
    BY <1>1, <1>3, <1>4, RefitIs
  <1>6. Found(m, u, last, Sourced(m, w, min, max, TRUE, TRUE))
    BY <1>5, SourcedIs
  <1>7. x.ok = TRUE
    BY <1>2 DEF SeatedTo, SeatSet
  <1>8. (Cardinality(tails) = Len(u)) = TRUE
    BY <1>4
  <1>9. FindSlot(m, u, last) = Sourced(m, w, min, max, x.ok, Cardinality(tails) = Len(u))
    BY <1>1, FindSlotSources
  <1> QED BY <1>6, <1>7, <1>8, <1>9

----------------------------------------------------------------------------
(* What seq_rm() does *)

InUse(cs) == {i \in Cell : ~Bare(cs[i])}

\* The cells of a memory are as they should be, and so is what depends on them.
Mem(m) ==
  /\ {"cells", "tail", "head", "used", "rs_idx"} \subseteq DOMAIN m
  /\ Kempt(m.cells, m.tail) /\ m.head \in Cell /\ m.used = Cardinality(InUse(m.cells))
  /\ m.rs_idx \in [Sequence -> Groups]

\* What is freed is no longer in use.
LEMMA FreedCount ==
  ASSUME Configured, NEW cs, NEW ds, \A i \in Cell : ~Bare(ds[i]) => ~Bare(cs[i])
  PROVE  /\ Cardinality(InUse(ds)) = Cardinality(InUse(cs)) - Cardinality(Freed(cs, ds))
         /\ Cardinality(InUse(ds)) \in 0 .. size
  <1>1. IsFiniteSet(Cell) /\ Cardinality(Cell) = size /\ size \in Nat
    BY SequencesAre DEF Configured
  <1>2. InUse(cs) \in SUBSET Cell /\ InUse(ds) \in SUBSET Cell /\ Freed(cs, ds) \in SUBSET Cell
    BY DEF InUse, Freed
  <1>3. InUse(ds) = InUse(cs) \ Freed(cs, ds) /\ InUse(cs) \cap Freed(cs, ds) = Freed(cs, ds)
    BY DEF InUse, Freed
  <1>4. IsFiniteSet(InUse(cs)) /\ IsFiniteSet(InUse(ds)) /\ IsFiniteSet(Freed(cs, ds))
        /\ Cardinality(InUse(ds)) <= size
    BY <1>1, <1>2, FS_Subset
  <1>5. Cardinality(InUse(ds)) = Cardinality(InUse(cs)) - Cardinality(Freed(cs, ds))
    BY <1>3, <1>4, FS_Difference
  <1>6. Cardinality(InUse(ds)) \in Nat
    BY <1>4, FS_CardinalityType
  <1> QED BY <1>1, <1>4, <1>5, <1>6

LEMMA CountIs ==
  ASSUME Configured, NEW cs
  PROVE  Cardinality(InUse(cs)) \in 0 .. size
  <1>1. IsFiniteSet(Cell) /\ Cardinality(Cell) = size /\ InUse(cs) \in SUBSET Cell
    BY SequencesAre DEF InUse
  <1>2. IsFiniteSet(InUse(cs)) /\ Cardinality(InUse(cs)) <= size
    BY <1>1, FS_Subset
  <1>3. Cardinality(InUse(cs)) \in Nat /\ size \in Nat
    BY <1>2, FS_CardinalityType DEF Configured
  <1> QED BY <1>2, <1>3

LEMMA HeadIs ==
  ASSUME Configured, NEW h \in Cell, NEW F \in SUBSET Cell
  PROVE  HeadAt(h, F) \in Cell
  <1>1. F # {} => Min(F) \in F
    <2>1. F \in SUBSET Nat
      BY SequencesAre
    <2> QED BY <2>1, MinOf
  <1> QED BY <1>1 DEF HeadAt

\* The sequence s is no longer in the cells where it was, b is after a.
Leaves(a, at, s, b, bt) ==
  /\ bt = [at EXCEPT ![s] = None]
  /\ \A i \in Cell : /\ s \notin a[i].seq_id => b[i] = a[i]
                     /\ s \in a[i].seq_id => b[i] = (IF a[i].seq_id = {s} THEN Empty
                                                     ELSE [a[i] EXCEPT !.seq_id = @ \ {s}])

LEMMA LeavesKempt ==
  ASSUME Configured, NEW a, NEW at, Kempt(a, at), NEW s \in Sequence, NEW bt,
         NEW b, DOMAIN b = Cell, b = [i \in Cell |-> b[i]], Leaves(a, at, s, b, bt)
  PROVE  /\ Kempt(b, bt)
         /\ \A i \in Cell : /\ b[i].seq_id = a[i].seq_id \ {s}
                            /\ ~Bare(b[i]) => b[i].pos = a[i].pos /\ ~Bare(a[i])
                            /\ Bare(b[i]) /\ b[i].src = i => b[i] = a[i]
  <1>1. /\ a \in [Cell -> CellSet] /\ at \in [Sequence -> Cell \cup {None}] /\ None \notin Cell
        /\ \A x \in Sequence, i \in Cell : x \in a[i].seq_id <=> at[x] = i
        /\ \A i \in Cell : /\ Bare(a[i]) <=> a[i].pos = -1
                           /\ a[i].src \in {None, i} /\ (~Bare(a[i]) => a[i].src = i)
    BY SequencesAre DEF Kempt
  <1>2. ASSUME NEW i \in Cell
        PROVE  /\ b[i] \in CellSet /\ b[i].seq_id = a[i].seq_id \ {s}
               /\ ~Bare(b[i]) => b[i].pos = a[i].pos /\ ~Bare(a[i])
               /\ Bare(b[i]) /\ b[i].src = i => b[i] = a[i]
               /\ Bare(b[i]) <=> b[i].pos = -1
               /\ b[i].src \in {None, i} /\ (~Bare(b[i]) => b[i].src = i)
    <2>1. PICK c : c = a[i]
      OBVIOUS
    <2>2. /\ c \in CellSet /\ (Bare(c) <=> c.pos = -1)
          /\ c.src \in {None, i} /\ (~Bare(c) => c.src = i)
      BY <1>1, <2>1
    <2>3. CASE s \notin c.seq_id
      <3>1. b[i] = c /\ c.seq_id = c.seq_id \ {s}
        BY <2>1, <2>3 DEF Leaves
      <3> QED BY <2>1, <2>2, <3>1
    <2>4. CASE c.seq_id = {s}
      <3>1. b[i] = Empty
        BY <2>1, <2>4 DEF Leaves
      <3>2. Empty.src # i
        BY <1>1, EmptyIs
      <3> QED BY <2>1, <2>4, <3>1, <3>2, EmptyIs
    <2>5. CASE s \in c.seq_id /\ c.seq_id # {s}
      <3>1. b[i] = [c EXCEPT !.seq_id = @ \ {s}]
        BY <2>1, <2>5 DEF Leaves
      <3>2. /\ b[i] \in CellSet /\ b[i].pos = c.pos /\ b[i].src = c.src /\ b[i].seq_id = c.seq_id \ {s}
        BY <2>2, <3>1 DEF CellSet
      <3>3. ~Bare(b[i]) /\ ~Bare(c)
        BY <2>5, <3>2 DEF Bare
      <3> QED BY <2>1, <2>2, <3>2, <3>3
    <2> QED BY <2>3, <2>4, <2>5
  <1>3. bt = [at EXCEPT ![s] = None]
    BY DEF Leaves
  <1>4. bt \in [Sequence -> Cell \cup {None}] /\ bt[s] = None /\ \A x \in Sequence : x # s => bt[x] = at[x]
    BY <1>1, <1>3
  <1>5. \A x \in Sequence, i \in Cell : x \in b[i].seq_id <=> bt[x] = i
    BY <1>1, <1>2, <1>4
  <1>6. b \in [Cell -> CellSet]
    BY <1>2
  <1>7. Kempt(b, bt)
    BY <1>2, <1>4, <1>5, <1>6 DEF Kempt
  <1> QED BY <1>2, <1>7

\* The cells that are left alone, rolled back or left by the sequence.
RmDone(m, s, r) ==
  /\ Mem(r)
  /\ \A x \in Sequence \ {s} : r.tail[x] = m.tail[x] /\ r.rs_idx[x] = m.rs_idx[x]
  /\ r.tail[s] = m.tail[s] \/ r.tail[s] = None
  /\ \A i \in Cell : r.cells[i].seq_id = IF r.tail[s] = None THEN m.cells[i].seq_id \ {s} ELSE m.cells[i].seq_id
  /\ \A i \in Cell : Bare(r.cells[i]) /\ r.cells[i].src = i => r.cells[i] = m.cells[i]
  /\ \A i \in Cell : i # m.tail[s] => r.cells[i] = m.cells[i]
  /\ r.tail[s] = None => \A i \in Cell : ~Bare(r.cells[i]) => r.cells[i].pos = m.cells[i].pos

LEMMA RmIs ==
  ASSUME Configured, NEW m, Mem(m), NEW s \in Sequence, NEW p0 \in Nat, NEW p1 \in Nat
  PROVE  LET r == Rm(m, s, p0, p1)
             t == m.tail[s]
             q == IF t = None THEN -1 ELSE m.cells[t].pos
         IN /\ RmDone(m, s, r)
            /\ IF t # None /\ 0 < p0 /\ p0 <= q /\ q < p1
               THEN /\ r.tail[s] = t
                    /\ IF q - p0 + 1 <= n_rs_seq
                       THEN r.rs_idx[s] = q - p0 + 1 /\ r.cells[t].pos = p0 - 1
                       ELSE r = m
               ELSE /\ r.rs_idx[s] = (IF p0 = 0 /\ p1 = Inf THEN 0 ELSE m.rs_idx[s])
                    /\ r.tail[s] = (IF p0 <= q /\ q < p1 THEN None ELSE t)
                    /\ r.tail[s] # None => r.cells = m.cells
  <1>1. PICK r, t, q, back : /\ r = Rm(m, s, p0, p1) /\ t = m.tail[s]
                             /\ q = IF t = None THEN -1 ELSE m.cells[t].pos
                             /\ back = q - (p0 - 1)
    OBVIOUS
  <1>2. /\ {"cells", "tail", "head", "used", "rs_idx"} \subseteq DOMAIN m
        /\ Kempt(m.cells, m.tail) /\ m.head \in Cell /\ m.used = Cardinality(InUse(m.cells))
        /\ m.rs_idx \in [Sequence -> Groups]
    BY DEF Mem
  <1>3. /\ m.cells \in [Cell -> CellSet] /\ m.tail \in [Sequence -> Cell \cup {None}] /\ None \notin Cell
        /\ \A x \in Sequence, i \in Cell : x \in m.cells[i].seq_id <=> m.tail[x] = i
        /\ \A i \in Cell : /\ Bare(m.cells[i]) <=> m.cells[i].pos = -1
                           /\ m.cells[i].src \in {None, i} /\ (~Bare(m.cells[i]) => m.cells[i].src = i)
    BY <1>2, SequencesAre DEF Kempt
  <1>4. /\ t \in Cell \cup {None} /\ q \in -1 .. conf.len - 1 /\ conf.len \in Nat /\ n_rs_seq \in Nat
        /\ Groups = 0 .. n_rs_seq /\ back = q - p0 + 1
    <2>1. t \in Cell \cup {None} /\ conf.len \in Nat /\ n_rs_seq \in Nat /\ Groups = 0 .. n_rs_seq
      BY <1>1, <1>3, SequencesAre DEF Configured
    <2>2. t \in Cell => m.cells[t].pos \in -1 .. conf.len - 1
      BY <1>3 DEF CellSet
    <2>3. q \in -1 .. conf.len - 1
      BY <1>1, <2>1, <2>2
    <2>4. back = q - p0 + 1
      <3>1. back = q - (p0 - 1) /\ q \in Int
        BY <1>1, <2>1, <2>3
      <3> QED BY <3>1
    <2> QED BY <2>1, <2>3, <2>4
  <1>5. PICK cs, F : /\ cs = Without(m.cells, s, LAMBDA c : p0 <= c.pos /\ c.pos < p1)
                     /\ F = Freed(m.cells, cs)
    OBVIOUS
  <1>6. r = IF t # None /\ 0 < p0 /\ p0 <= q /\ q < p1
            THEN IF back <= n_rs_seq
                 THEN [m EXCEPT !.rs_idx[s] = back, !.cells[t].pos = p0 - 1]
                 ELSE m
            ELSE [m EXCEPT !.cells = cs,
                           !.tail = TailWithout(m, s, t # None /\ p0 <= q /\ q < p1),
                           !.head = HeadAt(@, F), !.used = @ - Cardinality(F),
                           !.rs_idx[s] = IF p0 = 0 /\ p1 = Inf THEN 0 ELSE @]
    BY <1>1, <1>5, Zenon DEF Rm
  <1>7. CASE t # None /\ 0 < p0 /\ p0 <= q /\ q < p1 /\ back <= n_rs_seq
    <2>1. t \in Cell /\ back \in Groups /\ p0 - 1 \in -1 .. conf.len - 1 /\ p0 - 1 # -1
      BY <1>4, <1>7
    <2>2. PICK c, ds, v : /\ c = [m.cells[t] EXCEPT !.pos = p0 - 1]
                          /\ ds = [m.cells EXCEPT ![t] = c] /\ v = [m.rs_idx EXCEPT ![s] = back]
      OBVIOUS
    <2>3. r = [m EXCEPT !.rs_idx = v, !.cells = ds]
      BY <1>2, <1>3, <1>6, <1>7, <2>1, <2>2
    <2>4. /\ c \in CellSet /\ c.pos = p0 - 1 /\ c.src = m.cells[t].src /\ c.seq_id = m.cells[t].seq_id
      <3>1. m.cells[t] \in CellSet
        BY <1>3, <2>1
      <3> QED BY <2>1, <2>2, <3>1 DEF CellSet
    <2>5. /\ ds \in [Cell -> CellSet] /\ ds[t] = c /\ \A i \in Cell : i # t => ds[i] = m.cells[i]
      BY <1>3, <2>1, <2>2, <2>4
    <2>6. v \in [Sequence -> Groups] /\ v[s] = back /\ \A x \in Sequence \ {s} : v[x] = m.rs_idx[x]
      BY <1>2, <2>1, <2>2
    <2>7. /\ r.cells = ds /\ r.tail = m.tail /\ r.head = m.head /\ r.used = m.used /\ r.rs_idx = v
          /\ DOMAIN r = DOMAIN m
      BY <1>2, <2>3
    <2>8. s \in m.cells[t].seq_id
      BY <1>1, <1>3, <2>1
    <2>9. ~Bare(c) /\ ~Bare(m.cells[t])
      BY <2>4, <2>8 DEF Bare
    <2>10. Kempt(ds, m.tail)
      <3>1. \A x \in Sequence, i \in Cell : x \in ds[i].seq_id <=> m.tail[x] = i
        BY <1>3, <2>4, <2>5
      <3>2. \A i \in Cell : /\ Bare(ds[i]) <=> ds[i].pos = -1
                            /\ ds[i].src \in {None, i} /\ (~Bare(ds[i]) => ds[i].src = i)
        BY <1>3, <2>1, <2>4, <2>5, <2>9
      <3> QED BY <1>3, <2>5, <3>1, <3>2 DEF Kempt
    <2>11. InUse(ds) = InUse(m.cells)
      BY <2>1, <2>5, <2>9 DEF InUse
    <2>12. Mem(r)
      BY <1>2, <2>6, <2>7, <2>10, <2>11 DEF Mem
    <2>13. RmDone(m, s, r)
      BY <1>1, <1>7, <2>4, <2>5, <2>6, <2>7, <2>9, <2>12 DEF RmDone
    <2> QED BY <1>1, <1>4, <1>7, <2>4, <2>5, <2>6, <2>7, <2>13
  <1>8. CASE t # None /\ 0 < p0 /\ p0 <= q /\ q < p1 /\ ~(back <= n_rs_seq)
    <2>1. r = m
      BY <1>6, <1>8
    <2>2. RmDone(m, s, r)
      BY <1>1, <1>8, <2>1 DEF RmDone
    <2> QED BY <1>1, <1>4, <1>8, <2>1, <2>2
  <1>9. CASE ~(t # None /\ 0 < p0 /\ p0 <= q /\ q < p1)
    <2>1. PICK v, rs, inside : /\ inside = (t # None /\ p0 <= q /\ q < p1)
                               /\ v = TailWithout(m, s, inside)
                               /\ rs = [m.rs_idx EXCEPT ![s] = IF p0 = 0 /\ p1 = Inf THEN 0 ELSE @]
      OBVIOUS
    <2>2. r = [m EXCEPT !.cells = cs, !.tail = v, !.head = HeadAt(@, F), !.used = @ - Cardinality(F),
                        !.rs_idx = rs]
      BY <1>2, <1>6, <1>9, <2>1
    <2>3. /\ r.cells = cs /\ r.tail = v /\ r.head = HeadAt(m.head, F) /\ r.used = m.used - Cardinality(F)
          /\ r.rs_idx = rs /\ DOMAIN r = DOMAIN m
      BY <1>2, <2>2
    <2>4. /\ rs \in [Sequence -> Groups] /\ rs[s] = (IF p0 = 0 /\ p1 = Inf THEN 0 ELSE m.rs_idx[s])
          /\ \A x \in Sequence \ {s} : rs[x] = m.rs_idx[x]
      <3>1. 0 \in Groups
        BY SequencesAre
      <3> QED BY <1>2, <2>1, <3>1
    <2>5. /\ DOMAIN cs = Cell /\ cs = [i \in Cell |-> cs[i]]
          /\ \A i \in Cell : cs[i] = IF ~(p0 <= m.cells[i].pos /\ m.cells[i].pos < p1) \/ s \notin m.cells[i].seq_id
                                     THEN m.cells[i]
                                     ELSE IF m.cells[i].seq_id = {s} THEN Empty
                                     ELSE [m.cells[i] EXCEPT !.seq_id = @ \ {s}]
      BY <1>5 DEF Without
    <2>6. inside <=> p0 <= q /\ q < p1
      <3>1. t = None => ~(p0 <= q)
        <4>1. t = None => q = -1
          BY <1>1
        <4> QED BY <4>1
      <3> QED BY <2>1, <3>1, Zenon
    <2>7. CASE inside
      <3>1. t \in Cell /\ p0 <= m.cells[t].pos /\ m.cells[t].pos < p1
        BY <1>1, <1>4, <2>1, <2>7
      <3>2. \A i \in Cell : s \in m.cells[i].seq_id => i = t
        BY <1>1, <1>3
      <3>3. v = [m.tail EXCEPT ![s] = None]
        BY <2>1, <2>7 DEF TailWithout
      <3>4. Leaves(m.cells, m.tail, s, cs, v)
        BY <2>5, <3>1, <3>2, <3>3 DEF Leaves
      <3>5. /\ Kempt(cs, v)
            /\ \A i \in Cell : /\ cs[i].seq_id = m.cells[i].seq_id \ {s}
                               /\ ~Bare(cs[i]) => cs[i].pos = m.cells[i].pos /\ ~Bare(m.cells[i])
                               /\ Bare(cs[i]) /\ cs[i].src = i => cs[i] = m.cells[i]
        BY <1>2, <2>5, <3>4, LeavesKempt
      <3>6. Cardinality(InUse(cs)) = m.used - Cardinality(F)
        BY <1>2, <1>5, <3>5, FreedCount
      <3>7. HeadAt(m.head, F) \in Cell
        <4>1. F \in SUBSET Cell
          BY <1>5 DEF Freed
        <4> QED BY <1>2, <4>1, HeadIs
      <3>8. Mem(r)
        BY <1>2, <2>3, <2>4, <3>5, <3>6, <3>7 DEF Mem
      <3>9. v[s] = None /\ \A x \in Sequence \ {s} : v[x] = m.tail[x]
        BY <1>3, <3>3
      <3>10. \A i \in Cell : i # t => cs[i] = m.cells[i]
        BY <2>5, <3>2
      <3>11. RmDone(m, s, r)
        BY <1>1, <2>3, <2>4, <3>5, <3>8, <3>9, <3>10 DEF RmDone
      <3> QED BY <1>1, <1>9, <2>3, <2>4, <2>6, <2>7, <3>9, <3>11
    <2>8. CASE ~inside
      <3>1. v = m.tail
        BY <2>1, <2>8 DEF TailWithout
      <3>2. ASSUME NEW i \in Cell PROVE cs[i] = m.cells[i]
        <4>1. CASE s \notin m.cells[i].seq_id
          BY <2>5, <4>1
        <4>2. CASE s \in m.cells[i].seq_id
          <5>1. i = t /\ t # None /\ q = m.cells[i].pos
            BY <1>1, <1>3, <4>2
          <5>2. ~(p0 <= m.cells[i].pos /\ m.cells[i].pos < p1)
            BY <2>1, <2>8, <5>1
          <5> QED BY <2>5, <5>2
        <4> QED BY <4>1, <4>2
      <3>3. cs = m.cells
        BY <1>3, <2>5, <3>2
      <3>4. F = {}
        BY <1>5, <3>3 DEF Freed
      <3>5. r.used = m.used /\ r.head = m.head
        <4>1. Cardinality(F) = 0 /\ m.used \in Nat
          <5>1. Cardinality(InUse(m.cells)) \in 0 .. size /\ size \in Nat
            BY CountIs DEF Configured
          <5> QED BY <1>2, <3>4, <5>1, FS_EmptySet
        <4>2. r.used = m.used
          BY <2>3, <4>1
        <4>3. HeadAt(m.head, F) = m.head
          BY <3>4 DEF HeadAt
        <4> QED BY <2>3, <4>2, <4>3
      <3>6. Mem(r)
        BY <1>2, <2>3, <2>4, <3>1, <3>3, <3>5 DEF Mem
      <3>7. m.tail[s] = None => \A i \in Cell : m.cells[i].seq_id = m.cells[i].seq_id \ {s}
        BY <1>3
      <3>8. RmDone(m, s, r)
        BY <1>1, <2>3, <2>4, <3>1, <3>3, <3>6, <3>7 DEF RmDone
      <3> QED BY <1>1, <1>9, <2>3, <2>4, <2>6, <2>8, <3>1, <3>3, <3>8
    <2> QED BY <2>7, <2>8
  <1> QED BY <1>7, <1>8, <1>9

----------------------------------------------------------------------------
(* The inductive invariant *)

\* The states that fit into a row.
RowSet == {r \in Seq(Int) : Len(r) <= conf.len}

\* Cells c with their tails t, and the tensors sl: an empty cell with a row has an empty state
\* in it, sequences that share a cell are not rolled back (but for those given up, gu), and
\* neither are those that have none.
Fit(c, t, h, n, ro, sl, gu) ==
  /\ Kempt(c, t) /\ h \in Cell /\ n = Cardinality(InUse(c)) /\ ro \in [Sequence -> Groups]
  /\ \A i \in Cell : Bare(c[i]) /\ c[i].src = i => sl[0][i] = <<>>
  /\ \A i \in Cell : \A s \in c[i].seq_id : s \notin gu /\ c[i].seq_id # {s} => ro[s] = 0
  /\ \A s \in Sequence : t[s] = None => ro[s] = 0

RowsFit(sl) == sl \in [Groups -> [Cell -> RowSet]]

\* What is saved of a sequence or of all of them.
KeptFits(k) ==
  /\ k.of \in {"none", "one", "all"}
  /\ k.cells \in Seq([pos : 0 .. conf.len - 1, seq_id : SUBSET Sequence, state : RowSet])
  /\ k.of = "one" => Len(k.cells) <= 1
  /\ k.of = "all" => /\ Len(k.cells) <= size
                     /\ \A i, j \in DOMAIN k.cells :
                          /\ k.cells[i].seq_id # {}
                          /\ k.cells[i].seq_id \cap k.cells[j].seq_id # {} => i = j

Rest(un, gu) == un \in [Sequence -> 0 .. conf.tokens] /\ gu \in SUBSET Sequence

CellsInv ==
  /\ conf \in Confs /\ Fit(cells, tail, head, used, rs_idx, s_l, given_up)
  /\ RowsFit(s_l) /\ KeptFits(kept) /\ Rest(undo, given_up)

\* The configuration stays, and with it the sets that depend on it.
LEMMA InvNext ==
  ASSUME CellsInv, conf' = conf, Fit(cells', tail', head', used', rs_idx', s_l', given_up'),
         RowsFit(s_l'), KeptFits(kept'), Rest(undo', given_up')
  PROVE  CellsInv'
  <1>1. Cell' = Cell /\ Sequence' = Sequence /\ Groups' = Groups /\ size' = size
    BY DEF Cell, Sequence, Groups, size, n_rs_seq
  <1>2. CellSet' = CellSet /\ RowSet' = RowSet
    BY <1>1 DEF CellSet, RowSet, None
  <1>3. Fit(cells, tail, head, used, rs_idx, s_l, given_up)'
    BY <1>1, <1>2 DEF Fit, Kempt, InUse, Bare, None
  <1>4. RowsFit(s_l)' /\ KeptFits(kept)' /\ Rest(undo, given_up)'
    BY <1>1, <1>2 DEF RowsFit, KeptFits, Rest
  <1> QED BY <1>3, <1>4 DEF CellsInv

\* What the invariant says of the memory.
LEMMA MemoryIs ==
  ASSUME CellsInv
  PROVE  /\ Configured /\ Mem(Memory)
         /\ Memory.cells = cells /\ Memory.tail = tail /\ Memory.head = head
         /\ Memory.used = used /\ Memory.rs_idx = rs_idx /\ used \in 0 .. size
         /\ Kempt(cells, tail) /\ head \in Cell /\ used = Cardinality(InUse(cells))
         /\ rs_idx \in [Sequence -> Groups]
         /\ \A i \in Cell : Bare(cells[i]) /\ cells[i].src = i => s_l[0][i] = <<>>
         /\ \A i \in Cell : \A s \in cells[i].seq_id :
              s \notin given_up /\ cells[i].seq_id # {s} => rs_idx[s] = 0
         /\ \A s \in Sequence : tail[s] = None => rs_idx[s] = 0
  <1>1. Configured
    BY ConfIs DEF CellsInv
  <1>2. /\ Memory.cells = cells /\ Memory.tail = tail /\ Memory.head = head
        /\ Memory.used = used /\ Memory.rs_idx = rs_idx
        /\ {"cells", "tail", "head", "used", "rs_idx"} \subseteq DOMAIN Memory
    BY DEF Memory
  <1>3. Fit(cells, tail, head, used, rs_idx, s_l, given_up)
    BY DEF CellsInv
  <1>4. /\ Kempt(cells, tail) /\ head \in Cell /\ used = Cardinality(InUse(cells))
        /\ rs_idx \in [Sequence -> Groups]
        /\ \A i \in Cell : Bare(cells[i]) /\ cells[i].src = i => s_l[0][i] = <<>>
        /\ \A i \in Cell : \A s \in cells[i].seq_id :
             s \notin given_up /\ cells[i].seq_id # {s} => rs_idx[s] = 0
        /\ \A s \in Sequence : tail[s] = None => rs_idx[s] = 0
    BY <1>3 DEF Fit
  <1>5. used \in 0 .. size
    BY <1>1, <1>4, CountIs
  <1>6. Mem(Memory)
    BY <1>2, <1>4 DEF Mem
  <1> QED BY <1>1, <1>2, <1>4, <1>5, <1>6

LEMMA KemptIs ==
  ASSUME Configured, NEW cs, NEW t, Kempt(cs, t)
  PROVE  /\ cs \in [Cell -> CellSet] /\ t \in [Sequence -> Cell \cup {None}]
         /\ \A s \in Sequence, i \in Cell : s \in cs[i].seq_id <=> t[s] = i
         /\ \A i \in Cell : /\ cs[i].pos \in -1 .. conf.len - 1 /\ cs[i].seq_id \in SUBSET Sequence
                            /\ Bare(cs[i]) <=> cs[i].pos = -1
                            /\ cs[i].src \in {None, i} /\ (~Bare(cs[i]) => cs[i].src = i)
         /\ \A s \in Sequence : t[s] = None \/ /\ t[s] \in Cell /\ t[s] # None /\ s \in cs[t[s]].seq_id
                                               /\ ~Bare(cs[t[s]]) /\ cs[t[s]].src = t[s]
                                               /\ cs[t[s]].pos \in 0 .. conf.len - 1
  <1>1. /\ cs \in [Cell -> CellSet] /\ t \in [Sequence -> Cell \cup {None}] /\ None \notin Cell
        /\ \A s \in Sequence, i \in Cell : s \in cs[i].seq_id <=> t[s] = i
        /\ \A i \in Cell : /\ Bare(cs[i]) <=> cs[i].pos = -1
                           /\ cs[i].src \in {None, i} /\ (~Bare(cs[i]) => cs[i].src = i)
    BY SequencesAre DEF Kempt
  <1>2. \A i \in Cell : cs[i].pos \in -1 .. conf.len - 1 /\ cs[i].seq_id \in SUBSET Sequence
    BY <1>1 DEF CellSet
  <1>3. ASSUME NEW s \in Sequence, t[s] # None
        PROVE  /\ t[s] \in Cell /\ s \in cs[t[s]].seq_id
               /\ ~Bare(cs[t[s]]) /\ cs[t[s]].src = t[s]
               /\ cs[t[s]].pos \in 0 .. conf.len - 1
    <2>1. PICK i : i = t[s]
      OBVIOUS
    <2>2. i \in Cell /\ s \in cs[i].seq_id
      BY <1>1, <1>3, <2>1
    <2>3. ~Bare(cs[i])
      BY <2>2 DEF Bare
    <2>4. cs[i].src = i /\ cs[i].pos # -1 /\ cs[i].pos \in -1 .. conf.len - 1
      BY <1>1, <1>2, <2>2, <2>3
    <2>5. cs[i].pos \in 0 .. conf.len - 1
      BY <2>4 DEF Configured
    <2> QED BY <2>1, <2>2, <2>3, <2>4, <2>5
  <1> QED BY <1>1, <1>2, <1>3

\* The position of a sequence is that of its cell.
LEMMA SeqPosIs ==
  ASSUME Configured, Kempt(cells, tail), NEW s \in Sequence
  PROVE  SeqPos(s) = IF tail[s] = None THEN -1 ELSE cells[tail[s]].pos
  <1>1. PICK C, P : /\ C = {j \in Cell : s \in cells[j].seq_id}
                    /\ P = {-1} \cup {cells[i].pos : i \in C}
    OBVIOUS
  <1>2. SeqPos(s) = Max(P)
    BY <1>1, Zenon DEF SeqPos
  <1>3. C = IF tail[s] = None THEN {} ELSE {tail[s]}
    <2>1. \A i \in Cell : s \in cells[i].seq_id <=> tail[s] = i
      BY KemptIs
    <2>2. tail[s] # None => tail[s] \in Cell
      BY KemptIs
    <2>3. tail[s] = None => tail[s] \notin Cell
      BY SequencesAre
    <2> QED BY <1>1, <2>1, <2>2, <2>3
  <1>4. CASE tail[s] = None
    <2>1. P = {-1} /\ P \in SUBSET (-1 .. 0) /\ P # {}
      BY <1>1, <1>3, <1>4
    <2>2. Max(P) \in P
      BY <2>1, MaxOf
    <2> QED BY <1>2, <1>4, <2>1, <2>2
  <1>5. CASE tail[s] # None
    <2>1. PICK p : p = cells[tail[s]].pos
      OBVIOUS
    <2>2. p \in 0 .. conf.len - 1 /\ P = {-1, p}
      BY <1>1, <1>3, <1>5, <2>1, KemptIs
    <2>3. P \in SUBSET (-1 .. conf.len) /\ P # {} /\ conf.len \in Nat /\ p \in P /\ p >= 0
      BY <2>2 DEF Configured
    <2>4. Max(P) \in P /\ Max(P) >= p
      BY <2>3, MaxOf
    <2> QED BY <1>2, <1>5, <2>1, <2>2, <2>3, <2>4
  <1> QED BY <1>4, <1>5

\* The ubatches of init_batch() are ubatches.
LEMMA UbatchesAre ==
  ASSUME Configured, NEW u \in Ubatches
  PROVE  Ubatch(u)
  <1>1. size \in Nat \ {0} /\ Sequence = 0 .. size - 1
    BY SequencesAre DEF Configured
  <1>2. CASE \E S \in (SUBSET Sequence) \ {{}} : u = <<S>>
    <2>1. PICK S \in (SUBSET Sequence) \ {{}} : u = <<S>>
      BY <1>2
    <2>2. u \in Seq((SUBSET Sequence) \ {{}}) /\ Len(u) = 1
      BY <2>1
    <2>3. \A k, l \in 1 .. 1 : k = l
      OBVIOUS
    <2> QED BY <2>2, <2>3 DEF Ubatch
  <1>3. CASE \E a \in Sequence : \E n \in 2 .. size - a : u = [k \in 1 .. n |-> {a + k - 1}]
    <2>a. PICK a \in Sequence : \E n \in 2 .. size - a : u = [k \in 1 .. n |-> {a + k - 1}]
      BY <1>3
    <2>1. PICK n \in 2 .. size - a : u = [k \in 1 .. n |-> {a + k - 1}]
      BY <2>a
    <2>2. a \in 0 .. size - 1 /\ n \in Nat \ {0} /\ n <= size - a
      BY <1>1
    <2>3. \A k \in 1 .. n : a + k - 1 \in Sequence
      BY <1>1, <2>2
    <2>4. u \in [1 .. n -> (SUBSET Sequence) \ {{}}]
      BY <2>1, <2>3
    <2>5. u \in Seq((SUBSET Sequence) \ {{}}) /\ Len(u) = n
      BY <2>2, <2>4, SequenceItems
    <2>6. ASSUME NEW k \in 1 .. n, NEW l \in 1 .. n, u[k] \cap u[l] # {} PROVE k = l
      <3>1. a + k - 1 = a + l - 1
        BY <2>1, <2>6
      <3> QED BY <2>2, <3>1
    <2> QED BY <2>2, <2>5, <2>6 DEF Ubatch
  <1> QED BY <1>2, <1>3 DEF Ubatches

\* The positions that a ubatch leads to.
LEMMA LastIs ==
  ASSUME CellsInv, NEW u, Ubatch(u), NEW n \in Nat \ {0}, Decodable(u, n)
  PROVE  /\ LastPositions(u, n) \in [1 .. Len(u) -> 0 .. conf.len - 1]
         /\ conf.len > 0
  <1>1. Configured /\ Kempt(cells, tail)
    BY MemoryIs
  <1>2. conf.len \in Nat /\ Len(u) \in Nat \ {0}
    BY <1>1, UbatchIs DEF Configured
  <1>3. ASSUME NEW k \in 1 .. Len(u)
        PROVE  SeqPos(Seq0(u[k])) + n \in 0 .. conf.len - 1
    <2>1. PICK s : s = Seq0(u[k])
      OBVIOUS
    <2>2. s \in Sequence /\ s \in u[k]
      BY <1>1, <2>1, UbatchIs
    <2>3. SeqPos(s) \in -1 .. conf.len - 1
      <3>1. SeqPos(s) = IF tail[s] = None THEN -1 ELSE cells[tail[s]].pos
        BY <1>1, <2>2, SeqPosIs
      <3>2. tail[s] # None => cells[tail[s]].pos \in 0 .. conf.len - 1
        BY <1>1, <2>2, KemptIs
      <3> QED BY <1>2, <3>1, <3>2
    <2>4. SeqPos(s) + n < conf.len
      BY <2>2 DEF Decodable
    <2> QED BY <1>2, <2>1, <2>3, <2>4
  <1>4. SeqPos(Seq0(u[1])) + n \in 0 .. conf.len - 1
    BY <1>2, <1>3
  <1>5. conf.len > 0
    BY <1>2, <1>4
  <1> QED BY <1>3, <1>5 DEF LastPositions

\* The invariant is what is claimed.
LEMMA InvSound == CellsInv => CellsSound
  <1> SUFFICES ASSUME CellsInv PROVE CellsSound
    OBVIOUS
  <1>1. /\ Configured /\ Mem(Memory) /\ Kempt(cells, tail) /\ head \in Cell
        /\ used = Cardinality(InUse(cells)) /\ used \in 0 .. size
        /\ rs_idx \in [Sequence -> Groups]
    BY MemoryIs
  <1>2. /\ cells \in [Cell -> CellSet] /\ tail \in [Sequence -> Cell \cup {None}]
        /\ \A s \in Sequence, i \in Cell : s \in cells[i].seq_id <=> tail[s] = i
        /\ \A i \in Cell : /\ Bare(cells[i]) <=> cells[i].pos = -1
    BY <1>1 DEF Kempt
  <1>3. MemTypeOK
    <2>1. cells \in [Cell -> [pos : -1 .. conf.len - 1, src : Cell \cup {None}, seq_id : SUBSET Sequence]]
      BY <1>2 DEF CellSet
    <2>2. \A g \in Groups, i \in Cell : Len(s_l[g][i]) <= conf.len
      <3>1. s_l \in [Groups -> [Cell -> RowSet]]
        BY DEF CellsInv, RowsFit
      <3>2. \A g \in Groups, i \in Cell : s_l[g][i] \in RowSet
        BY <3>1
      <3> QED BY <3>2 DEF RowSet
    <2>3. conf \in Confs /\ undo \in [Sequence -> 0 .. conf.tokens] /\ given_up \subseteq Sequence
      BY DEF CellsInv, Rest
    <2> QED BY <1>1, <1>2, <2>1, <2>2, <2>3 DEF MemTypeOK
  <1>4. TailsVerified
    <2>1. \A s \in Sequence : {i \in Cell : s \in cells[i].seq_id} =
                              IF tail[s] = None THEN {} ELSE {tail[s]}
      <3> TAKE s \in Sequence
      <3>1. tail[s] \in Cell \cup {None} /\ None \notin Cell
        BY <1>1, <1>2, SequencesAre
      <3> QED BY <1>2, <3>1
    <2>2. used = Cardinality({i \in Cell : ~Bare(cells[i])})
      BY <1>1 DEF InUse
    <2> QED BY <1>2, <1>3, <2>1, <2>2 DEF TailsVerified
  <1>5. ASSUME NEW u \in Ubatches, Decodable(u, 1)
        PROVE  FindSlot(Memory, u, LastPositions(u, 1)).ok
    <2>1. Ubatch(u)
      BY <1>1, UbatchesAre
    <2>2. LastPositions(u, 1) \in [1 .. Len(u) -> 0 .. conf.len - 1]
      BY <1>5, <2>1, LastIs
    <2>3. Kempt(Memory.cells, Memory.tail) /\ Memory.head \in Cell /\ Memory.used \in 0 .. size
      BY <1>1, MemoryIs
    <2>4. Found(Memory, u, LastPositions(u, 1), FindSlot(Memory, u, LastPositions(u, 1)))
      BY <1>1, <2>1, <2>2, <2>3, FindSlotIs
    <2> QED BY <2>4 DEF Found
  <1>6. ASSUME NEW i \in Cell, NEW s \in cells[i].seq_id \ given_up, NEW t \in cells[i].seq_id \ given_up
        PROVE  rs_idx[s] = rs_idx[t]
    <2>1. CASE s = t
      BY <2>1
    <2>2. CASE s # t
      <3>1. cells[i].seq_id # {s} /\ cells[i].seq_id # {t}
        BY <2>2
      <3> QED BY <3>1, MemoryIs
    <2> QED BY <2>1, <2>2
  <1> QED BY <1>4, <1>5, <1>6 DEF CellsSound, NoAbort

LEMMA MemInitInv == MemInit => CellsInv
  <1> SUFFICES ASSUME MemInit PROVE CellsInv
    OBVIOUS
  <1>1. /\ conf \in Confs /\ cells = [i \in Cell |-> Empty] /\ tail = [s \in Sequence |-> None]
        /\ head = 0 /\ used = 0 /\ rs_idx = [s \in Sequence |-> 0] /\ s_l = NoStates
        /\ undo = [s \in Sequence |-> 0] /\ given_up = {} /\ kept = Nothing
    BY DEF MemInit
  <1>2. Configured
    BY <1>1, ConfIs
  <1>3. /\ 0 \in Cell /\ 0 \in Groups /\ None \notin Cell /\ conf.tokens \in Nat /\ conf.len \in Nat
    BY <1>2, SequencesAre DEF Configured
  <1>4. Kempt(cells, tail)
    BY <1>1, <1>2, <1>3, EmptyIs DEF Kempt
  <1>5. used = Cardinality(InUse(cells))
    <2>1. InUse(cells) = {}
      BY <1>1, EmptyIs DEF InUse
    <2> QED BY <1>1, <2>1, FS_EmptySet
  <1>6. /\ rs_idx \in [Sequence -> Groups] /\ \A s \in Sequence : rs_idx[s] = 0
        /\ Rest(undo, given_up)
    BY <1>1, <1>3 DEF Rest
  <1>7. <<>> \in RowSet
    BY <1>3 DEF RowSet
  <1>8. RowsFit(s_l) /\ \A i \in Cell : s_l[0][i] = <<>>
    BY <1>1, <1>3, <1>7 DEF RowsFit, NoStates
  <1>9. Fit(cells, tail, head, used, rs_idx, s_l, given_up)
    <2>1. \A i \in Cell : cells[i].seq_id = {}
      BY <1>1, EmptyIs
    <2> QED BY <1>1, <1>3, <1>4, <1>5, <1>6, <1>8, <2>1 DEF Fit
  <1>10. KeptFits(kept)
    <2>1. kept.of = "none" /\ kept.cells = <<>>
      BY <1>1 DEF Nothing
    <2> QED BY <2>1 DEF KeptFits
  <1> QED BY <1>1, <1>6, <1>8, <1>9, <1>10 DEF CellsInv

----------------------------------------------------------------------------
(* The graph *)

\* The zero row has been cleared.
LEMMA ZeroedIs ==
  ASSUME CellsInv, NEW f, f.zero = None \/ f.zero \in Cell
  PROVE  /\ Zeroed(f) \in [Groups -> [Cell -> RowSet]]
         /\ \A g \in Groups, r \in Cell :
              Zeroed(f)[g][r] = IF g = 0 /\ r = f.zero THEN <<>> ELSE s_l[g][r]
  <1>1. s_l \in [Groups -> [Cell -> RowSet]] /\ 0 \in Groups /\ None \notin Cell
    BY MemoryIs, SequencesAre DEF CellsInv, RowsFit
  <1>2. <<>> \in RowSet
    BY MemoryIs DEF RowSet, Configured
  <1>3. CASE f.zero = None
    BY <1>1, <1>3 DEF Zeroed
  <1>4. CASE f.zero # None
    <2>1. f.zero \in Cell /\ Zeroed(f) = [s_l EXCEPT ![0][f.zero] = <<>>]
      BY <1>4 DEF Zeroed
    <2>2. PICK z : z = [s_l[0] EXCEPT ![f.zero] = <<>>]
      OBVIOUS
    <2>3. z \in [Cell -> RowSet] /\ \A r \in Cell : z[r] = IF r = f.zero THEN <<>> ELSE s_l[0][r]
      BY <1>1, <1>2, <2>1, <2>2
    <2>4. Zeroed(f) = [s_l EXCEPT ![0] = z]
      BY <1>1, <2>1, <2>2
    <2> QED BY <1>1, <2>3, <2>4
  <1> QED BY <1>3, <1>4

\* What Found() says, for the memory of the state.
LEMMA FoundNow ==
  ASSUME CellsInv, NEW u, Ubatch(u), NEW last, NEW f, Found(Memory, u, last, f)
  PROVE  /\ f.ok /\ Kempt(f.cells, f.tail)
         /\ f.min \in Cell /\ f.max \in Cell /\ f.min + Len(u) - 1 <= f.max
         /\ f.head = f.min /\ f.rs_idx = rs_idx /\ f.used = Cardinality(InUse(f.cells))
         /\ f.zero = None \/ f.zero \in f.min .. f.max
         /\ f.zero = None \/ f.zero \in Cell
         /\ f.min .. f.max \in SUBSET Cell /\ f.min .. f.min + Len(u) - 1 \in SUBSET (f.min .. f.max)
         /\ \A i \in f.min .. f.min + Len(u) - 1 : \E k \in 1 .. Len(u) : i = f.min + k - 1
         /\ \A k \in 1 .. Len(u) :
              /\ f.min + k - 1 \in f.min .. f.min + Len(u) - 1
              /\ f.cells[f.min + k - 1].seq_id = u[k] /\ f.cells[f.min + k - 1].pos = last[k]
              /\ IF tail[Seq0(u[k])] = None
                 THEN BlankRow(Memory, f, f.src0[f.min + k - 1])
                 ELSE f.src0[f.min + k - 1] = tail[Seq0(u[k])] /\ tail[Seq0(u[k])] # f.zero
              /\ \A s \in u[k] : f.tail[s] = f.min + k - 1
         /\ \A s \in Sequence \ Members(u) :
              /\ f.tail[s] = None <=> tail[s] = None
              /\ f.tail[s] # None =>
                   /\ f.tail[s] \notin f.min .. f.min + Len(u) - 1
                   /\ f.cells[f.tail[s]].pos = cells[tail[s]].pos
                   /\ f.cells[f.tail[s]].seq_id = cells[tail[s]].seq_id \ Members(u)
                   /\ IF f.tail[s] \in f.min .. f.max
                      THEN f.src0[f.tail[s]] = tail[s] /\ tail[s] # f.zero
                      ELSE f.tail[s] = tail[s]
         /\ \A i \in Cell : Bare(f.cells[i]) =>
              /\ i \notin f.min .. f.min + Len(u) - 1
              /\ IF i \in f.min .. f.max THEN BlankRow(Memory, f, f.src0[i])
                                         ELSE f.cells[i].src = i => Untouched(Memory, i)
  <1>1. Memory.cells = cells /\ Memory.tail = tail /\ Memory.rs_idx = rs_idx
    BY MemoryIs
  <1>2. /\ f.min \in Cell /\ f.max \in Cell /\ f.min + Len(u) - 1 <= f.max
        /\ f.zero = None \/ f.zero \in f.min .. f.max
    BY DEF Found
  <1>3. Cell = 0 .. size - 1 /\ size \in Nat /\ Len(u) \in Nat \ {0}
    BY MemoryIs, SequencesAre, UbatchIs DEF Configured
  <1>4. /\ f.min .. f.max \in SUBSET Cell
        /\ f.min .. f.min + Len(u) - 1 \in SUBSET (f.min .. f.max)
        /\ \A k \in 1 .. Len(u) : f.min + k - 1 \in f.min .. f.min + Len(u) - 1
    BY <1>2, <1>3
  <1>5. \A i \in f.min .. f.min + Len(u) - 1 : \E k \in 1 .. Len(u) : i = f.min + k - 1
    <2> TAKE i \in f.min .. f.min + Len(u) - 1
    <2>1. i - f.min + 1 \in 1 .. Len(u) /\ i = f.min + (i - f.min + 1) - 1
      BY <1>2, <1>3
    <2> QED BY <2>1
  <1>6. f.zero = None \/ f.zero \in Cell
    BY <1>2, <1>4
  <1> QED BY <1>1, <1>2, <1>4, <1>5, <1>6 DEF Found, InUse

\* An empty row is empty.
LEMMA BlankIs ==
  ASSUME CellsInv, NEW f, f.zero = None \/ f.zero \in Cell, NEW r
  PROVE  /\ BlankRow(Memory, f, r) => r \in Cell /\ Zeroed(f)[0][r] = <<>>
         /\ Untouched(Memory, r) /\ r # None => r \in Cell /\ s_l[0][r] = <<>>
  <1>1. /\ 0 \in Groups
        /\ \A g \in Groups, c \in Cell :
             Zeroed(f)[g][c] = IF g = 0 /\ c = f.zero THEN <<>> ELSE s_l[g][c]
    BY MemoryIs, SequencesAre, ZeroedIs
  <1>2. Untouched(Memory, r) /\ r # None => r \in Cell /\ s_l[0][r] = <<>>
    BY MemoryIs DEF Untouched
  <1> QED BY <1>1, <1>2 DEF BlankRow

\* A cell of the ubatch gets the state of its first sequence.
LEMMA CopiedState ==
  ASSUME CellsInv, NEW u, Ubatch(u), NEW last, NEW f, Found(Memory, u, last, f),
         NEW k \in 1 .. Len(u)
  PROVE  Copied(f, f.min + k - 1) = State(Seq0(u[k])) /\ State(Seq0(u[k])) \in RowSet
  <1>1. PICK s, i, g : /\ s = Seq0(u[k]) /\ i = f.min + k - 1
                       /\ g = IF n_rs_seq = 0 \/ f.cells[i].seq_id = {} THEN 0
                              ELSE rs_idx[Seq0(f.cells[i].seq_id)]
    OBVIOUS
  <1>2. /\ Configured /\ Kempt(cells, tail) /\ rs_idx \in [Sequence -> Groups]
        /\ \A x \in Sequence : tail[x] = None => rs_idx[x] = 0
    BY MemoryIs
  <1>3. s \in Sequence /\ u[k] # {}
    BY <1>1, <1>2, UbatchIs
  <1>4. /\ f.zero = None \/ f.zero \in Cell
        /\ f.cells[i].seq_id = u[k]
        /\ IF tail[s] = None THEN BlankRow(Memory, f, f.src0[i])
                             ELSE f.src0[i] = tail[s] /\ tail[s] # f.zero
    BY <1>1, FoundNow
  <1>5. g = rs_idx[s] /\ g \in Groups
    <2>1. n_rs_seq = 0 => rs_idx[s] = 0
      <3>1. Groups = 0 .. n_rs_seq /\ rs_idx[s] \in Groups
        BY <1>2, <1>3, SequencesAre
      <3> QED BY <3>1
    <2>2. rs_idx[s] \in Groups
      BY <1>2, <1>3
    <2> QED BY <1>1, <1>3, <1>4, <2>1, <2>2
  <1>6. Copied(f, i) = Zeroed(f)[g][f.src0[i]]
    BY <1>1 DEF Copied
  <1>7. CASE tail[s] = None
    <2>1. State(s) = <<>> /\ g = 0
      BY <1>2, <1>3, <1>5, <1>7 DEF State
    <2>2. Zeroed(f)[0][f.src0[i]] = <<>>
      BY <1>4, <1>7, BlankIs
    <2>3. <<>> \in RowSet
      BY <1>2 DEF RowSet, Configured
    <2> QED BY <1>1, <1>6, <2>1, <2>2, <2>3
  <1>8. CASE tail[s] # None
    <2>1. tail[s] \in Cell /\ cells[tail[s]].src = tail[s] /\ tail[s] >= 0
      <3>1. tail[s] \in Cell /\ cells[tail[s]].src = tail[s]
        BY <1>2, <1>3, <1>8, KemptIs
      <3> QED BY <1>2, <3>1, SequencesAre
    <2>2. State(s) = s_l[g][tail[s]]
      BY <1>5, <1>8, <2>1 DEF State, Row
    <2>3. Zeroed(f)[g][tail[s]] = s_l[g][tail[s]] /\ Zeroed(f)[g][tail[s]] \in RowSet
      BY <1>4, <1>5, <1>8, <2>1, ZeroedIs
    <2> QED BY <1>1, <1>4, <1>6, <1>8, <2>2, <2>3
  <1> QED BY <1>7, <1>8

\* Other cells of the window get states, too.
LEMMA CopiedTyped ==
  ASSUME CellsInv, NEW u, Ubatch(u), NEW last, NEW f, Found(Memory, u, last, f),
         NEW i \in f.min .. f.max
  PROVE  /\ Copied(f, i) \in RowSet
         /\ Bare(f.cells[i]) => Copied(f, i) = <<>>
  <1>1. PICK S, g : S = f.cells[i].seq_id /\ g = IF n_rs_seq = 0 \/ S = {} THEN 0 ELSE rs_idx[Seq0(S)]
    OBVIOUS
  <1>2. Copied(f, i) = Zeroed(f)[g][f.src0[i]]
    BY <1>1 DEF Copied
  <1>3. /\ Configured /\ Kempt(cells, tail) /\ rs_idx \in [Sequence -> Groups] /\ 0 \in Groups
        /\ Sequence \in SUBSET Nat
    BY MemoryIs, SequencesAre
  <1>4. /\ f.zero = None \/ f.zero \in Cell
        /\ i \in Cell /\ Kempt(f.cells, f.tail)
    BY FoundNow
  <1>5. S \in SUBSET Sequence /\ \A s \in S : f.tail[s] = i
    <2>1. /\ \A s \in Sequence, j \in Cell : s \in f.cells[j].seq_id <=> f.tail[s] = j
          /\ \A j \in Cell : f.cells[j].seq_id \in SUBSET Sequence
      BY <1>3, <1>4, KemptIs
    <2>2. i \in Cell
      BY <1>4
    <2>3. f.cells[i].seq_id \in SUBSET Sequence
      BY <2>1, <2>2
    <2>4. \A s \in Sequence : s \in f.cells[i].seq_id <=> f.tail[s] = i
      BY <2>1, <2>2
    <2> QED BY <1>1, <2>3, <2>4
  <1>6. g \in Groups
    <2>1. S # {} => Seq0(S) \in S
      BY <1>3, <1>5, MinOf DEF Seq0
    <2> QED BY <1>1, <1>3, <1>5, <2>1
  <1>7. f.src0[i] \in Cell /\ (S = {} => BlankRow(Memory, f, f.src0[i]))
    <2>1. CASE S = {}
      <3>1. BlankRow(Memory, f, f.src0[i])
        BY <1>1, <1>4, <2>1, FoundNow DEF Bare
      <3> QED BY <1>4, <3>1, BlankIs
    <2>2. CASE S # {}
      <3>1. PICK s : s \in S
        BY <2>2
      <3>2. s \in Sequence /\ f.tail[s] = i /\ i # None
        BY <1>3, <1>4, <1>5, <3>1, SequencesAre
      <3>3. CASE s \in Members(u)
        <4>1. PICK k \in 1 .. Len(u) : s \in u[k]
          BY <1>3, <3>3, UbatchIs DEF Members
        <4>2. i = f.min + k - 1
          BY <3>2, <4>1, FoundNow
        <4>3. IF tail[Seq0(u[k])] = None THEN BlankRow(Memory, f, f.src0[i])
                                         ELSE f.src0[i] = tail[Seq0(u[k])]
          BY <4>2, FoundNow
        <4>4. Seq0(u[k]) \in Sequence
          BY <1>3, UbatchIs
        <4>5. tail[Seq0(u[k])] # None => tail[Seq0(u[k])] \in Cell
          BY <1>3, <4>4, KemptIs
        <4>6. BlankRow(Memory, f, f.src0[i]) => f.src0[i] \in Cell
          BY <1>4, BlankIs
        <4> QED BY <2>2, <4>3, <4>5, <4>6
      <3>4. CASE s \notin Members(u)
        <4>1. tail[s] # None /\ f.src0[i] = tail[s]
          BY <3>2, <3>4, FoundNow
        <4>2. tail[s] \in Cell
          BY <1>3, <3>2, <4>1, KemptIs
        <4> QED BY <2>2, <4>1, <4>2
      <3> QED BY <3>3, <3>4
    <2> QED BY <2>1, <2>2
  <1>8. Zeroed(f) \in [Groups -> [Cell -> RowSet]]
    BY <1>4, ZeroedIs
  <1>9. Bare(f.cells[i]) => Copied(f, i) = <<>>
    <2>1. SUFFICES ASSUME Bare(f.cells[i]) PROVE Copied(f, i) = <<>>
      OBVIOUS
    <2>2. S = {} /\ g = 0
      BY <1>1, <2>1 DEF Bare
    <2>3. Zeroed(f)[0][f.src0[i]] = <<>>
      BY <1>4, <1>7, <2>2, BlankIs
    <2> QED BY <1>2, <2>2, <2>3
  <1> QED BY <1>2, <1>6, <1>7, <1>8, <1>9

----------------------------------------------------------------------------
(* A ubatch is decoded *)

\* The rollback index of a sequence is kept or reset.
LEMMA ResetIs ==
  ASSUME CellsInv, NEW f
  PROVE  /\ Reset(f) \in [Sequence -> Groups]
         /\ \A s \in Sequence : Reset(f)[s] \in {0, rs_idx[s]}
  <1>1. rs_idx \in [Sequence -> Groups] /\ 0 \in Groups
    BY MemoryIs, SequencesAre
  <1> DEFINE hit(s) == n_rs_seq > 0 /\ \E i \in f.min .. f.max : ~Bare(f.cells[i]) /\ s = Seq0(f.cells[i].seq_id)
  <1>2. Reset(f) = [s \in Sequence |-> IF hit(s) THEN 0 ELSE rs_idx[s]]
    BY DEF Reset
  <1> HIDE DEF hit
  <1> QED BY <1>1, <1>2

\* What the graph computes fits into the rows.
LEMMA ComputedFits ==
  ASSUME CellsInv, NEW u, Ubatch(u), NEW n \in Nat \ {0}, Decodable(u, n), NEW f,
         Found(Memory, u, LastPositions(u, n), f)
  PROVE  RowsFit(Computed(f, u, n))
  <1>1. /\ Configured /\ Groups = 0 .. n_rs_seq /\ n_rs_seq \in Nat /\ conf.len \in Nat
        /\ conf.len > 0
    BY MemoryIs, SequencesAre, LastIs DEF Configured
  <1>2. /\ f.zero = None \/ f.zero \in Cell
        /\ \A i \in f.min .. f.min + Len(u) - 1 : \E k \in 1 .. Len(u) : i = f.min + k - 1
        /\ f.min \in Nat
    BY <1>1, FoundNow, SequencesAre
  <1>3. Zeroed(f) \in [Groups -> [Cell -> RowSet]]
    BY <1>2, ZeroedIs
  <1> DEFINE new(g, i) == IF i \in f.min .. f.min + Len(u) - 1
                          THEN IF g < n
                               THEN Copied(f, i) \o [x \in 1 .. n - g |-> Seq0(u[i - f.min + 1])]
                               ELSE Junk
                          ELSE IF g = 0 /\ i \in f.min .. f.max THEN Copied(f, i) ELSE Zeroed(f)[g][i]
  <1>4. Computed(f, u, n) = [g \in Groups |-> [i \in Cell |-> new(g, i)]]
    BY DEF Computed
  <1>5. ASSUME NEW g \in Groups, NEW i \in Cell PROVE new(g, i) \in RowSet
    <2>1. CASE i \in f.min .. f.min + Len(u) - 1 /\ g < n
      <3>1. PICK k \in 1 .. Len(u) : i = f.min + k - 1
        BY <1>2, <2>1
      <3>2. PICK s, old, add : /\ s = Seq0(u[k]) /\ old = State(s)
                               /\ add = [x \in 1 .. n - g |-> s]
        OBVIOUS
      <3>3. Len(u) \in Nat /\ s \in Sequence /\ s \in u[k]
        BY <1>1, <3>2, UbatchIs
      <3>4. i - f.min + 1 = k
        BY <1>2, <3>1, <3>3
      <3>5. Copied(f, i) = old /\ old \in RowSet
        BY <3>1, <3>2, CopiedState
      <3>6. Len(old) + n <= conf.len
        BY <3>2, <3>3 DEF Decodable
      <3>7. n - g \in Nat /\ n - g <= n
        BY <1>1, <2>1
      <3>8. add \in [1 .. n - g -> Int] /\ s \in Int
        <4>1. s \in Int
          BY <1>1, <3>3, SequencesAre
        <4> QED BY <3>2, <4>1
      <3>9. add \in Seq(Int) /\ Len(add) = n - g
        BY <3>7, <3>8, SequenceItems
      <3>10. old \in Seq(Int) /\ Len(old) \in Nat
        BY <3>5 DEF RowSet
      <3>11. old \o add \in Seq(Int) /\ Len(old \o add) = Len(old) + (n - g)
        BY <3>9, <3>10
      <3>12. Len(old \o add) <= conf.len
        BY <1>1, <3>6, <3>7, <3>10, <3>11
      <3>13. new(g, i) = old \o add
        BY <2>1, <3>2, <3>4, <3>5
      <3> QED BY <3>11, <3>12, <3>13 DEF RowSet
    <2>2. CASE i \in f.min .. f.min + Len(u) - 1 /\ ~(g < n)
      <3>1. Junk \in RowSet
        BY <1>1 DEF Junk, RowSet
      <3> QED BY <2>2, <3>1
    <2>3. CASE i \notin f.min .. f.min + Len(u) - 1 /\ g = 0 /\ i \in f.min .. f.max
      <3>1. Copied(f, i) \in RowSet
        BY <2>3, CopiedTyped
      <3> QED BY <2>3, <3>1
    <2>4. CASE i \notin f.min .. f.min + Len(u) - 1 /\ ~(g = 0 /\ i \in f.min .. f.max)
      BY <1>3, <2>4
    <2> QED BY <2>1, <2>2, <2>3, <2>4
  <1> HIDE DEF new
  <1> QED BY <1>4, <1>5 DEF RowsFit

\* An empty cell that has a row has an empty state in it afterwards.
LEMMA ComputedBlank ==
  ASSUME CellsInv, NEW u, Ubatch(u), NEW n \in Nat \ {0}, NEW last, NEW f,
         Found(Memory, u, last, f), NEW i \in Cell, Bare(f.cells[i]), f.cells[i].src = i
  PROVE  Computed(f, u, n)[0][i] = <<>>
  <1>1. /\ f.zero = None \/ f.zero \in Cell
        /\ i \notin f.min .. f.min + Len(u) - 1
        /\ i \notin f.min .. f.max => Untouched(Memory, i)
        /\ 0 \in Groups /\ i # None
    BY FoundNow, MemoryIs, SequencesAre
  <1>2. Computed(f, u, n)[0][i] = IF i \in f.min .. f.max THEN Copied(f, i) ELSE Zeroed(f)[0][i]
    BY <1>1 DEF Computed
  <1>3. CASE i \in f.min .. f.max
    BY <1>2, <1>3, CopiedTyped
  <1>4. CASE i \notin f.min .. f.max
    <2>1. s_l[0][i] = <<>>
      BY <1>1, <1>4, BlankIs
    <2>2. Zeroed(f)[0][i] = <<>>
      BY <1>1, <2>1, ZeroedIs
    <2> QED BY <1>2, <1>4, <2>2
  <1> QED BY <1>3, <1>4

\* Whoever shares a cell afterwards is not rolled back.
LEMMA ResetShared ==
  ASSUME CellsInv, NEW u, Ubatch(u), NEW n \in Nat \ {0}, Decodable(u, n), NEW last, NEW f,
         Found(Memory, u, last, f)
  PROVE  /\ \A i \in Cell : \A s \in f.cells[i].seq_id :
              s \notin given_up /\ f.cells[i].seq_id # {s} => Reset(f)[s] = 0
         /\ \A s \in Sequence : f.tail[s] = None => Reset(f)[s] = 0
         /\ \A k \in 1 .. Len(u) : Reset(f)[Seq0(u[k])] = 0
  <1>1. /\ Configured /\ Kempt(cells, tail) /\ Groups = 0 .. n_rs_seq /\ n_rs_seq \in Nat
        /\ rs_idx \in [Sequence -> Groups]
        /\ \A s \in Sequence : Reset(f)[s] \in {0, rs_idx[s]}
        /\ \A i \in Cell : \A s \in cells[i].seq_id :
             s \notin given_up /\ cells[i].seq_id # {s} => rs_idx[s] = 0
        /\ \A s \in Sequence : tail[s] = None => rs_idx[s] = 0
    BY MemoryIs, SequencesAre, ResetIs DEF Configured
  <1>2. Kempt(f.cells, f.tail)
    BY FoundNow
  <1>3. /\ Members(u) \in SUBSET Sequence
        /\ \A s \in Members(u) : \E k \in 1 .. Len(u) : s \in u[k]
        /\ \A k \in 1 .. Len(u) : u[k] \in SUBSET Members(u) /\ Seq0(u[k]) \in u[k]
    BY <1>1, UbatchIs DEF Members
  <1>4. ASSUME NEW k \in 1 .. Len(u), NEW s \in u[k]
        PROVE  Reset(f)[s] = 0 /\ f.tail[s] # None
    <2>1. s \in Sequence
      BY <1>3
    <2>2. PICK j : j = f.min + k - 1
      OBVIOUS
    <2>3. j \in f.min .. f.max /\ j \in Cell /\ f.cells[j].seq_id = u[k] /\ f.tail[s] = j
      BY <2>2, FoundNow
    <2>4. f.tail[s] # None
      BY <1>1, <2>3, SequencesAre
    <2>5. CASE s # Seq0(u[k])
      <3>1. rs_idx[s] = 0
        BY <2>5 DEF Decodable
      <3> QED BY <1>1, <2>1, <2>4, <3>1
    <2>6. CASE s = Seq0(u[k]) /\ n_rs_seq = 0
      <3>1. rs_idx[s] \in 0 .. 0
        BY <1>1, <2>1, <2>6
      <3> QED BY <1>1, <2>1, <2>4, <3>1
    <2>7. CASE s = Seq0(u[k]) /\ n_rs_seq > 0
      <3>1. ~Bare(f.cells[j]) /\ s = Seq0(f.cells[j].seq_id)
        BY <2>3, <2>7 DEF Bare
      <3> QED BY <2>1, <2>3, <2>4, <2>7, <3>1 DEF Reset
    <2> QED BY <1>1, <2>5, <2>6, <2>7
  <1>5. ASSUME NEW s \in Sequence \ Members(u)
        PROVE  /\ f.tail[s] = None => Reset(f)[s] = 0
               /\ f.tail[s] # None /\ s \notin given_up /\ f.cells[f.tail[s]].seq_id # {s} => Reset(f)[s] = 0
    <2>1. /\ f.tail[s] = None <=> tail[s] = None
          /\ f.tail[s] # None => f.cells[f.tail[s]].seq_id = cells[tail[s]].seq_id \ Members(u)
      BY FoundNow
    <2>2. f.tail[s] = None => Reset(f)[s] = 0
      BY <1>1, <2>1
    <2>3. ASSUME f.tail[s] # None, s \notin given_up, f.cells[f.tail[s]].seq_id # {s}
          PROVE  Reset(f)[s] = 0
      <3>1. tail[s] \in Cell /\ s \in cells[tail[s]].seq_id
        BY <1>1, <2>1, <2>3, KemptIs
      <3>2. cells[tail[s]].seq_id # {s}
        BY <2>1, <2>3
      <3>3. rs_idx[s] = 0
        BY <1>1, <2>3, <3>1, <3>2
      <3> QED BY <1>1, <3>3
    <2> QED BY <2>2, <2>3
  <1>6. ASSUME NEW i \in Cell, NEW s \in f.cells[i].seq_id, s \notin given_up, f.cells[i].seq_id # {s}
        PROVE  Reset(f)[s] = 0
    <2>1. s \in Sequence /\ f.tail[s] = i /\ i # None
      <3>1. /\ \A j \in Cell : f.cells[j].seq_id \in SUBSET Sequence
            /\ \A x \in Sequence, j \in Cell : x \in f.cells[j].seq_id <=> f.tail[x] = j
        BY <1>1, <1>2, KemptIs
      <3> QED BY <1>1, <3>1, SequencesAre
    <2>2. CASE s \in Members(u)
      BY <1>3, <1>4, <2>2
    <2>3. CASE s \notin Members(u)
      BY <1>5, <1>6, <2>1, <2>3
    <2> QED BY <2>2, <2>3
  <1>7. ASSUME NEW s \in Sequence, f.tail[s] = None PROVE Reset(f)[s] = 0
    <2>1. s \notin Members(u)
      BY <1>3, <1>4, <1>7
    <2> QED BY <1>5, <1>7, <2>1
  <1> QED BY <1>3, <1>4, <1>6, <1>7

LEMMA DecodeUbatchInv ==
  ASSUME CellsInv, NEW u \in Ubatches, NEW n \in 1 .. conf.tokens, DecodeUbatch(u, n)
  PROVE  CellsInv'
  <1>1. PICK f, last : last = LastPositions(u, n) /\ f = FindSlot(Memory, u, last)
    OBVIOUS
  <1>2. /\ Decodable(u, n) /\ Placed(f) /\ rs_idx' = Reset(f) /\ s_l' = Computed(f, u, n)
        /\ undo' = [s \in Sequence |-> IF s \in Members(u) THEN Min2(n - 1, n_rs_seq) ELSE undo[s]]
        /\ conf' = conf /\ given_up' = given_up /\ kept' = kept
    BY <1>1 DEF DecodeUbatch
  <1>3. Configured /\ Ubatch(u) /\ n \in Nat \ {0}
    BY MemoryIs, UbatchesAre DEF Configured
  <1>4. Found(Memory, u, last, f)
    <2>1. last \in [1 .. Len(u) -> 0 .. conf.len - 1]
      BY <1>1, <1>2, <1>3, LastIs
    <2>2. Kempt(Memory.cells, Memory.tail) /\ Memory.head \in Cell /\ Memory.used \in 0 .. size
      BY MemoryIs
    <2> QED BY <1>1, <1>3, <2>1, <2>2, FindSlotIs
  <1>5. /\ cells' = f.cells /\ tail' = f.tail /\ head' = f.head /\ used' = f.used
        /\ Kempt(f.cells, f.tail) /\ f.head \in Cell /\ f.used = Cardinality(InUse(f.cells))
    BY <1>2, <1>3, <1>4, FoundNow DEF Placed
  <1>6. Fit(cells', tail', head', used', rs_idx', s_l', given_up')
    <2>1. rs_idx' \in [Sequence -> Groups]
      BY <1>2, ResetIs
    <2>2. \A i \in Cell : Bare(cells'[i]) /\ cells'[i].src = i => s_l'[0][i] = <<>>
      BY <1>2, <1>3, <1>4, <1>5, ComputedBlank
    <2>3. /\ \A i \in Cell : \A s \in cells'[i].seq_id :
               s \notin given_up' /\ cells'[i].seq_id # {s} => rs_idx'[s] = 0
          /\ \A s \in Sequence : tail'[s] = None => rs_idx'[s] = 0
      BY <1>2, <1>3, <1>4, <1>5, ResetShared
    <2> QED BY <1>5, <2>1, <2>2, <2>3 DEF Fit
  <1>7. RowsFit(s_l')
    BY <1>1, <1>2, <1>3, <1>4, ComputedFits
  <1>8. Rest(undo', given_up')
    <2>1. Rest(undo, given_up) /\ conf.tokens \in Nat /\ n_rs_seq \in Nat
      BY <1>3 DEF CellsInv, Configured
    <2>2. Min2(n - 1, n_rs_seq) \in 0 .. conf.tokens
      BY <2>1 DEF Min2
    <2> QED BY <1>2, <2>1, <2>2 DEF Rest
  <1>9. KeptFits(kept')
    BY <1>2 DEF CellsInv
  <1> QED BY <1>2, <1>6, <1>7, <1>8, <1>9, InvNext

----------------------------------------------------------------------------
(* Sequences are removed *)

FitOf(m, sl, gu) == Fit(m.cells, m.tail, m.head, m.used, m.rs_idx, sl, gu)

\* seq_rm() where a shared cell is not rolled back, nor part of a sequence removed that was
\* rolled back before.
LEMMA RmFits ==
  ASSUME Configured, NEW m, Mem(m), NEW sl, NEW gu, FitOf(m, sl, gu), NEW s \in Sequence,
         NEW p0 \in Nat, NEW p1 \in Nat, NEW go, gu \ {s} \subseteq go,
         s \in gu => s \in go \/ (p0 = 0 /\ p1 = Inf),
         NEW q, q = (IF m.tail[s] = None THEN -1 ELSE m.cells[m.tail[s]].pos),
         s \in go \/ (m.tail[s] # None /\ 0 < p0 /\ p0 <= q /\ q - p0 + 1 <= n_rs_seq
                         => m.cells[m.tail[s]].seq_id = {s}),
         (p0 = 0 /\ p1 = Inf) \/ p0 > 0 \/ q >= p1 \/ m.rs_idx[s] = 0
  PROVE  FitOf(Rm(m, s, p0, p1), sl, go)
  <1>1. PICK r, t : r = Rm(m, s, p0, p1) /\ t = m.tail[s]
    OBVIOUS
  <1>2. /\ RmDone(m, s, r)
        /\ IF t # None /\ 0 < p0 /\ p0 <= q /\ q < p1
           THEN /\ r.tail[s] = t
                /\ IF q - p0 + 1 <= n_rs_seq
                   THEN r.rs_idx[s] = q - p0 + 1 /\ r.cells[t].pos = p0 - 1
                   ELSE r = m
           ELSE /\ r.rs_idx[s] = (IF p0 = 0 /\ p1 = Inf THEN 0 ELSE m.rs_idx[s])
                /\ r.tail[s] = (IF p0 <= q /\ q < p1 THEN None ELSE t)
                /\ r.tail[s] # None => r.cells = m.cells
    BY <1>1, RmIs
  <1>3. /\ Mem(r) /\ Kempt(r.cells, r.tail) /\ r.head \in Cell /\ r.used = Cardinality(InUse(r.cells))
        /\ r.rs_idx \in [Sequence -> Groups]
        /\ \A x \in Sequence \ {s} : r.tail[x] = m.tail[x] /\ r.rs_idx[x] = m.rs_idx[x]
        /\ r.tail[s] = m.tail[s] \/ r.tail[s] = None
        /\ \A i \in Cell : r.cells[i].seq_id = IF r.tail[s] = None THEN m.cells[i].seq_id \ {s} ELSE m.cells[i].seq_id
        /\ \A i \in Cell : Bare(r.cells[i]) /\ r.cells[i].src = i => r.cells[i] = m.cells[i]
    BY <1>2 DEF RmDone, Mem
  <1>4. /\ Kempt(m.cells, m.tail)
        /\ \A i \in Cell : Bare(m.cells[i]) /\ m.cells[i].src = i => sl[0][i] = <<>>
        /\ \A i \in Cell : \A x \in m.cells[i].seq_id : x \notin gu /\ m.cells[i].seq_id # {x} => m.rs_idx[x] = 0
        /\ \A x \in Sequence : m.tail[x] = None => m.rs_idx[x] = 0
    BY DEF FitOf, Fit
  <1>5. /\ \A x \in Sequence, i \in Cell : x \in m.cells[i].seq_id <=> m.tail[x] = i
        /\ \A x \in Sequence, i \in Cell : x \in r.cells[i].seq_id <=> r.tail[x] = i
        /\ \A i \in Cell : m.cells[i].seq_id \in SUBSET Sequence /\ r.cells[i].seq_id \in SUBSET Sequence
        /\ None \notin Cell
    <2>1. /\ \A x \in Sequence, i \in Cell : x \in m.cells[i].seq_id <=> m.tail[x] = i
          /\ \A i \in Cell : m.cells[i].seq_id \in SUBSET Sequence
      <3>1. Kempt(m.cells, m.tail)
        BY <1>4
      <3> QED BY <3>1, KemptIs
    <2>2. /\ \A x \in Sequence, i \in Cell : x \in r.cells[i].seq_id <=> r.tail[x] = i
          /\ \A i \in Cell : r.cells[i].seq_id \in SUBSET Sequence
      <3>1. Kempt(r.cells, r.tail)
        BY <1>3
      <3> QED BY <3>1, KemptIs
    <2> QED BY <2>1, <2>2, SequencesAre
  <1>6. ASSUME NEW i \in Cell, NEW x \in r.cells[i].seq_id, x \notin go, r.cells[i].seq_id # {x}
        PROVE  r.rs_idx[x] = 0
    <2>1. x \in Sequence /\ r.tail[x] = i /\ i # None
      BY <1>5
    <2>2. CASE x # s
      <3>1. x \in m.cells[i].seq_id /\ x \notin gu /\ m.cells[i].seq_id # {x}
        BY <1>3, <1>6, <2>2
      <3> QED BY <1>3, <1>4, <2>1, <2>2, <3>1
    <2>3. CASE x = s
      <3>1. t = i /\ r.tail[s] # None /\ r.cells[i].seq_id = m.cells[i].seq_id
        BY <1>1, <1>3, <2>1, <2>3
      <3>2. m.cells[t].seq_id # {s} /\ s \in m.cells[t].seq_id
        BY <1>6, <2>3, <3>1
      <3>3. ~(p0 = 0 /\ p1 = Inf) => m.rs_idx[s] = 0
        BY <1>4, <1>6, <2>3, <3>1, <3>2
      <3>4. CASE t # None /\ 0 < p0 /\ p0 <= q /\ q < p1
        <4>1. ~(q - p0 + 1 <= n_rs_seq)
          BY <1>1, <1>6, <2>3, <3>2, <3>4
        <4>2. r = m
          BY <1>2, <3>4, <4>1
        <4> QED BY <2>3, <3>3, <3>4, <4>2
      <3>5. CASE ~(t # None /\ 0 < p0 /\ p0 <= q /\ q < p1)
        BY <1>2, <2>3, <3>3, <3>5
      <3> QED BY <3>4, <3>5
    <2> QED BY <2>2, <2>3
  <1>7. ASSUME NEW x \in Sequence, r.tail[x] = None PROVE r.rs_idx[x] = 0
    <2>1. CASE x # s
      BY <1>3, <1>4, <1>7, <2>1
    <2>2. CASE x = s
      <3>1. CASE t # None /\ 0 < p0 /\ p0 <= q /\ q < p1
        BY <1>2, <1>7, <2>2, <3>1
      <3>2. CASE ~(t # None /\ 0 < p0 /\ p0 <= q /\ q < p1)
        <4>1. (p0 = 0 /\ p1 = Inf) \/ m.rs_idx[s] = 0
          <5>1. t = None => m.rs_idx[s] = 0
            BY <1>1, <1>4
          <5>2. CASE t # None
            <6>1. p0 <= q /\ q < p1
              BY <1>2, <1>7, <2>2, <3>2, <5>2
            <6>2. ~(0 < p0)
              BY <3>2, <5>2, <6>1
            <6>3. q \in Int
              <7>1. t \in Cell
                BY <1>1, <1>4, <5>2, KemptIs
              <7>2. m.cells[t].pos \in -1 .. conf.len - 1 /\ conf.len \in Nat
                BY <1>4, <7>1, KemptIs DEF Configured
              <7> QED BY <1>1, <5>2, <7>2
            <6>4. ~(q >= p1)
              BY <6>1, <6>3
            <6> QED BY <6>2, <6>4
          <5> QED BY <5>1, <5>2
        <4> QED BY <1>2, <2>2, <3>2, <4>1
      <3> QED BY <3>1, <3>2
    <2> QED BY <2>1, <2>2
  <1>8. \A i \in Cell : Bare(r.cells[i]) /\ r.cells[i].src = i => sl[0][i] = <<>>
    BY <1>3, <1>4
  <1> QED BY <1>1, <1>3, <1>6, <1>7, <1>8 DEF FitOf, Fit

\* The memory of the state fits.
LEMMA MemoryFits ==
  ASSUME CellsInv
  PROVE  FitOf(Memory, s_l, given_up)
  BY MemoryIs DEF CellsInv, FitOf

\* What a call leaves alone.
LEMMA CallInv ==
  ASSUME CellsInv, NEW m, Becomes(m), FitOf(m, s_l', given_up'), conf' = conf, kept' = kept,
         RowsFit(s_l'), Rest(undo', given_up')
  PROVE  CellsInv'
  <1>1. /\ cells' = m.cells /\ tail' = m.tail /\ head' = m.head /\ used' = m.used
        /\ rs_idx' = m.rs_idx
    BY DEF Becomes, Placed
  <1>2. Fit(cells', tail', head', used', rs_idx', s_l', given_up')
    BY <1>1 DEF FitOf
  <1>3. KeptFits(kept')
    BY DEF CellsInv
  <1> QED BY <1>2, <1>3, InvNext

LEMMA RangesAre ==
  ASSUME Configured, NEW r \in Ranges
  PROVE  r[1] \in Nat /\ r[2] \in Nat /\ Inf \in Nat
  <1>1. conf.len \in Nat /\ Inf \in Nat
    BY DEF Configured, Inf
  <1>2. CASE r \in {<<p, Inf>> : p \in 0 .. conf.len - 1}
    BY <1>1, <1>2
  <1>3. CASE r \in {<<0, 1>>, <<0, conf.len>>}
    BY <1>1, <1>3
  <1> QED BY <1>2, <1>3 DEF Ranges

LEMMA SeqRmInv ==
  ASSUME CellsInv, NEW s \in Sequence, NEW p0 \in Nat, NEW p1 \in Nat, SeqRm(s, p0, p1)
  PROVE  CellsInv'
  <1>1. PICK q, r, back, whole : /\ q = SeqPos(s) /\ r = Rm(Memory, s, p0, p1)
                                 /\ back = q - p0 + 1 /\ whole = (p0 = 0 /\ p1 = Inf)
    OBVIOUS
  <1>2. /\ 0 < p0 /\ p0 <= q /\ back <= n_rs_seq =>
             back <= undo[s] /\ ~Shared(s)
        /\ whole \/ p0 > 0 \/ q >= p1 \/ Settled({s})
        /\ Becomes(r) /\ conf' = conf /\ s_l' = s_l /\ kept' = kept
        /\ undo' = [undo EXCEPT ![s] = IF tail'[s] = None THEN 0
                                       ELSE IF cells'[tail'[s]].pos < q THEN @ - back ELSE @]
        /\ given_up' = IF whole THEN given_up \ {s} ELSE given_up
    BY <1>1 DEF SeqRm
  <1>3. /\ Configured /\ Mem(Memory) /\ FitOf(Memory, s_l, given_up)
        /\ Memory.cells = cells /\ Memory.tail = tail /\ Memory.rs_idx = rs_idx
        /\ Kempt(cells, tail) /\ Rest(undo, given_up) /\ RowsFit(s_l)
    BY MemoryIs, MemoryFits DEF CellsInv
  <1>4. q = (IF tail[s] = None THEN -1 ELSE cells[tail[s]].pos)
    BY <1>1, <1>3, SeqPosIs
  <1>5. FitOf(r, s_l, given_up')
    <2>1. given_up \ {s} \subseteq given_up' /\ (s \in given_up => s \in given_up' \/ whole)
      BY <1>2
    <2>2. Memory.tail[s] # None /\ 0 < p0 /\ p0 <= q /\ back <= n_rs_seq => cells[tail[s]].seq_id = {s}
      BY <1>2, <1>3 DEF Shared
    <2>3. whole \/ p0 > 0 \/ q >= p1 \/ Memory.rs_idx[s] = 0
      BY <1>2, <1>3 DEF Settled
    <2> QED BY <1>1, <1>3, <1>4, <2>1, <2>2, <2>3, RmFits
  <1>6. Rest(undo', given_up')
    <2>1. undo \in [Sequence -> 0 .. conf.tokens] /\ given_up \in SUBSET Sequence /\ conf.tokens \in Nat
      BY <1>3 DEF Rest, Configured
    <2>2. cells' = r.cells /\ tail' = r.tail
      BY <1>2 DEF Becomes, Placed
    <2>3. ASSUME tail'[s] # None, cells'[tail'[s]].pos < q
          PROVE  undo[s] - back \in 0 .. conf.tokens
      <3>1. IF tail[s] # None /\ 0 < p0 /\ p0 <= q /\ q < p1
            THEN r.tail[s] = tail[s] /\ (~(back <= n_rs_seq) => r = Memory)
            ELSE /\ r.tail[s] = (IF p0 <= q /\ q < p1 THEN None ELSE tail[s])
                 /\ r.tail[s] # None => r.cells = cells
        BY <1>1, <1>3, <1>4, RmIs
      <3>2. q \in -1 .. conf.len - 1 /\ conf.len \in Nat /\ n_rs_seq \in Nat
        <4>1. tail[s] # None => cells[tail[s]].pos \in 0 .. conf.len - 1
          BY <1>3, KemptIs
        <4> QED BY <1>3, <1>4, <4>1 DEF Configured
      <3>3. ~(q < q)
        BY <3>2
      <3>4. 0 < p0 /\ p0 <= q /\ back <= n_rs_seq
        <4>1. CASE tail[s] # None /\ 0 < p0 /\ p0 <= q /\ q < p1
          <5>1. r = Memory => cells'[tail'[s]].pos = q
            BY <1>3, <1>4, <2>2, <4>1
          <5>2. back <= n_rs_seq
            BY <2>3, <3>1, <3>3, <4>1, <5>1
          <5> QED BY <4>1, <5>2
        <4>2. CASE ~(tail[s] # None /\ 0 < p0 /\ p0 <= q /\ q < p1)
          <5>1. r.tail[s] = tail[s] /\ r.cells = cells
            BY <2>2, <2>3, <3>1, <4>2
          <5>2. tail[s] # None /\ cells'[tail'[s]].pos = q
            BY <1>4, <2>2, <2>3, <5>1
          <5> QED BY <2>3, <3>3, <5>2
        <4> QED BY <4>1, <4>2
      <3>5. back <= undo[s] /\ undo[s] \in 0 .. conf.tokens
        BY <1>2, <2>1, <3>4
      <3>6. back = q - p0 + 1
        BY <1>1
      <3> QED BY <2>1, <3>2, <3>4, <3>5, <3>6
    <2>4. undo' \in [Sequence -> 0 .. conf.tokens]
      BY <1>2, <2>1, <2>3
    <2>5. given_up' \in SUBSET Sequence
      BY <1>2, <2>1
    <2> QED BY <2>4, <2>5 DEF Rest
  <1> QED BY <1>2, <1>3, <1>5, <1>6, CallInv

----------------------------------------------------------------------------
(* The other calls *)

\* A memory without sequences.
LEMMA ClearedFits ==
  ASSUME Configured, NEW sl, NEW gu
  PROVE  FitOf(Cleared, sl, gu) /\ RowsFit(NoStates)
  <1>1. /\ 0 \in Cell /\ 0 \in Groups /\ None \notin Cell /\ conf.len \in Nat
    BY SequencesAre DEF Configured
  <1>2. /\ Cleared.cells = [i \in Cell |-> Empty] /\ Cleared.tail = [s \in Sequence |-> None]
        /\ Cleared.head = 0 /\ Cleared.used = 0 /\ Cleared.rs_idx = [s \in Sequence |-> 0]
    BY DEF Cleared
  <1>3. Kempt(Cleared.cells, Cleared.tail)
    BY <1>1, <1>2, EmptyIs DEF Kempt
  <1>4. Cleared.used = Cardinality(InUse(Cleared.cells))
    <2>1. InUse(Cleared.cells) = {}
      BY <1>2, EmptyIs DEF InUse
    <2> QED BY <1>2, <2>1, FS_EmptySet
  <1>5. \A i \in Cell : Cleared.cells[i].seq_id = {} /\ Cleared.cells[i].src # i
    BY <1>1, <1>2, EmptyIs
  <1>6. FitOf(Cleared, sl, gu)
    BY <1>1, <1>2, <1>3, <1>4, <1>5 DEF FitOf, Fit
  <1>7. RowsFit(NoStates)
    <2>1. <<>> \in RowSet
      BY <1>1 DEF RowSet
    <2> QED BY <2>1 DEF RowsFit, NoStates
  <1> QED BY <1>6, <1>7

LEMMA ClearInv ==
  ASSUME CellsInv, NEW data \in BOOLEAN, Clear(data)
  PROVE  CellsInv'
  <1>1. Configured /\ RowsFit(s_l) /\ conf.tokens \in Nat
    BY MemoryIs DEF CellsInv, Configured
  <1>2. /\ Becomes(Cleared) /\ (s_l' = NoStates \/ s_l' = s_l)
        /\ undo' = [s \in Sequence |-> 0] /\ given_up' = {} /\ conf' = conf /\ kept' = kept
    BY DEF Clear
  <1>3. FitOf(Cleared, s_l', given_up') /\ RowsFit(s_l')
    BY <1>1, <1>2, ClearedFits
  <1>4. Rest(undo', given_up')
    BY <1>1, <1>2 DEF Rest
  <1> QED BY <1>2, <1>3, <1>4, CallInv

\* With no sequences left there is nothing for seq_rm() of all of them to remove.
LEMMA SeqRmAnyInv ==
  ASSUME CellsInv, NEW p0 \in Nat, NEW p1 \in Nat, SeqRmAny(p0, p1), Careless \subseteq {"again"}
  PROVE  CellsInv'
  <1>1. /\ Configured /\ Kempt(cells, tail) /\ used = Cardinality(InUse(cells))
        /\ head \in Cell /\ RowsFit(s_l) /\ Rest(undo, given_up) /\ KeptFits(kept)
        /\ Fit(cells, tail, head, used, rs_idx, s_l, given_up)
        /\ conf.tokens \in Nat
    BY MemoryIs DEF CellsInv, Configured
  <1>2. InUse(cells) = {}
    <2>1. used = 0
      BY DEF SeqRmAny
    <2>2. IsFiniteSet(InUse(cells))
      <3>1. IsFiniteSet(Cell) /\ InUse(cells) \in SUBSET Cell
        BY <1>1, SequencesAre DEF InUse
      <3> QED BY <3>1, FS_Subset
    <2> QED BY <1>1, <2>1, <2>2, FS_EmptySet
  <1>3. \A i \in Cell : Bare(cells[i]) /\ cells[i].seq_id = {} /\ cells[i].pos = -1 /\ ~(cells[i].pos >= 0)
    <2>1. \A i \in Cell : Bare(cells[i]) <=> cells[i].pos = -1
      BY <1>1, KemptIs
    <2>2. \A i \in Cell : Bare(cells[i])
      BY <1>2 DEF InUse
    <2> QED BY <2>1, <2>2 DEF Bare
  <1>4. /\ conf' = conf /\ s_l' = s_l /\ kept' = kept
    BY DEF SeqRmAny
  <1>5. CASE p0 = 0 /\ p1 = Inf
    <2>1. PICK F : F = {i \in Cell : cells[i].pos >= 0}
      OBVIOUS
    <2>2. F = {}
      BY <1>3, <2>1
    <2>3. /\ cells' = [i \in Cell |-> IF i \in F THEN Empty ELSE cells[i]]
          /\ used' = used - Cardinality({i \in F : ~Bare(cells[i])})
          /\ head' = HeadAt(head, F) /\ rs_idx' = [s \in Sequence |-> 0]
          /\ undo' = [s \in Sequence |-> 0] /\ given_up' = {} /\ tail' = tail
      BY <1>5, <2>1 DEF SeqRmAny
    <2>4. cells' = cells
      <3>1. cells \in [Cell -> CellSet]
        BY <1>1, KemptIs
      <3> QED BY <2>2, <2>3, <3>1
    <2>5. used' = used
      <3>1. {i \in F : ~Bare(cells[i])} = {}
        BY <2>2
      <3>2. Cardinality({i \in F : ~Bare(cells[i])}) = 0
        BY <3>1, FS_EmptySet
      <3>3. used \in Nat
        BY <1>1, CountIs, SequencesAre DEF Configured
      <3> QED BY <2>3, <3>2, <3>3
    <2>6. head' = head
      BY <2>2, <2>3 DEF HeadAt
    <2>7. 0 \in Groups
      BY <1>1, SequencesAre
    <2>8. Fit(cells', tail', head', used', rs_idx', s_l', given_up')
      BY <1>1, <1>3, <1>4, <2>3, <2>4, <2>5, <2>6, <2>7 DEF Fit
    <2>9. Rest(undo', given_up')
      BY <1>1, <2>3 DEF Rest
    <2> QED BY <1>1, <1>4, <2>8, <2>9, InvNext
  <1>6. CASE ~(p0 = 0 /\ p1 = Inf)
    <2>1. /\ cells' = cells /\ tail' = tail /\ head' = head /\ used' = used /\ rs_idx' = rs_idx
          /\ undo' = undo /\ given_up' = given_up
      BY <1>6 DEF SeqRmAny, mem
    <2> QED BY <1>1, <1>4, <2>1, InvNext
  <1> QED BY <1>5, <1>6

\* A cell's position changes.
LEMMA MovedInv ==
  ASSUME CellsInv, NEW s \in Sequence, NEW p0, NEW p1, NEW p, Moved(s, p0, p1, p)
  PROVE  CellsInv'
  <1>1. PICK t : t = tail[s]
    OBVIOUS
  <1>2. /\ t # None /\ p \in 0 .. conf.len - 1 /\ cells' = [cells EXCEPT ![t].pos = p]
        /\ conf' = conf /\ tail' = tail /\ head' = head /\ used' = used /\ rs_idx' = rs_idx
        /\ s_l' = s_l /\ undo' = undo /\ given_up' = given_up /\ kept' = kept
    BY <1>1 DEF Moved
  <1>3. /\ Configured /\ Kempt(cells, tail) /\ used = Cardinality(InUse(cells))
        /\ RowsFit(s_l) /\ Rest(undo, given_up) /\ KeptFits(kept)
        /\ head \in Cell /\ rs_idx \in [Sequence -> Groups]
        /\ \A i \in Cell : Bare(cells[i]) /\ cells[i].src = i => s_l[0][i] = <<>>
        /\ \A i \in Cell : \A x \in cells[i].seq_id :
             x \notin given_up /\ cells[i].seq_id # {x} => rs_idx[x] = 0
        /\ \A x \in Sequence : tail[x] = None => rs_idx[x] = 0
    BY MemoryIs DEF CellsInv
  <1>4. /\ cells \in [Cell -> CellSet] /\ t \in Cell /\ ~Bare(cells[t]) /\ cells[t].src = t
        /\ p \in -1 .. conf.len - 1 /\ p # -1
    <2>1. cells \in [Cell -> CellSet] /\ t \in Cell /\ ~Bare(cells[t]) /\ cells[t].src = t
      BY <1>1, <1>2, <1>3, KemptIs
    <2>2. p \in -1 .. conf.len - 1 /\ p # -1
      BY <1>2, <1>3 DEF Configured
    <2> QED BY <2>1, <2>2
  <1>5. PICK c : c = [cells[t] EXCEPT !.pos = p]
    OBVIOUS
  <1>6. /\ c \in CellSet /\ c.pos = p /\ c.seq_id = cells[t].seq_id /\ c.src = t /\ ~Bare(c)
    <2>1. cells[t] \in CellSet
      BY <1>4
    <2>2. /\ c \in CellSet /\ c.pos = p /\ c.seq_id = cells[t].seq_id /\ c.src = t
      BY <1>4, <1>5, <2>1 DEF CellSet
    <2> QED BY <1>4, <2>2 DEF Bare
  <1>7. cells' \in [Cell -> CellSet] /\ cells'[t] = c /\ \A i \in Cell : i # t => cells'[i] = cells[i]
    BY <1>2, <1>4, <1>5, <1>6
  <1>8. Kempt(cells', tail)
    <2>1. \A x \in Sequence, i \in Cell : x \in cells'[i].seq_id <=> tail[x] = i
      BY <1>3, <1>6, <1>7 DEF Kempt
    <2>2. \A i \in Cell : /\ Bare(cells'[i]) <=> cells'[i].pos = -1
                          /\ cells'[i].src \in {None, i} /\ (~Bare(cells'[i]) => cells'[i].src = i)
      BY <1>3, <1>4, <1>6, <1>7 DEF Kempt
    <2>3. tail \in [Sequence -> Cell \cup {None}]
      BY <1>3, KemptIs
    <2> QED BY <1>7, <2>1, <2>2, <2>3 DEF Kempt
  <1>9. InUse(cells') = InUse(cells)
    BY <1>4, <1>6, <1>7 DEF InUse
  <1>10. /\ \A i \in Cell : Bare(cells'[i]) /\ cells'[i].src = i => s_l[0][i] = <<>>
         /\ \A i \in Cell : \A x \in cells'[i].seq_id :
              x \notin given_up /\ cells'[i].seq_id # {x} => rs_idx[x] = 0
    BY <1>3, <1>6, <1>7
  <1>11. Fit(cells', tail', head', used', rs_idx', s_l', given_up')
    BY <1>2, <1>3, <1>8, <1>9, <1>10 DEF Fit
  <1> QED BY <1>2, <1>3, <1>11, InvNext

\* A sequence joins the cell of another one.
LEMMA SeqCpInv ==
  ASSUME CellsInv, NEW a \in Sequence, NEW b \in Sequence, SeqCp(a, b)
  PROVE  CellsInv'
  <1>1. PICK cs, bt, t : /\ cs = IF tail[b] = None THEN cells ELSE Without(cells, b, LAMBDA c : TRUE)
                         /\ bt = [tail EXCEPT ![b] = None] /\ t = tail[a]
    OBVIOUS
  <1>2. /\ a # b /\ a \notin given_up /\ rs_idx[a] = 0 /\ rs_idx[b] = 0
        /\ cells' = [i \in Cell |-> IF i = t THEN [cs[i] EXCEPT !.seq_id = @ \cup {b}] ELSE cs[i]]
        /\ used' = used - Cardinality(Freed(cells, cs)) /\ tail' = [tail EXCEPT ![b] = t]
        /\ undo' = [undo EXCEPT ![b] = undo[a]] /\ given_up' = given_up \ {b}
        /\ conf' = conf /\ head' = head /\ rs_idx' = rs_idx /\ s_l' = s_l /\ kept' = kept
    BY <1>1 DEF SeqCp, Settled
  <1>3. /\ Configured /\ Kempt(cells, tail) /\ used = Cardinality(InUse(cells))
        /\ RowsFit(s_l) /\ Rest(undo, given_up) /\ KeptFits(kept)
        /\ head \in Cell /\ rs_idx \in [Sequence -> Groups]
        /\ \A i \in Cell : Bare(cells[i]) /\ cells[i].src = i => s_l[0][i] = <<>>
        /\ \A i \in Cell : \A x \in cells[i].seq_id :
             x \notin given_up /\ cells[i].seq_id # {x} => rs_idx[x] = 0
        /\ \A x \in Sequence : tail[x] = None => rs_idx[x] = 0
    BY MemoryIs DEF CellsInv
  <1>4. /\ cells \in [Cell -> CellSet] /\ tail \in [Sequence -> Cell \cup {None}]
        /\ \A x \in Sequence, i \in Cell : x \in cells[i].seq_id <=> tail[x] = i
        /\ None \notin Cell
    BY <1>3, KemptIs, SequencesAre
  <1>5. /\ Kempt(cs, bt)
        /\ \A i \in Cell : /\ cs[i].seq_id = cells[i].seq_id \ {b}
                           /\ ~Bare(cs[i]) => cs[i].pos = cells[i].pos /\ ~Bare(cells[i])
                           /\ Bare(cs[i]) /\ cs[i].src = i => cs[i] = cells[i]
    <2>1. CASE tail[b] = None
      <3>1. cs = cells
        BY <1>1, <2>1
      <3>2. bt = tail
        BY <1>1, <1>4, <2>1
      <3>3. \A i \in Cell : b \notin cells[i].seq_id
        BY <1>4, <2>1
      <3> QED BY <1>3, <3>1, <3>2, <3>3
    <2>2. CASE tail[b] # None
      <3>1. /\ DOMAIN cs = Cell /\ cs = [i \in Cell |-> cs[i]]
            /\ \A i \in Cell : cs[i] = IF ~TRUE \/ b \notin cells[i].seq_id THEN cells[i]
                                       ELSE IF cells[i].seq_id = {b} THEN Empty
                                       ELSE [cells[i] EXCEPT !.seq_id = @ \ {b}]
        BY <1>1, <2>2 DEF Without
      <3>2. Leaves(cells, tail, b, cs, bt)
        BY <1>1, <3>1 DEF Leaves
      <3> QED BY <1>3, <3>1, <3>2, LeavesKempt
    <2> QED BY <2>1, <2>2
  <1>6. /\ cs \in [Cell -> CellSet] /\ \A x \in Sequence, i \in Cell : x \in cs[i].seq_id <=> bt[x] = i
        /\ \A i \in Cell : /\ Bare(cs[i]) <=> cs[i].pos = -1
                           /\ cs[i].src \in {None, i} /\ (~Bare(cs[i]) => cs[i].src = i)
    BY <1>5 DEF Kempt
  <1>7. \A i \in Cell : i # t => cells'[i] = cs[i]
    BY <1>2
  <1>8. t \in Cell => /\ cells'[t] \in CellSet /\ cells'[t].seq_id = cs[t].seq_id \cup {b}
                      /\ cells'[t].pos = cs[t].pos /\ cells'[t].src = t /\ ~Bare(cells'[t])
                      /\ ~Bare(cs[t]) /\ a \in cs[t].seq_id /\ a \in cells[t].seq_id
    <2> SUFFICES ASSUME t \in Cell
                 PROVE  /\ cells'[t] \in CellSet /\ cells'[t].seq_id = cs[t].seq_id \cup {b}
                        /\ cells'[t].pos = cs[t].pos /\ cells'[t].src = t /\ ~Bare(cells'[t])
                        /\ ~Bare(cs[t]) /\ a \in cs[t].seq_id /\ a \in cells[t].seq_id
      OBVIOUS
    <2>1. a \in cells[t].seq_id /\ a \in cs[t].seq_id
      BY <1>1, <1>2, <1>4, <1>5
    <2>2. ~Bare(cs[t]) /\ cs[t].src = t /\ cs[t] \in CellSet
      BY <1>6, <2>1 DEF Bare
    <2>3. cells'[t] = [cs[t] EXCEPT !.seq_id = @ \cup {b}]
      BY <1>2
    <2>4. /\ cells'[t] \in CellSet /\ cells'[t].seq_id = cs[t].seq_id \cup {b}
          /\ cells'[t].pos = cs[t].pos /\ cells'[t].src = t
      BY <2>2, <2>3 DEF CellSet
    <2>5. ~Bare(cells'[t])
      BY <2>1, <2>4 DEF Bare
    <2> QED BY <2>1, <2>2, <2>4, <2>5
  <1>9. /\ tail' \in [Sequence -> Cell \cup {None}] /\ tail'[b] = t
        /\ \A x \in Sequence : x # b => tail'[x] = tail[x] /\ bt[x] = tail[x]
        /\ bt[b] = None /\ t \in Cell \cup {None}
    BY <1>1, <1>2, <1>4
  <1>10. Kempt(cells', tail')
    <2>1. cells' \in [Cell -> CellSet]
      <3>1. \A i \in Cell : cells'[i] \in CellSet
        BY <1>6, <1>7, <1>8
      <3>2. cells' = [i \in Cell |-> cells'[i]]
        BY <1>2
      <3> QED BY <3>1, <3>2
    <2>2. ASSUME NEW x \in Sequence, NEW i \in Cell PROVE x \in cells'[i].seq_id <=> tail'[x] = i
      <3>1. CASE i = t
        <4>1. x \in cells'[i].seq_id <=> x \in cs[i].seq_id \/ x = b
          BY <1>8, <3>1
        <4> QED BY <1>6, <1>9, <3>1, <4>1
      <3>2. CASE i # t
        BY <1>4, <1>6, <1>7, <1>9, <3>2
      <3> QED BY <3>1, <3>2
    <2>3. ASSUME NEW i \in Cell
          PROVE  /\ Bare(cells'[i]) <=> cells'[i].pos = -1
                 /\ cells'[i].src \in {None, i} /\ (~Bare(cells'[i]) => cells'[i].src = i)
      BY <1>6, <1>7, <1>8
    <2> QED BY <1>9, <2>1, <2>2, <2>3 DEF Kempt
  <1>11. used' = Cardinality(InUse(cells'))
    <2>1. InUse(cells') = InUse(cs)
      BY <1>7, <1>8 DEF InUse
    <2>2. Cardinality(InUse(cs)) = Cardinality(InUse(cells)) - Cardinality(Freed(cells, cs))
      BY <1>3, <1>5, FreedCount
    <2> QED BY <1>2, <1>3, <2>1, <2>2
  <1>12. \A i \in Cell : Bare(cells'[i]) /\ cells'[i].src = i => s_l[0][i] = <<>>
    BY <1>3, <1>5, <1>7, <1>8
  <1>13. ASSUME NEW i \in Cell, NEW x \in cells'[i].seq_id, x \notin given_up', cells'[i].seq_id # {x}
         PROVE  rs_idx[x] = 0
    <2>1. CASE x = a \/ x = b
      BY <1>2, <2>1
    <2>2. CASE x # a /\ x # b
      <3>1. x \in cells[i].seq_id /\ x \notin given_up
        BY <1>2, <1>5, <1>7, <1>8, <1>13, <2>2
      <3>2. cells[i].seq_id # {x}
        <4>1. CASE i = t
          BY <1>8, <2>2, <4>1
        <4>2. CASE i # t
          BY <1>5, <1>7, <1>13, <2>2, <4>2
        <4> QED BY <4>1, <4>2
      <3> QED BY <1>3, <3>1, <3>2
    <2> QED BY <2>1, <2>2
  <1>14. \A x \in Sequence : tail'[x] = None => rs_idx[x] = 0
    BY <1>2, <1>3, <1>9
  <1>15. Fit(cells', tail', head', used', rs_idx', s_l', given_up')
    BY <1>2, <1>3, <1>10, <1>11, <1>12, <1>13, <1>14 DEF Fit
  <1>16. Rest(undo', given_up')
    BY <1>2, <1>3 DEF Rest
  <1> QED BY <1>2, <1>3, <1>15, <1>16, InvNext

\* One sequence stays.
LEMMA SeqKeepInv ==
  ASSUME CellsInv, NEW s \in Sequence, SeqKeep(s)
  PROVE  CellsInv'
  <1>1. PICK drop : drop = {i \in Cell : s \notin cells[i].seq_id}
    OBVIOUS
  <1>2. /\ \A x \in Sequence \ {s} : rs_idx[x] = 0
        /\ tail' = [t \in Sequence |-> IF t = s THEN tail[s] ELSE None]
        /\ cells' = [i \in Cell |-> IF i \in drop THEN Empty ELSE [cells[i] EXCEPT !.seq_id = {s}]]
        /\ used' = used - Cardinality({i \in drop : cells[i].pos >= 0})
        /\ head' = HeadAt(head, drop)
        /\ undo' = [t \in Sequence |-> IF t = s THEN undo[s] ELSE 0]
        /\ given_up' = given_up \cap {s}
        /\ conf' = conf /\ rs_idx' = rs_idx /\ s_l' = s_l /\ kept' = kept
    BY <1>1 DEF SeqKeep, Settled
  <1>3. /\ Configured /\ Kempt(cells, tail) /\ used = Cardinality(InUse(cells))
        /\ RowsFit(s_l) /\ Rest(undo, given_up) /\ KeptFits(kept)
        /\ head \in Cell /\ rs_idx \in [Sequence -> Groups]
        /\ \A x \in Sequence : tail[x] = None => rs_idx[x] = 0
    BY MemoryIs DEF CellsInv
  <1>4. /\ cells \in [Cell -> CellSet] /\ tail \in [Sequence -> Cell \cup {None}]
        /\ \A x \in Sequence, i \in Cell : x \in cells[i].seq_id <=> tail[x] = i
        /\ \A i \in Cell : /\ Bare(cells[i]) <=> cells[i].pos = -1
                           /\ cells[i].pos \in -1 .. conf.len - 1
                           /\ cells[i].src \in {None, i} /\ (~Bare(cells[i]) => cells[i].src = i)
        /\ None \notin Cell
    BY <1>3, KemptIs, SequencesAre
  <1>5. ASSUME NEW i \in Cell
        PROVE  /\ i \in drop => cells'[i] = Empty /\ tail[s] # i
               /\ i \notin drop => /\ cells'[i] \in CellSet /\ cells'[i].pos = cells[i].pos
                                   /\ cells'[i].src = i /\ cells'[i].seq_id = {s} /\ ~Bare(cells[i])
                                   /\ tail[s] = i /\ cells'[i].pos # -1
    <2>1. CASE i \in drop
      BY <1>1, <1>2, <1>4, <2>1
    <2>2. CASE i \notin drop
      <3>1. s \in cells[i].seq_id /\ tail[s] = i
        BY <1>1, <1>4, <2>2
      <3>2. ~Bare(cells[i]) /\ cells[i].src = i /\ cells[i].pos # -1 /\ cells[i] \in CellSet
        BY <1>4, <3>1 DEF Bare
      <3>3. cells'[i] = [cells[i] EXCEPT !.seq_id = {s}]
        BY <1>2, <2>2
      <3> QED BY <2>2, <3>1, <3>2, <3>3 DEF CellSet
    <2> QED BY <2>1, <2>2
  <1>6. \A i \in Cell : Bare(cells'[i]) <=> i \in drop
    BY <1>5, EmptyIs DEF Bare
  <1>7. Kempt(cells', tail')
    <2>1. cells' \in [Cell -> CellSet]
      <3>1. \A i \in Cell : cells'[i] \in CellSet
        BY <1>3, <1>5, EmptyIs
      <3>2. cells' = [i \in Cell |-> cells'[i]]
        BY <1>2
      <3> QED BY <3>1, <3>2
    <2>2. ASSUME NEW x \in Sequence, NEW i \in Cell PROVE x \in cells'[i].seq_id <=> tail'[x] = i
      <3>1. x # s => tail'[x] = None /\ i # None
        BY <1>2, <1>4
      <3>2. x = s => tail'[x] = tail[s]
        BY <1>2
      <3>3. i \in drop => cells'[i].seq_id = {}
        BY <1>5, EmptyIs
      <3> QED BY <1>5, <3>1, <3>2, <3>3
    <2>3. \A i \in Cell : /\ Bare(cells'[i]) <=> cells'[i].pos = -1
                          /\ cells'[i].src \in {None, i} /\ (~Bare(cells'[i]) => cells'[i].src = i)
      BY <1>5, <1>6, EmptyIs
    <2>4. tail' \in [Sequence -> Cell \cup {None}]
      BY <1>2, <1>4
    <2> QED BY <2>1, <2>2, <2>3, <2>4 DEF Kempt
  <1>8. used' = Cardinality(InUse(cells'))
    <2>1. \A i \in Cell : ~Bare(cells'[i]) => ~Bare(cells[i])
      BY <1>5, <1>6
    <2>2. Freed(cells, cells') = {i \in drop : cells[i].pos >= 0}
      <3>1. drop \in SUBSET Cell
        BY <1>1
      <3>2. \A i \in Cell : ~Bare(cells[i]) <=> cells[i].pos >= 0
        <4>1. \A i \in Cell : cells[i].pos # -1 <=> cells[i].pos >= 0
          <5>1. conf.len \in Nat
            BY <1>3 DEF Configured
          <5> QED BY <1>4, <5>1
        <4> QED BY <1>4, <4>1
      <3> QED BY <1>6, <3>1, <3>2 DEF Freed
    <2>3. Cardinality(InUse(cells')) = Cardinality(InUse(cells)) - Cardinality(Freed(cells, cells'))
      BY <1>3, <2>1, FreedCount
    <2> QED BY <1>2, <1>3, <2>2, <2>3
  <1>9. head' \in Cell
    <2>1. drop \in SUBSET Cell
      BY <1>1
    <2> QED BY <1>2, <1>3, <2>1, HeadIs
  <1>10. /\ \A i \in Cell : cells'[i].src = i => ~Bare(cells'[i])
         /\ \A i \in Cell : \A x \in cells'[i].seq_id : cells'[i].seq_id = {x}
    <2>1. \A i \in Cell : cells'[i].src = i => ~Bare(cells'[i])
      BY <1>4, <1>5, <1>6, EmptyIs
    <2>2. \A i \in Cell : \A x \in cells'[i].seq_id : cells'[i].seq_id = {x}
      BY <1>5, EmptyIs
    <2> QED BY <2>1, <2>2
  <1>11. \A x \in Sequence : tail'[x] = None => rs_idx[x] = 0
    BY <1>2, <1>3
  <1>12. Fit(cells', tail', head', used', rs_idx', s_l', given_up')
    BY <1>2, <1>3, <1>7, <1>8, <1>9, <1>10, <1>11 DEF Fit
  <1>13. Rest(undo', given_up')
    <2>1. 0 \in 0 .. conf.tokens
      BY <1>3 DEF Configured
    <2> QED BY <1>2, <1>3, <2>1 DEF Rest
  <1> QED BY <1>2, <1>3, <1>12, <1>13, InvNext

\* The state of a sequence is in a row.
LEMMA StateIs ==
  ASSUME CellsInv, NEW s \in Sequence
  PROVE  State(s) \in RowSet
  <1>1. /\ Configured /\ Kempt(cells, tail) /\ rs_idx[s] \in Groups
        /\ s_l \in [Groups -> [Cell -> RowSet]]
    BY MemoryIs DEF CellsInv, RowsFit
  <1>2. CASE tail[s] = None
    <2>1. State(s) = <<>> /\ conf.len \in Nat
      BY <1>1, <1>2 DEF State, Configured
    <2> QED BY <2>1 DEF RowSet
  <1>3. CASE tail[s] # None
    <2>1. tail[s] \in Cell /\ cells[tail[s]].src = tail[s]
      BY <1>1, <1>3, KemptIs
    <2>2. Row(tail[s]) = tail[s]
      BY <2>1 DEF Row
    <2>3. State(s) = s_l[rs_idx[s]][tail[s]]
      BY <1>3, <2>2 DEF State
    <2> QED BY <1>1, <2>1, <2>3
  <1> QED BY <1>2, <1>3

LEMMA SaveInv ==
  ASSUME CellsInv, NEW s \in Sequence, Save(s)
  PROVE  CellsInv'
  <1>1. /\ Configured /\ Kempt(cells, tail) /\ RowsFit(s_l) /\ Rest(undo, given_up)
        /\ Fit(cells, tail, head, used, rs_idx, s_l, given_up) /\ State(s) \in RowSet
        /\ SeqPos(s) = IF tail[s] = None THEN -1 ELSE cells[tail[s]].pos
    BY MemoryIs, StateIs, SeqPosIs DEF CellsInv
  <1>2. /\ conf' = conf /\ cells' = cells /\ tail' = tail /\ head' = head /\ used' = used
        /\ rs_idx' = rs_idx /\ s_l' = s_l /\ undo' = undo /\ given_up' = given_up
        /\ kept'.of = "one"
        /\ kept'.cells = IF tail[s] = None THEN <<>>
                         ELSE <<[pos |-> SeqPos(s), seq_id |-> {}, state |-> State(s)]>>
    BY DEF Save, mem
  <1>3. KeptFits(kept')
    <2> DEFINE K == [pos : 0 .. conf.len - 1, seq_id : SUBSET Sequence, state : RowSet]
    <2>1. kept'.cells \in Seq(K) /\ Len(kept'.cells) <= 1
      <3>1. CASE tail[s] = None
        <4>1. kept'.cells = <<>>
          BY <1>2, <3>1
        <4> QED BY <4>1
      <3>2. CASE tail[s] # None
        <4>1. PICK x : x = [pos |-> SeqPos(s), seq_id |-> {}, state |-> State(s)]
          OBVIOUS
        <4>2. SeqPos(s) \in 0 .. conf.len - 1
          BY <1>1, <3>2, KemptIs
        <4>3. x \in K
          BY <1>1, <4>1, <4>2
        <4>4. kept'.cells = <<x>>
          BY <1>2, <3>2, <4>1
        <4> HIDE DEF K
        <4> QED BY <4>3, <4>4
      <3> QED BY <3>1, <3>2
    <2> QED BY <1>2, <2>1 DEF KeptFits
  <1> QED BY <1>1, <1>2, <1>3, InvNext

LEMMA SaveAllInv ==
  ASSUME CellsInv, SaveAll
  PROVE  CellsInv'
  <1>1. PICK C, is : C = InUse(cells) /\ is = InTurn(C)
    OBVIOUS
  <1>2. /\ Configured /\ Kempt(cells, tail) /\ RowsFit(s_l) /\ Rest(undo, given_up)
        /\ Fit(cells, tail, head, used, rs_idx, s_l, given_up)
        /\ rs_idx \in [Sequence -> Groups] /\ Sequence \in SUBSET Nat
        /\ s_l \in [Groups -> [Cell -> RowSet]]
    BY MemoryIs, SequencesAre DEF CellsInv, RowsFit
  <1>3. /\ is \in Seq(C) /\ Len(is) = Cardinality(C) /\ Len(is) \in Nat /\ Len(is) <= size
        /\ \A k, l \in 1 .. Len(is) : is[k] = is[l] => k = l
    <2>1. C \in SUBSET Cell /\ C \in SUBSET Nat /\ IsFiniteSet(C)
      <3>1. C \in SUBSET Cell /\ IsFiniteSet(Cell) /\ Cell \in SUBSET Nat
        BY <1>1, <1>2, SequencesAre DEF InUse
      <3> QED BY <3>1, FS_Subset
    <2>2. /\ is \in Seq(C) /\ Len(is) = Cardinality(C) /\ Len(is) \in Nat /\ Goes(is, Rising)
      BY <1>1, <2>1, InTurnItems
    <2>3. Len(is) <= size
      BY <1>1, <1>2, <2>2, CountIs
    <2>4. DOMAIN is = 1 .. Len(is)
      BY <2>2
    <2>5. \A k, l \in 1 .. Len(is) : k < l => is[k] < is[l] /\ is[k] \in Nat /\ is[l] \in Nat
      BY <2>2, <2>4 DEF Goes, Rising
    <2>6. \A k, l \in 1 .. Len(is) : is[k] = is[l] => k = l
      BY <2>2, <2>5
    <2> QED BY <2>2, <2>3, <2>6
  <1>4. PICK n : n = Len(is)
    OBVIOUS
  <1>5. /\ conf' = conf /\ cells' = cells /\ tail' = tail /\ head' = head /\ used' = used
        /\ rs_idx' = rs_idx /\ s_l' = s_l /\ undo' = undo /\ given_up' = given_up
        /\ kept'.of = "all"
        /\ kept'.cells = [k \in 1 .. n |->
                            [pos |-> cells[is[k]].pos, seq_id |-> cells[is[k]].seq_id,
                             state |-> s_l[rs_idx[Seq0(cells[is[k]].seq_id)]][Row(is[k])]]]
    <2>1. DOMAIN is = 1 .. n /\ C = {i \in Cell : ~Bare(cells[i])}
      BY <1>1, <1>3, <1>4 DEF InUse
    <2> QED BY <1>1, <2>1 DEF SaveAll, mem
  <1> DEFINE K == [pos : 0 .. conf.len - 1, seq_id : SUBSET Sequence, state : RowSet]
  <1>6. ASSUME NEW k \in 1 .. n
        PROVE  /\ kept'.cells[k] \in K /\ kept'.cells[k].seq_id # {}
               /\ kept'.cells[k].seq_id = cells[is[k]].seq_id /\ is[k] \in Cell
    <2>1. PICK i : i = is[k]
      OBVIOUS
    <2>2. i \in Cell /\ ~Bare(cells[i])
      <3>1. i \in C
        BY <1>3, <1>4, <2>1, SequenceItems
      <3> QED BY <1>1, <3>1 DEF InUse
    <2>3. /\ cells[i].seq_id \in SUBSET Sequence /\ cells[i].seq_id # {} /\ cells[i].src = i
          /\ cells[i].pos \in -1 .. conf.len - 1 /\ cells[i].pos # -1
      <3>1. /\ \A j \in Cell : /\ cells[j].pos \in -1 .. conf.len - 1 /\ cells[j].seq_id \in SUBSET Sequence
                               /\ Bare(cells[j]) <=> cells[j].pos = -1
                               /\ cells[j].src \in {None, j} /\ (~Bare(cells[j]) => cells[j].src = j)
        BY <1>2, KemptIs
      <3> QED BY <2>2, <3>1 DEF Bare
    <2>4. Seq0(cells[i].seq_id) \in cells[i].seq_id
      BY <1>2, <2>3, MinOf DEF Seq0
    <2>5. rs_idx[Seq0(cells[i].seq_id)] \in Groups /\ Row(i) = i
      BY <1>2, <2>3, <2>4 DEF Row
    <2>6. s_l[rs_idx[Seq0(cells[i].seq_id)]][Row(i)] \in RowSet
      BY <1>2, <2>2, <2>5
    <2>7. cells[i].pos \in 0 .. conf.len - 1
      BY <1>2, <2>3 DEF Configured
    <2>8. kept'.cells[k] = [pos |-> cells[i].pos, seq_id |-> cells[i].seq_id,
                            state |-> s_l[rs_idx[Seq0(cells[i].seq_id)]][Row(i)]]
      BY <1>5, <2>1
    <2> QED BY <2>1, <2>2, <2>3, <2>6, <2>7, <2>8
  <1>7. kept'.cells \in Seq(K) /\ Len(kept'.cells) = n /\ DOMAIN kept'.cells = 1 .. n
    <2> HIDE DEF K
    <2>1. n \in Nat /\ kept'.cells \in [1 .. n -> K]
      <3>1. n \in Nat /\ DOMAIN kept'.cells = 1 .. n /\ kept'.cells = [k \in 1 .. n |-> kept'.cells[k]]
        BY <1>3, <1>4, <1>5
      <3> QED BY <1>6, <3>1
    <2> QED BY <2>1
  <1>8. ASSUME NEW k \in 1 .. n, NEW l \in 1 .. n,
               kept'.cells[k].seq_id \cap kept'.cells[l].seq_id # {}
        PROVE  k = l
    <2>1. cells[is[k]].seq_id \cap cells[is[l]].seq_id # {} /\ is[k] \in Cell /\ is[l] \in Cell
      BY <1>6, <1>8
    <2>2. PICK x \in cells[is[k]].seq_id : x \in cells[is[l]].seq_id
      BY <2>1
    <2>3. /\ \A i \in Cell : cells[i].seq_id \in SUBSET Sequence
          /\ \A y \in Sequence, i \in Cell : y \in cells[i].seq_id <=> tail[y] = i
      BY <1>2, KemptIs
    <2>4. is[k] = is[l]
      BY <2>1, <2>2, <2>3
    <2> QED BY <1>3, <1>4, <2>4
  <1>9. KeptFits(kept')
    BY <1>3, <1>4, <1>5, <1>6, <1>7, <1>8 DEF KeptFits
  <1> QED BY <1>2, <1>5, <1>9, InvNext

----------------------------------------------------------------------------
(* A state is read, or decoding fails: find_slot() for one cell *)

\* What find_slot() gives is a memory, and one cell is a window of its own.
LEMMA FindSlotHas ==
  ASSUME NEW m, NEW u, NEW last
  PROVE  /\ {"cells", "tail", "head", "used", "rs_idx"} \subseteq DOMAIN FindSlot(m, u, last)
         /\ FindSlot(m, u, last).rs_idx = m.rs_idx
         /\ LET x == Seated(m, u)
                tails == {x.tail[Seq0(u[k])] : k \in DOMAIN u}
            IN FindSlot(m, u, last).min = Min(tails) /\ FindSlot(m, u, last).max = Max(tails)
  <1>1. ASSUME NEW w, NEW lo, NEW hi, NEW a, NEW b
        PROVE  LET g == Sourced(m, w, lo, hi, a, b)
               IN /\ {"cells", "tail", "head", "used", "rs_idx"} \subseteq DOMAIN g
                  /\ g.rs_idx = m.rs_idx /\ g.min = lo /\ g.max = hi
    BY DEF Sourced
  <1>2. PICK x, tails, w : /\ x = Seated(m, u) /\ tails = {x.tail[Seq0(u[k])] : k \in DOMAIN u}
                           /\ w = Occupy(Gather([cells |-> x.cells, tail |-> x.tail], u, Min(tails)), u, Min(tails), last)
    OBVIOUS
  <1>3. FindSlot(m, u, last) = Sourced(m, w, Min(tails), Max(tails), x.ok, Cardinality(tails) = Len(u))
    BY <1>2, FindSlotSources
  <1>4. PICK f : f = FindSlot(m, u, last)
    OBVIOUS
  <1>5. /\ {"cells", "tail", "head", "used", "rs_idx"} \subseteq DOMAIN f
        /\ f.rs_idx = m.rs_idx /\ f.min = Min(tails) /\ f.max = Max(tails)
    BY <1>1, <1>3, <1>4
  <1> QED BY <1>2, <1>4, <1>5

LEMMA OneCell ==
  ASSUME Configured, NEW m, NEW u, Ubatch(u), Len(u) = 1, NEW last, NEW f,
         f = FindSlot(m, u, last), Found(m, u, last, f)
  PROVE  f.max = f.min
  <1>1. PICK x, tails, t : /\ x = Seated(m, u) /\ tails = {x.tail[Seq0(u[k])] : k \in DOMAIN u}
                           /\ t = x.tail[Seq0(u[1])]
    OBVIOUS
  <1>2. f.min = Min(tails) /\ f.max = Max(tails)
    BY <1>1, FindSlotHas
  <1>3. tails = {t}
    <2>1. DOMAIN u = {1}
      BY UbatchIs
    <2> QED BY <1>1, <2>1
  <1>4. f.min = CHOOSE y \in {t} : \A z \in {t} : y <= z
    BY <1>2, <1>3 DEF Min
  <1>5. f.max = CHOOSE y \in {t} : \A z \in {t} : y >= z
    BY <1>2, <1>3 DEF Max
  <1>6. f.min \in Cell /\ f.max \in Cell /\ Cell \in SUBSET Nat
    BY SequencesAre DEF Found
  <1> QED BY <1>4, <1>5, <1>6

\* The cell of a ubatch that has one is taken: its sequences share it only if they are given up.
LEMMA OneCellFits ==
  ASSUME Configured, NEW m, Mem(m), NEW sl, NEW gu, FitOf(m, sl, gu),
         NEW u, Ubatch(u), Len(u) = 1, NEW last \in [1 .. 1 -> 0 .. conf.len - 1],
         NEW f, f = FindSlot(m, u, last), NEW go, gu \subseteq go,
         u[1] \subseteq go \/ u[1] = {Seq0(u[1])},
         NEW ro \in [Sequence -> Groups], \A x \in Sequence : ro[x] \in {0, m.rs_idx[x]},
         NEW s2, \A i \in Cell : i # f.min => s2[0][i] = sl[0][i]
  PROVE  /\ Fit(f.cells, f.tail, f.head, f.used, ro, s2, go)
         /\ f.max = f.min /\ f.min \in Cell /\ f.zero \in {None, f.min}
  <1>1. /\ Kempt(m.cells, m.tail) /\ m.head \in Cell /\ m.used \in 0 .. size
        /\ \A i \in Cell : Bare(m.cells[i]) /\ m.cells[i].src = i => sl[0][i] = <<>>
        /\ \A i \in Cell : \A x \in m.cells[i].seq_id : x \notin gu /\ m.cells[i].seq_id # {x} => m.rs_idx[x] = 0
        /\ \A x \in Sequence : m.tail[x] = None => m.rs_idx[x] = 0
    <2>1. m.used \in 0 .. size
      BY CountIs DEF Mem
    <2> QED BY <2>1 DEF Mem, FitOf, Fit
  <1>2. Found(m, u, last, f)
    BY <1>1, FindSlotIs
  <1>3. f.max = f.min
    BY <1>2, OneCell
  <1>4. /\ Kempt(f.cells, f.tail) /\ f.min \in Cell /\ f.head = f.min /\ f.used = Cardinality(InUse(f.cells))
        /\ f.min .. f.min = {f.min} /\ f.min + 1 - 1 = f.min
        /\ Cell \in SUBSET Nat /\ None \notin Cell
    <2>1. /\ Kempt(f.cells, f.tail) /\ f.min \in Cell /\ f.head = f.min
          /\ f.used = Cardinality(InUse(f.cells))
      BY <1>2 DEF Found, InUse
    <2>2. f.min \in Nat /\ Cell \in SUBSET Nat /\ None \notin Cell
      BY <2>1, SequencesAre
    <2>3. f.min .. f.min = {f.min} /\ f.min + 1 - 1 = f.min
      BY <2>2
    <2> QED BY <2>1, <2>2, <2>3
  <1>5. Members(u) = u[1] /\ Seq0(u[1]) \in u[1] /\ u[1] \in SUBSET Sequence
    <2>1. DOMAIN u = {1} /\ Seq0(u[1]) \in u[1] /\ u[1] \in SUBSET Sequence
      BY UbatchIs
    <2> QED BY <2>1 DEF Members
  <1>6. /\ f.cells[f.min].seq_id = u[1] /\ \A x \in u[1] : f.tail[x] = f.min
        /\ f.zero \in {None, f.min}
        /\ \A i \in Cell : Bare(f.cells[i]) => i # f.min /\ (f.cells[i].src = i => Untouched(m, i))
    <2>1. /\ f.cells[f.min + 1 - 1].seq_id = u[1] /\ \A x \in u[1] : f.tail[x] = f.min + 1 - 1
      BY <1>2 DEF Found
    <2>2. f.zero = None \/ f.zero \in f.min .. f.max
      BY <1>2 DEF Found
    <2>3. \A i \in Cell : Bare(f.cells[i]) =>
            /\ i \notin f.min .. f.min + 1 - 1
            /\ i \notin f.min .. f.max => (f.cells[i].src = i => Untouched(m, i))
      BY <1>2 DEF Found
    <2> QED BY <1>3, <1>4, <2>1, <2>2, <2>3
  <1>7. ASSUME NEW x \in Sequence, x \notin u[1]
        PROVE  /\ f.tail[x] = None => m.tail[x] = None
               /\ f.tail[x] # None => f.cells[f.tail[x]].seq_id = m.cells[m.tail[x]].seq_id \ u[1] /\ m.tail[x] # None
    BY <1>2, <1>5, <1>7 DEF Found
  <1>8. /\ \A x \in Sequence, i \in Cell : x \in f.cells[i].seq_id <=> f.tail[x] = i
        /\ \A i \in Cell : f.cells[i].seq_id \in SUBSET Sequence
    BY <1>4, KemptIs
  <1>9. ASSUME NEW i \in Cell, Bare(f.cells[i]), f.cells[i].src = i PROVE s2[0][i] = <<>>
    <2>1. i # f.min /\ Untouched(m, i) /\ i # None
      BY <1>4, <1>6, <1>9
    <2>2. sl[0][i] = <<>>
      BY <1>1, <2>1 DEF Untouched
    <2> QED BY <2>1, <2>2
  <1>10. ASSUME NEW i \in Cell, NEW x \in f.cells[i].seq_id, x \notin go, f.cells[i].seq_id # {x}
         PROVE  ro[x] = 0
    <2>1. x \in Sequence /\ f.tail[x] = i /\ i # None
      BY <1>4, <1>8
    <2>2. x \notin u[1]
      <3>1. SUFFICES ASSUME x \in u[1] PROVE FALSE
        OBVIOUS
      <3>2. i = f.min /\ f.cells[i].seq_id = u[1]
        BY <1>6, <2>1, <3>1
      <3>3. u[1] = {Seq0(u[1])}
        BY <1>10, <3>1
      <3> QED BY <1>10, <3>1, <3>2, <3>3
    <2>3. m.tail[x] # None /\ f.cells[i].seq_id = m.cells[m.tail[x]].seq_id \ u[1]
      BY <1>7, <2>1, <2>2
    <2>4. m.tail[x] \in Cell /\ x \in m.cells[m.tail[x]].seq_id
      BY <1>1, <2>1, <2>3, KemptIs
    <2>5. m.cells[m.tail[x]].seq_id # {x}
      BY <1>10, <2>2, <2>3
    <2>6. m.rs_idx[x] = 0
      BY <1>1, <1>10, <2>4, <2>5
    <2> QED BY <2>1, <2>6
  <1>11. ASSUME NEW x \in Sequence, f.tail[x] = None PROVE ro[x] = 0
    <2>1. x \notin u[1]
      BY <1>4, <1>6, <1>11
    <2>2. m.rs_idx[x] = 0
      BY <1>1, <1>7, <1>11, <2>1
    <2> QED BY <2>2
  <1>12. Fit(f.cells, f.tail, f.head, f.used, ro, s2, go)
    BY <1>4, <1>9, <1>10, <1>11 DEF Fit
  <1> QED BY <1>3, <1>4, <1>6, <1>12

\* Removing one from a memory that was just given it.
LEMMA FitsMem ==
  ASSUME NEW m, NEW sl, NEW gu, FitOf(m, sl, gu),
         {"cells", "tail", "head", "used", "rs_idx"} \subseteq DOMAIN m
  PROVE  Mem(m)
  BY DEF FitOf, Fit, Mem

\* Rows that change in one place.
LEMMA RowsSet ==
  ASSUME Configured, RowsFit(s_l), NEW i \in Cell, NEW x \in RowSet
  PROVE  /\ RowsFit([s_l EXCEPT ![0][i] = x])
         /\ \A j \in Cell : j # i => [s_l EXCEPT ![0][i] = x][0][j] = s_l[0][j]
  <1>1. s_l \in [Groups -> [Cell -> RowSet]] /\ 0 \in Groups
    BY SequencesAre DEF RowsFit
  <1>2. PICK z : z = [s_l[0] EXCEPT ![i] = x]
    OBVIOUS
  <1>3. z \in [Cell -> RowSet] /\ \A j \in Cell : j # i => z[j] = s_l[0][j]
    BY <1>1, <1>2
  <1>4. [s_l EXCEPT ![0][i] = x] = [s_l EXCEPT ![0] = z]
    BY <1>1, <1>2
  <1>5. [s_l EXCEPT ![0] = z] \in [Groups -> [Cell -> RowSet]] /\ [s_l EXCEPT ![0] = z][0] = z
    BY <1>1, <1>3
  <1> QED BY <1>3, <1>4, <1>5 DEF RowsFit

LEMMA RestoreInv ==
  ASSUME CellsInv, NEW s \in Sequence, Restore(s)
  PROVE  CellsInv'
  <1>1. PICK m, go : m = Rm(Memory, s, 0, Inf) /\ go = given_up \ {s}
    OBVIOUS
  <1>2. /\ undo' = [undo EXCEPT ![s] = 0] /\ given_up' = go /\ conf' = conf /\ kept' = kept
        /\ kept.of = "one"
    BY <1>1 DEF Restore
  <1>3. /\ Configured /\ Mem(Memory) /\ FitOf(Memory, s_l, given_up) /\ Memory.tail = tail
        /\ RowsFit(s_l) /\ Rest(undo, given_up) /\ KeptFits(kept)
        /\ conf.len \in Nat /\ conf.tokens \in Nat
        /\ 0 \in Nat /\ Inf \in Nat
    BY MemoryIs, MemoryFits DEF CellsInv, Configured, Inf
  <1>4. FitOf(m, s_l, go) /\ Mem(m)
    <2>1. PICK q : q = (IF Memory.tail[s] = None THEN -1 ELSE Memory.cells[Memory.tail[s]].pos)
      OBVIOUS
    <2>2. given_up \ {s} \subseteq go /\ ~(0 < 0)
      BY <1>1
    <2>3. FitOf(m, s_l, go)
      BY <1>1, <1>3, <2>1, <2>2, RmFits
    <2>4. RmDone(Memory, s, m)
      BY <1>1, <1>3, RmIs
    <2> QED BY <2>3, <2>4 DEF RmDone
  <1>5. Rest(undo', given_up')
    BY <1>1, <1>2, <1>3 DEF Rest
  <1>6. CASE kept.cells = <<>>
    <2>1. Becomes(m) /\ s_l' = s_l
      BY <1>1, <1>6 DEF Restore
    <2> QED BY <1>2, <1>3, <1>4, <1>5, <2>1, CallInv
  <1>7. CASE kept.cells # <<>>
    <2>1. PICK u, last, f, x : /\ u = <<{s}>> /\ last = <<kept.cells[1].pos>>
                               /\ f = FindSlot(m, u, last) /\ x = kept.cells[1].state
      OBVIOUS
    <2>2. \/ Becomes(f) /\ s_l' = [s_l EXCEPT ![0][f.min] = x]
          \/ Becomes(Rm(f, s, 0, Inf)) /\ s_l' = [s_l EXCEPT ![0][f.min] = Junk]
      BY <1>1, <1>7, <2>1 DEF Restore
    <2>3. kept.cells[1].pos \in 0 .. conf.len - 1 /\ x \in RowSet
      <3> DEFINE K == [pos : 0 .. conf.len - 1, seq_id : SUBSET Sequence, state : RowSet]
      <3>1. kept.cells \in Seq(K)
        BY <1>3 DEF KeptFits
      <3>2. kept.cells[1] \in K
        <4> HIDE DEF K
        <4>1. Len(kept.cells) \in Nat /\ Len(kept.cells) # 0
          BY <1>7, <3>1
        <4>2. 1 \in 1 .. Len(kept.cells)
          BY <4>1
        <4> QED BY <3>1, <4>2, SequenceItems
      <3> QED BY <2>1, <3>2
    <2>4. /\ Ubatch(u) /\ Len(u) = 1 /\ u[1] = {s} /\ last \in [1 .. 1 -> 0 .. conf.len - 1]
      <3>1. u \in Seq((SUBSET Sequence) \ {{}}) /\ Len(u) = 1 /\ u[1] = {s}
        BY <2>1
      <3>2. \A k, l \in 1 .. 1 : k = l
        OBVIOUS
      <3>3. last \in [1 .. 1 -> 0 .. conf.len - 1]
        BY <2>1, <2>3
      <3> QED BY <3>1, <3>2, <3>3 DEF Ubatch
    <2>5. u[1] = {Seq0(u[1])}
      <3>1. 1 \in 1 .. Len(u) /\ Configured /\ Ubatch(u)
        BY <1>3, <2>4
      <3>2. Seq0(u[1]) \in u[1]
        BY <3>1, UbatchIs
      <3> QED BY <2>4, <3>2
    <2>6. m.rs_idx \in [Sequence -> Groups] /\ \A y \in Sequence : m.rs_idx[y] \in {0, m.rs_idx[y]}
      BY <1>4 DEF Mem
    <2>a. ASSUME NEW s2, \A i \in Cell : i # f.min => s2[0][i] = s_l[0][i]
          PROVE  Fit(f.cells, f.tail, f.head, f.used, m.rs_idx, s2, go) /\ f.min \in Cell
      <3>1. Configured /\ Mem(m) /\ FitOf(m, s_l, go) /\ Ubatch(u) /\ Len(u) = 1
        BY <1>3, <1>4, <2>4
      <3>2. /\ last \in [1 .. 1 -> 0 .. conf.len - 1] /\ f = FindSlot(m, u, last) /\ go \subseteq go
            /\ u[1] \subseteq go \/ u[1] = {Seq0(u[1])}
        BY <2>1, <2>4, <2>5
      <3> QED BY <2>6, <2>a, <3>1, <3>2, OneCellFits
    <2>7. f.min \in Cell
      <3>1. \A i \in Cell : i # f.min => s_l[0][i] = s_l[0][i]
        OBVIOUS
      <3> QED BY <2>a, <3>1
    <2>8. f.rs_idx = m.rs_idx /\ {"cells", "tail", "head", "used", "rs_idx"} \subseteq DOMAIN f
      BY <2>1, FindSlotHas
    <2>9. ASSUME NEW y \in RowSet
          PROVE  /\ FitOf(f, [s_l EXCEPT ![0][f.min] = y], go) /\ RowsFit([s_l EXCEPT ![0][f.min] = y])
                 /\ Mem(f)
      <3>1. PICK s2 : s2 = [s_l EXCEPT ![0][f.min] = y]
        OBVIOUS
      <3>2. RowsFit(s2) /\ \A i \in Cell : i # f.min => s2[0][i] = s_l[0][i]
        BY <1>3, <2>7, <3>1, RowsSet
      <3>4. Fit(f.cells, f.tail, f.head, f.used, m.rs_idx, s2, go)
        BY <2>a, <3>2
      <3>5. FitOf(f, s2, go)
        BY <2>8, <3>4 DEF FitOf
      <3>6. Mem(f)
        BY <2>8, <3>5, FitsMem
      <3> QED BY <3>1, <3>2, <3>5, <3>6
    <2>10. CASE Becomes(f) /\ s_l' = [s_l EXCEPT ![0][f.min] = x]
      <3>1. FitOf(f, s_l', given_up') /\ RowsFit(s_l')
        BY <1>2, <2>3, <2>9, <2>10
      <3> QED BY <1>2, <1>5, <2>10, <3>1, CallInv
    <2>11. CASE Becomes(Rm(f, s, 0, Inf)) /\ s_l' = [s_l EXCEPT ![0][f.min] = Junk]
      <3>1. Junk \in RowSet
        <4>1. conf.len > 0
          BY <1>3, <2>3
        <4> QED BY <1>3, <4>1 DEF Junk, RowSet
      <3>2. FitOf(f, s_l', go) /\ RowsFit(s_l') /\ Mem(f)
        BY <2>9, <2>11, <3>1
      <3>3. FitOf(Rm(f, s, 0, Inf), s_l', go)
        <4>1. PICK q : q = (IF f.tail[s] = None THEN -1 ELSE f.cells[f.tail[s]].pos)
          OBVIOUS
        <4>2. go \ {s} \subseteq go /\ ~(0 < 0)
          OBVIOUS
        <4>3. s \in go => s \in go \/ (0 = 0 /\ Inf = Inf)
          OBVIOUS
        <4> QED BY <1>3, <3>2, <4>1, <4>2, <4>3, RmFits
      <3> QED BY <1>2, <1>5, <2>11, <3>2, <3>3, CallInv
    <2> QED BY <2>2, <2>10, <2>11
  <1> QED BY <1>6, <1>7

\* A ubatch of one cell fails: f is the slot that was found, m the memory with the indices that
\* the graph has reset, if it got that far, and r what is left after the removal.
FailedTo(u, last, f, m, r) ==
  /\ Ubatch(u) /\ Len(u) = 1 /\ Members(u) = u[1] /\ Seq0(u[1]) \in u[1] /\ u[1] \in SUBSET Sequence
  /\ last \in [1 .. 1 -> 0 .. conf.len - 1] /\ f = FindSlot(Memory, u, last)
  /\ Mem(m) /\ m.cells = f.cells /\ m.tail = f.tail /\ m.rs_idx \in {rs_idx, Reset(f)}
  /\ SeqPos(Seq0(u[1])) + 1 \in Nat /\ r = Rm(m, Seq0(u[1]), SeqPos(Seq0(u[1])) + 1, Inf)
  /\ FitOf(r, s_l', given_up') /\ Becomes(r)
  /\ RowsFit(s_l') /\ \A g \in Groups, i \in Cell : i # f.min => s_l'[g][i] = s_l[g][i]

LEMMA DecodeFailsTo ==
  ASSUME CellsInv, NEW u \in Ubatches, NEW n \in 1 .. conf.tokens, DecodeFails(u, n),
         Careless \subseteq {"again"}
  PROVE  \E last, f, m, r : FailedTo(u, last, f, m, r)
  <1>1. PICK f, last, go, s : /\ last = LastPositions(u, n) /\ f = FindSlot(Memory, u, last)
                              /\ go = given_up \cup Members(u) /\ s = Seq0(u[1])
    OBVIOUS
  <1>2. /\ Decodable(u, n) /\ (f.max = f.min \/ "wide" \in Careless)
        /\ given_up' = go /\ conf' = conf /\ kept' = kept
        /\ undo' = [x \in Sequence |-> IF x \in Members(u) THEN 0 ELSE undo[x]]
    BY <1>1 DEF DecodeFails
  <1>3. PICK aborted \in BOOLEAN :
          /\ s_l' = IF ~aborted THEN s_l
                    ELSE [g \in Groups |-> [i \in Cell |->
                            IF i \in f.min .. f.max THEN Junk ELSE Zeroed(f)[g][i]]]
          /\ Becomes(For(LAMBDA m, k : Rm(m, Seq0(u[k]), SeqPos(Seq0(u[k])) + 1, Inf),
                         IF aborted THEN [f EXCEPT !.rs_idx = Reset(f)] ELSE f, Len(u)))
    BY <1>1 DEF DecodeFails
  <1>4. f.max = f.min
    BY <1>2
  <1>5. /\ Configured /\ Ubatch(u) /\ n \in Nat \ {0} /\ Mem(Memory) /\ FitOf(Memory, s_l, given_up)
        /\ RowsFit(s_l) /\ Rest(undo, given_up) /\ Kempt(cells, tail)
        /\ conf.len \in Nat /\ conf.tokens \in Nat /\ Inf \in Nat
        /\ Memory.rs_idx = rs_idx /\ rs_idx \in [Sequence -> Groups]
        /\ Kempt(Memory.cells, Memory.tail) /\ Memory.head \in Cell /\ Memory.used \in 0 .. size
    BY MemoryIs, MemoryFits, UbatchesAre DEF CellsInv, Configured, Inf
  <1>6. last \in [1 .. Len(u) -> 0 .. conf.len - 1] /\ conf.len > 0
    BY <1>1, <1>2, <1>5, LastIs
  <1>7. Found(Memory, u, last, f)
    BY <1>1, <1>5, <1>6, FindSlotIs
  <1>8. Len(u) = 1
    <2>1. f.min \in Nat /\ f.min + Len(u) - 1 <= f.min /\ Len(u) \in Nat \ {0}
      BY <1>4, <1>5, <1>7, UbatchIs, SequencesAre DEF Found
    <2>2. PICK l, v : l = Len(u) /\ v = f.min
      OBVIOUS
    <2>3. v \in Nat /\ v + l - 1 <= v /\ l \in Nat \ {0}
      BY <2>1, <2>2
    <2>4. l = 1
      BY <2>3
    <2> QED BY <2>2, <2>4
  <1>9. /\ Members(u) = u[1] /\ s \in u[1] /\ u[1] \in SUBSET Sequence
        /\ Seq0(u[1]) = s /\ f.min .. f.max = {f.min}
    <2>1. 1 \in 1 .. Len(u) /\ DOMAIN u = {1}
      BY <1>5, <1>8, UbatchIs
    <2>2. Seq0(u[1]) \in u[1] /\ u[1] \in SUBSET Sequence
      BY <1>5, <2>1, UbatchIs
    <2>3. f.min \in Nat
      BY <1>5, <1>7, SequencesAre DEF Found
    <2> QED BY <1>1, <1>4, <2>1, <2>2, <2>3 DEF Members
  <1>10. f.rs_idx = rs_idx /\ {"cells", "tail", "head", "used", "rs_idx"} \subseteq DOMAIN f
    <2>1. f = FindSlot(Memory, u, last)
      BY <1>1
    <2>2. /\ FindSlot(Memory, u, last).rs_idx = Memory.rs_idx
          /\ {"cells", "tail", "head", "used", "rs_idx"} \subseteq DOMAIN FindSlot(Memory, u, last)
      BY FindSlotHas
    <2> QED BY <1>5, <2>1, <2>2
  <1>11. ASSUME NEW ro \in [Sequence -> Groups], \A x \in Sequence : ro[x] \in {0, rs_idx[x]},
                NEW s2, \A i \in Cell : i # f.min => s2[0][i] = s_l[0][i]
         PROVE  Fit(f.cells, f.tail, f.head, f.used, ro, s2, go) /\ f.zero \in {None, f.min}
    <2>1. Configured /\ Mem(Memory) /\ FitOf(Memory, s_l, given_up) /\ Ubatch(u) /\ Len(u) = 1
      BY <1>5, <1>8
    <2>2. /\ last \in [1 .. 1 -> 0 .. conf.len - 1] /\ f = FindSlot(Memory, u, last)
          /\ given_up \subseteq go /\ u[1] \subseteq go
      BY <1>1, <1>6, <1>8, <1>9
    <2>3. \A x \in Sequence : ro[x] \in {0, Memory.rs_idx[x]}
      BY <1>5, <1>11
    <2> QED BY <1>11, <2>1, <2>2, <2>3, OneCellFits
  <1>12. \A i \in Cell : i # f.zero \/ f.zero = f.min
    <2>1. f.zero \in {None, f.min}
      <3>1. \A x \in Sequence : rs_idx[x] \in {0, rs_idx[x]}
        OBVIOUS
      <3>2. \A i \in Cell : i # f.min => s_l[0][i] = s_l[0][i]
        OBVIOUS
      <3> QED BY <1>5, <1>11, <3>1, <3>2
    <2>2. None \notin Cell
      BY <1>5, SequencesAre
    <2> QED BY <2>1, <2>2
  <1>13. RowsFit(s_l') /\ \A g \in Groups, i \in Cell : i # f.min => s_l'[g][i] = s_l[g][i]
    <2>1. CASE ~aborted
      BY <1>3, <1>5, <2>1
    <2>2. CASE aborted
      <3>1. Junk \in RowSet
        BY <1>5, <1>6 DEF Junk, RowSet
      <3>2. f.zero = None \/ f.zero \in Cell
        BY <1>5, <1>7, FoundNow
      <3>3. /\ Zeroed(f) \in [Groups -> [Cell -> RowSet]] /\ 0 \in Groups
            /\ \A g \in Groups, r \in Cell :
                 Zeroed(f)[g][r] = IF g = 0 /\ r = f.zero THEN <<>> ELSE s_l[g][r]
        BY <1>5, <3>2, ZeroedIs, SequencesAre
      <3>4. s_l' = [g \in Groups |-> [i \in Cell |->
                      IF i \in f.min .. f.max THEN Junk ELSE Zeroed(f)[g][i]]]
        BY <1>3, <2>2
      <3>5. RowsFit(s_l')
        BY <3>1, <3>3, <3>4 DEF RowsFit
      <3>6. ASSUME NEW g \in Groups, NEW i \in Cell, i # f.min PROVE s_l'[g][i] = s_l[g][i]
        <4>1. i \notin f.min .. f.max /\ i # f.zero
          BY <1>9, <1>12, <3>6
        <4> QED BY <3>3, <3>4, <4>1
      <3> QED BY <3>5, <3>6
    <2> QED BY <2>1, <2>2
  <1>14. PICK m : m = IF aborted THEN [f EXCEPT !.rs_idx = Reset(f)] ELSE f
    OBVIOUS
  <1>15. /\ FitOf(m, s_l', go) /\ Mem(m)
         /\ m.cells = f.cells /\ m.tail = f.tail /\ m.rs_idx \in {rs_idx, Reset(f)}
    <2>1. PICK ro : ro = IF aborted THEN Reset(f) ELSE rs_idx
      OBVIOUS
    <2>2. ro \in [Sequence -> Groups] /\ \A x \in Sequence : ro[x] \in {0, rs_idx[x]}
      BY <1>5, <2>1, ResetIs
    <2>3. Fit(f.cells, f.tail, f.head, f.used, ro, s_l', go)
      <3>1. \A i \in Cell : i # f.min => s_l'[0][i] = s_l[0][i]
        BY <1>5, <1>13, SequencesAre
      <3> QED BY <1>11, <2>2, <3>1
    <2>4. /\ m.cells = f.cells /\ m.tail = f.tail /\ m.head = f.head /\ m.used = f.used
          /\ m.rs_idx = ro /\ {"cells", "tail", "head", "used", "rs_idx"} \subseteq DOMAIN m
      BY <1>10, <1>14, <2>1
    <2>5. FitOf(m, s_l', go)
      BY <2>3, <2>4 DEF FitOf
    <2> QED BY <2>1, <2>4, <2>5, FitsMem
  <1>16. PICK p0, r : p0 = SeqPos(s) + 1 /\ r = Rm(m, s, p0, Inf)
    OBVIOUS
  <1>17. s \in Sequence /\ p0 \in Nat
    <2>1. s \in Sequence
      BY <1>9
    <2>2. SeqPos(s) = IF tail[s] = None THEN -1 ELSE cells[tail[s]].pos
      BY <1>5, <2>1, SeqPosIs
    <2>3. tail[s] # None => cells[tail[s]].pos \in 0 .. conf.len - 1
      BY <1>5, <2>1, KemptIs
    <2> QED BY <1>5, <1>16, <2>1, <2>2, <2>3
  <1>18. FitOf(r, s_l', go)
    <2>1. PICK q : q = (IF m.tail[s] = None THEN -1 ELSE m.cells[m.tail[s]].pos)
      OBVIOUS
    <2>2. go \ {s} \subseteq go /\ s \in go
      BY <1>1, <1>9
    <2>3. (p0 = 0 /\ Inf = Inf) \/ p0 > 0
      BY <1>17
    <2> QED BY <1>5, <1>15, <1>16, <1>17, <2>1, <2>2, <2>3, RmFits
  <1>19. Becomes(r)
    <2>1. PICK F : F = [k \in 0 .. 1 |-> IF k = 0 THEN m ELSE r]
      OBVIOUS
    <2>2. F = [k \in 0 .. 1 |-> IF k = 0 THEN m
                                ELSE Rm(F[k - 1], Seq0(u[k]), SeqPos(Seq0(u[k])) + 1, Inf)]
      <3>1. \A k \in 0 .. 1 : k # 0 => k = 1 /\ k - 1 = 0 /\ 0 \in 0 .. 1
        OBVIOUS
      <3>2. F[0] = m
        BY <2>1
      <3>3. ASSUME NEW k \in 0 .. 1, k # 0
            PROVE  r = Rm(F[k - 1], Seq0(u[k]), SeqPos(Seq0(u[k])) + 1, Inf)
        BY <1>9, <1>16, <3>1, <3>2, <3>3
      <3> QED BY <2>1, <3>3
    <2>3. ASSUME NEW G, G = [k \in 0 .. 1 |-> IF k = 0 THEN m
                                ELSE Rm(G[k - 1], Seq0(u[k]), SeqPos(Seq0(u[k])) + 1, Inf)]
          PROVE  G[1] = F[1]
      <3>1. 1 \in Nat
        OBVIOUS
      <3>2. G[0] = F[0]
        BY <2>1, <2>3
      <3>3. ASSUME NEW k \in 1 .. 1, G[k - 1] = F[k - 1] PROVE G[k] = F[k]
        <4>1. k \in 0 .. 1 /\ k # 0
          OBVIOUS
        <4> QED BY <2>2, <2>3, <3>3, <4>1, Zenon
      <3> QED BY <3>1, <3>2, <3>3, SameLoop
    <2>4. For(LAMBDA x, k : Rm(x, Seq0(u[k]), SeqPos(Seq0(u[k])) + 1, Inf), m, 1) = F[1]
      BY <2>2, <2>3, Zenon DEF For
    <2>5. F[1] = r
      BY <2>1
    <2> QED BY <1>3, <1>8, <1>14, <2>4, <2>5
  <1>20. /\ Ubatch(u) /\ last \in [1 .. 1 -> 0 .. conf.len - 1] /\ f = FindSlot(Memory, u, last)
    BY <1>1, <1>5, <1>6, <1>8
  <1>21. FailedTo(u, last, f, m, r)
    BY <1>2, <1>8, <1>9, <1>13, <1>15, <1>16, <1>17, <1>18, <1>19, <1>20 DEF FailedTo
  <1> QED BY <1>21

LEMMA DecodeFailsInv ==
  ASSUME CellsInv, NEW u \in Ubatches, NEW n \in 1 .. conf.tokens, DecodeFails(u, n),
         Careless \subseteq {"again"}
  PROVE  CellsInv'
  <1>1. PICK last, f, m, r : FailedTo(u, last, f, m, r)
    BY DecodeFailsTo
  <1>2. /\ given_up' = given_up \cup Members(u) /\ conf' = conf /\ kept' = kept
        /\ undo' = [x \in Sequence |-> IF x \in Members(u) THEN 0 ELSE undo[x]]
    BY DEF DecodeFails
  <1>3. Members(u) \in SUBSET Sequence /\ Rest(undo, given_up) /\ conf.tokens \in Nat
    BY <1>1, MemoryIs DEF FailedTo, CellsInv, Configured
  <1>4. Rest(undo', given_up')
    BY <1>2, <1>3 DEF Rest
  <1>5. Becomes(r) /\ FitOf(r, s_l', given_up') /\ RowsFit(s_l')
    BY <1>1 DEF FailedTo
  <1> QED BY <1>2, <1>4, <1>5, CallInv

\* The cells that were kept, one after the other.
LEMMA RestoreAllInv ==
  ASSUME CellsInv, RestoreAll
  PROVE  CellsInv'
  <1>1. PICK n : n = Len(kept.cells)
    OBVIOUS
  <1>2. /\ kept.of = "all" /\ conf' = conf /\ kept' = kept
        /\ undo' = [s \in Sequence |-> 0] /\ given_up' = {}
    BY DEF RestoreAll
  <1>3. /\ Configured /\ RowsFit(s_l) /\ KeptFits(kept) /\ conf.tokens \in Nat /\ conf.len \in Nat
        /\ size \in Nat \ {0} /\ Cell = 0 .. size - 1 /\ 0 \in Groups /\ None \notin Cell /\ 0 \in Cell
        /\ None = -1
    BY MemoryIs, SequencesAre DEF CellsInv, Configured, None
  <1> DEFINE K == [pos : 0 .. conf.len - 1, seq_id : SUBSET Sequence, state : RowSet]
             at(i) == kept.cells[i + 1]
  <1>4. /\ kept.cells \in Seq(K) /\ n \in Nat /\ n <= size /\ DOMAIN kept.cells = 1 .. n
        /\ \A i \in 0 .. n - 1 : i \in Cell /\ at(i) \in K /\ at(i).seq_id # {}
        /\ \A i, j \in 0 .. n - 1 : at(i).seq_id \cap at(j).seq_id # {} => i = j
    <2>1. /\ kept.cells \in Seq(K) /\ n <= size
          /\ \A i, j \in DOMAIN kept.cells :
               kept.cells[i].seq_id # {} /\ (kept.cells[i].seq_id \cap kept.cells[j].seq_id # {} => i = j)
      BY <1>1, <1>2, <1>3 DEF KeptFits
    <2> HIDE DEF K
    <2>2. n \in Nat /\ DOMAIN kept.cells = 1 .. n /\ \A i \in 1 .. n : kept.cells[i] \in K
      BY <1>1, <2>1, SequenceItems
    <2>3. ASSUME NEW i \in 0 .. n - 1
          PROVE  i + 1 \in 1 .. n /\ i \in Cell
      BY <1>3, <2>1, <2>2
    <2>4. \A i \in 0 .. n - 1 : i \in Cell /\ at(i) \in K /\ at(i).seq_id # {}
      BY <2>1, <2>2, <2>3
    <2>5. ASSUME NEW i \in 0 .. n - 1, NEW j \in 0 .. n - 1, at(i).seq_id \cap at(j).seq_id # {}
          PROVE  i = j
      <3>1. i + 1 = j + 1
        BY <2>1, <2>2, <2>3, <2>5
      <3> QED BY <2>2, <3>1
    <2> QED BY <2>1, <2>2, <2>4, <2>5
  <1>5. PICK cs, tl, all :
          /\ cs = [i \in Cell |-> IF i < n THEN [pos |-> at(i).pos, src |-> i, seq_id |-> at(i).seq_id]
                                  ELSE Empty]
          /\ tl = [s \in Sequence |-> Max({None} \cup {i \in 0 .. n - 1 : s \in at(i).seq_id})]
          /\ all = [Cleared EXCEPT !.cells = cs, !.tail = tl, !.used = n]
    OBVIOUS
  <1>6. \/ /\ Becomes(all)
           /\ s_l' = [g \in Groups |-> [i \in Cell |-> IF g = 0 /\ i < n THEN at(i).state ELSE <<>>]]
        \/ Becomes(Cleared) /\ s_l' = NoStates
    BY <1>1, <1>5, Zenon DEF RestoreAll
  <1>7. Rest(undo', given_up')
    BY <1>2, <1>3 DEF Rest
  <1>8. CASE Becomes(Cleared) /\ s_l' = NoStates
    <2>1. FitOf(Cleared, s_l', given_up') /\ RowsFit(s_l')
      BY <1>3, <1>8, ClearedFits
    <2> QED BY <1>2, <1>7, <1>8, <2>1, CallInv
  <1>9. CASE /\ Becomes(all)
             /\ s_l' = [g \in Groups |-> [i \in Cell |-> IF g = 0 /\ i < n THEN at(i).state ELSE <<>>]]
    <2>1. \A i \in Cell : i < n <=> i \in 0 .. n - 1
      BY <1>3, <1>4
    <2>2. ASSUME NEW i \in Cell, i < n
          PROVE  /\ cs[i] \in CellSet /\ cs[i].pos = at(i).pos /\ cs[i].pos # -1 /\ cs[i].src = i
                 /\ cs[i].seq_id = at(i).seq_id /\ at(i).seq_id # {} /\ at(i).state \in RowSet
      <3>1. at(i) \in K /\ at(i).seq_id # {}
        BY <1>4, <2>1, <2>2
      <3>2. /\ at(i).pos \in 0 .. conf.len - 1 /\ at(i).seq_id \in SUBSET Sequence /\ at(i).state \in RowSet
        BY <3>1
      <3> HIDE DEF at, K
      <3>3. cs[i] = [pos |-> at(i).pos, src |-> i, seq_id |-> at(i).seq_id]
        BY <1>5, <2>2
      <3>4. at(i).pos \in -1 .. conf.len - 1 /\ at(i).pos # -1
        BY <1>3, <3>2
      <3> QED BY <3>1, <3>2, <3>3, <3>4 DEF CellSet
    <2>3. ASSUME NEW i \in Cell, ~(i < n) PROVE cs[i] = Empty
      BY <1>5, <2>3
    <2>4. ASSUME NEW s \in Sequence
          PROVE  /\ tl[s] \in Cell \cup {None}
                 /\ \A i \in Cell : s \in cs[i].seq_id <=> tl[s] = i
      <3>1. PICK T : T = {i \in 0 .. n - 1 : s \in at(i).seq_id}
        OBVIOUS
      <3>2. tl[s] = Max({None} \cup T)
        BY <1>5, <3>1
      <3>3. \A i \in Cell : s \in cs[i].seq_id <=> i \in T
        <4>1. T \in SUBSET (0 .. n - 1)
          BY <3>1
        <4>2. ASSUME NEW i \in Cell PROVE s \in cs[i].seq_id <=> i \in T
          <5>1. CASE i < n
            BY <2>1, <2>2, <3>1, <5>1
          <5>2. CASE ~(i < n)
            <6>1. cs[i].seq_id = {} /\ i \notin T
              BY <2>1, <2>3, <4>1, <5>2, EmptyIs
            <6> QED BY <6>1
          <5> QED BY <5>1, <5>2
        <4> QED BY <4>2
      <3>4. \A i, j \in T : i = j
        BY <1>4, <3>1
      <3>5. T \in SUBSET Cell /\ T \in SUBSET Nat
        <4>1. T \in SUBSET (0 .. n - 1)
          BY <3>1
        <4> QED BY <1>3, <1>4, <4>1
      <3>6. {None} \cup T \in SUBSET (-1 .. size) /\ {None} \cup T # {}
        BY <1>3, <3>5
      <3>7. PICK y : y = Max({None} \cup T)
        OBVIOUS
      <3>8. y \in {None} \cup T /\ \A z \in {None} \cup T : y >= z
        BY <1>3, <3>6, <3>7, MaxOf
      <3>9. \A z \in T : y = z
        <4>1. ASSUME NEW z \in T PROVE y = z
          <5>1. y >= z /\ z \in Nat
            BY <3>5, <3>8
          <5>2. y # None
            BY <1>3, <5>1
          <5> QED BY <3>4, <3>8, <5>2
        <4> QED BY <4>1
      <3>10. \A i \in Cell : i \in T <=> y = i
        BY <1>3, <3>8, <3>9
      <3> QED BY <3>2, <3>3, <3>5, <3>7, <3>8, <3>10
    <2>5. Kempt(cs, tl)
      <3>1. cs \in [Cell -> CellSet]
        <4>1. \A i \in Cell : cs[i] \in CellSet
          BY <1>3, <2>2, <2>3, EmptyIs
        <4>2. cs = [i \in Cell |-> cs[i]]
          BY <1>5
        <4> QED BY <4>1, <4>2
      <3>2. tl \in [Sequence -> Cell \cup {None}]
        <4>1. tl = [s \in Sequence |-> tl[s]]
          BY <1>5
        <4> QED BY <2>4, <4>1
      <3>3. ASSUME NEW i \in Cell
            PROVE  /\ Bare(cs[i]) <=> cs[i].pos = -1
                   /\ cs[i].src \in {None, i} /\ (~Bare(cs[i]) => cs[i].src = i)
        <4>1. CASE i < n
          BY <2>2, <4>1 DEF Bare
        <4>2. CASE ~(i < n)
          BY <2>3, <4>2, EmptyIs
        <4> QED BY <4>1, <4>2
      <3> QED BY <2>4, <3>1, <3>2, <3>3 DEF Kempt
    <2>6. n = Cardinality(InUse(cs))
      <3>1. \A i \in Cell : ~Bare(cs[i]) <=> i < n
        BY <2>2, <2>3, EmptyIs DEF Bare
      <3>2. InUse(cs) = 0 .. n - 1
        BY <1>4, <2>1, <3>1 DEF InUse
      <3>3. Cardinality(0 .. n - 1) = IF 0 > n - 1 THEN 0 ELSE n - 1 - 0 + 1
        BY <1>4, FS_Interval
      <3> QED BY <1>4, <3>2, <3>3
    <2>7. /\ all.cells = cs /\ all.tail = tl /\ all.head = 0 /\ all.used = n
          /\ all.rs_idx = [s \in Sequence |-> 0]
      BY <1>5 DEF Cleared
    <2>8. /\ \A i \in Cell : ~(Bare(cs[i]) /\ cs[i].src = i)
      <3>1. \A i \in Cell : i < n => ~Bare(cs[i])
        BY <2>2 DEF Bare
      <3>2. \A i \in Cell : ~(i < n) => cs[i].src # i
        BY <1>3, <2>3, EmptyIs
      <3> QED BY <3>1, <3>2
    <2>9. \A i \in Cell : cs[i].seq_id \in SUBSET Sequence
      BY <1>3, <2>5, KemptIs
    <2>10. FitOf(all, s_l', given_up')
      <3>1. all.rs_idx \in [Sequence -> Groups] /\ \A s \in Sequence : all.rs_idx[s] = 0
        BY <1>3, <2>7
      <3> QED BY <1>3, <2>5, <2>6, <2>7, <2>8, <2>9, <3>1 DEF FitOf, Fit
    <2>11. RowsFit(s_l')
      <3>1. <<>> \in RowSet
        BY <1>3 DEF RowSet
      <3>2. \A i \in Cell : i < n => at(i).state \in RowSet
        BY <2>2
      <3> HIDE DEF at
      <3> QED BY <1>9, <3>1, <3>2 DEF RowsFit
    <2> QED BY <1>2, <1>7, <1>9, <2>10, <2>11, CallInv
  <1> QED BY <1>6, <1>8, <1>9

----------------------------------------------------------------------------
(* The memory calls keep the cells as find_slot() needs them *)

LEMMA MemStutterInv ==
  ASSUME CellsInv, UNCHANGED memvars
  PROVE  CellsInv'
  <1>1. /\ conf' = conf /\ cells' = cells /\ tail' = tail /\ head' = head /\ used' = used
        /\ rs_idx' = rs_idx /\ s_l' = s_l /\ undo' = undo /\ given_up' = given_up /\ kept' = kept
    BY DEF memvars, mem
  <1>2. /\ Fit(cells, tail, head, used, rs_idx, s_l, given_up)
        /\ RowsFit(s_l) /\ KeptFits(kept) /\ Rest(undo, given_up)
    BY DEF CellsInv
  <1> QED BY <1>1, <1>2, InvNext

LEMMA MemNextInv ==
  ASSUME CellsInv, [MemNext]_memvars, Careless \subseteq {"again"}
  PROVE  CellsInv'
  <1>1. Configured
    BY MemoryIs
  <1>2. CASE \E u \in Ubatches, n \in 1 .. conf.tokens : DecodeUbatch(u, n) \/ DecodeFails(u, n)
    BY <1>2, DecodeUbatchInv, DecodeFailsInv
  <1>3. ASSUME NEW r \in Ranges,
               \/ SeqRmAny(r[1], r[2])
               \/ \E s \in Sequence : \/ SeqRm(s, r[1], r[2])
                                      \/ \E d \in {-1, 1} : SeqAdd(s, r[1], r[2], d)
                                      \/ SeqDiv(s, r[1], r[2], 2)
        PROVE  CellsInv'
    <2>1. r[1] \in Nat /\ r[2] \in Nat
      BY <1>1, RangesAre
    <2>2. CASE SeqRmAny(r[1], r[2])
      BY <2>1, <2>2, SeqRmAnyInv
    <2>3. CASE \E s \in Sequence : SeqRm(s, r[1], r[2])
      BY <2>1, <2>3, SeqRmInv
    <2>4. CASE \E s \in Sequence : \E d \in {-1, 1} : SeqAdd(s, r[1], r[2], d)
      BY <2>4, MovedInv DEF SeqAdd
    <2>5. CASE \E s \in Sequence : SeqDiv(s, r[1], r[2], 2)
      BY <2>5, MovedInv DEF SeqDiv
    <2> QED BY <1>3, <2>2, <2>3, <2>4, <2>5
  <1>4. ASSUME NEW s \in Sequence,
               SeqKeep(s) \/ Save(s) \/ Restore(s) \/ \E t \in Sequence : SeqCp(s, t)
        PROVE  CellsInv'
    BY <1>4, SeqKeepInv, SaveInv, RestoreInv, SeqCpInv
  <1>5. CASE \E data \in BOOLEAN : Clear(data)
    BY <1>5, ClearInv
  <1>6. CASE SaveAll
    BY <1>6, SaveAllInv
  <1>7. CASE RestoreAll
    BY <1>7, RestoreAllInv
  <1>8. CASE UNCHANGED memvars
    BY <1>8, MemStutterInv
  <1> QED BY <1>2, <1>3, <1>4, <1>5, <1>6, <1>7, <1>8, Zenon DEF MemNext

\* Whatever is decoded, copied, rolled back, saved or restored, the tails, the counts and the
\* sets of sequences of the cells agree, and no assertion of find_slot() fails in the next
\* ubatch: where callers do not remove all sequences at once while there are any, and only
\* ubatches of one cell fail.
THEOREM CellsStaySound ==
  ASSUME Careless \subseteq {"again"}
  PROVE  MemSpec => []CellsSound
  <1>1. MemInit => CellsInv
    BY MemInitInv
  <1>2. CellsInv /\ [MemNext]_memvars => CellsInv'
    BY MemNextInv
  <1>3. CellsInv => CellsSound
    BY InvSound
  <1> QED BY <1>1, <1>2, <1>3, PTL DEF MemSpec

----------------------------------------------------------------------------
(* The states that the callers see *)

\* The position and the state of a sequence.
PosAt(c, t, s)     == IF t[s] = None THEN -1 ELSE c[t[s]].pos
StateAt(t, ro, sl, s) == IF t[s] = None THEN <<>> ELSE sl[ro[s]][t[s]]

SeqIds == 0 .. MaxSeq - 1

PosView(c, t, gu)        == [s \in SeqIds |-> IF s \in Sequence \ gu THEN PosAt(c, t, s) ELSE -1]
StateView(t, ro, sl, gu) == [s \in SeqIds |-> IF s \in Sequence \ gu THEN StateAt(t, ro, sl, s) ELSE <<>>]
UndoView(un)             == [s \in SeqIds |-> IF s \in Sequence THEN un[s] ELSE 0]

\* The largest configuration has room for the sequences of all of them.
Bounded == \E n \in Nat : \A c \in Confs : c.size <= n

LEMMA SeqIdsAre ==
  ASSUME CellsInv, Bounded
  PROVE  /\ MaxSeq \in Nat /\ SeqIds = 0 .. MaxSeq - 1 /\ Sequence \in SUBSET SeqIds
         /\ given_up \in SUBSET Sequence
  <1>1. PICK n \in Nat : \A c \in Confs : c.size <= n
    BY DEF Bounded
  <1>2. PICK T : T = {c.size : c \in Confs}
    OBVIOUS
  <1>3. conf \in Confs /\ Configured /\ given_up \in SUBSET Sequence
    BY MemoryIs DEF CellsInv, Rest
  <1>4. T \in SUBSET (-1 .. n) /\ T # {} /\ size \in T /\ T \in SUBSET Nat
    <2>1. \A c \in Confs : c.size \in Nat
      BY RecurrentAssumption DEF RecurrentAssumption
    <2> QED BY <1>1, <1>2, <1>3, <2>1 DEF size
  <1>5. Max(T) \in T /\ \A x \in T : Max(T) >= x
    BY <1>4, MaxOf
  <1>6. MaxSeq = Max(T)
    BY <1>2, Zenon DEF MaxSeq
  <1>7. MaxSeq \in Nat /\ size <= MaxSeq /\ size \in Nat
    BY <1>4, <1>5, <1>6
  <1>8. Sequence \in SUBSET (0 .. MaxSeq - 1)
    BY <1>3, <1>7, SequencesAre
  <1> QED BY <1>3, <1>7, <1>8 DEF SeqIds

LEMMA SeqNow ==
  ASSUME CellsInv, NEW s \in Sequence
  PROVE  SeqPos(s) = PosAt(cells, tail, s) /\ State(s) = StateAt(tail, rs_idx, s_l, s)
  <1>1. Configured /\ Kempt(cells, tail)
    BY MemoryIs
  <1>2. SeqPos(s) = PosAt(cells, tail, s)
    BY <1>1, SeqPosIs DEF PosAt
  <1>3. CASE tail[s] = None
    BY <1>2, <1>3 DEF State, StateAt
  <1>4. CASE tail[s] # None
    <2>1. tail[s] \in Cell /\ cells[tail[s]].src = tail[s]
      BY <1>1, <1>4, KemptIs
    <2>2. Row(tail[s]) = tail[s]
      BY <2>1 DEF Row
    <2> QED BY <1>2, <1>4, <2>2 DEF State, StateAt
  <1> QED BY <1>3, <1>4

LEMMA SeenNow ==
  CellsInv => /\ PosSeen = PosView(cells, tail, given_up)
              /\ StateSeen = StateView(tail, rs_idx, s_l, given_up)
              /\ UndoSeen = UndoView(undo)
  <1> SUFFICES ASSUME CellsInv
               PROVE  /\ PosSeen = PosView(cells, tail, given_up)
                      /\ StateSeen = StateView(tail, rs_idx, s_l, given_up)
                      /\ UndoSeen = UndoView(undo)
    OBVIOUS
  <1>2. ASSUME NEW s \in Sequence
        PROVE  SeqPos(s) = PosAt(cells, tail, s) /\ State(s) = StateAt(tail, rs_idx, s_l, s)
    BY SeqNow
  <1>3. PosSeen = PosView(cells, tail, given_up)
    BY <1>2 DEF PosSeen, PosView, SeqIds, SeqPos
  <1>4. StateSeen = StateView(tail, rs_idx, s_l, given_up)
    BY <1>2 DEF StateSeen, StateView, SeqIds
  <1>5. UndoSeen = UndoView(undo)
    BY DEF UndoSeen, UndoView, SeqIds
  <1> QED BY <1>3, <1>4, <1>5

LEMMA SeenNext ==
  ASSUME CellsInv', conf' = conf
  PROVE  /\ PosSeen' = PosView(cells', tail', given_up')
         /\ StateSeen' = StateView(tail', rs_idx', s_l', given_up')
         /\ UndoSeen' = UndoView(undo')
  <1>1. (CellsInv => /\ PosSeen = PosView(cells, tail, given_up)
                      /\ StateSeen = StateView(tail, rs_idx, s_l, given_up)
                      /\ UndoSeen = UndoView(undo))'
    BY SeenNow, PTL
  <1>2. Sequence' = Sequence
    BY DEF Sequence, size
  <1>3. PosView(cells, tail, given_up)' = PosView(cells', tail', given_up')
    BY <1>2 DEF PosView, PosAt, None, SeqIds
  <1>4. StateView(tail, rs_idx, s_l, given_up)' = StateView(tail', rs_idx', s_l', given_up')
    BY <1>2 DEF StateView, StateAt, None, SeqIds
  <1>5. UndoView(undo)' = UndoView(undo')
    BY <1>2 DEF UndoView, SeqIds
  <1> QED BY <1>1, <1>3, <1>4, <1>5

\* While a sequence is not rolled back, the rows of its cell in the groups are its state without
\* the last tokens, as many as may be taken back; and who is given up shares with no other.
Snap(t, ro, sl, un, s) ==
  t[s] # None /\ ro[s] = 0 =>
     \A g \in 0 .. un[s] : /\ g <= n_rs_seq /\ g <= Len(sl[0][t[s]])
                           /\ sl[g][t[s]] = SubSeq(sl[0][t[s]], 1, Len(sl[0][t[s]]) - g)

Together(t, gu) == \A x, y \in Sequence : t[x] # None /\ t[x] = t[y] /\ x \in gu => y \in gu

Snaps(t, ro, sl, un, gu) == Together(t, gu) /\ \A s \in Sequence \ gu : Snap(t, ro, sl, un, s)

StatesInv == CellsInv /\ Snaps(tail, rs_idx, s_l, undo, given_up)

\* A step that is not about the sequence x.
Stays(x) ==
  /\ tail'[x] = tail[x] /\ rs_idx'[x] = rs_idx[x] /\ undo'[x] = undo[x]
  /\ tail[x] # None => /\ cells'[tail[x]].pos = cells[tail[x]].pos
                       /\ \A g \in Groups : s_l'[g][tail[x]] = s_l[g][tail[x]]

LEMMA StaysSeen ==
  ASSUME CellsInv, NEW x \in Sequence, Stays(x)
  PROVE  /\ PosAt(cells', tail', x) = PosAt(cells, tail, x)
         /\ StateAt(tail', rs_idx', s_l', x) = StateAt(tail, rs_idx, s_l, x)
         /\ Snap(tail, rs_idx, s_l, undo, x) => Snap(tail', rs_idx', s_l', undo', x)
  <1>1. /\ rs_idx[x] \in Groups /\ 0 \in Groups /\ Groups = 0 .. n_rs_seq /\ n_rs_seq \in Nat
        /\ undo[x] \in Nat
    <2>1. undo[x] \in 0 .. conf.tokens /\ conf.tokens \in Nat
      BY MemoryIs DEF CellsInv, Rest, Configured
    <2> QED BY <2>1, MemoryIs, SequencesAre DEF Configured
  <1>2. CASE tail[x] = None
    BY <1>2 DEF Stays, PosAt, StateAt, Snap
  <1>3. CASE tail[x] # None
    <2>1. PICK i : i = tail[x]
      OBVIOUS
    <2>2. /\ tail'[x] = i /\ rs_idx'[x] = rs_idx[x] /\ undo'[x] = undo[x]
          /\ cells'[i].pos = cells[i].pos /\ \A g \in Groups : s_l'[g][i] = s_l[g][i]
      BY <1>3, <2>1 DEF Stays
    <2>3. ASSUME Snap(tail, rs_idx, s_l, undo, x) PROVE Snap(tail', rs_idx', s_l', undo', x)
      <3> SUFFICES ASSUME rs_idx[x] = 0, NEW g \in 0 .. undo[x]
                   PROVE  /\ g <= n_rs_seq /\ g <= Len(s_l'[0][i])
                          /\ s_l'[g][i] = SubSeq(s_l'[0][i], 1, Len(s_l'[0][i]) - g)
        BY <2>2, Zenon DEF Snap
      <3>1. /\ g <= n_rs_seq /\ g <= Len(s_l[0][i])
            /\ s_l[g][i] = SubSeq(s_l[0][i], 1, Len(s_l[0][i]) - g)
        BY <1>3, <2>1, <2>3 DEF Snap
      <3>2. g \in Groups
        BY <1>1, <3>1
      <3>3. s_l'[g][i] = s_l[g][i] /\ s_l'[0][i] = s_l[0][i]
        BY <1>1, <2>2, <3>2
      <3> QED BY <3>1, <3>3
    <2> QED BY <1>1, <1>3, <2>1, <2>2, <2>3 DEF PosAt, StateAt
  <1> QED BY <1>2, <1>3

\* A sequence that can take nothing back.
LEMMA SnapNone ==
  ASSUME Configured, NEW t, NEW ro, NEW sl, NEW un, NEW s, un[s] = 0, sl[0][t[s]] \in Seq(Int)
  PROVE  Snap(t, ro, sl, un, s)
  <1>1. PICK r : r = sl[0][t[s]]
    OBVIOUS
  <1>2. Len(r) \in Nat /\ SubSeq(r, 1, Len(r) - 0) = r
    BY <1>1
  <1>3. \A g \in 0 .. un[s] : g = 0
    OBVIOUS
  <1>4. 0 <= n_rs_seq
    BY DEF Configured
  <1> QED BY <1>1, <1>2, <1>3, <1>4 DEF Snap

\* What is kept is seen as it was, where it does not change.
LEMMA KeptStays ==
  ASSUME kept' = kept
  PROVE  KeptSeen' = KeptSeen
  BY DEF KeptSeen

\* Nothing is seen of the sequences S afterwards.
LEMMA RemovedSeen ==
  ASSUME CellsInv, CellsInv', Bounded, conf' = conf, NEW S \in SUBSET Sequence,
         \A x \in S : (tail'[x] = None \/ x \in given_up') /\ undo'[x] = 0,
         \A x \in Sequence \ S : Stays(x) /\ (x \in given_up' <=> x \in given_up)
  PROVE  States!Removed(S)
  <1>1. /\ PosSeen = PosView(cells, tail, given_up) /\ UndoSeen = UndoView(undo)
        /\ StateSeen = StateView(tail, rs_idx, s_l, given_up)
    BY SeenNow
  <1>2. /\ PosSeen' = PosView(cells', tail', given_up') /\ UndoSeen' = UndoView(undo')
        /\ StateSeen' = StateView(tail', rs_idx', s_l', given_up')
    BY SeenNext
  <1>3. SeqIds = 0 .. MaxSeq - 1 /\ Sequence \in SUBSET SeqIds
    BY SeqIdsAre
  <1>4. PosSeen' = [s \in SeqIds |-> IF s \in S THEN -1 ELSE PosSeen[s]]
    <2>1. ASSUME NEW s \in SeqIds
          PROVE  (IF s \in Sequence \ given_up' THEN PosAt(cells', tail', s) ELSE -1)
                    = IF s \in S THEN -1 ELSE PosSeen[s]
      <3>1. PosSeen[s] = IF s \in Sequence \ given_up THEN PosAt(cells, tail, s) ELSE -1
        BY <1>1 DEF PosView
      <3>2. CASE s \in S
        BY <3>2 DEF PosAt
      <3>3. CASE s \in Sequence \ S
        BY <3>1, <3>3, StaysSeen
      <3>4. CASE s \notin Sequence
        BY <3>1, <3>4
      <3> QED BY <3>2, <3>3, <3>4
    <2> QED BY <1>2, <2>1 DEF PosView
  <1>5. StateSeen' = [s \in SeqIds |-> IF s \in S THEN <<>> ELSE StateSeen[s]]
    <2>1. ASSUME NEW s \in SeqIds
          PROVE  (IF s \in Sequence \ given_up' THEN StateAt(tail', rs_idx', s_l', s) ELSE <<>>)
                    = IF s \in S THEN <<>> ELSE StateSeen[s]
      <3>1. StateSeen[s] = IF s \in Sequence \ given_up THEN StateAt(tail, rs_idx, s_l, s) ELSE <<>>
        BY <1>1 DEF StateView
      <3>2. CASE s \in S
        BY <3>2 DEF StateAt
      <3>3. CASE s \in Sequence \ S
        BY <3>1, <3>3, StaysSeen
      <3>4. CASE s \notin Sequence
        BY <3>1, <3>4
      <3> QED BY <3>2, <3>3, <3>4
    <2> QED BY <1>2, <2>1 DEF StateView
  <1>6. UndoSeen' = [s \in SeqIds |-> IF s \in S THEN 0 ELSE UndoSeen[s]]
    <2>1. ASSUME NEW s \in SeqIds
          PROVE  (IF s \in Sequence THEN undo'[s] ELSE 0) = IF s \in S THEN 0 ELSE UndoSeen[s]
      <3>1. UndoSeen[s] = IF s \in Sequence THEN undo[s] ELSE 0
        BY <1>1 DEF UndoView
      <3>2. s \in Sequence \ S => undo'[s] = undo[s]
        BY DEF Stays
      <3> QED BY <3>1, <3>2
    <2> QED BY <1>2, <2>1 DEF UndoView
  <1> QED BY <1>3, <1>4, <1>5, <1>6 DEF States!Removed, States!Sequence

\* The sequences S are gone, and others stay.
LEMMA Forgotten ==
  ASSUME StatesInv, CellsInv', Bounded, conf' = conf, kept' = kept, NEW S \in SUBSET Sequence,
         \A x \in S : tail'[x] = None /\ undo'[x] = 0, \A x \in Sequence \ S : Stays(x),
         given_up' = given_up \ S
  PROVE  Snaps(tail', rs_idx', s_l', undo', given_up') /\ States!Next
  <1>1. CellsInv /\ Together(tail, given_up) /\ \A s \in Sequence \ given_up : Snap(tail, rs_idx, s_l, undo, s)
    BY DEF StatesInv, Snaps
  <1>2. Together(tail', given_up')
    BY <1>1 DEF Together, Stays
  <1>3. ASSUME NEW s \in Sequence \ given_up' PROVE Snap(tail', rs_idx', s_l', undo', s)
    <2>1. CASE s \in S
      BY <2>1 DEF Snap
    <2>2. CASE s \notin S
      BY <1>1, <2>2, StaysSeen
    <2> QED BY <2>1, <2>2
  <1>4. States!Removed(S)
    BY <1>1, RemovedSeen
  <1>5. States!Forget(S)
    BY <1>4, KeptStays DEF States!Forget
  <1>6. S \in SUBSET States!Sequence
    BY <1>1, SeqIdsAre DEF States!Sequence
  <1>7. States!Next
    BY <1>5, <1>6 DEF States!Next
  <1> QED BY <1>2, <1>3, <1>7 DEF Snaps

----------------------------------------------------------------------------
(* Calls that remove sequences *)

\* What every step has to do, and those that do nothing.
Seen == <<PosSeen, StateSeen, UndoSeen, given_up, KeptSeen>>

StatesStep ==
  Snaps(tail', rs_idx', s_l', undo', given_up') /\ (States!Next \/ Seen' = Seen)

LEMMA SameSeen ==
  ASSUME StatesInv, CellsInv', conf' = conf, \A x \in Sequence : Stays(x), given_up' = given_up
  PROVE  /\ Snaps(tail', rs_idx', s_l', undo', given_up')
         /\ PosSeen' = PosSeen /\ StateSeen' = StateSeen /\ UndoSeen' = UndoSeen
  <1>1. CellsInv /\ Together(tail, given_up) /\ \A s \in Sequence \ given_up : Snap(tail, rs_idx, s_l, undo, s)
    BY DEF StatesInv, Snaps
  <1>2. \A x \in Sequence : /\ PosAt(cells', tail', x) = PosAt(cells, tail, x)
                            /\ StateAt(tail', rs_idx', s_l', x) = StateAt(tail, rs_idx, s_l, x)
                            /\ Snap(tail, rs_idx, s_l, undo, x) => Snap(tail', rs_idx', s_l', undo', x)
    BY <1>1, StaysSeen
  <1>3. Together(tail', given_up')
    BY <1>1 DEF Together, Stays
  <1>4. Snaps(tail', rs_idx', s_l', undo', given_up')
    BY <1>1, <1>2, <1>3 DEF Snaps
  <1>5. PosView(cells', tail', given_up') = PosView(cells, tail, given_up)
    BY <1>2 DEF PosView
  <1>6. StateView(tail', rs_idx', s_l', given_up') = StateView(tail, rs_idx, s_l, given_up)
    BY <1>2 DEF StateView
  <1>7. UndoView(undo') = UndoView(undo)
    BY DEF UndoView, Stays
  <1>8. /\ PosSeen = PosView(cells, tail, given_up) /\ UndoSeen = UndoView(undo)
        /\ StateSeen = StateView(tail, rs_idx, s_l, given_up)
    BY <1>1, SeenNow
  <1>9. /\ PosSeen' = PosView(cells', tail', given_up') /\ UndoSeen' = UndoView(undo')
        /\ StateSeen' = StateView(tail', rs_idx', s_l', given_up')
    BY SeenNext
  <1> QED BY <1>4, <1>5, <1>6, <1>7, <1>8, <1>9, Zenon

LEMMA NothingSeen ==
  ASSUME StatesInv, CellsInv', conf' = conf, kept' = kept, \A x \in Sequence : Stays(x),
         given_up' = given_up
  PROVE  StatesStep
  <1>1. /\ Snaps(tail', rs_idx', s_l', undo', given_up')
        /\ PosSeen' = PosSeen /\ StateSeen' = StateSeen /\ UndoSeen' = UndoSeen
    BY SameSeen
  <1>2. KeptSeen' = KeptSeen
    BY KeptStays
  <1> QED BY <1>1, <1>2, Zenon DEF StatesStep, Seen

LEMMA ForgottenStep ==
  ASSUME StatesInv, CellsInv', Bounded, conf' = conf, kept' = kept, NEW S \in SUBSET Sequence,
         \A x \in S : tail'[x] = None /\ undo'[x] = 0, \A x \in Sequence \ S : Stays(x),
         given_up' = given_up \ S
  PROVE  StatesStep
  BY Forgotten, Zenon DEF StatesStep

LEMMA ClearStep ==
  ASSUME StatesInv, CellsInv', Bounded, NEW data \in BOOLEAN, Clear(data)
  PROVE  StatesStep
  <1>1. /\ conf' = conf /\ kept' = kept /\ given_up' = {}
        /\ undo' = [s \in Sequence |-> 0] /\ tail' = [s \in Sequence |-> None]
    BY DEF Clear, Becomes, Placed, Cleared
  <1>2. given_up' = given_up \ Sequence
    BY <1>1, MemoryIs DEF StatesInv, CellsInv, Rest
  <1>3. /\ \A x \in Sequence : tail'[x] = None /\ undo'[x] = 0
        /\ Sequence \in SUBSET Sequence /\ \A x \in Sequence \ Sequence : Stays(x)
    BY <1>1
  <1> QED BY <1>1, <1>2, <1>3, ForgottenStep

LEMMA SeqRmAnyStep ==
  ASSUME StatesInv, CellsInv', Bounded, Careless = {}, NEW p0, NEW p1, SeqRmAny(p0, p1)
  PROVE  StatesStep
  <1>1. /\ Configured /\ Kempt(cells, tail) /\ used = Cardinality(InUse(cells)) /\ CellsInv
        /\ given_up \in SUBSET Sequence
    BY MemoryIs DEF StatesInv, CellsInv, Rest
  <1>2. used = 0 /\ conf' = conf /\ kept' = kept /\ s_l' = s_l /\ tail' = tail
    BY DEF SeqRmAny, mem
  <1>3. \A x \in Sequence : tail[x] = None
    <2>1. IsFiniteSet(InUse(cells))
      BY <1>1, SequencesAre, FS_Subset DEF InUse
    <2>2. InUse(cells) = {}
      BY <1>1, <1>2, <2>1, FS_EmptySet
    <2> QED BY <1>1, <2>2, KemptIs DEF InUse
  <1>4. CASE p0 = 0 /\ p1 = Inf
    <2>1. undo' = [s \in Sequence |-> 0] /\ given_up' = {}
      BY <1>4 DEF SeqRmAny
    <2>2. given_up' = given_up \ Sequence
      BY <1>1, <2>1
    <2>3. /\ \A x \in Sequence : tail'[x] = None /\ undo'[x] = 0
          /\ Sequence \in SUBSET Sequence /\ \A x \in Sequence \ Sequence : Stays(x)
      BY <1>2, <1>3, <2>1
    <2> QED BY <1>2, <2>2, <2>3, ForgottenStep
  <1>5. CASE ~(p0 = 0 /\ p1 = Inf)
    <2>1. cells' = cells /\ rs_idx' = rs_idx /\ undo' = undo /\ given_up' = given_up
      BY <1>5 DEF SeqRmAny, mem
    <2>2. \A x \in Sequence : Stays(x)
      BY <1>2, <2>1 DEF Stays
    <2> QED BY <1>2, <2>1, <2>2, NothingSeen
  <1> QED BY <1>4, <1>5

LEMMA SeqKeepStep ==
  ASSUME StatesInv, CellsInv', Bounded, NEW s \in Sequence, SeqKeep(s)
  PROVE  StatesStep
  <1>1. Configured /\ Kempt(cells, tail) /\ CellsInv /\ given_up \in SUBSET Sequence
    BY MemoryIs DEF StatesInv, CellsInv, Rest
  <1>2. PICK drop : drop = {i \in Cell : s \notin cells[i].seq_id}
    OBVIOUS
  <1>3. /\ conf' = conf /\ kept' = kept /\ s_l' = s_l /\ rs_idx' = rs_idx
        /\ tail' = [t \in Sequence |-> IF t = s THEN tail[s] ELSE None]
        /\ cells' = [i \in Cell |-> IF i \in drop THEN Empty ELSE [cells[i] EXCEPT !.seq_id = {s}]]
        /\ undo' = [t \in Sequence |-> IF t = s THEN undo[s] ELSE 0]
        /\ given_up' = given_up \cap {s}
    BY <1>2 DEF SeqKeep
  <1>4. given_up' = given_up \ (Sequence \ {s})
    BY <1>1, <1>3
  <1>5. /\ Sequence \ {s} \in SUBSET Sequence
        /\ \A x \in Sequence \ {s} : tail'[x] = None /\ undo'[x] = 0
    BY <1>3
  <1>6. Stays(s)
    <2>1. ASSUME tail[s] # None PROVE cells'[tail[s]].pos = cells[tail[s]].pos
      <3>1. tail[s] \in Cell /\ s \in cells[tail[s]].seq_id
        BY <1>1, <2>1, KemptIs
      <3>2. cells[tail[s]] \in CellSet
        BY <1>1, <3>1 DEF Kempt
      <3>3. cells'[tail[s]] = [cells[tail[s]] EXCEPT !.seq_id = {s}]
        BY <1>2, <1>3, <3>1
      <3> QED BY <3>2, <3>3 DEF CellSet
    <2> QED BY <1>3, <2>1 DEF Stays
  <1>7. \A x \in Sequence \ (Sequence \ {s}) : Stays(x)
    BY <1>6
  <1> QED BY <1>3, <1>4, <1>5, <1>7, ForgottenStep

----------------------------------------------------------------------------
(* Positions that move, and states that are saved *)

LEMMA MovedStep ==
  ASSUME StatesInv, CellsInv', Bounded, NEW s \in Sequence, NEW p0, NEW p1, NEW p, Moved(s, p0, p1, p)
  PROVE  StatesStep
  <1>1. PICK t : t = tail[s]
    OBVIOUS
  <1>2. /\ t # None /\ p \in 0 .. conf.len - 1 /\ cells' = [cells EXCEPT ![t].pos = p]
        /\ conf' = conf /\ tail' = tail /\ rs_idx' = rs_idx
        /\ s_l' = s_l /\ undo' = undo /\ given_up' = given_up /\ kept' = kept
        /\ s \notin given_up /\ cells[t].seq_id = {s}
    BY <1>1 DEF Moved, Shared
  <1>3. /\ Configured /\ Kempt(cells, tail) /\ CellsInv
        /\ Snaps(tail, rs_idx, s_l, undo, given_up)
    BY MemoryIs DEF StatesInv
  <1>4. /\ cells \in [Cell -> CellSet] /\ t \in Cell /\ cells[t].pos >= 0
        /\ \A x \in Sequence : x # s => tail[x] # t
        /\ \A x \in Sequence : tail[x] \in Cell \cup {None}
    <2>1. /\ cells \in [Cell -> CellSet] /\ t \in Cell /\ cells[t].pos \in 0 .. conf.len - 1
          /\ \A x \in Sequence, i \in Cell : x \in cells[i].seq_id <=> tail[x] = i
          /\ tail \in [Sequence -> Cell \cup {None}]
      BY <1>1, <1>2, <1>3, KemptIs
    <2> QED BY <1>2, <2>1
  <1>5. cells'[t].pos = p /\ \A x \in Sequence : x # s /\ tail[x] # None => cells'[tail[x]] = cells[tail[x]]
    <2>1. cells[t] \in CellSet
      BY <1>4
    <2> QED BY <1>2, <1>4, <2>1 DEF CellSet
  <1>6. Snaps(tail', rs_idx', s_l', undo', given_up')
    BY <1>2, <1>3
  <1>7. /\ PosSeen = PosView(cells, tail, given_up) /\ UndoSeen = UndoView(undo)
        /\ StateSeen = StateView(tail, rs_idx, s_l, given_up)
    BY <1>3, SeenNow
  <1>8. /\ PosSeen' = PosView(cells', tail', given_up') /\ UndoSeen' = UndoView(undo')
        /\ StateSeen' = StateView(tail', rs_idx', s_l', given_up')
    BY <1>2, SeenNext
  <1>9. s \in SeqIds /\ SeqIds = 0 .. MaxSeq - 1
    BY <1>3, SeqIdsAre
  <1>10. PosSeen[s] = cells[t].pos
    BY <1>1, <1>2, <1>7, <1>9 DEF PosView, PosAt
  <1>11. PosSeen' = [PosSeen EXCEPT ![s] = p]
    <2>1. ASSUME NEW x \in SeqIds
          PROVE  (IF x \in Sequence \ given_up' THEN PosAt(cells', tail', x) ELSE -1)
                    = IF x = s THEN p ELSE PosSeen[x]
      <3>1. PosSeen[x] = IF x \in Sequence \ given_up THEN PosAt(cells, tail, x) ELSE -1
        BY <1>7 DEF PosView
      <3> QED BY <1>1, <1>2, <1>5, <3>1 DEF PosAt
    <2>2. PosSeen' = [x \in SeqIds |-> IF x = s THEN p ELSE PosSeen[x]]
      BY <1>8, <2>1 DEF PosView
    <2>3. DOMAIN PosSeen = SeqIds
      BY <1>7 DEF PosView
    <2> QED BY <1>9, <2>2, <2>3
  <1>12. StateSeen' = StateSeen /\ UndoSeen' = UndoSeen
    BY <1>2, <1>7, <1>8
  <1>13. PosSeen'[s] = p /\ p >= 0 /\ PosSeen[s] >= 0
    <2>1. DOMAIN PosSeen = SeqIds
      BY <1>7 DEF PosView
    <2> QED BY <1>2, <1>4, <1>9, <1>10, <1>11, <2>1
  <1>14. States!Move(s, PosSeen'[s])
    BY <1>2, <1>11, <1>12, <1>13, KeptStays DEF States!Move
  <1>15. s \in States!Sequence
    BY <1>9 DEF States!Sequence
  <1>16. States!Next
    BY <1>14, <1>15 DEF States!Next
  <1> QED BY <1>6, <1>16 DEF StatesStep

\* A kept state as the callers see it.
KeptAt(k, C) == IF C = {} THEN [pos |-> -1, state |-> <<>>]
                ELSE [pos |-> k.cells[Min(C)].pos, state |-> k.cells[Min(C)].state]

KeptView(k) ==
  CASE k.of = "none" -> <<>>
    [] k.of = "one"  -> [x \in {-1} |-> KeptAt(k, DOMAIN k.cells)]
    [] OTHER -> [s \in SeqIds |-> KeptAt(k, {i \in DOMAIN k.cells : s \in k.cells[i].seq_id})]

LEMMA KeptSeenIs == KeptSeen = KeptView(kept) /\ KeptSeen' = KeptView(kept')
  <1>1. KeptSeen = KeptView(kept)
    BY DEF KeptSeen, KeptView, KeptAt, SeqIds
  <1>2. KeptSeen' = KeptView(kept')
    BY DEF KeptSeen, KeptView, KeptAt, SeqIds
  <1> QED BY <1>1, <1>2

LEMMA SaveStep ==
  ASSUME StatesInv, CellsInv', Bounded, NEW s \in Sequence, Save(s)
  PROVE  StatesStep
  <1>1. /\ conf' = conf /\ cells' = cells /\ tail' = tail /\ rs_idx' = rs_idx /\ s_l' = s_l
        /\ undo' = undo /\ given_up' = given_up /\ s \notin given_up
        /\ kept'.of = "one"
        /\ kept'.cells = IF tail[s] = None THEN <<>>
                         ELSE <<[pos |-> SeqPos(s), seq_id |-> {}, state |-> State(s)]>>
    BY DEF Save, mem
  <1>2. CellsInv /\ Configured /\ Kempt(cells, tail)
    BY MemoryIs DEF StatesInv
  <1>3. /\ Snaps(tail', rs_idx', s_l', undo', given_up')
        /\ PosSeen' = PosSeen /\ StateSeen' = StateSeen /\ UndoSeen' = UndoSeen
    <2>1. \A x \in Sequence : Stays(x)
      BY <1>1 DEF Stays
    <2> QED BY <1>1, <2>1, SameSeen
  <1>4. s \in SeqIds /\ SeqIds = 0 .. MaxSeq - 1
    BY <1>2, SeqIdsAre
  <1>5. PosSeen[s] = SeqPos(s) /\ StateSeen[s] = State(s)
    BY <1>1, <1>4 DEF PosSeen, StateSeen, SeqIds, SeqPos
  <1>6. KeptAt(kept', DOMAIN kept'.cells) = [pos |-> PosSeen[s], state |-> StateSeen[s]]
    <2>1. CASE tail[s] = None
      <3>1. SeqPos(s) = -1 /\ State(s) = <<>>
        BY <1>2, <2>1, SeqPosIs DEF State
      <3>2. kept'.cells = <<>>
        BY <1>1, <2>1
      <3>3. DOMAIN kept'.cells = {}
        BY <3>2
      <3> QED BY <1>5, <3>1, <3>3 DEF KeptAt
    <2>2. CASE tail[s] # None
      <3>1. PICK x : x = [pos |-> SeqPos(s), seq_id |-> {}, state |-> State(s)]
        OBVIOUS
      <3>2. kept'.cells = <<x>>
        BY <1>1, <2>2, <3>1
      <3>3. DOMAIN kept'.cells = {1} /\ kept'.cells[1] = x
        BY <3>2
      <3>4. Min({1}) = 1
        BY MinOf
      <3>5. x.pos = SeqPos(s) /\ x.state = State(s)
        BY <3>1
      <3> QED BY <1>5, <3>3, <3>4, <3>5 DEF KeptAt
    <2> QED BY <2>1, <2>2
  <1>7. KeptSeen' = [x \in {-1} |-> [pos |-> PosSeen[s], state |-> StateSeen[s]]]
    <2>1. KeptSeen' = [x \in {-1} |-> KeptAt(kept', DOMAIN kept'.cells)]
      BY <1>1, KeptSeenIs DEF KeptView
    <2> QED BY <1>6, <2>1
  <1>8. States!Save(s)
    BY <1>1, <1>3, <1>7 DEF States!Save, States!One
  <1>9. s \in States!Sequence
    BY <1>4 DEF States!Sequence
  <1>10. States!Next
    BY <1>8, <1>9 DEF States!Next
  <1> QED BY <1>3, <1>10 DEF StatesStep

LEMMA SaveAllStep ==
  ASSUME StatesInv, CellsInv', Bounded, SaveAll
  PROVE  StatesStep
  <1>1. PICK C, is : C = InUse(cells) /\ is = InTurn(C)
    OBVIOUS
  <1>2. /\ CellsInv /\ Configured /\ Kempt(cells, tail) /\ Sequence \in SUBSET Nat
        /\ \A i \in Cell : \A s \in cells[i].seq_id :
              s \notin given_up /\ cells[i].seq_id # {s} => rs_idx[s] = 0
    BY MemoryIs, SequencesAre DEF StatesInv
  <1>3. is \in Seq(C) /\ Len(is) \in Nat /\ (\A x : x \in ToSet(is) <=> x \in C) /\ Goes(is, Rising)
    <2>1. C \in SUBSET Nat /\ IsFiniteSet(C)
      <3>1. C \in SUBSET Cell /\ IsFiniteSet(Cell) /\ Cell \in SUBSET Nat
        BY <1>1, <1>2, SequencesAre DEF InUse
      <3> QED BY <3>1, FS_Subset
    <2>2. /\ is \in Seq(C) /\ Len(is) = Cardinality(C) /\ Cardinality(C) \in Nat /\ Goes(is, Rising)
          /\ \A x : x \in ToSet(is) <=> x \in C
      BY <1>1, <2>1, InTurnItems
    <2> QED BY <2>2
  <1>4. PICK n \in Nat : n = Len(is)
    BY <1>3
  <1>5. DOMAIN is = 1 .. n /\ \A k \in 1 .. n : is[k] \in C
    BY <1>3, <1>4, SequenceItems
  <1>6. /\ \A i \in C : \E k \in 1 .. n : is[k] = i
        /\ \A k, l \in 1 .. n : is[k] = is[l] => k = l
    <2>1. \A i \in C : \E k \in 1 .. n : is[k] = i
      BY <1>3, <1>5 DEF ToSet
    <2>2. \A k, l \in 1 .. n : k < l => is[k] < is[l] /\ is[k] \in Nat /\ is[l] \in Nat
      BY <1>3, <1>5 DEF Goes, Rising
    <2>3. \A k, l \in 1 .. n : is[k] = is[l] => k = l
      BY <2>2
    <2> QED BY <2>1, <2>3
  <1>7. /\ conf' = conf /\ cells' = cells /\ tail' = tail /\ rs_idx' = rs_idx
        /\ s_l' = s_l /\ undo' = undo /\ given_up' = given_up /\ given_up = {}
        /\ kept'.of = "all"
        /\ kept'.cells = [k \in 1 .. n |->
                            [pos |-> cells[is[k]].pos, seq_id |-> cells[is[k]].seq_id,
                             state |-> s_l[rs_idx[Seq0(cells[is[k]].seq_id)]][Row(is[k])]]]
    <2>1. C = {i \in Cell : ~Bare(cells[i])}
      BY <1>1 DEF InUse
    <2> QED BY <1>1, <1>5, <2>1 DEF SaveAll, mem
  <1>8. /\ Snaps(tail', rs_idx', s_l', undo', given_up')
        /\ PosSeen' = PosSeen /\ StateSeen' = StateSeen /\ UndoSeen' = UndoSeen
    <2>1. \A x \in Sequence : Stays(x)
      BY <1>7 DEF Stays
    <2> QED BY <1>2, <1>7, <2>1, SameSeen
  <1>9. SeqIds = 0 .. MaxSeq - 1 /\ Sequence \in SUBSET SeqIds
    BY <1>2, SeqIdsAre
  <1>10. /\ DOMAIN kept'.cells = 1 .. n
         /\ \A k \in 1 .. n : /\ kept'.cells[k].pos = cells[is[k]].pos
                              /\ kept'.cells[k].seq_id = cells[is[k]].seq_id
                              /\ kept'.cells[k].state = s_l[rs_idx[Seq0(cells[is[k]].seq_id)]][Row(is[k])]
    BY <1>7
  <1>11. /\ \A x \in Sequence, i \in Cell : x \in cells[i].seq_id <=> tail[x] = i
         /\ \A i \in Cell : cells[i].seq_id \in SUBSET Sequence
         /\ \A x \in Sequence : tail[x] = None \/ /\ tail[x] \in Cell /\ cells[tail[x]].src = tail[x]
                                                  /\ ~Bare(cells[tail[x]]) /\ tail[x] # None
    BY <1>2, KemptIs
  <1>12. ASSUME NEW s \in SeqIds
         PROVE  KeptAt(kept', {k \in DOMAIN kept'.cells : s \in kept'.cells[k].seq_id})
                   = [pos |-> PosSeen[s], state |-> StateSeen[s]]
    <2>1. PICK D : D = {k \in DOMAIN kept'.cells : s \in kept'.cells[k].seq_id}
      OBVIOUS
    <2>2. \A k \in 1 .. n : k \in D <=> s \in cells[is[k]].seq_id
      BY <1>10, <2>1
    <2>3. D \in SUBSET (1 .. n)
      BY <1>10, <2>1
    <2>4. \A k \in 1 .. n : is[k] \in Cell
      BY <1>1, <1>5 DEF InUse
    <2>5. /\ PosSeen[s] = IF s \in Sequence THEN SeqPos(s) ELSE -1
          /\ StateSeen[s] = IF s \in Sequence THEN State(s) ELSE <<>>
      BY <1>7, <1>9 DEF PosSeen, StateSeen, SeqIds, SeqPos
    <2>6. CASE s \notin Sequence \/ tail[s] = None
      <3>1. D = {}
        BY <1>11, <2>2, <2>3, <2>4, <2>6, SequencesAre, <1>2
      <3>2. PosSeen[s] = -1 /\ StateSeen[s] = <<>>
        BY <1>2, <2>5, <2>6, SeqPosIs DEF State
      <3> QED BY <2>1, <3>1, <3>2 DEF KeptAt
    <2>7. CASE s \in Sequence /\ tail[s] # None
      <3>1. PICK i : i = tail[s] /\ i \in Cell /\ cells[i].src = i /\ ~Bare(cells[i]) /\ s \in cells[i].seq_id
        BY <1>11, <2>7
      <3>2. PICK k \in 1 .. n : is[k] = i
        BY <1>1, <1>6, <3>1 DEF InUse
      <3>3. D = {k}
        <4>1. k \in D
          BY <2>2, <3>1, <3>2
        <4>2. ASSUME NEW l \in D PROVE l = k
          <5>1. l \in 1 .. n /\ s \in cells[is[l]].seq_id /\ is[l] \in Cell
            BY <2>2, <2>3, <2>4
          <5>2. is[l] = i
            BY <1>11, <2>7, <3>1, <5>1
          <5> QED BY <1>6, <3>2, <5>1, <5>2
        <4> QED BY <4>1, <4>2
      <3>4. Min(D) = k
        <4>1. D \in SUBSET Nat /\ D # {}
          BY <3>2, <3>3
        <4> QED BY <3>3, <4>1, MinOf
      <3>5. Row(i) = i
        BY <3>1, <1>2, SequencesAre DEF Row
      <3>6. PICK s0 : s0 = Seq0(cells[i].seq_id)
        OBVIOUS
      <3>7. s0 \in cells[i].seq_id
        <4>1. cells[i].seq_id \in SUBSET Nat /\ cells[i].seq_id # {}
          BY <1>2, <1>11, <3>1
        <4> QED BY <3>6, <4>1, MinOf DEF Seq0
      <3>8. rs_idx[s0] = rs_idx[s]
        <4>1. CASE cells[i].seq_id = {s}
          BY <3>7, <4>1
        <4>2. CASE cells[i].seq_id # {s}
          <5>1. s0 # s
                => cells[i].seq_id # {s0}
            BY <3>1
          <5> QED BY <1>2, <1>7, <3>1, <3>7, <4>2, <5>1
        <4> QED BY <4>1, <4>2
      <3>9. kept'.cells[k].pos = PosSeen[s] /\ kept'.cells[k].state = StateSeen[s]
        <4>1. SeqPos(s) = cells[i].pos /\ State(s) = s_l[rs_idx[s]][i]
          BY <1>2, <2>7, <3>1, <3>5, SeqPosIs DEF State
        <4> QED BY <1>10, <2>5, <2>7, <3>2, <3>5, <3>6, <3>8, <4>1
      <3> QED BY <2>1, <3>3, <3>4, <3>9 DEF KeptAt
    <2> QED BY <2>6, <2>7
  <1>13. KeptSeen' = [s \in SeqIds |-> [pos |-> PosSeen[s], state |-> StateSeen[s]]]
    <2>1. KeptSeen' = [s \in SeqIds |-> KeptAt(kept', {k \in DOMAIN kept'.cells : s \in kept'.cells[k].seq_id})]
      BY <1>7, KeptSeenIs DEF KeptView
    <2> QED BY <1>12, <2>1
  <1>14. States!SaveAll
    BY <1>7, <1>8, <1>9, <1>13 DEF States!SaveAll, States!Sequence
  <1>15. States!Next
    BY <1>14 DEF States!Next
  <1> QED BY <1>8, <1>15 DEF StatesStep

----------------------------------------------------------------------------
(* Rollbacks, removals and copies *)

LEMMA SeqRmStep ==
  ASSUME StatesInv, CellsInv', Bounded, Careless = {}, NEW s \in Sequence,
         NEW p0 \in Nat, NEW p1 \in Nat, <<p0, p1>> \in Ranges, SeqRm(s, p0, p1)
  PROVE  StatesStep
  <1>1. PICK q, r, back, whole, t : /\ q = SeqPos(s) /\ r = Rm(Memory, s, p0, p1)
                                    /\ back = q - p0 + 1 /\ whole = (p0 = 0 /\ p1 = Inf) /\ t = tail[s]
    OBVIOUS
  <1>2. /\ 0 < p0 /\ p0 <= q /\ back <= n_rs_seq =>
             back <= undo[s] /\ rs_idx[s] = 0 /\ ~Shared(s)
        /\ s \in given_up => whole
        /\ Becomes(r) /\ conf' = conf /\ s_l' = s_l /\ kept' = kept
        /\ undo' = [undo EXCEPT ![s] = IF tail'[s] = None THEN 0
                                       ELSE IF cells'[tail'[s]].pos < q THEN @ - back ELSE @]
        /\ given_up' = IF whole THEN given_up \ {s} ELSE given_up
    BY <1>1 DEF SeqRm
  <1>3. /\ Configured /\ Mem(Memory) /\ Memory.cells = cells /\ Memory.tail = tail /\ Memory.rs_idx = rs_idx
        /\ Kempt(cells, tail) /\ CellsInv /\ Snaps(tail, rs_idx, s_l, undo, given_up)
        /\ undo \in [Sequence -> 0 .. conf.tokens] /\ given_up \in SUBSET Sequence /\ conf.tokens \in Nat
        /\ conf.len \in Nat /\ n_rs_seq \in Nat
    BY MemoryIs DEF StatesInv, CellsInv, Rest, Configured
  <1>4. q = (IF t = None THEN -1 ELSE cells[t].pos)
    BY <1>1, <1>3, SeqPosIs
  <1>5. /\ RmDone(Memory, s, r)
        /\ IF t # None /\ 0 < p0 /\ p0 <= q /\ q < p1
           THEN /\ r.tail[s] = t
                /\ IF back <= n_rs_seq THEN r.rs_idx[s] = back /\ r.cells[t].pos = p0 - 1
                   ELSE r = Memory
           ELSE /\ r.rs_idx[s] = (IF p0 = 0 /\ p1 = Inf THEN 0 ELSE rs_idx[s])
                /\ r.tail[s] = (IF p0 <= q /\ q < p1 THEN None ELSE t)
                /\ r.tail[s] # None => r.cells = cells
    <2>1. Configured /\ Mem(Memory) /\ s \in Sequence /\ p0 \in Nat /\ p1 \in Nat
      BY <1>3
    <2>2. /\ RmDone(Memory, s, Rm(Memory, s, p0, p1))
          /\ LET x == Rm(Memory, s, p0, p1)
                 i == Memory.tail[s]
                 y == IF i = None THEN -1 ELSE Memory.cells[i].pos
             IN IF i # None /\ 0 < p0 /\ p0 <= y /\ y < p1
                THEN /\ x.tail[s] = i
                     /\ IF y - p0 + 1 <= n_rs_seq THEN x.rs_idx[s] = y - p0 + 1 /\ x.cells[i].pos = p0 - 1
                        ELSE x = Memory
                ELSE /\ x.rs_idx[s] = (IF p0 = 0 /\ p1 = Inf THEN 0 ELSE Memory.rs_idx[s])
                     /\ x.tail[s] = (IF p0 <= y /\ y < p1 THEN None ELSE i)
                     /\ x.tail[s] # None => x.cells = Memory.cells
      BY <2>1, RmIs
    <2> QED BY <1>1, <1>3, <1>4, <2>2
  <1>6. /\ cells' = r.cells /\ tail' = r.tail /\ rs_idx' = r.rs_idx
    BY <1>2 DEF Becomes, Placed
  <1>7. /\ \A x \in Sequence \ {s} : tail'[x] = tail[x] /\ rs_idx'[x] = rs_idx[x] /\ undo'[x] = undo[x]
        /\ \A i \in Cell : cells'[i].seq_id = IF tail'[s] = None THEN cells[i].seq_id \ {s} ELSE cells[i].seq_id
        /\ \A i \in Cell : i # t => cells'[i] = cells[i]
        /\ tail'[s] = None => \A i \in Cell : ~Bare(cells'[i]) => cells'[i].pos = cells[i].pos
    <2>1. /\ \A x \in Sequence \ {s} : r.tail[x] = tail[x] /\ r.rs_idx[x] = rs_idx[x]
          /\ \A i \in Cell : r.cells[i].seq_id = IF r.tail[s] = None THEN cells[i].seq_id \ {s} ELSE cells[i].seq_id
          /\ \A i \in Cell : i # t => r.cells[i] = cells[i]
          /\ r.tail[s] = None => \A i \in Cell : ~Bare(r.cells[i]) => r.cells[i].pos = cells[i].pos
      BY <1>1, <1>3, <1>5 DEF RmDone
    <2>2. \A x \in Sequence \ {s} : undo'[x] = undo[x]
      BY <1>2, <1>3
    <2> QED BY <1>6, <2>1, <2>2
  <1>8. q \in -1 .. conf.len - 1 /\ q # Inf /\ q < Inf /\ (t # None => q >= 0)
    <2>1. t # None => cells[t].pos \in 0 .. conf.len - 1
      BY <1>1, <1>3, KemptIs
    <2> QED BY <1>3, <1>4, <2>1 DEF Inf
  <1>9. \A x \in Sequence : tail[x] = None \/ (tail[x] \in Cell /\ x \in cells[tail[x]].seq_id)
    BY <1>3, KemptIs
  <1>a. whole <=> p0 = 0 /\ p1 = Inf
    BY <1>1, Zenon
  \* The sequence is removed.
  <1>10. CASE tail'[s] = None
    <2>1. undo'[s] = 0
      BY <1>2, <1>3, <1>10
    <2>2. given_up' = given_up \ {s}
      BY <1>2
    <2>3. ASSUME NEW x \in Sequence \ {s} PROVE Stays(x)
      <3>1. ASSUME tail[x] # None PROVE cells'[tail[x]].pos = cells[tail[x]].pos
        <4>1. tail[x] \in Cell /\ x \in cells'[tail[x]].seq_id
          BY <1>7, <1>9, <1>10, <3>1
        <4>2. ~Bare(cells'[tail[x]])
          BY <4>1 DEF Bare
        <4> QED BY <1>7, <1>10, <4>1, <4>2
      <3> QED BY <1>2, <1>7, <3>1 DEF Stays
    <2> QED BY <1>2, <1>10, <2>1, <2>2, <2>3, ForgottenStep
  \* Nothing happens.
  <1>11. CASE tail'[s] # None /\ cells' = cells
    <2>1. t # None /\ tail'[s] = t
      BY <1>5, <1>6, <1>11
    <2>2. ~whole
      <3>1. whole => 0 <= q /\ ~(0 < p0) /\ p0 <= q /\ q < p1
        BY <1>8, <1>a, <2>1
      <3>2. whole => r.tail[s] = None
        BY <1>5, <3>1
      <3> QED BY <1>6, <1>11, <3>2
    <2>3. ~(q < q)
      BY <1>8
    <2>4. rs_idx'[s] = rs_idx[s]
      <3>1. CASE t # None /\ 0 < p0 /\ p0 <= q /\ q < p1 /\ back <= n_rs_seq
        <4>1. cells'[t].pos = p0 - 1 /\ cells'[t].pos = q
          BY <1>4, <1>5, <1>6, <1>11, <2>1, <3>1
        <4> QED BY <1>8, <3>1, <4>1
      <3> QED BY <1>3, <1>5, <1>6, <1>a, <2>2, <3>1
    <2>5. undo'[s] = undo[s]
      BY <1>2, <1>3, <1>4, <1>11, <2>1, <2>3
    <2>6. \A x \in Sequence : Stays(x)
      BY <1>1, <1>2, <1>7, <1>11, <2>1, <2>4, <2>5 DEF Stays
    <2> QED BY <1>2, <2>2, <2>6, NothingSeen
  \* The tokens from p0 on are taken back.
  <1>12. CASE tail'[s] # None /\ cells' # cells
    <2>1. t # None /\ 0 < p0 /\ p0 <= q /\ q < p1 /\ back <= n_rs_seq /\ tail'[s] = t
      BY <1>3, <1>5, <1>6, <1>12
    <2>2. /\ rs_idx'[s] = back /\ cells'[t].pos = p0 - 1 /\ p0 - 1 = q - back /\ back \in 1 .. undo[s]
          /\ rs_idx[s] = 0 /\ cells[t].seq_id = {s} /\ s \notin given_up /\ given_up' = given_up
          /\ back \in Int /\ undo[s] \in Nat
      <3>1. rs_idx'[s] = back /\ cells'[t].pos = p0 - 1
        BY <1>5, <1>6, <2>1
      <3>2. ~whole
        BY <1>a, <2>1
      <3>3. back <= undo[s] /\ rs_idx[s] = 0 /\ ~Shared(s)
        BY <1>2, <2>1
      <3>4. back \in Int /\ back >= 1 /\ p0 - 1 = q - back /\ undo[s] \in Nat
        BY <1>1, <1>3, <1>8, <2>1
      <3>5. cells[t].seq_id = {s}
        BY <1>1, <2>1, <3>3 DEF Shared
      <3> QED BY <1>2, <3>1, <3>2, <3>3, <3>4, <3>5
    <2>3. undo'[s] = undo[s] - back
      <3>1. cells'[tail'[s]].pos < q
        BY <1>8, <2>1, <2>2
      <3> QED BY <1>2, <1>3, <1>12, <3>1
    <2>4. ASSUME NEW x \in Sequence \ {s} PROVE Stays(x)
      <3>1. tail[x] # None => tail[x] \in Cell /\ tail[x] # t
        BY <1>9, <2>2
      <3> QED BY <1>2, <1>7, <3>1 DEF Stays
    <2>5. \A x \in Sequence \ {s} :
             /\ PosAt(cells', tail', x) = PosAt(cells, tail, x)
             /\ StateAt(tail', rs_idx', s_l', x) = StateAt(tail, rs_idx, s_l, x)
             /\ Snap(tail, rs_idx, s_l, undo, x) => Snap(tail', rs_idx', s_l', undo', x)
      BY <1>3, <2>4, StaysSeen
    <2>6. Snaps(tail', rs_idx', s_l', undo', given_up')
      <3>1. Snap(tail', rs_idx', s_l', undo', s)
        BY <2>2 DEF Snap
      <3>2. \A x \in Sequence \ given_up' : Snap(tail', rs_idx', s_l', undo', x)
        BY <1>3, <2>2, <2>5, <3>1 DEF Snaps
      <3>3. \A x \in Sequence : tail'[x] = tail[x]
        BY <1>1, <1>7, <2>1
      <3>4. Together(tail', given_up')
        BY <1>3, <2>2, <3>3 DEF Snaps, Together
      <3> QED BY <3>2, <3>4 DEF Snaps
    <2>7. /\ PosSeen = PosView(cells, tail, given_up) /\ UndoSeen = UndoView(undo)
          /\ StateSeen = StateView(tail, rs_idx, s_l, given_up)
      BY <1>3, SeenNow
    <2>8. /\ PosSeen' = PosView(cells', tail', given_up') /\ UndoSeen' = UndoView(undo')
          /\ StateSeen' = StateView(tail', rs_idx', s_l', given_up')
      BY <1>2, SeenNext
    <2>9. s \in SeqIds /\ SeqIds = 0 .. MaxSeq - 1 /\ s \in Sequence \ given_up
      BY <1>3, <2>2, SeqIdsAre
    <2>10. PosSeen[s] = q /\ UndoSeen[s] = undo[s] /\ StateSeen[s] = s_l[0][t]
      BY <1>1, <1>4, <2>1, <2>2, <2>7, <2>9 DEF PosView, PosAt, UndoView, StateView, StateAt
    <2>11. s_l[back][t] = SubSeq(s_l[0][t], 1, Len(s_l[0][t]) - back)
      <3>1. back \in 0 .. undo[s]
        BY <2>2
      <3>2. Snap(tail, rs_idx, s_l, undo, s)
        BY <1>3, <2>9 DEF Snaps
      <3> QED BY <1>1, <2>1, <2>2, <3>1, <3>2 DEF Snap
    <2>12. DOMAIN PosSeen = SeqIds /\ DOMAIN UndoSeen = SeqIds /\ DOMAIN StateSeen = SeqIds
      BY <2>7 DEF PosView, UndoView, StateView
    <2>13. PosSeen' = [PosSeen EXCEPT ![s] = @ - back]
      <3>1. ASSUME NEW x \in SeqIds
            PROVE  (IF x \in Sequence \ given_up' THEN PosAt(cells', tail', x) ELSE -1)
                      = IF x = s THEN q - back ELSE PosSeen[x]
        <4>1. PosSeen[x] = IF x \in Sequence \ given_up THEN PosAt(cells, tail, x) ELSE -1
          BY <2>7 DEF PosView
        <4>2. CASE x = s
          BY <2>1, <2>2, <4>2 DEF PosAt
        <4>3. CASE x # s
          BY <2>2, <2>5, <4>1, <4>3
        <4> QED BY <4>2, <4>3
      <3>2. PosSeen' = [x \in SeqIds |-> IF x = s THEN q - back ELSE PosSeen[x]]
        BY <2>8, <3>1 DEF PosView
      <3> QED BY <2>9, <2>10, <2>12, <3>2
    <2>14. StateSeen' = [StateSeen EXCEPT ![s] = SubSeq(@, 1, Len(@) - back)]
      <3> DEFINE new == SubSeq(s_l[0][t], 1, Len(s_l[0][t]) - back)
      <3>1. ASSUME NEW x \in SeqIds
            PROVE  (IF x \in Sequence \ given_up' THEN StateAt(tail', rs_idx', s_l', x) ELSE <<>>)
                      = IF x = s THEN new ELSE StateSeen[x]
        <4>1. StateSeen[x] = IF x \in Sequence \ given_up THEN StateAt(tail, rs_idx, s_l, x) ELSE <<>>
          BY <2>7 DEF StateView
        <4>2. CASE x = s
          BY <1>2, <2>1, <2>2, <2>11, <2>9, <4>2 DEF StateAt
        <4>3. CASE x # s
          BY <2>2, <2>5, <4>1, <4>3
        <4> QED BY <4>2, <4>3
      <3>2. StateSeen' = [x \in SeqIds |-> IF x = s THEN new ELSE StateSeen[x]]
        BY <2>8, <3>1 DEF StateView
      <3> QED BY <2>9, <2>10, <2>12, <3>2
    <2>15. UndoSeen' = [UndoSeen EXCEPT ![s] = @ - back]
      <3>1. ASSUME NEW x \in SeqIds
            PROVE  (IF x \in Sequence THEN undo'[x] ELSE 0) = IF x = s THEN undo[s] - back ELSE UndoSeen[x]
        <4>1. UndoSeen[x] = IF x \in Sequence THEN undo[x] ELSE 0
          BY <2>7 DEF UndoView
        <4> QED BY <1>7, <2>3, <4>1
      <3>2. UndoSeen' = [x \in SeqIds |-> IF x = s THEN undo[s] - back ELSE UndoSeen[x]]
        BY <2>8, <3>1 DEF UndoView
      <3> QED BY <2>9, <2>10, <2>12, <3>2
    <2>16. States!Rollback(s, back)
      BY <1>2, <2>2, <2>10, <2>13, <2>14, <2>15, KeptStays DEF States!Rollback
    <2>17. s \in States!Sequence /\ back \in 1 .. UndoSeen[s]
      BY <2>2, <2>9, <2>10 DEF States!Sequence
    <2>18. States!Next
      BY <2>16, <2>17 DEF States!Next
    <2> QED BY <2>6, <2>18 DEF StatesStep
  <1> QED BY <1>10, <1>11, <1>12

LEMMA SeqCpStep ==
  ASSUME StatesInv, CellsInv', Bounded, NEW a \in Sequence, NEW b \in Sequence, SeqCp(a, b)
  PROVE  StatesStep
  <1>1. PICK cs, t : /\ cs = IF tail[b] = None THEN cells ELSE Without(cells, b, LAMBDA c : TRUE)
                     /\ t = tail[a]
    OBVIOUS
  <1>2. /\ a # b /\ a \notin given_up /\ rs_idx[a] = 0 /\ rs_idx[b] = 0
        /\ cells' = [i \in Cell |-> IF i = t THEN [cs[i] EXCEPT !.seq_id = @ \cup {b}] ELSE cs[i]]
        /\ tail' = [tail EXCEPT ![b] = t]
        /\ undo' = [undo EXCEPT ![b] = undo[a]] /\ given_up' = given_up \ {b}
        /\ conf' = conf /\ rs_idx' = rs_idx /\ s_l' = s_l /\ kept' = kept
    BY <1>1 DEF SeqCp, Settled
  <1>3. /\ Configured /\ Kempt(cells, tail) /\ CellsInv /\ Snaps(tail, rs_idx, s_l, undo, given_up)
        /\ undo \in [Sequence -> 0 .. conf.tokens] /\ given_up \in SUBSET Sequence
    BY MemoryIs DEF StatesInv, CellsInv, Rest
  <1>4. /\ cells \in [Cell -> CellSet] /\ tail \in [Sequence -> Cell \cup {None}]
        /\ \A x \in Sequence, i \in Cell : x \in cells[i].seq_id <=> tail[x] = i
    BY <1>3, KemptIs
  <1>5. ASSUME NEW x \in Sequence \ {b}, tail[x] # None
        PROVE  cells'[tail[x]].pos = cells[tail[x]].pos
    <2>1. PICK i : i = tail[x] /\ i \in Cell /\ x \in cells[i].seq_id
      BY <1>4, <1>5
    <2>2. PICK c : c = cells[i] /\ c \in CellSet
      BY <1>4, <2>1
    <2>3. cs[i].pos = c.pos /\ cs[i] \in CellSet
      <3>1. cs[i] = c \/ cs[i] = [c EXCEPT !.seq_id = @ \ {b}]
        <4>1. CASE tail[b] = None
          BY <1>1, <2>2, <4>1
        <4>2. CASE tail[b] # None
          <5>1. cs[i] = IF ~TRUE \/ b \notin c.seq_id THEN c
                        ELSE IF c.seq_id = {b} THEN Empty ELSE [c EXCEPT !.seq_id = @ \ {b}]
            BY <1>1, <2>1, <2>2, <4>2 DEF Without
          <5>2. c.seq_id # {b}
            BY <2>1, <2>2
          <5> QED BY <5>1, <5>2
        <4> QED BY <4>1, <4>2
      <3> QED BY <2>2, <3>1 DEF CellSet
    <2>4. cells'[i] = cs[i] \/ cells'[i] = [cs[i] EXCEPT !.seq_id = @ \cup {b}]
      BY <1>2, <2>1
    <2>5. cells'[i].pos = cs[i].pos
      BY <2>3, <2>4 DEF CellSet
    <2> QED BY <2>1, <2>2, <2>3, <2>5
  <1>6. \A x \in Sequence \ {b} : Stays(x)
    BY <1>2, <1>3, <1>4, <1>5 DEF Stays
  <1>7. \A x \in Sequence \ {b} :
           /\ PosAt(cells', tail', x) = PosAt(cells, tail, x)
           /\ StateAt(tail', rs_idx', s_l', x) = StateAt(tail, rs_idx, s_l, x)
           /\ Snap(tail, rs_idx, s_l, undo, x) => Snap(tail', rs_idx', s_l', undo', x)
    BY <1>3, <1>6, StaysSeen
  <1>8. tail'[b] = tail[a] /\ tail'[a] = tail[a] /\ undo'[b] = undo[a] /\ rs_idx'[a] = 0 /\ rs_idx'[b] = 0
    BY <1>1, <1>2, <1>3, <1>4
  <1>9. /\ PosAt(cells', tail', b) = PosAt(cells, tail, a)
        /\ StateAt(tail', rs_idx', s_l', b) = StateAt(tail, rs_idx, s_l, a)
    <2>1. PosAt(cells', tail', b) = PosAt(cells', tail', a)
      BY <1>8 DEF PosAt
    <2>2. StateAt(tail', rs_idx', s_l', b) = StateAt(tail', rs_idx', s_l', a)
      BY <1>8 DEF StateAt
    <2> QED BY <1>2, <1>7, <2>1, <2>2
  <1>10. Snaps(tail', rs_idx', s_l', undo', given_up')
    <2>1. Snap(tail', rs_idx', s_l', undo', b)
      <3>1. Snap(tail, rs_idx, s_l, undo, a)
        BY <1>2, <1>3 DEF Snaps
      <3> QED BY <1>2, <1>8, <3>1 DEF Snap
    <2>2. \A x \in Sequence \ given_up' : Snap(tail', rs_idx', s_l', undo', x)
      BY <1>2, <1>3, <1>7, <2>1 DEF Snaps
    <2>3. Together(tail', given_up')
      <3>1. \A x, y \in Sequence : tail[x] # None /\ tail[x] = tail[y] /\ x \in given_up => y \in given_up
        BY <1>3 DEF Snaps, Together
      <3>2. \A x \in Sequence : tail'[x] = IF x = b THEN tail[a] ELSE tail[x]
        BY <1>1, <1>2, <1>4
      <3> QED BY <1>2, <3>1, <3>2 DEF Together
    <2> QED BY <2>2, <2>3 DEF Snaps
  <1>11. /\ PosSeen = PosView(cells, tail, given_up) /\ UndoSeen = UndoView(undo)
         /\ StateSeen = StateView(tail, rs_idx, s_l, given_up)
    BY <1>3, SeenNow
  <1>12. /\ PosSeen' = PosView(cells', tail', given_up') /\ UndoSeen' = UndoView(undo')
         /\ StateSeen' = StateView(tail', rs_idx', s_l', given_up')
    BY <1>2, SeenNext
  <1>13. a \in SeqIds /\ b \in SeqIds /\ SeqIds = 0 .. MaxSeq - 1
    BY <1>3, SeqIdsAre
  <1>14. PosSeen' = [PosSeen EXCEPT ![b] = PosSeen[a]]
    <2>1. ASSUME NEW x \in SeqIds
          PROVE  (IF x \in Sequence \ given_up' THEN PosAt(cells', tail', x) ELSE -1)
                    = IF x = b THEN PosSeen[a] ELSE PosSeen[x]
      <3>1. PosSeen[x] = IF x \in Sequence \ given_up THEN PosAt(cells, tail, x) ELSE -1
        BY <1>11 DEF PosView
      <3>2. PosSeen[a] = PosAt(cells, tail, a)
        BY <1>2, <1>11, <1>13 DEF PosView
      <3>3. CASE x = b
        BY <1>2, <1>9, <3>2, <3>3
      <3>4. CASE x # b
        BY <1>2, <1>7, <3>1, <3>4
      <3> QED BY <3>3, <3>4
    <2>2. PosSeen' = [x \in SeqIds |-> IF x = b THEN PosSeen[a] ELSE PosSeen[x]]
      BY <1>12, <2>1 DEF PosView
    <2>3. DOMAIN PosSeen = SeqIds
      BY <1>11 DEF PosView
    <2> QED BY <1>13, <2>2, <2>3
  <1>15. StateSeen' = [StateSeen EXCEPT ![b] = StateSeen[a]]
    <2>1. ASSUME NEW x \in SeqIds
          PROVE  (IF x \in Sequence \ given_up' THEN StateAt(tail', rs_idx', s_l', x) ELSE <<>>)
                    = IF x = b THEN StateSeen[a] ELSE StateSeen[x]
      <3>1. StateSeen[x] = IF x \in Sequence \ given_up THEN StateAt(tail, rs_idx, s_l, x) ELSE <<>>
        BY <1>11 DEF StateView
      <3>2. StateSeen[a] = StateAt(tail, rs_idx, s_l, a)
        BY <1>2, <1>11, <1>13 DEF StateView
      <3>3. CASE x = b
        BY <1>2, <1>9, <3>2, <3>3
      <3>4. CASE x # b
        BY <1>2, <1>7, <3>1, <3>4
      <3> QED BY <3>3, <3>4
    <2>2. StateSeen' = [x \in SeqIds |-> IF x = b THEN StateSeen[a] ELSE StateSeen[x]]
      BY <1>12, <2>1 DEF StateView
    <2>3. DOMAIN StateSeen = SeqIds
      BY <1>11 DEF StateView
    <2> QED BY <1>13, <2>2, <2>3
  <1>16. UndoSeen' = [UndoSeen EXCEPT ![b] = UndoSeen[a]]
    <2>1. \A x \in Sequence : undo'[x] = IF x = b THEN undo[a] ELSE undo[x]
      BY <1>2, <1>3
    <2>2. \A x \in SeqIds : (IF x \in Sequence THEN undo'[x] ELSE 0) = IF x = b THEN UndoSeen[a] ELSE UndoSeen[x]
      BY <1>11, <1>13, <2>1 DEF UndoView
    <2>3. UndoSeen' = [x \in SeqIds |-> IF x = b THEN UndoSeen[a] ELSE UndoSeen[x]]
      BY <1>12, <2>2 DEF UndoView
    <2>4. DOMAIN UndoSeen = SeqIds
      BY <1>11 DEF UndoView
    <2> QED BY <1>13, <2>3, <2>4
  <1>17. States!Copy(a, b)
    BY <1>2, <1>14, <1>15, <1>16, KeptStays DEF States!Copy
  <1>18. a \in States!Sequence /\ b \in States!Sequence
    BY <1>13 DEF States!Sequence
  <1>19. States!Next
    BY <1>17, <1>18 DEF States!Next
  <1> QED BY <1>10, <1>19 DEF StatesStep

----------------------------------------------------------------------------
(* States that are restored *)

\* A ubatch of one cell.
LEMMA OneCellIs ==
  ASSUME Configured, NEW m, Mem(m), NEW u, Ubatch(u), Len(u) = 1,
         NEW last \in [1 .. 1 -> 0 .. conf.len - 1], NEW f, f = FindSlot(m, u, last)
  PROVE  /\ f.min \in Cell /\ f.max = f.min /\ f.rs_idx = m.rs_idx
         /\ f.cells[f.min].seq_id = u[1] /\ f.cells[f.min].pos = last[1]
         /\ \A s \in u[1] : f.tail[s] = f.min
         /\ \A x \in Sequence \ u[1] :
              /\ f.tail[x] = m.tail[x]
              /\ m.tail[x] # None => m.tail[x] # f.min /\ f.cells[m.tail[x]].pos = m.cells[m.tail[x]].pos
         /\ Found(m, u, last, f) /\ Members(u) = u[1]
  <1>1. Found(m, u, last, f)
    <2>1. m.used \in 0 .. size /\ Kempt(m.cells, m.tail) /\ m.head \in Cell
      BY CountIs DEF Mem
    <2> QED BY <2>1, FindSlotIs
  <1>2. f.max = f.min
    BY <1>1, OneCell
  <1>3. f.min \in Cell /\ f.min \in Nat /\ f.min .. f.min = {f.min} /\ f.min + 1 - 1 = f.min
    <2>1. f.min \in Cell
      BY <1>1 DEF Found
    <2>2. f.min \in Nat
      BY <2>1, SequencesAre
    <2> QED BY <2>1, <2>2
  <1>4. Members(u) = u[1]
    <2>1. DOMAIN u = {1}
      BY UbatchIs
    <2> QED BY <2>1 DEF Members
  <1>5. /\ f.rs_idx = m.rs_idx
        /\ f.cells[f.min + 1 - 1].seq_id = u[1] /\ f.cells[f.min + 1 - 1].pos = last[1]
        /\ \A s \in u[1] : f.tail[s] = f.min + 1 - 1
    <2>1. 1 \in 1 .. Len(u)
      OBVIOUS
    <2> QED BY <1>1, <2>1 DEF Found
  <1>6. ASSUME NEW x \in Sequence \ u[1]
        PROVE  /\ f.tail[x] = m.tail[x]
               /\ m.tail[x] # None => m.tail[x] # f.min /\ f.cells[m.tail[x]].pos = m.cells[m.tail[x]].pos
    <2>1. /\ f.tail[x] = None <=> m.tail[x] = None
          /\ f.tail[x] # None =>
               /\ f.tail[x] \notin f.min .. f.min + Len(u) - 1
               /\ f.cells[f.tail[x]].pos = m.cells[m.tail[x]].pos
               /\ f.tail[x] \notin f.min .. f.max => f.tail[x] = m.tail[x]
      BY <1>1, <1>4 DEF Found
    <2> QED BY <1>2, <1>3, <2>1
  <1> QED BY <1>1, <1>2, <1>3, <1>4, <1>5, <1>6

\* A sequence that is forgotten.
LEMMA RmWhole ==
  ASSUME Configured, NEW m, Mem(m), NEW s \in Sequence, NEW r, r = Rm(m, s, 0, Inf)
  PROVE  /\ Mem(r) /\ r.tail[s] = None /\ r.rs_idx[s] = 0
         /\ \A x \in Sequence \ {s} :
              /\ r.tail[x] = m.tail[x] /\ r.rs_idx[x] = m.rs_idx[x]
              /\ m.tail[x] # None => r.cells[m.tail[x]].pos = m.cells[m.tail[x]].pos
  <1>1. PICK t, q : t = m.tail[s] /\ q = (IF t = None THEN -1 ELSE m.cells[t].pos)
    OBVIOUS
  <1>2. /\ 0 \in Nat /\ Inf \in Nat /\ conf.len \in Nat /\ Kempt(m.cells, m.tail)
    BY DEF Configured, Inf, Mem
  <1>3. /\ RmDone(m, s, r) /\ r.rs_idx[s] = 0
        /\ r.tail[s] = (IF 0 <= q /\ q < Inf THEN None ELSE t)
    <2>1. /\ RmDone(m, s, r)
          /\ IF t # None /\ 0 < 0 /\ 0 <= q /\ q < Inf
             THEN TRUE
             ELSE /\ r.rs_idx[s] = (IF 0 = 0 /\ Inf = Inf THEN 0 ELSE m.rs_idx[s])
                  /\ r.tail[s] = (IF 0 <= q /\ q < Inf THEN None ELSE t)
      BY <1>1, <1>2, RmIs
    <2> QED BY <2>1
  <1>4. r.tail[s] = None
    <2>1. t # None => q \in 0 .. conf.len - 1
      BY <1>1, <1>2, KemptIs
    <2> QED BY <1>2, <1>3, <2>1 DEF Inf
  <1>5. ASSUME NEW x \in Sequence \ {s}, m.tail[x] # None
        PROVE  r.cells[m.tail[x]].pos = m.cells[m.tail[x]].pos
    <2>1. m.tail[x] \in Cell /\ x \in m.cells[m.tail[x]].seq_id
      BY <1>2, <1>5, KemptIs
    <2>2. x \in r.cells[m.tail[x]].seq_id
      BY <1>3, <1>4, <2>1 DEF RmDone
    <2>3. ~Bare(r.cells[m.tail[x]])
      BY <2>2 DEF Bare
    <2> QED BY <1>3, <1>4, <2>1, <2>3 DEF RmDone
  <1> QED BY <1>3, <1>4, <1>5 DEF RmDone

LEMMA RestoreStep ==
  ASSUME StatesInv, CellsInv', Bounded, NEW s \in Sequence, Restore(s)
  PROVE  StatesStep
  <1>1. PICK m : m = Rm(Memory, s, 0, Inf)
    OBVIOUS
  <1>2. /\ undo' = [undo EXCEPT ![s] = 0] /\ given_up' = given_up \ {s} /\ conf' = conf /\ kept' = kept
        /\ kept.of = "one"
    BY DEF Restore
  <1>3. /\ Configured /\ Mem(Memory) /\ Memory.tail = tail /\ Memory.cells = cells /\ Memory.rs_idx = rs_idx
        /\ CellsInv /\ RowsFit(s_l) /\ KeptFits(kept) /\ Snaps(tail, rs_idx, s_l, undo, given_up)
        /\ Kempt(cells, tail) /\ undo \in [Sequence -> 0 .. conf.tokens] /\ given_up \in SUBSET Sequence
    BY MemoryIs DEF StatesInv, CellsInv, Rest
  <1>4. /\ Mem(m) /\ m.tail[s] = None /\ m.rs_idx[s] = 0
        /\ \A x \in Sequence \ {s} :
             /\ m.tail[x] = tail[x] /\ m.rs_idx[x] = rs_idx[x]
             /\ tail[x] # None => m.cells[tail[x]].pos = cells[tail[x]].pos
    BY <1>1, <1>3, RmWhole
  <1>5. undo'[s] = 0 /\ \A x \in Sequence \ {s} : undo'[x] = undo[x]
    BY <1>2, <1>3
  <1>6. CASE kept.cells = <<>>
    <2>1. Becomes(m) /\ s_l' = s_l
      BY <1>1, <1>6 DEF Restore
    <2>2. cells' = m.cells /\ tail' = m.tail /\ rs_idx' = m.rs_idx
      BY <2>1 DEF Becomes, Placed
    <2>3. \A x \in Sequence \ {s} : Stays(x)
      BY <1>4, <1>5, <2>1, <2>2 DEF Stays
    <2>4. {s} \in SUBSET Sequence /\ \A x \in {s} : tail'[x] = None /\ undo'[x] = 0
      BY <1>4, <1>5, <2>2
    <2> QED BY <1>2, <2>3, <2>4, ForgottenStep
  <1>7. CASE kept.cells # <<>>
    <2>1. PICK u, last, f, p, z : /\ u = <<{s}>> /\ last = <<p>> /\ p = kept.cells[1].pos
                                  /\ f = FindSlot(m, u, last) /\ z = kept.cells[1].state
      OBVIOUS
    <2>2. \/ Becomes(f) /\ s_l' = [s_l EXCEPT ![0][f.min] = z]
          \/ Becomes(Rm(f, s, 0, Inf)) /\ s_l' = [s_l EXCEPT ![0][f.min] = Junk]
      BY <1>1, <1>7, <2>1 DEF Restore
    <2>3. p \in 0 .. conf.len - 1 /\ z \in RowSet /\ DOMAIN kept.cells = {1}
      <3> DEFINE K == [pos : 0 .. conf.len - 1, seq_id : SUBSET Sequence, state : RowSet]
      <3>1. kept.cells \in Seq(K) /\ Len(kept.cells) <= 1
        BY <1>2, <1>3 DEF KeptFits
      <3>2. kept.cells[1] \in K /\ DOMAIN kept.cells = {1}
        <4> HIDE DEF K
        <4>1. PICK n : n = Len(kept.cells)
          OBVIOUS
        <4>2. n \in Nat /\ n # 0 /\ n <= 1
          BY <1>7, <3>1, <4>1
        <4>3. n = 1 /\ 1 .. 1 = {1}
          BY <4>2
        <4>4. DOMAIN kept.cells = 1 .. n /\ \A i \in 1 .. n : kept.cells[i] \in K
          BY <3>1, <4>1, SequenceItems
        <4> QED BY <4>3, <4>4
      <3> QED BY <2>1, <3>2
    <2>4. /\ Ubatch(u) /\ Len(u) = 1 /\ u[1] = {s} /\ last \in [1 .. 1 -> 0 .. conf.len - 1] /\ last[1] = p
      <3>1. u \in Seq((SUBSET Sequence) \ {{}}) /\ Len(u) = 1 /\ u[1] = {s}
        BY <2>1
      <3>2. \A k, l \in 1 .. 1 : k = l
        OBVIOUS
      <3>3. last \in [1 .. 1 -> 0 .. conf.len - 1] /\ last[1] = p
        BY <2>1, <2>3
      <3> QED BY <3>1, <3>2, <3>3 DEF Ubatch
    <2>5. /\ f.min \in Cell /\ f.rs_idx = m.rs_idx /\ f.cells[f.min].pos = p /\ f.tail[s] = f.min
          /\ \A x \in Sequence \ {s} :
               /\ f.tail[x] = m.tail[x]
               /\ m.tail[x] # None => m.tail[x] # f.min /\ f.cells[m.tail[x]].pos = m.cells[m.tail[x]].pos
          /\ Found(m, u, last, f)
      <3>1. /\ Configured /\ Mem(m) /\ Ubatch(u) /\ Len(u) = 1
            /\ last \in [1 .. 1 -> 0 .. conf.len - 1] /\ f = FindSlot(m, u, last)
        BY <1>3, <1>4, <2>1, <2>4
      <3>2. /\ f.min \in Cell /\ f.rs_idx = m.rs_idx /\ f.cells[f.min].pos = last[1]
            /\ \A x \in u[1] : f.tail[x] = f.min
            /\ \A x \in Sequence \ u[1] :
                 /\ f.tail[x] = m.tail[x]
                 /\ m.tail[x] # None => m.tail[x] # f.min /\ f.cells[m.tail[x]].pos = m.cells[m.tail[x]].pos
            /\ Found(m, u, last, f)
        BY <3>1, OneCellIs
      <3> QED BY <2>4, <3>2
    <2>6. \A x \in Sequence \ {s} :
            /\ f.tail[x] = tail[x] /\ f.rs_idx[x] = rs_idx[x]
            /\ tail[x] # None => tail[x] # f.min /\ f.cells[tail[x]].pos = cells[tail[x]].pos
      BY <1>4, <2>5
    <2>7. /\ \A y, g, i : i # f.min => [s_l EXCEPT ![0][f.min] = y][g][i] = s_l[g][i]
          /\ \A y : [s_l EXCEPT ![0][f.min] = y][0][f.min] = y
      <3>1. s_l \in [Groups -> [Cell -> RowSet]] /\ 0 \in Groups
        BY <1>3, SequencesAre DEF RowsFit
      <3> QED BY <2>5, <3>1
    <2>8. CASE Becomes(Rm(f, s, 0, Inf)) /\ s_l' = [s_l EXCEPT ![0][f.min] = Junk]
      <3>1. PICK r : r = Rm(f, s, 0, Inf)
        OBVIOUS
      <3>2. Mem(f)
        <4>1. {"cells", "tail", "head", "used", "rs_idx"} \subseteq DOMAIN f
          BY <2>1, FindSlotHas
        <4>2. Kempt(f.cells, f.tail) /\ f.head \in Cell /\ f.used = Cardinality(InUse(f.cells))
          BY <2>5 DEF Found, InUse
        <4>3. f.rs_idx \in [Sequence -> Groups]
          BY <1>4, <2>5 DEF Mem
        <4> QED BY <4>1, <4>2, <4>3 DEF Mem
      <3>3. /\ r.tail[s] = None
            /\ \A x \in Sequence \ {s} :
                 /\ r.tail[x] = f.tail[x] /\ r.rs_idx[x] = f.rs_idx[x]
                 /\ f.tail[x] # None => r.cells[f.tail[x]].pos = f.cells[f.tail[x]].pos
        BY <1>3, <3>1, <3>2, RmWhole
      <3>4. cells' = r.cells /\ tail' = r.tail /\ rs_idx' = r.rs_idx
        BY <2>8, <3>1 DEF Becomes, Placed
      <3>5. ASSUME NEW x \in Sequence \ {s} PROVE Stays(x)
        <4>1. tail[x] # None => \A g \in Groups : s_l'[g][tail[x]] = s_l[g][tail[x]]
          BY <2>6, <2>7, <2>8
        <4> QED BY <1>5, <2>6, <3>3, <3>4, <4>1 DEF Stays
      <3>6. {s} \in SUBSET Sequence /\ \A x \in {s} : tail'[x] = None /\ undo'[x] = 0
        BY <1>5, <3>3, <3>4
      <3> QED BY <1>2, <3>5, <3>6, ForgottenStep
    <2>9. CASE Becomes(f) /\ s_l' = [s_l EXCEPT ![0][f.min] = z]
      <3>1. cells' = f.cells /\ tail' = f.tail /\ rs_idx' = f.rs_idx
        BY <2>9 DEF Becomes, Placed
      <3>2. ASSUME NEW x \in Sequence \ {s} PROVE Stays(x)
        <4>1. tail[x] # None => \A g \in Groups : s_l'[g][tail[x]] = s_l[g][tail[x]]
          BY <2>6, <2>7, <2>9
        <4> QED BY <1>5, <2>6, <3>1, <4>1 DEF Stays
      <3>3. \A x \in Sequence \ {s} :
               /\ PosAt(cells', tail', x) = PosAt(cells, tail, x)
               /\ StateAt(tail', rs_idx', s_l', x) = StateAt(tail, rs_idx, s_l, x)
               /\ Snap(tail, rs_idx, s_l, undo, x) => Snap(tail', rs_idx', s_l', undo', x)
        BY <1>3, <3>2, StaysSeen
      <3>4. tail'[s] = f.min /\ rs_idx'[s] = 0 /\ cells'[f.min].pos = p /\ s_l'[0][f.min] = z /\ f.min # None
        <4>1. f.min # None
          BY <1>3, <2>5, SequencesAre
        <4> QED BY <1>4, <2>5, <2>7, <2>9, <3>1, <4>1
      <3>5. PosAt(cells', tail', s) = p /\ StateAt(tail', rs_idx', s_l', s) = z
        BY <3>4 DEF PosAt, StateAt
      <3>6. Snaps(tail', rs_idx', s_l', undo', given_up')
        <4>1. Snap(tail', rs_idx', s_l', undo', s)
          <5>1. s_l'[0][tail'[s]] \in Seq(Int)
            BY <2>3, <3>4 DEF RowSet
          <5> QED BY <1>3, <1>5, <5>1, SnapNone
        <4>2. \A x \in Sequence \ given_up' : Snap(tail', rs_idx', s_l', undo', x)
          BY <1>2, <1>3, <3>3, <4>1 DEF Snaps
        <4>3. Together(tail', given_up')
          <5>1. \A x, y \in Sequence : tail[x] # None /\ tail[x] = tail[y] /\ x \in given_up => y \in given_up
            BY <1>3 DEF Snaps, Together
          <5>2. \A x \in Sequence \ {s} : tail'[x] = tail[x] /\ (tail[x] # None => tail[x] # tail'[s])
            BY <2>6, <3>1, <3>4
          <5> QED BY <1>2, <5>1, <5>2 DEF Together
        <4> QED BY <4>2, <4>3 DEF Snaps
      <3>7. /\ PosSeen = PosView(cells, tail, given_up) /\ UndoSeen = UndoView(undo)
            /\ StateSeen = StateView(tail, rs_idx, s_l, given_up)
        BY <1>3, SeenNow
      <3>8. /\ PosSeen' = PosView(cells', tail', given_up') /\ UndoSeen' = UndoView(undo')
            /\ StateSeen' = StateView(tail', rs_idx', s_l', given_up')
        BY <1>2, SeenNext
      <3>9. s \in SeqIds /\ SeqIds = 0 .. MaxSeq - 1
        BY <1>3, SeqIdsAre
      <3>10. PosSeen' = [PosSeen EXCEPT ![s] = p]
        <4>1. ASSUME NEW x \in SeqIds
              PROVE  (IF x \in Sequence \ given_up' THEN PosAt(cells', tail', x) ELSE -1)
                        = IF x = s THEN p ELSE PosSeen[x]
          <5>1. PosSeen[x] = IF x \in Sequence \ given_up THEN PosAt(cells, tail, x) ELSE -1
            BY <3>7 DEF PosView
          <5> QED BY <1>2, <3>3, <3>5, <5>1
        <4>2. PosSeen' = [x \in SeqIds |-> IF x = s THEN p ELSE PosSeen[x]]
          BY <3>8, <4>1 DEF PosView
        <4>3. DOMAIN PosSeen = SeqIds
          BY <3>7 DEF PosView
        <4> QED BY <3>9, <4>2, <4>3
      <3>11. StateSeen' = [StateSeen EXCEPT ![s] = z]
        <4>1. ASSUME NEW x \in SeqIds
              PROVE  (IF x \in Sequence \ given_up' THEN StateAt(tail', rs_idx', s_l', x) ELSE <<>>)
                        = IF x = s THEN z ELSE StateSeen[x]
          <5>1. StateSeen[x] = IF x \in Sequence \ given_up THEN StateAt(tail, rs_idx, s_l, x) ELSE <<>>
            BY <3>7 DEF StateView
          <5> QED BY <1>2, <3>3, <3>5, <5>1
        <4>2. StateSeen' = [x \in SeqIds |-> IF x = s THEN z ELSE StateSeen[x]]
          BY <3>8, <4>1 DEF StateView
        <4>3. DOMAIN StateSeen = SeqIds
          BY <3>7 DEF StateView
        <4> QED BY <3>9, <4>2, <4>3
      <3>12. UndoSeen' = [UndoSeen EXCEPT ![s] = 0]
        <4>1. \A x \in SeqIds : (IF x \in Sequence THEN undo'[x] ELSE 0) = IF x = s THEN 0 ELSE UndoSeen[x]
          BY <1>5, <3>7 DEF UndoView
        <4>2. UndoSeen' = [x \in SeqIds |-> IF x = s THEN 0 ELSE UndoSeen[x]]
          BY <3>8, <4>1 DEF UndoView
        <4>3. DOMAIN UndoSeen = SeqIds
          BY <3>7 DEF UndoView
        <4> QED BY <3>9, <4>2, <4>3
      <3>13. DOMAIN KeptSeen = {-1} /\ KeptSeen[-1].pos = p /\ KeptSeen[-1].state = z
        <4>1. KeptSeen = [x \in {-1} |-> KeptAt(kept, DOMAIN kept.cells)]
          BY <1>2, KeptSeenIs DEF KeptView
        <4>2. Min({1}) = 1
          BY MinOf
        <4>3. KeptAt(kept, {1}) = [pos |-> p, state |-> z]
          BY <2>1, <4>2 DEF KeptAt
        <4> QED BY <2>3, <4>1, <4>3
      <3>14. States!Restore(s)
        BY <1>2, <3>10, <3>11, <3>12, <3>13, KeptStays DEF States!Restore, States!One
      <3>15. s \in States!Sequence
        BY <3>9 DEF States!Sequence
      <3>16. States!Next
        BY <3>14, <3>15 DEF States!Next
      <3> QED BY <3>6, <3>16 DEF StatesStep
    <2> QED BY <2>2, <2>8, <2>9
  <1> QED BY <1>6, <1>7

LEMMA KemptNow == CellsInv => Kempt(cells, tail) /\ RowsFit(s_l)
  BY MemoryIs DEF CellsInv

LEMMA KemptNext ==
  ASSUME CellsInv', conf' = conf
  PROVE  Kempt(cells', tail') /\ RowsFit(s_l')
  <1>2. (CellsInv => Kempt(cells, tail) /\ RowsFit(s_l))'
    BY KemptNow, PTL
  <1>3. Cell' = Cell /\ Sequence' = Sequence /\ Groups' = Groups /\ size' = size
    BY DEF Cell, Sequence, Groups, size, n_rs_seq
  <1>4. CellSet' = CellSet /\ RowSet' = RowSet
    BY <1>3 DEF CellSet, RowSet, None
  <1>5. Kempt(cells, tail)' = Kempt(cells', tail')
    BY <1>3, <1>4 DEF Kempt, None, Bare
  <1>6. RowsFit(s_l)' = RowsFit(s_l')
    BY <1>3, <1>4 DEF RowsFit
  <1> QED BY <1>2, <1>5, <1>6

LEMMA RestoreAllStep ==
  ASSUME StatesInv, CellsInv', Bounded, RestoreAll
  PROVE  StatesStep
  <1>1. PICK n : n = Len(kept.cells)
    OBVIOUS
  <1>2. /\ kept.of = "all" /\ conf' = conf /\ kept' = kept
        /\ undo' = [s \in Sequence |-> 0] /\ given_up' = {}
    BY DEF RestoreAll
  <1>3. /\ Configured /\ CellsInv /\ KeptFits(kept) /\ given_up \in SUBSET Sequence
        /\ size \in Nat \ {0} /\ Cell = 0 .. size - 1 /\ 0 \in Groups /\ None \notin Cell /\ None = -1
    BY MemoryIs, SequencesAre DEF StatesInv, CellsInv, Configured, None, Rest
  <1> DEFINE K == [pos : 0 .. conf.len - 1, seq_id : SUBSET Sequence, state : RowSet]
             at(i) == kept.cells[i + 1]
  <1>4. /\ n \in Nat /\ n <= size /\ DOMAIN kept.cells = 1 .. n
        /\ \A k \in 1 .. n : kept.cells[k] \in K
        /\ \A k, l \in 1 .. n : kept.cells[k].seq_id \cap kept.cells[l].seq_id # {} => k = l
    <2>1. /\ kept.cells \in Seq(K) /\ n <= size
          /\ \A i, j \in DOMAIN kept.cells : kept.cells[i].seq_id \cap kept.cells[j].seq_id # {} => i = j
      BY <1>1, <1>2, <1>3 DEF KeptFits
    <2> HIDE DEF K
    <2>2. n \in Nat /\ DOMAIN kept.cells = 1 .. n /\ \A i \in 1 .. n : kept.cells[i] \in K
      BY <1>1, <2>1, SequenceItems
    <2> QED BY <2>1, <2>2
  <1>5. PICK cs, tl, all :
          /\ cs = [i \in Cell |-> IF i < n THEN [pos |-> at(i).pos, src |-> i, seq_id |-> at(i).seq_id]
                                  ELSE Empty]
          /\ tl = [s \in Sequence |-> Max({None} \cup {i \in 0 .. n - 1 : s \in at(i).seq_id})]
          /\ all = [Cleared EXCEPT !.cells = cs, !.tail = tl, !.used = n]
    OBVIOUS
  <1>6. \/ /\ Becomes(all)
           /\ s_l' = [g \in Groups |-> [i \in Cell |-> IF g = 0 /\ i < n THEN at(i).state ELSE <<>>]]
        \/ Becomes(Cleared) /\ s_l' = NoStates
    BY <1>1, <1>5, Zenon DEF RestoreAll
  <1>7. CASE Becomes(Cleared) /\ s_l' = NoStates
    <2>1. tail' = [s \in Sequence |-> None]
      BY <1>7 DEF Becomes, Placed, Cleared
    <2>2. given_up' = given_up \ Sequence
      BY <1>2, <1>3
    <2>3. /\ \A x \in Sequence : tail'[x] = None /\ undo'[x] = 0
          /\ Sequence \in SUBSET Sequence /\ \A x \in Sequence \ Sequence : Stays(x)
      BY <1>2, <2>1
    <2> QED BY <1>2, <2>2, <2>3, ForgottenStep
  <1>8. CASE /\ Becomes(all)
             /\ s_l' = [g \in Groups |-> [i \in Cell |-> IF g = 0 /\ i < n THEN at(i).state ELSE <<>>]]
    <2>1. cells' = cs /\ rs_idx' = [s \in Sequence |-> 0]
      <3>1. all.cells = cs /\ all.rs_idx = [s \in Sequence |-> 0]
        BY <1>5 DEF Cleared
      <3> QED BY <1>8, <3>1 DEF Becomes, Placed
    <2>2. Kempt(cells', tail') /\ RowsFit(s_l')
      BY <1>2, KemptNext
    <2>3. /\ \A x \in Sequence, i \in Cell : x \in cells'[i].seq_id <=> tail'[x] = i
          /\ \A x \in Sequence : tail'[x] = None \/ (tail'[x] \in Cell /\ tail'[x] # None)
      BY <1>3, <2>2, KemptIs
    <2>4. ASSUME NEW i \in Cell
          PROVE  /\ i \in Nat /\ (i < n => i + 1 \in 1 .. n)
                 /\ cells'[i].seq_id = IF i < n THEN at(i).seq_id ELSE {}
                 /\ i < n => cells'[i].pos = at(i).pos /\ s_l'[0][i] = at(i).state
      <3>1. i \in Nat /\ (i < n => i + 1 \in 1 .. n)
        BY <1>3, <1>4
      <3> HIDE DEF at
      <3>2. /\ cells'[i].seq_id = IF i < n THEN at(i).seq_id ELSE {}
            /\ i < n => cells'[i].pos = at(i).pos
        BY <1>5, <2>1, EmptyIs
      <3>3. i < n => s_l'[0][i] = at(i).state
        BY <1>3, <1>8
      <3> QED BY <3>1, <3>2, <3>3
    <2>5. SeqIds = 0 .. MaxSeq - 1 /\ Sequence \in SUBSET SeqIds
      BY <1>3, SeqIdsAre
    <2>6. ASSUME NEW s \in SeqIds
          PROVE  KeptAt(kept, {k \in DOMAIN kept.cells : s \in kept.cells[k].seq_id})
                   = [pos |-> (IF s \in Sequence THEN PosAt(cells', tail', s) ELSE -1),
                      state |-> (IF s \in Sequence THEN StateAt(tail', rs_idx', s_l', s) ELSE <<>>)]
      <3>1. PICK D : D = {k \in DOMAIN kept.cells : s \in kept.cells[k].seq_id}
        OBVIOUS
      <3>2. D \in SUBSET (1 .. n) /\ \A k \in 1 .. n : k \in D <=> s \in kept.cells[k].seq_id
        BY <1>4, <3>1
      <3>3. CASE s \notin Sequence \/ tail'[s] = None
        <4>1. ASSUME NEW k \in D PROVE FALSE
          <5>1. k \in 1 .. n /\ s \in kept.cells[k].seq_id /\ kept.cells[k] \in K
            BY <1>4, <3>2
          <5>2. s \in Sequence
            BY <5>1
          <5>3. k - 1 \in Cell /\ k - 1 < n /\ k - 1 + 1 = k
            BY <1>3, <1>4, <5>1
          <5>4. cells'[k - 1].seq_id = kept.cells[k].seq_id
            BY <2>4, <5>3
          <5>5. tail'[s] = k - 1
            BY <2>3, <5>1, <5>2, <5>3, <5>4
          <5> QED BY <1>3, <3>3, <5>2, <5>3, <5>5
        <4>2. D = {}
          BY <4>1
        <4>3. KeptAt(kept, D) = [pos |-> -1, state |-> <<>>]
          BY <4>2 DEF KeptAt
        <4> QED BY <3>1, <3>3, <4>3 DEF PosAt, StateAt
      <3>4. CASE s \in Sequence /\ tail'[s] # None
        <4>1. PICK i : i = tail'[s] /\ i \in Cell /\ s \in cells'[i].seq_id
          BY <2>3, <3>4
        <4>2. i < n /\ i \in Nat /\ i + 1 \in 1 .. n
          BY <2>4, <4>1
        <4>3. PICK k : k = i + 1
          OBVIOUS
        <4>4. /\ k \in 1 .. n /\ k \in Nat /\ s \in kept.cells[k].seq_id
              /\ cells'[i].pos = kept.cells[k].pos /\ s_l'[0][i] = kept.cells[k].state
          BY <2>4, <4>1, <4>2, <4>3
        <4>5. D = {k}
          <5>1. k \in D
            BY <3>2, <4>4
          <5>2. ASSUME NEW l \in D PROVE l = k
            <6>1. l \in 1 .. n /\ s \in kept.cells[l].seq_id
              BY <3>2
            <6>2. kept.cells[l].seq_id \cap kept.cells[k].seq_id # {}
              BY <4>4, <6>1
            <6> QED BY <1>4, <4>4, <6>1, <6>2
          <5> QED BY <5>1, <5>2
        <4>6. Min(D) = k
          <5>1. D \in SUBSET Nat /\ D # {}
            BY <4>4, <4>5
          <5> QED BY <4>5, <5>1, MinOf
        <4>7. KeptAt(kept, D) = [pos |-> cells'[i].pos, state |-> s_l'[0][i]]
          BY <4>4, <4>5, <4>6 DEF KeptAt
        <4>8. PosAt(cells', tail', s) = cells'[i].pos /\ StateAt(tail', rs_idx', s_l', s) = s_l'[0][i]
          BY <2>1, <3>4, <4>1 DEF PosAt, StateAt
        <4> QED BY <3>1, <3>4, <4>7, <4>8
      <3> QED BY <3>3, <3>4
    <2>7. KeptSeen = [s \in SeqIds |-> KeptAt(kept, {k \in DOMAIN kept.cells : s \in kept.cells[k].seq_id})]
      BY <1>2, KeptSeenIs DEF KeptView
    <2>8. /\ PosSeen' = PosView(cells', tail', given_up') /\ UndoSeen' = UndoView(undo')
          /\ StateSeen' = StateView(tail', rs_idx', s_l', given_up')
      BY <1>2, SeenNext
    <2>9. \A s \in SeqIds : /\ KeptSeen[s].pos = IF s \in Sequence THEN PosAt(cells', tail', s) ELSE -1
                            /\ KeptSeen[s].state = IF s \in Sequence THEN StateAt(tail', rs_idx', s_l', s) ELSE <<>>
      <3> SUFFICES ASSUME NEW s \in SeqIds
                   PROVE  /\ KeptSeen[s].pos = IF s \in Sequence THEN PosAt(cells', tail', s) ELSE -1
                          /\ KeptSeen[s].state = IF s \in Sequence THEN StateAt(tail', rs_idx', s_l', s) ELSE <<>>
        OBVIOUS
      <3>1. PICK a, b : /\ a = (IF s \in Sequence THEN PosAt(cells', tail', s) ELSE -1)
                        /\ b = (IF s \in Sequence THEN StateAt(tail', rs_idx', s_l', s) ELSE <<>>)
        OBVIOUS
      <3>2. KeptSeen[s] = [pos |-> a, state |-> b]
        BY <2>6, <2>7, <3>1
      <3>3. KeptSeen[s].pos = a /\ KeptSeen[s].state = b
        BY <3>2
      <3> QED BY <3>1, <3>3
    <2>10. PosSeen' = [s \in SeqIds |-> KeptSeen[s].pos]
      BY <1>2, <2>8, <2>9 DEF PosView
    <2>11. StateSeen' = [s \in SeqIds |-> KeptSeen[s].state]
      BY <1>2, <2>8, <2>9 DEF StateView
    <2>12. UndoSeen' = [s \in SeqIds |-> 0]
      BY <1>2, <2>8 DEF UndoView
    <2>13. DOMAIN KeptSeen = SeqIds
      BY <2>7
    <2>14. States!RestoreAll
      BY <1>2, <2>5, <2>10, <2>11, <2>12, <2>13, KeptStays DEF States!RestoreAll, States!Sequence
    <2>15. Snaps(tail', rs_idx', s_l', undo', given_up')
      <3>1. Together(tail', given_up')
        BY <1>2 DEF Together
      <3>2. ASSUME NEW s \in Sequence PROVE Snap(tail', rs_idx', s_l', undo', s)
        <4>1. CASE tail'[s] = None
          BY <4>1 DEF Snap
        <4>2. CASE tail'[s] # None
          <5>1. tail'[s] \in Cell
            BY <2>3, <4>2
          <5>2. s_l'[0][tail'[s]] \in Seq(Int)
            BY <1>3, <2>2, <5>1 DEF RowsFit, RowSet
          <5>3. undo'[s] = 0
            BY <1>2
          <5> QED BY <1>3, <5>2, <5>3, SnapNone
        <4> QED BY <4>1, <4>2
      <3> QED BY <3>1, <3>2 DEF Snaps
    <2>16. States!Next
      BY <2>14 DEF States!Next
    <2> QED BY <2>15, <2>16 DEF StatesStep
  <1> QED BY <1>6, <1>7, <1>8

----------------------------------------------------------------------------
(* Ubatches that fail *)

\* The graph resets the index of the first sequence of a cell, if any.
LEMMA ResetOne ==
  ASSUME CellsInv, NEW f, f.min \in Cell, f.max = f.min, f.cells[f.min].seq_id \in SUBSET Sequence,
         NEW x \in Sequence, x \notin f.cells[f.min].seq_id
  PROVE  Reset(f)[x] = rs_idx[x]
  <1>1. Configured /\ Sequence \in SUBSET Nat /\ f.min .. f.max = {f.min}
    BY MemoryIs, SequencesAre
  <1>2. ~Bare(f.cells[f.min]) => x # Seq0(f.cells[f.min].seq_id)
    BY <1>1, MinOf DEF Bare, Seq0
  <1> QED BY <1>1, <1>2 DEF Reset

LEMMA DecodeFailsStep ==
  ASSUME StatesInv, CellsInv', Bounded, Careless = {}, NEW u \in Ubatches,
         NEW n \in 1 .. conf.tokens, DecodeFails(u, n)
  PROVE  StatesStep
  <1>1. CellsInv /\ Snaps(tail, rs_idx, s_l, undo, given_up)
    BY DEF StatesInv
  <1>2. PICK last, f, m, r : FailedTo(u, last, f, m, r)
    BY <1>1, DecodeFailsTo
  <1>3. /\ given_up' = given_up \cup Members(u) /\ conf' = conf /\ kept' = kept
        /\ undo' = [x \in Sequence |-> IF x \in Members(u) THEN 0 ELSE undo[x]]
    BY DEF DecodeFails
  <1>4. PICK s, p0 : s = Seq0(u[1]) /\ p0 = SeqPos(s) + 1
    OBVIOUS
  <1>5. /\ Members(u) = u[1] /\ s \in u[1] /\ u[1] \in SUBSET Sequence /\ s \in Sequence
        /\ Ubatch(u) /\ Len(u) = 1 /\ last \in [1 .. 1 -> 0 .. conf.len - 1]
        /\ f = FindSlot(Memory, u, last)
    BY <1>2, <1>4 DEF FailedTo
  <1>6. /\ Mem(m) /\ m.cells = f.cells /\ m.tail = f.tail /\ m.rs_idx \in {rs_idx, Reset(f)}
        /\ p0 \in Nat /\ r = Rm(m, s, p0, Inf) /\ Becomes(r)
        /\ \A g \in Groups, i \in Cell : i # f.min => s_l'[g][i] = s_l[g][i]
    BY <1>2, <1>4 DEF FailedTo
  <1>7. /\ Configured /\ Mem(Memory) /\ Memory.tail = tail /\ Memory.cells = cells /\ Inf \in Nat
        /\ Kempt(cells, tail) /\ given_up \in SUBSET Sequence
    BY <1>1, MemoryIs DEF CellsInv, Rest, Configured, Inf
  <1>8. /\ f.min \in Cell /\ f.max = f.min /\ f.cells[f.min].seq_id = u[1]
        /\ \A x \in u[1] : f.tail[x] = f.min
        /\ \A x \in Sequence \ u[1] :
             /\ f.tail[x] = tail[x]
             /\ tail[x] # None => tail[x] # f.min /\ f.cells[tail[x]].pos = cells[tail[x]].pos
    BY <1>5, <1>7, OneCellIs
  <1>9. RmDone(m, s, r)
    BY <1>5, <1>6, <1>7, RmIs
  <1>10. cells' = r.cells /\ tail' = r.tail /\ rs_idx' = r.rs_idx
    BY <1>6 DEF Becomes, Placed
  <1>11. ASSUME NEW x \in Sequence \ u[1] PROVE Stays(x)
    <2>1. x # s /\ undo'[x] = undo[x]
      BY <1>3, <1>5
    <2>2. m.rs_idx[x] = rs_idx[x]
      <3>1. Reset(f)[x] = rs_idx[x]
        BY <1>1, <1>5, <1>8, ResetOne
      <3> QED BY <1>6, <3>1
    <2>3. tail'[x] = tail[x] /\ rs_idx'[x] = rs_idx[x]
      BY <1>6, <1>8, <1>9, <1>10, <2>1, <2>2 DEF RmDone
    <2>4. ASSUME tail[x] # None
          PROVE  /\ cells'[tail[x]].pos = cells[tail[x]].pos
                 /\ \A g \in Groups : s_l'[g][tail[x]] = s_l[g][tail[x]]
      <3>1. tail[x] \in Cell /\ tail[x] # f.min /\ tail[x] # m.tail[s]
        BY <1>5, <1>6, <1>7, <1>8, <2>4, KemptIs
      <3>2. r.cells[tail[x]] = m.cells[tail[x]]
        BY <1>9, <3>1 DEF RmDone
      <3> QED BY <1>6, <1>8, <1>10, <2>4, <3>1, <3>2
    <2> QED BY <2>1, <2>3, <2>4 DEF Stays
  <1>12. Together(tail', given_up')
    <2>1. \A x, y \in Sequence : tail[x] # None /\ tail[x] = tail[y] /\ x \in given_up => y \in given_up
      BY <1>1 DEF Snaps, Together
    <2>2. \A x \in u[1] : tail'[x] \in {f.min, None}
      <3>1. \A x \in u[1] : x # s => r.tail[x] = f.min
        BY <1>5, <1>6, <1>8, <1>9 DEF RmDone
      <3>2. r.tail[s] \in {f.min, None}
        BY <1>5, <1>6, <1>8, <1>9 DEF RmDone
      <3> QED BY <1>10, <3>1, <3>2
    <2>3. \A x \in Sequence \ u[1] : tail'[x] = tail[x] /\ (tail[x] # None => tail[x] # f.min)
      BY <1>8, <1>11 DEF Stays
    <2> QED BY <1>3, <1>5, <2>1, <2>2, <2>3 DEF Together
  <1>13. ASSUME NEW x \in Sequence \ given_up' PROVE Snap(tail', rs_idx', s_l', undo', x)
    <2>1. x \in Sequence \ u[1] /\ x \in Sequence \ given_up
      BY <1>3, <1>5
    <2>2. Snap(tail, rs_idx, s_l, undo, x)
      BY <1>1, <2>1 DEF Snaps
    <2> QED BY <1>1, <1>11, <2>1, <2>2, StaysSeen
  <1>14. States!Removed(u[1])
    <2>1. \A x \in u[1] : (tail'[x] = None \/ x \in given_up') /\ undo'[x] = 0
      BY <1>3, <1>5
    <2>2. \A x \in Sequence \ u[1] : Stays(x) /\ (x \in given_up' <=> x \in given_up)
      BY <1>3, <1>5, <1>11
    <2> QED BY <1>1, <1>3, <1>5, <2>1, <2>2, RemovedSeen
  <1>15. States!DecodeFails(u[1])
    BY <1>3, <1>5, <1>14, KeptStays DEF States!DecodeFails
  <1>16. u[1] \in SUBSET States!Sequence
    BY <1>1, <1>5, SeqIdsAre DEF States!Sequence
  <1>17. States!Next
    BY <1>15, <1>16 DEF States!Next
  <1> QED BY <1>12, <1>13, <1>17 DEF StatesStep, Snaps

----------------------------------------------------------------------------
(* Ubatches that are decoded *)

LEMMA FrontIs ==
  ASSUME NEW a \in Seq(Int), NEW m \in 0 .. Len(a)
  PROVE  /\ SubSeq(a, 1, m) \in Seq(Int) /\ Len(SubSeq(a, 1, m)) = m
         /\ \A i \in 1 .. m : SubSeq(a, 1, m)[i] = a[i]
  <1>1. m \in Nat /\ \A i \in 1 .. m : a[i] \in Int
    OBVIOUS
  <1>2. \A i \in 1 .. m : SubSeq(a, 1, m)[i] = a[1 + i - 1] /\ 1 + i - 1 = i
    BY <1>1
  <1> QED BY <1>1, <1>2

\* A state after n more tokens, without the last g of them.
LEMMA TokensBack ==
  ASSUME NEW old \in Seq(Int), NEW s \in Int, NEW n \in Nat, NEW g \in 0 .. n,
         NEW all, all = old \o [x \in 1 .. n |-> s]
  PROVE  /\ all \in Seq(Int) /\ Len(all) = Len(old) + n /\ g <= Len(all)
         /\ old \o [x \in 1 .. n - g |-> s] = SubSeq(all, 1, Len(all) - g)
  <1>1. PICK add, less, part :
          /\ add = [x \in 1 .. n |-> s] /\ less = [x \in 1 .. n - g |-> s]
          /\ all = old \o add /\ part = old \o less
    OBVIOUS
  <1>2. PICK l, h : l = Len(old) /\ h = n - g
    OBVIOUS
  <1>3. l \in Nat /\ h \in 0 .. n /\ h \in Nat
    BY <1>2
  <1>4. /\ add \in Seq(Int) /\ Len(add) = n /\ \A i \in 1 .. n : add[i] = s
        /\ less \in Seq(Int) /\ Len(less) = h /\ \A i \in 1 .. h : less[i] = s
    <2>1. add \in [1 .. n -> Int] /\ less \in [1 .. h -> Int]
      BY <1>1, <1>2
    <2> QED BY <1>1, <1>2, <1>3, <2>1, SequenceItems
  <1>5. /\ all \in Seq(Int) /\ Len(all) = l + n
        /\ \A i \in 1 .. l + n : all[i] = IF i <= l THEN old[i] ELSE add[i - l]
    BY <1>1, <1>2, <1>4, ConcatProperties
  <1>6. /\ part \in Seq(Int) /\ Len(part) = l + h
        /\ \A i \in 1 .. l + h : part[i] = IF i <= l THEN old[i] ELSE less[i - l]
    BY <1>1, <1>2, <1>4, ConcatProperties
  <1>7. PICK m : m = Len(all) - g
    OBVIOUS
  <1>8. m = l + h /\ m \in Nat /\ 1 .. m \in SUBSET (1 .. l + n)
    BY <1>2, <1>3, <1>5, <1>7
  <1>9. PICK sub : sub = SubSeq(all, 1, m)
    OBVIOUS
  <1>10. sub \in Seq(Int) /\ Len(sub) = m /\ \A i \in 1 .. m : sub[i] = all[i]
    <2>1. m \in 0 .. Len(all)
      BY <1>3, <1>5, <1>8
    <2> QED BY <1>5, <1>9, <2>1, FrontIs
  <1>11. ASSUME NEW i \in 1 .. m PROVE part[i] = sub[i]
    <2>1. i \in 1 .. l + n /\ i \in 1 .. l + h
      BY <1>8
    <2>2. CASE i <= l
      BY <1>5, <1>6, <1>10, <2>1, <2>2
    <2>3. CASE ~(i <= l)
      <3>1. i - l \in 1 .. n /\ i - l \in 1 .. h
        BY <1>3, <2>1, <2>3
      <3> QED BY <1>4, <1>5, <1>6, <1>10, <2>1, <2>3, <3>1
    <2> QED BY <2>2, <2>3
  <1>12. part = sub
    BY <1>6, <1>8, <1>10, <1>11, SeqEqual
  <1>13. g <= Len(all)
    BY <1>3, <1>5
  <1> QED BY <1>1, <1>2, <1>5, <1>7, <1>9, <1>12, <1>13

\* Either one set of sequences shares its tokens, or each sequence has its own.
LEMMA UbatchKinds ==
  ASSUME Configured, NEW u \in Ubatches
  PROVE  \/ Len(u) = 1
         \/ n_rs_seq = 0 /\ \A k \in 1 .. Len(u) : \A s \in u[k] : Seq0(u[k]) = s
  <1>1. CASE \E S \in (SUBSET Sequence) \ {{}} : u = <<S>>
    BY <1>1
  <1>2. CASE /\ n_rs_seq = 0
             /\ \E a \in Sequence : \E n \in 2 .. size - a : u = [k \in 1 .. n |-> {a + k - 1}]
    <2>a. PICK a \in Sequence : \E n \in 2 .. size - a : u = [k \in 1 .. n |-> {a + k - 1}]
      BY <1>2
    <2>1. PICK n \in 2 .. size - a : u = [k \in 1 .. n |-> {a + k - 1}]
      BY <2>a
    <2>2. a \in Nat /\ n \in Nat
      BY SequencesAre DEF Configured
    <2>3. \A k \in 1 .. n : a + k - 1 \in Nat
      BY <2>2
    <2>4. Len(u) = n
      <3>1. u \in [1 .. n -> SUBSET Nat]
        BY <2>1, <2>3
      <3> QED BY <2>2, <3>1, SequenceItems
    <2>5. ASSUME NEW k \in 1 .. n, NEW s \in u[k] PROVE Seq0(u[k]) = s
      <3>1. u[k] = {a + k - 1} /\ u[k] \in SUBSET Nat
        BY <2>1, <2>3
      <3>2. Seq0(u[k]) \in u[k]
        BY <3>1, MinOf DEF Seq0
      <3> QED BY <3>1, <3>2
    <2> QED BY <1>2, <2>4, <2>5
  <1>3. n_rs_seq \in Nat
    BY DEF Configured
  <1> QED BY <1>1, <1>2, <1>3 DEF Ubatches

\* The ubatch u is decoded, with n tokens for each of its cells.
DecodedTo(u, n, last, f) ==
  /\ Ubatch(u) /\ Decodable(u, n) /\ last = LastPositions(u, n) /\ f = FindSlot(Memory, u, last)
  /\ last \in [1 .. Len(u) -> 0 .. conf.len - 1] /\ Found(Memory, u, last, f)
  /\ Len(u) = 1 \/ (n_rs_seq = 0 /\ \A k \in 1 .. Len(u) : \A s \in u[k] : Seq0(u[k]) = s)
  /\ cells' = f.cells /\ tail' = f.tail /\ rs_idx' = Reset(f) /\ s_l' = Computed(f, u, n)
  /\ undo' = [s \in Sequence |-> IF s \in Members(u) THEN Min2(n - 1, n_rs_seq) ELSE undo[s]]
  /\ conf' = conf /\ given_up' = given_up /\ kept' = kept

LEMMA DecodedIs ==
  ASSUME CellsInv, NEW u \in Ubatches, NEW n \in 1 .. conf.tokens, DecodeUbatch(u, n)
  PROVE  \E last, f : DecodedTo(u, n, last, f)
  <1>1. PICK last, f : last = LastPositions(u, n) /\ f = FindSlot(Memory, u, last)
    OBVIOUS
  <1>2. /\ Decodable(u, n) /\ Placed(f) /\ rs_idx' = Reset(f) /\ s_l' = Computed(f, u, n)
        /\ undo' = [s \in Sequence |-> IF s \in Members(u) THEN Min2(n - 1, n_rs_seq) ELSE undo[s]]
        /\ conf' = conf /\ given_up' = given_up /\ kept' = kept
    BY <1>1 DEF DecodeUbatch
  <1>3. Configured /\ Ubatch(u) /\ n \in Nat \ {0}
    BY MemoryIs, UbatchesAre DEF Configured
  <1>4. last \in [1 .. Len(u) -> 0 .. conf.len - 1]
    BY <1>1, <1>2, <1>3, LastIs
  <1>5. Found(Memory, u, last, f)
    <2>1. Kempt(Memory.cells, Memory.tail) /\ Memory.head \in Cell /\ Memory.used \in 0 .. size
      BY MemoryIs
    <2> QED BY <1>1, <1>3, <1>4, <2>1, FindSlotIs
  <1>6. Len(u) = 1 \/ (n_rs_seq = 0 /\ \A k \in 1 .. Len(u) : \A s \in u[k] : Seq0(u[k]) = s)
    BY <1>3, UbatchKinds
  <1>7. cells' = f.cells /\ tail' = f.tail
    BY <1>2 DEF Placed
  <1>8. DecodedTo(u, n, last, f)
    BY <1>1, <1>2, <1>3, <1>4, <1>5, <1>6, <1>7 DEF DecodedTo
  <1> QED BY <1>8

\* Where the others of one cell are.
LEMMA OthersStay ==
  ASSUME CellsInv, NEW u, NEW n \in Nat \ {0}, NEW last, NEW f, DecodedTo(u, n, last, f), Len(u) = 1,
         NEW x \in Sequence \ Members(u)
  PROVE  Stays(x)
  <1>1. /\ Ubatch(u) /\ f = FindSlot(Memory, u, last) /\ last \in [1 .. 1 -> 0 .. conf.len - 1]
        /\ Found(Memory, u, last, f)
        /\ cells' = f.cells /\ tail' = f.tail /\ rs_idx' = Reset(f) /\ s_l' = Computed(f, u, n)
        /\ undo'[x] = undo[x]
    BY DEF DecodedTo
  <1>2. /\ Configured /\ Mem(Memory) /\ Memory.tail = tail /\ Memory.cells = cells /\ Kempt(cells, tail)
    BY MemoryIs
  <1>3. /\ f.min \in Cell /\ f.max = f.min /\ f.cells[f.min].seq_id = u[1] /\ Members(u) = u[1]
        /\ \A y \in Sequence \ u[1] :
             /\ f.tail[y] = tail[y]
             /\ tail[y] # None => tail[y] # f.min /\ f.cells[tail[y]].pos = cells[tail[y]].pos
    BY <1>1, <1>2, OneCellIs
  <1>4. Reset(f)[x] = rs_idx[x]
    <2>1. u[1] \in SUBSET Sequence
      BY <1>1, <1>2, UbatchIs
    <2> QED BY <1>3, <2>1, ResetOne
  <1>5. ASSUME tail[x] # None, NEW g \in Groups
        PROVE  s_l'[g][tail[x]] = s_l[g][tail[x]]
    <2>1. tail[x] \in Cell /\ tail[x] # f.min
      BY <1>2, <1>3, <1>5, KemptIs
    <2>2. f.min .. f.max = {f.min} /\ f.min .. f.min + Len(u) - 1 = {f.min}
      <3>1. f.min \in Nat
        BY <1>2, <1>3, SequencesAre
      <3>2. f.min + 1 - 1 = f.min
        BY <3>1
      <3> QED BY <1>3, <3>1, <3>2
    <2>3. Computed(f, u, n)[g][tail[x]] = Zeroed(f)[g][tail[x]]
      BY <2>1, <2>2 DEF Computed
    <2>4. (f.zero = None \/ f.zero \in Cell) /\ (f.zero = None \/ f.zero \in f.min .. f.max)
      BY <1>1, FoundNow
    <2>5. tail[x] # f.zero
      BY <1>5, <2>1, <2>2, <2>4
    <2>6. Zeroed(f)[g][tail[x]] = s_l[g][tail[x]]
      BY <2>1, <2>4, <2>5, ZeroedIs
    <2> QED BY <1>1, <2>3, <2>6
  <1> QED BY <1>1, <1>3, <1>4, <1>5 DEF Stays

\* Other cells of the window move, and their states with them.
LEMMA OthersSeen ==
  ASSUME CellsInv, RowsFit(s_l'), NEW u, NEW n \in Nat \ {0}, NEW last, NEW f, DecodedTo(u, n, last, f),
         NEW x \in Sequence \ Members(u)
  PROVE  /\ PosAt(cells', tail', x) = PosAt(cells, tail, x)
         /\ StateAt(tail', rs_idx', s_l', x) = StateAt(tail, rs_idx, s_l, x)
         /\ Snap(tail, rs_idx, s_l, undo, x) => Snap(tail', rs_idx', s_l', undo', x)
  <1>1. CASE Len(u) = 1
    BY <1>1, OthersStay, StaysSeen
  <1>2. CASE n_rs_seq = 0
    <2>1. /\ Ubatch(u) /\ Found(Memory, u, last, f)
          /\ cells' = f.cells /\ tail' = f.tail /\ rs_idx' = Reset(f) /\ s_l' = Computed(f, u, n)
          /\ undo'[x] = undo[x]
      BY DEF DecodedTo
    <2>2. /\ Configured /\ Kempt(cells, tail) /\ undo[x] \in Nat /\ rs_idx[x] = 0 /\ rs_idx'[x] = 0
          /\ 0 \in Groups
      <3>1. Groups = 0 .. 0 /\ rs_idx \in [Sequence -> Groups] /\ Configured
        BY <1>2, MemoryIs, SequencesAre
      <3>2. Reset(f)[x] \in Groups
        BY ResetIs
      <3>3. undo[x] \in 0 .. conf.tokens
        BY DEF CellsInv, Rest
      <3> QED BY <2>1, <3>1, <3>2, <3>3, MemoryIs
    <2>3. /\ tail'[x] = None <=> tail[x] = None
          /\ tail'[x] # None =>
               /\ tail'[x] \notin f.min .. f.min + Len(u) - 1
               /\ cells'[tail'[x]].pos = cells[tail[x]].pos
               /\ IF tail'[x] \in f.min .. f.max
                  THEN f.src0[tail'[x]] = tail[x] /\ tail[x] # f.zero
                  ELSE tail'[x] = tail[x]
          /\ Kempt(f.cells, f.tail)
          /\ f.zero = None \/ f.zero \in f.min .. f.max
          /\ f.zero = None \/ f.zero \in Cell
      BY <2>1, FoundNow
    <2>4. CASE tail[x] = None
      BY <2>3, <2>4 DEF PosAt, StateAt, Snap
    <2>5. CASE tail[x] # None
      <3>1. PICK i, j : i = tail[x] /\ j = tail'[x]
        OBVIOUS
      <3>2. i \in Cell /\ j \in Cell /\ j # None
        <4>1. i \in Cell
          BY <2>2, <2>5, <3>1, KemptIs
        <4>2. j # None
          BY <2>3, <2>5, <3>1
        <4>3. f.tail \in [Sequence -> Cell \cup {None}]
          BY <2>3 DEF Kempt
        <4> QED BY <2>1, <3>1, <4>1, <4>2, <4>3
      <3>3. s_l'[0][j] = s_l[0][i]
        <4>1. i # f.zero
          BY <2>3, <2>5, <3>1, <3>2
        <4>2. Zeroed(f)[0][i] = s_l[0][i]
          BY <2>2, <2>3, <3>2, <4>1, ZeroedIs
        <4>3. Computed(f, u, n)[0][j] = IF j \in f.min .. f.max THEN Copied(f, j) ELSE Zeroed(f)[0][j]
          BY <2>2, <2>3, <3>1, <3>2 DEF Computed
        <4>4. j \in f.min .. f.max => Copied(f, j) = Zeroed(f)[0][i]
          BY <1>2, <2>3, <3>1, <3>2 DEF Copied
        <4>5. j \notin f.min .. f.max => j = i
          BY <2>3, <3>1, <3>2
        <4> QED BY <2>1, <4>2, <4>3, <4>4, <4>5
      <3>4. s_l'[0][j] \in Seq(Int)
        <4>1. s_l'[0][j] \in RowSet
          BY <2>2, <3>2 DEF RowsFit
        <4> QED BY <4>1 DEF RowSet
      <3>5. ASSUME Snap(tail, rs_idx, s_l, undo, x) PROVE Snap(tail', rs_idx', s_l', undo', x)
        <4>1. undo[x] <= n_rs_seq
          <5>1. undo[x] \in 0 .. undo[x]
            BY <2>2
          <5> QED BY <2>2, <2>5, <3>5, <5>1 DEF Snap
        <4>2. undo'[x] = 0
          BY <1>2, <2>1, <2>2, <4>1
        <4> QED BY <2>2, <3>1, <3>4, <4>2, SnapNone
      <3>6. PosAt(cells', tail', x) = PosAt(cells, tail, x)
        BY <2>3, <2>5, <3>1, <3>2 DEF PosAt
      <3>7. StateAt(tail', rs_idx', s_l', x) = StateAt(tail, rs_idx, s_l, x)
        BY <2>2, <2>5, <3>1, <3>2, <3>3 DEF StateAt
      <3> QED BY <3>5, <3>6, <3>7
    <2> QED BY <2>4, <2>5
  <1> QED BY <1>1, <1>2 DEF DecodedTo

\* n tokens of the sequence b are decoded for the sequence s.
HasDecoded(n, s, b) ==
  /\ s \in Sequence \ given_up /\ b \in Sequence \ given_up
  /\ PosAt(cells', tail', s) = PosAt(cells, tail, s) + n
  /\ StateAt(tail', rs_idx', s_l', s) = StateAt(tail, rs_idx, s_l, b) \o States!Tokens(b, n)
  /\ StateAt(tail, rs_idx, s_l, b) \in Seq(Int)
  /\ undo'[s] \in 0 .. n - 1 /\ Snap(tail', rs_idx', s_l', undo', s)

\* The sequences of a cell of the ubatch get the state of the first of them, with the new tokens.
LEMMA MemberSeen ==
  ASSUME CellsInv, NEW u, NEW n \in Nat \ {0}, NEW last, NEW f, DecodedTo(u, n, last, f),
         NEW k \in 1 .. Len(u), NEW s \in u[k], NEW b, b = Seq0(u[k])
  PROVE  HasDecoded(n, s, b)
  <1>1. /\ Ubatch(u) /\ Decodable(u, n) /\ last = LastPositions(u, n) /\ Found(Memory, u, last, f)
        /\ cells' = f.cells /\ tail' = f.tail /\ rs_idx' = Reset(f) /\ s_l' = Computed(f, u, n)
        /\ undo' = [x \in Sequence |-> IF x \in Members(u) THEN Min2(n - 1, n_rs_seq) ELSE undo[x]]
    BY DEF DecodedTo
  <1>2. /\ Configured /\ n_rs_seq \in Nat /\ Kempt(cells, tail) /\ Groups = 0 .. n_rs_seq /\ 0 \in Groups
        /\ Sequence \in SUBSET Nat /\ Cell \in SUBSET Nat /\ None \notin Cell
    BY MemoryIs, SequencesAre DEF Configured
  <1>3. /\ s \in Sequence /\ b \in Sequence /\ b \in u[k] /\ s \in Members(u) /\ b \in Members(u)
        /\ DOMAIN u = 1 .. Len(u) /\ Len(u) \in Nat \ {0} /\ b \in Int
    <2>1. /\ u[k] \in SUBSET Sequence /\ b \in u[k] /\ b \in Sequence
          /\ DOMAIN u = 1 .. Len(u) /\ Len(u) \in Nat \ {0}
      BY <1>1, <1>2, UbatchIs
    <2>2. b \in Nat /\ s \in Sequence
      BY <1>2, <2>1
    <2>3. s \in Members(u) /\ b \in Members(u)
      BY <2>1 DEF Members
    <2> QED BY <2>1, <2>2, <2>3
  <1>4. s \notin given_up /\ b \notin given_up /\ SeqPos(s) = SeqPos(b)
    BY <1>1, <1>3 DEF Decodable
  <1>5. PICK i, old : i = f.min + k - 1 /\ old = State(b)
    OBVIOUS
  <1>6. /\ i \in Cell /\ i \in f.min .. f.min + Len(u) - 1 /\ f.tail[s] = i /\ f.min \in Cell
        /\ f.cells[i].seq_id = u[k] /\ f.cells[i].pos = last[k]
    BY <1>1, <1>5, FoundNow
  <1>7. i - f.min + 1 = k
    <2>1. f.min \in Nat
      BY <1>2, <1>6
    <2>2. PICK l \in Nat : l = Len(u)
      BY <1>3
    <2>3. k \in Nat
      <3>1. k \in 1 .. l
        BY <2>2
      <3> QED BY <3>1
    <2> QED BY <1>5, <2>1, <2>3
  <1>8. tail'[s] = i /\ i # None /\ cells'[i].pos = SeqPos(s) + n
    <2>1. last[k] = SeqPos(b) + n
      BY <1>1 DEF LastPositions
    <2> QED BY <1>1, <1>2, <1>4, <1>6, <2>1
  <1>9. rs_idx'[s] = 0
    <2>1. /\ \A j \in Cell : \A x \in f.cells[j].seq_id :
               x \notin given_up /\ f.cells[j].seq_id # {x} => Reset(f)[x] = 0
          /\ Reset(f)[Seq0(u[k])] = 0
      BY <1>1, ResetShared
    <2>2. CASE f.cells[i].seq_id = {s}
      <3>1. s = Seq0(u[k])
        BY <1>3, <1>6, <2>2
      <3> QED BY <1>1, <2>1, <3>1
    <2>3. CASE f.cells[i].seq_id # {s}
      BY <1>1, <1>4, <1>6, <2>1, <2>3
    <2> QED BY <2>2, <2>3
  <1>10. old \in Seq(Int) /\ Copied(f, i) = old
    <2>1. Copied(f, i) = State(b) /\ State(b) \in RowSet
      BY <1>1, <1>5, CopiedState
    <2> QED BY <1>5, <2>1 DEF RowSet
  <1>11. ASSUME NEW g \in Groups, g < n
         PROVE  s_l'[g][i] = old \o [x \in 1 .. n - g |-> b]
    <2>1. Computed(f, u, n)[g][i] = Copied(f, i) \o [x \in 1 .. n - g |-> Seq0(u[i - f.min + 1])]
      BY <1>6, <1>11 DEF Computed
    <2> QED BY <1>1, <1>7, <1>10, <2>1
  <1>12. s_l'[0][i] = old \o [x \in 1 .. n |-> b]
    <2>1. 0 < n /\ n - 0 = n
      OBVIOUS
    <2>2. s_l'[0][i] = old \o [x \in 1 .. n - 0 |-> b]
      BY <1>2, <1>11, <2>1
    <2> QED BY <2>1, <2>2
  <1>13. undo'[s] \in 0 .. n - 1 /\ undo'[s] <= n_rs_seq
    BY <1>1, <1>2, <1>3 DEF Min2
  <1>14. Snap(tail', rs_idx', s_l', undo', s)
    <2>1. ASSUME NEW g \in 0 .. undo'[s]
          PROVE  /\ g <= n_rs_seq /\ g <= Len(s_l'[0][i])
                 /\ s_l'[g][i] = SubSeq(s_l'[0][i], 1, Len(s_l'[0][i]) - g)
      <3>1. g \in Groups /\ g < n /\ g \in 0 .. n /\ g <= n_rs_seq
        BY <1>2, <1>13
      <3>2. PICK all : all = old \o [x \in 1 .. n |-> b]
        OBVIOUS
      <3>3. /\ g <= Len(all)
            /\ old \o [x \in 1 .. n - g |-> b] = SubSeq(all, 1, Len(all) - g)
        <4>1. n \in Nat /\ b \in Int /\ old \in Seq(Int) /\ g \in 0 .. n
          BY <1>3, <1>10, <3>1
        <4> QED BY <3>2, <4>1, TokensBack
      <3> QED BY <1>11, <1>12, <3>1, <3>2, <3>3
    <2> QED BY <1>8, <2>1 DEF Snap
  <1>15. /\ SeqPos(s) = PosAt(cells, tail, s)
         /\ old = StateAt(tail, rs_idx, s_l, b)
    BY <1>3, <1>5, SeqNow
  <1>16. PosAt(cells', tail', s) = PosAt(cells, tail, s) + n
    BY <1>8, <1>15 DEF PosAt
  <1>17. StateAt(tail', rs_idx', s_l', s) = old \o States!Tokens(b, n)
    BY <1>8, <1>9, <1>12 DEF StateAt, States!Tokens
  <1> QED BY <1>3, <1>4, <1>10, <1>13, <1>14, <1>15, <1>16, <1>17 DEF HasDecoded

LEMMA DecodedSnaps ==
  ASSUME StatesInv, RowsFit(s_l'), NEW u, NEW n \in Nat \ {0}, NEW last, NEW f, DecodedTo(u, n, last, f)
  PROVE  Snaps(tail', rs_idx', s_l', undo', given_up')
  <1>1. /\ CellsInv /\ \A x \in Sequence \ given_up : Snap(tail, rs_idx, s_l, undo, x)
        /\ \A x, y \in Sequence : tail[x] # None /\ tail[x] = tail[y] /\ x \in given_up => y \in given_up
    BY DEF StatesInv, Snaps, Together
  <1>2. /\ Ubatch(u) /\ Decodable(u, n) /\ Found(Memory, u, last, f) /\ tail' = f.tail /\ given_up' = given_up
    BY DEF DecodedTo
  <1>3. /\ Configured /\ Kempt(cells, tail) /\ Kempt(f.cells, f.tail)
    BY <1>1, <1>2, MemoryIs, FoundNow
  <1>4. \A x \in Members(u) : x \in Sequence /\ \E k \in 1 .. Len(u) : x \in u[k]
    BY <1>2, <1>3, UbatchIs DEF Members
  <1>5. ASSUME NEW x \in Sequence \ given_up' PROVE Snap(tail', rs_idx', s_l', undo', x)
    <2>1. CASE x \in Members(u)
      <3>1. PICK k \in 1 .. Len(u) : x \in u[k]
        BY <1>4, <2>1
      <3>2. HasDecoded(n, x, Seq0(u[k]))
        BY <1>1, <3>1, MemberSeen
      <3> QED BY <3>2 DEF HasDecoded
    <2>2. CASE x \notin Members(u)
      BY <1>1, <1>2, <2>2, OthersSeen
    <2> QED BY <2>1, <2>2
  <1>6. ASSUME NEW x \in Sequence, NEW y \in Sequence, tail'[x] # None, tail'[x] = tail'[y], x \in given_up
        PROVE  y \in given_up
    <2>1. x \notin Members(u)
      BY <1>2, <1>6 DEF Decodable
    <2>2. /\ tail[x] # None /\ f.tail[x] \notin f.min .. f.min + Len(u) - 1
          /\ f.cells[f.tail[x]].seq_id = cells[tail[x]].seq_id \ Members(u)
      BY <1>1, <1>2, <1>6, <2>1, FoundNow
    <2>3. y \notin Members(u)
      <3>1. ASSUME y \in Members(u) PROVE FALSE
        <4>1. PICK k \in 1 .. Len(u) : y \in u[k]
          BY <1>4, <3>1
        <4>2. f.tail[y] = f.min + k - 1 /\ f.min + k - 1 \in f.min .. f.min + Len(u) - 1
          BY <1>1, <1>2, <4>1, FoundNow
        <4> QED BY <1>2, <1>6, <2>2, <4>2
      <3> QED BY <3>1
    <2>4. y \in f.cells[f.tail[x]].seq_id
      <3>1. f.tail[y] = f.tail[x] /\ f.tail[y] # None
        BY <1>2, <1>6
      <3>2. f.tail[y] = None \/ y \in f.cells[f.tail[y]].seq_id
        BY <1>3, KemptIs
      <3> QED BY <3>1, <3>2
    <2>5. y \in cells[tail[x]].seq_id /\ tail[x] \in Cell
      <3>1. tail[x] \in Cell
        BY <1>3, <2>2, KemptIs
      <3> QED BY <2>2, <2>4, <3>1
    <2>6. tail[y] = tail[x]
      BY <1>3, <2>5, KemptIs
    <2> QED BY <1>1, <1>6, <2>2, <2>6
  <1>7. Together(tail', given_up')
    BY <1>2, <1>6 DEF Together
  <1> QED BY <1>5, <1>7 DEF Snaps

LEMMA DecodeUbatchStep ==
  ASSUME StatesInv, CellsInv', Bounded, NEW u \in Ubatches, NEW n \in 1 .. conf.tokens,
         DecodeUbatch(u, n)
  PROVE  StatesStep
  <1>1. CellsInv /\ Snaps(tail, rs_idx, s_l, undo, given_up)
    BY DEF StatesInv
  <1>2. PICK last, f : DecodedTo(u, n, last, f)
    BY <1>1, DecodedIs
  <1>3. /\ Ubatch(u) /\ conf' = conf /\ given_up' = given_up /\ kept' = kept /\ Decodable(u, n)
        /\ Len(u) = 1 \/ \A k \in 1 .. Len(u) : \A s \in u[k] : Seq0(u[k]) = s
        /\ undo' = [s \in Sequence |-> IF s \in Members(u) THEN Min2(n - 1, n_rs_seq) ELSE undo[s]]
    BY <1>2 DEF DecodedTo
  <1>4. n \in Nat \ {0} /\ Configured /\ Sequence \in SUBSET Nat
    BY <1>1, MemoryIs, SequencesAre DEF Configured
  <1>5. RowsFit(s_l')
    BY <1>3, KemptNext
  <1>6. Snaps(tail', rs_idx', s_l', undo', given_up')
    BY <1>2, <1>4, <1>5, DecodedSnaps
  <1>7. PICK S : S = Members(u)
    OBVIOUS
  <1>8. /\ Len(u) \in Nat \ {0} /\ DOMAIN u = 1 .. Len(u)
        /\ \A k \in 1 .. Len(u) : Seq0(u[k]) \in u[k] /\ u[k] \in SUBSET Sequence
    BY <1>3, <1>4, UbatchIs
  <1>9. S \in SUBSET Sequence /\ S # {} /\ \A s \in S : \E k \in 1 .. Len(u) : s \in u[k]
    <2>1. 1 \in 1 .. Len(u)
      BY <1>8
    <2>2. u[1] # {} /\ u[1] \in SUBSET S
      BY <1>7, <1>8, <2>1 DEF Members
    <2> QED BY <1>7, <1>8, <2>2 DEF Members
  <1>10. PICK shared \in BOOLEAN : shared <=> Len(u) = 1
    OBVIOUS
  <1> DEFINE first(s) == IF shared THEN CHOOSE t \in S : \A x \in S : t <= x ELSE s
  <1>11. ASSUME NEW k \in 1 .. Len(u), NEW s \in u[k] PROVE Seq0(u[k]) = first(s)
    <2>1. CASE Len(u) = 1
      <3>1. k = 1 /\ S = u[1]
        <4>1. DOMAIN u = {1}
          BY <1>8, <2>1
        <4> QED BY <1>7, <2>1, <4>1 DEF Members
      <3>2. Seq0(S) = CHOOSE t \in S : \A x \in S : t <= x
        BY DEF Seq0, Min
      <3> QED BY <1>10, <2>1, <3>1, <3>2
    <2>2. CASE Len(u) # 1
      BY <1>3, <1>10, <2>2
    <2> QED BY <2>1, <2>2
  <1> HIDE DEF first
  <1>12. ASSUME NEW s \in S
         PROVE  /\ s \in Sequence \ given_up /\ first(s) \in S /\ first(s) \in Sequence \ given_up
                /\ PosAt(cells', tail', s) = PosAt(cells, tail, s) + n
                /\ StateAt(tail', rs_idx', s_l', s)
                      = StateAt(tail, rs_idx, s_l, first(s)) \o States!Tokens(first(s), n)
                /\ StateAt(tail, rs_idx, s_l, first(s)) \in Seq(Int)
                /\ undo'[s] \in 0 .. n - 1
    <2>1. PICK k \in 1 .. Len(u) : s \in u[k]
      BY <1>9
    <2>2. Seq0(u[k]) = first(s)
      BY <1>11, <2>1
    <2>3. first(s) \in S
      BY <1>7, <1>8, <2>1, <2>2 DEF Members
    <2>4. PICK b : b = Seq0(u[k])
      OBVIOUS
    <2>5. HasDecoded(n, s, b)
      <3>1. CellsInv /\ n \in Nat \ {0} /\ DecodedTo(u, n, last, f)
        BY <1>1, <1>2, <1>4
      <3> QED BY <2>1, <2>4, <3>1, MemberSeen
    <2>6. b = first(s)
      BY <2>2, <2>4
    <2> QED BY <2>3, <2>5, <2>6, Zenon DEF HasDecoded
  <1>13. ASSUME NEW s \in Sequence \ S
         PROVE  /\ PosAt(cells', tail', s) = PosAt(cells, tail, s)
                /\ StateAt(tail', rs_idx', s_l', s) = StateAt(tail, rs_idx, s_l, s)
                /\ undo'[s] = undo[s]
    <2>1. /\ PosAt(cells', tail', s) = PosAt(cells, tail, s)
          /\ StateAt(tail', rs_idx', s_l', s) = StateAt(tail, rs_idx, s_l, s)
      BY <1>1, <1>2, <1>4, <1>5, <1>7, OthersSeen
    <2> QED BY <1>3, <1>7, <2>1
  <1>14. /\ PosSeen = PosView(cells, tail, given_up) /\ UndoSeen = UndoView(undo)
         /\ StateSeen = StateView(tail, rs_idx, s_l, given_up)
    BY <1>1, SeenNow
  <1>15. /\ PosSeen' = PosView(cells', tail', given_up') /\ UndoSeen' = UndoView(undo')
         /\ StateSeen' = StateView(tail', rs_idx', s_l', given_up')
    BY <1>3, SeenNext
  <1>16. Sequence \in SUBSET SeqIds /\ SeqIds = 0 .. MaxSeq - 1 /\ S \in SUBSET SeqIds
    BY <1>1, <1>9, SeqIdsAre
  <1>17. PosSeen' = [s \in SeqIds |-> IF s \in S THEN PosSeen[s] + n ELSE PosSeen[s]]
    <2>1. ASSUME NEW s \in SeqIds
          PROVE  (IF s \in Sequence \ given_up' THEN PosAt(cells', tail', s) ELSE -1)
                    = IF s \in S THEN PosSeen[s] + n ELSE PosSeen[s]
      <3>1. PosSeen[s] = IF s \in Sequence \ given_up THEN PosAt(cells, tail, s) ELSE -1
        BY <1>14 DEF PosView
      <3>2. CASE s \in S
        BY <1>3, <1>12, <3>1, <3>2
      <3>3. CASE s \notin S
        BY <1>3, <1>13, <3>1, <3>3
      <3> QED BY <3>2, <3>3
    <2> QED BY <1>15, <2>1 DEF PosView
  <1>18. \A s \in Sequence \ given_up : StateSeen[s] = StateAt(tail, rs_idx, s_l, s)
    BY <1>14, <1>16 DEF StateView
  <1>19. StateSeen' = [s \in SeqIds |-> IF s \in S THEN StateSeen[first(s)] \o States!Tokens(first(s), n)
                                                   ELSE StateSeen[s]]
    <2>1. ASSUME NEW s \in SeqIds
          PROVE  (IF s \in Sequence \ given_up' THEN StateAt(tail', rs_idx', s_l', s) ELSE <<>>)
                    = IF s \in S THEN StateSeen[first(s)] \o States!Tokens(first(s), n) ELSE StateSeen[s]
      <3>1. StateSeen[s] = IF s \in Sequence \ given_up THEN StateAt(tail, rs_idx, s_l, s) ELSE <<>>
        BY <1>14 DEF StateView
      <3>2. CASE s \in S
        BY <1>3, <1>12, <1>18, <3>2
      <3>3. CASE s \notin S
        BY <1>3, <1>13, <3>1, <3>3
      <3> QED BY <3>2, <3>3
    <2> QED BY <1>15, <2>1 DEF StateView
  <1>20. \A s \in SeqIds : IF s \in S THEN UndoSeen'[s] \in 0 .. n - 1 ELSE UndoSeen'[s] = UndoSeen[s]
    <2>1. \A s \in SeqIds : /\ UndoSeen[s] = IF s \in Sequence THEN undo[s] ELSE 0
                            /\ UndoSeen'[s] = IF s \in Sequence THEN undo'[s] ELSE 0
      BY <1>14, <1>15 DEF UndoView
    <2> QED BY <1>12, <1>13, <2>1
  <1>21. DOMAIN UndoSeen' = SeqIds
    BY <1>15 DEF UndoView
  <1>22. S \cap given_up = {}
    BY <1>12
  <1>23. States!Decode(S, n, shared)
    BY <1>3, <1>16, <1>17, <1>19, <1>20, <1>21, <1>22, KeptStays DEF States!Decode, States!Sequence, first
  <1>24. PICK s : s = CHOOSE t \in S : \A x \in S : t <= x
    OBVIOUS
  <1>25. s \in S
    <2>1. S \in SUBSET Nat /\ s = Min(S)
      BY <1>4, <1>9, <1>24 DEF Min
    <2> QED BY <1>9, <2>1, MinOf
  <1>26. n \in 1 .. Len(StateSeen'[s])
    <2>1. PICK old, b : old = StateAt(tail, rs_idx, s_l, first(s)) /\ b = first(s)
      OBVIOUS
    <2>2. old \in Seq(Int) /\ b \in Int
      <3>1. old \in Seq(Int) /\ b \in Sequence
        BY <1>12, <1>25, <2>1
      <3> QED BY <1>4, <3>1
    <2>3. StateSeen'[s] = old \o [x \in 1 .. n |-> b]
      BY <1>12, <1>16, <1>18, <1>19, <1>25, <2>1 DEF States!Tokens
    <2>4. n \in Nat /\ 0 \in 0 .. n
      BY <1>4
    <2>5. Len(StateSeen'[s]) = Len(old) + n
      BY <2>2, <2>3, <2>4, TokensBack
    <2> QED BY <1>4, <2>2, <2>5
  <1>27. S \in (SUBSET States!Sequence) \ {{}}
    BY <1>9, <1>16 DEF States!Sequence
  <1>28. States!Next
    BY <1>10, <1>23, <1>24, <1>26, <1>27 DEF States!Next
  <1> QED BY <1>6, <1>28 DEF StatesStep

----------------------------------------------------------------------------
(* The cells implement the states *)

LEMMA StatesInit ==
  ASSUME MemInit, Bounded
  PROVE  StatesInv /\ States!Init
  <1>1. CellsInv /\ Configured /\ 0 \in Cell /\ 0 \in Groups
    BY MemInitInv, MemoryIs, SequencesAre
  <1>2. /\ tail = [s \in Sequence |-> None] /\ undo = [s \in Sequence |-> 0] /\ given_up = {}
        /\ kept = Nothing
    BY DEF MemInit
  <1>3. Snaps(tail, rs_idx, s_l, undo, given_up)
    BY <1>2 DEF Snaps, Snap, Together
  <1>4. /\ PosSeen = PosView(cells, tail, given_up) /\ UndoSeen = UndoView(undo)
        /\ StateSeen = StateView(tail, rs_idx, s_l, given_up)
    BY <1>1, SeenNow
  <1>5. /\ PosSeen = [s \in SeqIds |-> -1] /\ StateSeen = [s \in SeqIds |-> <<>>]
        /\ UndoSeen = [s \in SeqIds |-> 0]
    BY <1>2, <1>4 DEF PosView, StateView, UndoView, PosAt, StateAt
  <1>6. KeptSeen = <<>>
    BY <1>2, KeptSeenIs DEF KeptView, Nothing
  <1> QED BY <1>1, <1>2, <1>3, <1>5, <1>6 DEF StatesInv, States!Init, States!Sequence, SeqIds

LEMMA ConfStays ==
  ASSUME [MemNext]_memvars
  PROVE  conf' = conf
  <1>1. CASE \E u \in Ubatches, n \in 1 .. conf.tokens : DecodeUbatch(u, n) \/ DecodeFails(u, n)
    BY <1>1 DEF DecodeUbatch, DecodeFails
  <1>2. CASE \E r \in Ranges : \/ SeqRmAny(r[1], r[2])
                               \/ \E s \in Sequence : \/ SeqRm(s, r[1], r[2])
                                                      \/ \E d \in {-1, 1} : SeqAdd(s, r[1], r[2], d)
                                                      \/ SeqDiv(s, r[1], r[2], 2)
    BY <1>2 DEF SeqRmAny, SeqRm, SeqAdd, SeqDiv, Moved
  <1>3. CASE \E s \in Sequence : \/ SeqKeep(s) \/ Save(s) \/ Restore(s)
                                 \/ \E t \in Sequence : SeqCp(s, t)
    BY <1>3 DEF SeqKeep, Save, Restore, SeqCp
  <1>4. CASE (\E data \in BOOLEAN : Clear(data)) \/ SaveAll \/ RestoreAll
    BY <1>4 DEF Clear, SaveAll, RestoreAll
  <1>5. CASE UNCHANGED memvars
    BY <1>5 DEF memvars
  <1> QED BY <1>1, <1>2, <1>3, <1>4, <1>5, Zenon DEF MemNext

LEMMA StatesNext ==
  ASSUME StatesInv, [MemNext]_memvars, Bounded, Careless = {}
  PROVE  StatesStep /\ CellsInv' /\ conf' = conf
  <1>1. CellsInv /\ CellsInv' /\ conf' = conf /\ Configured
    BY MemNextInv, ConfStays, MemoryIs DEF StatesInv
  <1>2. ASSUME NEW u \in Ubatches, NEW n \in 1 .. conf.tokens, DecodeUbatch(u, n) \/ DecodeFails(u, n)
        PROVE  StatesStep
    BY <1>1, <1>2, DecodeUbatchStep, DecodeFailsStep
  <1>3. ASSUME NEW r \in Ranges,
               \/ SeqRmAny(r[1], r[2])
               \/ \E s \in Sequence : \/ SeqRm(s, r[1], r[2])
                                      \/ \E d \in {-1, 1} : SeqAdd(s, r[1], r[2], d)
                                      \/ SeqDiv(s, r[1], r[2], 2)
        PROVE  StatesStep
    <2>1. r[1] \in Nat /\ r[2] \in Nat /\ <<r[1], r[2]>> \in Ranges
      <3>1. r = <<r[1], r[2]>>
        BY DEF Ranges
      <3> QED BY <1>1, <3>1, RangesAre
    <2>2. CASE SeqRmAny(r[1], r[2])
      BY <1>1, <2>2, SeqRmAnyStep
    <2>3. CASE \E s \in Sequence : SeqRm(s, r[1], r[2])
      BY <1>1, <2>1, <2>3, SeqRmStep
    <2>4. CASE \E s \in Sequence : \E d \in {-1, 1} : SeqAdd(s, r[1], r[2], d)
      BY <1>1, <2>4, MovedStep DEF SeqAdd
    <2>5. CASE \E s \in Sequence : SeqDiv(s, r[1], r[2], 2)
      BY <1>1, <2>5, MovedStep DEF SeqDiv
    <2> QED BY <1>3, <2>2, <2>3, <2>4, <2>5
  <1>4. ASSUME NEW s \in Sequence,
               SeqKeep(s) \/ Save(s) \/ Restore(s) \/ \E t \in Sequence : SeqCp(s, t)
        PROVE  StatesStep
    BY <1>1, <1>4, SeqKeepStep, SaveStep, RestoreStep, SeqCpStep
  <1>5. CASE \E data \in BOOLEAN : Clear(data)
    BY <1>1, <1>5, ClearStep
  <1>6. CASE SaveAll
    BY <1>1, <1>6, SaveAllStep
  <1>7. CASE RestoreAll
    BY <1>1, <1>7, RestoreAllStep
  <1>8. CASE UNCHANGED memvars
    <2>1. /\ cells' = cells /\ tail' = tail /\ rs_idx' = rs_idx /\ s_l' = s_l
          /\ undo' = undo /\ given_up' = given_up /\ kept' = kept
      BY <1>8 DEF memvars, mem
    <2>2. \A x \in Sequence : Stays(x)
      BY <2>1 DEF Stays
    <2> QED BY <1>1, <2>1, <2>2, NothingSeen
  <1>9. StatesStep
    BY <1>2, <1>3, <1>4, <1>5, <1>6, <1>7, <1>8, Zenon DEF MemNext
  <1> QED BY <1>1, <1>9

LEMMA StatesInvNext ==
  ASSUME CellsInv', conf' = conf, Snaps(tail', rs_idx', s_l', undo', given_up')
  PROVE  StatesInv'
  <1>1. Sequence' = Sequence /\ n_rs_seq' = n_rs_seq
    BY DEF Sequence, size, n_rs_seq
  <1>2. Snaps(tail, rs_idx, s_l, undo, given_up)'
    BY <1>1 DEF Snaps, Snap, Together, None
  <1> QED BY <1>2 DEF StatesInv

LEMMA StatesStepped ==
  ASSUME StatesInv, [MemNext]_memvars, Bounded, Careless = {}
  PROVE  StatesInv' /\ [States!Next]_(States!rvars)
  <1>1. /\ CellsInv' /\ conf' = conf
        /\ Snaps(tail', rs_idx', s_l', undo', given_up') /\ (States!Next \/ Seen' = Seen)
    BY StatesNext DEF StatesStep
  <1>2. StatesInv'
    BY <1>1, StatesInvNext
  <1>3. Seen' = Seen => UNCHANGED States!rvars
    BY DEF Seen, States!rvars
  <1> QED BY <1>1, <1>2, <1>3

\* Whatever cells are shared, swapped, rolled back, lost or restored, each sequence has the state of
\* its own tokens at its own position, as many of them taken back as was asked for: the cells of
\* llama_memory_recurrent implement RecurrentStates, for any numbers of sequences and snapshots
\* where callers keep to what is provided for.
THEOREM RecurrentRefines ==
  ASSUME Careless = {}, Bounded
  PROVE  MemSpec => RefinesStates
  <1>1. MemInit => StatesInv /\ States!Init
    BY StatesInit
  <1>2. StatesInv /\ [MemNext]_memvars => StatesInv' /\ [States!Next]_(States!rvars)
    BY StatesStepped
  <1> QED BY <1>1, <1>2, PTL DEF MemSpec, RefinesStates, States!Spec
=============================================================================
