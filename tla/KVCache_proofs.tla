--------------------------- MODULE KVCache_proofs ---------------------------
(***************************************************************************)
(* What is proved about KVCache, for any number of sequences and of cells,  *)
(* unified or one stream per sequence, with or without a window: the counts *)
(* kept beside the cells are those of the cells, and the key in a buffer is *)
(* rotated to the position of its token, but for the shift that is pending  *)
(* and the copies that are deferred (CellsExact).                          *)
(*                                                                         *)
(* The proof climbs from one cell to a call.  A function of llama_kv_cells  *)
(* rewrites one cell and keeps the cells exact; most carry the key along:   *)
(* a token that stays keeps the difference of its position and its shift.   *)
(* A loop over cells, slots or sequences then does so too, and prepare(),   *)
(* which places ubatches and takes them back, and the copies and shifts     *)
(* that update() makes.  Last there is one lemma per action of the model.   *)
(*                                                                         *)
(* Types, Updated and KeptState are what KRotated needs to be inductive: at *)
(* a decode in progress nothing is deferred, the ubatches to be computed    *)
(* have different cells, and what is kept fits the cache.  The batches are  *)
(* those of the model, of one or two tokens.                               *)
(***************************************************************************)
EXTENDS KVCache, Subsequences_proofs

----------------------------------------------------------------------------
(* One cell *)

Sound(n) == {c \in Cells(n) : Exact(c)}

\* The counts may be anything for a while.
Loose(n) ==
    [pos : [0 .. n-1 -> Positions \cup {-1}], shift : [0 .. n-1 -> Int],
     seq : [0 .. n-1 -> SUBSET Seq_id], used : SUBSET (0 .. n-1),
     seq_pos : [Seq_id -> [Positions -> Int]], has_shift : BOOLEAN]

Count(pos, seq, n, s, p) == Cardinality({i \in 0 .. n - 1 : pos[i] = p /\ s \in seq[i]})

Tally(c, i, s, p) == IF c.pos[i] = p /\ s \in c.seq[i] THEN 1 ELSE 0

\* What cell i adds to a count changes by as much as the count.
Counted(pos, pos2, seq, seq2, n, i, s, p) ==
  /\ Count(pos, seq, n, s, p) \in Nat /\ Count(pos2, seq2, n, s, p) \in Nat
  /\ Count(pos2, seq2, n, s, p) = Count(pos, seq, n, s, p)
       - (IF pos[i] = p /\ s \in seq[i] THEN 1 ELSE 0)
       + (IF pos2[i] = p /\ s \in seq2[i] THEN 1 ELSE 0)

\* Rewriting one cell changes a count by what it counts of that cell.
LEMMA Recount ==
  ASSUME NEW n \in Nat, NEW pos, NEW pos2, NEW seq, NEW seq2, NEW i \in 0 .. n - 1,
         \A j \in 0 .. n - 1 : j # i => pos2[j] = pos[j] /\ seq2[j] = seq[j],
         NEW s, NEW p
  PROVE  Counted(pos, pos2, seq, seq2, n, i, s, p)
  <1>1. PICK A, B, T : /\ A = {j \in 0 .. n - 1 : pos[j] = p /\ s \in seq[j]}
                       /\ B = {j \in 0 .. n - 1 : pos2[j] = p /\ s \in seq2[j]}
                       /\ T = {j \in (0 .. n - 1) \ {i} : pos[j] = p /\ s \in seq[j]}
    OBVIOUS
  <1>2. IsFiniteSet(0 .. n - 1)
    BY FS_Interval
  <1>3. IsFiniteSet(T) /\ i \notin T
    BY <1>1, <1>2, FS_Subset
  <1>4. Cardinality(T) \in Nat /\ Cardinality(T \cup {i}) = Cardinality(T) + 1
    BY <1>3, FS_AddElement, FS_CardinalityType
  <1>5. A = IF pos[i] = p /\ s \in seq[i] THEN T \cup {i} ELSE T
    BY <1>1
  <1>6. B = IF pos2[i] = p /\ s \in seq2[i] THEN T \cup {i} ELSE T
    BY <1>1
  <1>7. Count(pos, seq, n, s, p) = Cardinality(A) /\ Count(pos2, seq2, n, s, p) = Cardinality(B)
    BY <1>1, Zenon DEF Count
  <1>8. Cardinality(A) = Cardinality(T) + IF pos[i] = p /\ s \in seq[i] THEN 1 ELSE 0
    BY <1>4, <1>5
  <1>9. Cardinality(B) = Cardinality(T) + IF pos2[i] = p /\ s \in seq2[i] THEN 1 ELSE 0
    BY <1>4, <1>6
  <1> QED BY <1>4, <1>7, <1>8, <1>9 DEF Counted

\* All cells but i are the same.
Apart(n, c, d, i) ==
  \A j \in 0 .. n - 1 : j # i =>
     d.pos[j] = c.pos[j] /\ d.seq[j] = c.seq[j] /\ d.shift[j] = c.shift[j]

\* What is known of exact cells.
LEMMA SoundIs ==
  ASSUME NEW n \in Nat, NEW c \in Sound(n)
  PROVE  /\ c \in Loose(n) /\ c \in Cells(n) /\ Indices(c) = 0 .. n - 1
         /\ c.pos \in [0 .. n - 1 -> Positions \cup {-1}] /\ c.shift \in [0 .. n - 1 -> Int]
         /\ c.seq \in [0 .. n - 1 -> SUBSET Seq_id] /\ c.used \in SUBSET (0 .. n - 1)
         /\ c.has_shift \in BOOLEAN
         /\ c.used = {j \in 0 .. n - 1 : c.pos[j] # -1}
         /\ \A j \in 0 .. n - 1 : /\ c.pos[j] = -1 <=> c.seq[j] = {}
                                  /\ c.shift[j] # 0 => c.pos[j] # -1 /\ c.has_shift
         /\ \A s \in Seq_id, p \in Positions : c.seq_pos[s][p] = Count(c.pos, c.seq, n, s, p)
  <1>1. c \in Cells(n) /\ Exact(c)
    BY DEF Sound
  <1>2. /\ c.pos \in [0 .. n - 1 -> Positions \cup {-1}] /\ c.shift \in [0 .. n - 1 -> Int]
        /\ c.seq \in [0 .. n - 1 -> SUBSET Seq_id] /\ c.used \in SUBSET (0 .. n - 1)
        /\ c.has_shift \in BOOLEAN /\ c.seq_pos \in [Seq_id -> [Positions -> Nat]]
    BY <1>1 DEF Cells
  <1>3. Indices(c) = 0 .. n - 1
    BY <1>2 DEF Indices
  <1>4. c.seq_pos \in [Seq_id -> [Positions -> Int]]
    BY <1>2
  <1>5. c \in Loose(n)
    BY <1>1, <1>2, <1>4 DEF Cells, Loose
  <1>6. /\ c.used = {j \in 0 .. n - 1 : c.pos[j] # -1}
        /\ \A j \in 0 .. n - 1 : /\ c.pos[j] = -1 <=> c.seq[j] = {}
                                 /\ c.shift[j] # 0 => c.pos[j] # -1 /\ c.has_shift
    BY <1>1, <1>3 DEF Exact
  <1>7. ASSUME NEW s \in Seq_id, NEW p \in Positions
        PROVE  c.seq_pos[s][p] = Count(c.pos, c.seq, n, s, p)
    <2>1. c.seq_pos[s][p] = Cardinality({j \in Indices(c) : c.pos[j] = p /\ s \in c.seq[j]})
      BY <1>1 DEF Exact
    <2>2. {j \in Indices(c) : c.pos[j] = p /\ s \in c.seq[j]}
            = {j \in 0 .. n - 1 : c.pos[j] = p /\ s \in c.seq[j]}
      BY <1>3
    <2> QED BY <2>1, <2>2, Zenon DEF Count
  <1> QED BY <1>1, <1>2, <1>3, <1>5, <1>6, <1>7

\* Cell i of c was rewritten, and what is kept beside the cells with it.
Rewritten(n, c, d, i) ==
  /\ d \in Loose(n)
  /\ Apart(n, c, d, i)
  /\ d.pos[i] = -1 <=> d.seq[i] = {}
  /\ d.shift[i] # 0 => d.pos[i] # -1 /\ d.has_shift
  /\ c.has_shift => d.has_shift
  /\ d.used = IF d.pos[i] = -1 THEN c.used \ {i} ELSE c.used \cup {i}
  /\ \A s \in Seq_id, p \in Positions :
       d.seq_pos[s][p] = c.seq_pos[s][p] - Tally(c, i, s, p) + Tally(d, i, s, p)

\* A cell that is rewritten with its counts and its place in "used" leaves the cells exact.
LEMMA ChangedSound ==
  ASSUME NEW n \in Nat, NEW c \in Sound(n), NEW i \in 0 .. n - 1, NEW d, Rewritten(n, c, d, i)
  PROVE  d \in Sound(n)
  <1> USE DEF Rewritten
  <1>1. /\ c.used = {j \in 0 .. n - 1 : c.pos[j] # -1}
        /\ \A j \in 0 .. n - 1 : /\ c.pos[j] = -1 <=> c.seq[j] = {}
                                 /\ c.shift[j] # 0 => c.pos[j] # -1 /\ c.has_shift
        /\ \A s \in Seq_id, p \in Positions : c.seq_pos[s][p] = Count(c.pos, c.seq, n, s, p)
    BY SoundIs
  <1>2. /\ d.pos \in [0 .. n - 1 -> Positions \cup {-1}] /\ d.shift \in [0 .. n - 1 -> Int]
        /\ d.seq \in [0 .. n - 1 -> SUBSET Seq_id] /\ d.used \in SUBSET (0 .. n - 1)
        /\ d.seq_pos \in [Seq_id -> [Positions -> Int]] /\ d.has_shift \in BOOLEAN
    BY DEF Loose
  <1>3. Indices(d) = 0 .. n - 1
    BY <1>2 DEF Indices
  <1>4. \A j \in 0 .. n - 1 : j # i =>
          d.pos[j] = c.pos[j] /\ d.seq[j] = c.seq[j] /\ d.shift[j] = c.shift[j]
    BY DEF Apart
  <1>5. ASSUME NEW s \in Seq_id, NEW p \in Positions
        PROVE  /\ d.seq_pos[s][p] \in Nat
               /\ d.seq_pos[s][p] = Count(d.pos, d.seq, n, s, p)
    <2>1. c.seq_pos[s][p] = Count(c.pos, c.seq, n, s, p)
      BY <1>1
    <2>5. \A j \in 0 .. n - 1 : j # i => d.pos[j] = c.pos[j] /\ d.seq[j] = c.seq[j]
      BY <1>4
    <2>2. /\ Count(c.pos, c.seq, n, s, p) \in Nat /\ Count(d.pos, d.seq, n, s, p) \in Nat
          /\ Count(d.pos, d.seq, n, s, p) = Count(c.pos, c.seq, n, s, p)
              - (IF c.pos[i] = p /\ s \in c.seq[i] THEN 1 ELSE 0)
              + (IF d.pos[i] = p /\ s \in d.seq[i] THEN 1 ELSE 0)
      <3>1. Counted(c.pos, d.pos, c.seq, d.seq, n, i, s, p)
        BY <2>5, Recount, Zenon
      <3> QED BY <3>1, Zenon DEF Counted
    <2>3. d.seq_pos[s][p] = c.seq_pos[s][p] - Tally(c, i, s, p) + Tally(d, i, s, p)
      OBVIOUS
    <2>4. d.seq_pos[s][p] = Count(d.pos, d.seq, n, s, p)
      BY <2>1, <2>2, <2>3, Zenon DEF Tally
    <2> QED BY <2>2, <2>4
  <1>6. d.seq_pos \in [Seq_id -> [Positions -> Nat]]
    BY <1>2, <1>5
  <1>7. d \in Cells(n)
    BY <1>2, <1>6 DEF Cells, Loose
  <1>8. d.used = {j \in 0 .. n - 1 : d.pos[j] # -1}
    <2>1. \A j \in 0 .. n - 1 : j # i => (j \in d.used <=> j \in c.used)
      OBVIOUS
    <2>2. i \in d.used <=> d.pos[i] # -1
      OBVIOUS
    <2> QED BY <1>1, <1>2, <1>4, <2>1, <2>2
  <1>9. \A j \in 0 .. n - 1 : /\ d.pos[j] = -1 <=> d.seq[j] = {}
                              /\ d.shift[j] # 0 => d.pos[j] # -1 /\ d.has_shift
    <2>1. ASSUME NEW j \in 0 .. n - 1, j # i
          PROVE  /\ d.pos[j] = -1 <=> d.seq[j] = {}
                 /\ d.shift[j] # 0 => d.pos[j] # -1 /\ d.has_shift
      BY <1>1, <1>4, <2>1
    <2> QED BY <2>1, Zenon
  <1>10. \A s \in Seq_id, p \in Positions :
           d.seq_pos[s][p] = Cardinality({j \in Indices(d) : d.pos[j] = p /\ s \in d.seq[j]})
    BY <1>3, <1>5, Zenon DEF Count
  <1>11. Exact(d)
    BY <1>3, <1>8, <1>9, <1>10 DEF Exact
  <1> QED BY <1>7, <1>11 DEF Sound

\* Only the counts differ, by d for the sequences and the position of cell i.
Added(n, c, e, i, d) ==
  /\ e \in Loose(n)
  /\ e.pos = c.pos /\ e.seq = c.seq /\ e.shift = c.shift /\ e.used = c.used
  /\ e.has_shift = c.has_shift
  /\ \A s \in Seq_id, p \in Positions :
       e.seq_pos[s][p] = c.seq_pos[s][p] + IF c.pos[i] = p /\ s \in c.seq[i] THEN d ELSE 0

\* The loop over the sequences of a cell adds d to their counts at its position.
LEMMA SeqPosIs ==
  ASSUME NEW n \in Nat, NEW c \in Loose(n), NEW i \in 0 .. n - 1, NEW d \in Int,
         c.pos[i] \in Positions
  PROVE  Added(n, c, SeqPos(c, i, d), i, d)
  <1>1. PICK m : m = [s \in Seq_id |-> [p \in Positions |->
                        c.seq_pos[s][p] + IF p = c.pos[i] /\ s \in c.seq[i] THEN d ELSE 0]]
    OBVIOUS
  <1>2. c.seq_pos \in [Seq_id -> [Positions -> Int]]
    BY DEF Loose
  <1>3. m \in [Seq_id -> [Positions -> Int]]
    BY <1>1, <1>2
  <1>4. \A s \in Seq_id, p \in Positions :
          m[s][p] = c.seq_pos[s][p] + IF c.pos[i] = p /\ s \in c.seq[i] THEN d ELSE 0
    BY <1>1, <1>2
  <1>5. PICK e : e = SeqPos(c, i, d)
    OBVIOUS
  <1>6. e = [c EXCEPT !.seq_pos = m]
    BY <1>1, <1>5 DEF SeqPos
  <1>7. /\ e.pos = c.pos /\ e.seq = c.seq /\ e.shift = c.shift /\ e.used = c.used
        /\ e.has_shift = c.has_shift /\ e.seq_pos = m /\ e \in Loose(n)
    BY <1>3, <1>6 DEF Loose
  <1>8. Added(n, c, e, i, d)
    BY <1>4, <1>7, Zenon DEF Added
  <1> QED BY <1>5, <1>8

\* Cell i of c holds q, S and x in d, which is as sound as c.
Holds(n, c, d, i, q, S, x) ==
  /\ d \in Sound(n) /\ Apart(n, c, d, i)
  /\ d.pos[i] = q /\ d.seq[i] = S /\ d.shift[i] = x

\* rm().
LEMMA RmIs ==
  ASSUME NEW n \in Nat, NEW c \in Sound(n), NEW i \in 0 .. n - 1, c.pos[i] # -1
  PROVE  Holds(n, c, Rm(c, i), i, -1, {}, 0) /\ Rm(c, i).has_shift = c.has_shift
  <1>1. /\ c \in Loose(n) /\ c.pos \in [0 .. n - 1 -> Positions \cup {-1}]
        /\ c.shift \in [0 .. n - 1 -> Int]
        /\ c.seq \in [0 .. n - 1 -> SUBSET Seq_id] /\ c.used \in SUBSET (0 .. n - 1)
    BY SoundIs
  <1>2. c.pos[i] \in Positions
    BY <1>1
  <1>3. PICK e : e = SeqPos(c, i, -1)
    OBVIOUS
  <1>4. Added(n, c, e, i, -1)
    BY <1>1, <1>2, <1>3, SeqPosIs
  <1>5. PICK d : d = Emptied(e, i)
    OBVIOUS
  <1>6. /\ d.pos = [c.pos EXCEPT ![i] = -1] /\ d.shift = [c.shift EXCEPT ![i] = 0]
        /\ d.seq = [c.seq EXCEPT ![i] = {}] /\ d.used = c.used \ {i}
        /\ d.seq_pos = e.seq_pos /\ d.has_shift = c.has_shift
    BY <1>4, <1>5 DEF Added, Loose, Emptied
  <1>7. d \in Loose(n)
    <2>1. /\ [c.pos EXCEPT ![i] = -1] \in [0 .. n - 1 -> Positions \cup {-1}]
          /\ [c.shift EXCEPT ![i] = 0] \in [0 .. n - 1 -> Int]
          /\ [c.seq EXCEPT ![i] = {}] \in [0 .. n - 1 -> SUBSET Seq_id]
      BY <1>1
    <2> QED BY <1>1, <1>4, <1>5, <1>6, <2>1 DEF Added, Loose, Emptied
  <1>8. d.pos[i] = -1 /\ d.seq[i] = {} /\ d.shift[i] = 0 /\ Apart(n, c, d, i)
    BY <1>1, <1>6 DEF Apart
  <1>9. \A s \in Seq_id, p \in Positions :
          d.seq_pos[s][p] = c.seq_pos[s][p] - Tally(c, i, s, p) + Tally(d, i, s, p)
    <2>1. \A s \in Seq_id, p \in Positions : c.seq_pos[s][p] \in Int
      BY <1>1 DEF Loose
    <2> QED BY <1>4, <1>6, <1>8, <2>1 DEF Added, Tally
  <1>10. d \in Sound(n)
    <2>1. Rewritten(n, c, d, i)
      BY <1>6, <1>7, <1>8, <1>9 DEF Rewritten
    <2> QED BY <2>1, ChangedSound, Zenon
  <1>11. Rm(c, i) = d
    BY <1>3, <1>5 DEF Rm
  <1> QED BY <1>6, <1>8, <1>10, <1>11 DEF Holds

\* pos_set() and seq_add() of an empty cell.
LEMMA PlaceIs ==
  ASSUME NEW n \in Nat, NEW c \in Sound(n), NEW i \in 0 .. n - 1, c.pos[i] = -1,
         NEW p0 \in Positions, NEW S \in SUBSET Seq_id, S # {}
  PROVE  Holds(n, c, Place(c, i, p0, S), i, p0, S, 0)
         /\ Place(c, i, p0, S).has_shift = c.has_shift
  <1>1. /\ c \in Loose(n) /\ c.pos \in [0 .. n - 1 -> Positions \cup {-1}]
        /\ c.shift \in [0 .. n - 1 -> Int]
        /\ c.seq \in [0 .. n - 1 -> SUBSET Seq_id] /\ c.used \in SUBSET (0 .. n - 1)
        /\ c.has_shift \in BOOLEAN
        /\ \A j \in 0 .. n - 1 : /\ c.pos[j] = -1 <=> c.seq[j] = {}
                                 /\ c.shift[j] # 0 => c.pos[j] # -1 /\ c.has_shift
    BY SoundIs
  <1>0. c.shift[i] = 0 /\ c.seq[i] = {}
    BY <1>1
  <1>2. p0 # -1
    BY KVCellsAssumption DEF Positions
  <1>3. PICK e : e = [PosSet(c, i, p0) EXCEPT !.seq[i] = S]
    OBVIOUS
  <1>4. /\ e.pos = [c.pos EXCEPT ![i] = p0] /\ e.shift = c.shift
        /\ e.seq = [c.seq EXCEPT ![i] = S] /\ e.used = c.used \cup {i}
        /\ e.seq_pos = c.seq_pos /\ e.has_shift = c.has_shift
    BY <1>1, <1>3 DEF Loose, PosSet
  <1>5. e \in Loose(n)
    <2>1. /\ [c.pos EXCEPT ![i] = p0] \in [0 .. n - 1 -> Positions \cup {-1}]
          /\ [c.seq EXCEPT ![i] = S] \in [0 .. n - 1 -> SUBSET Seq_id]
      BY <1>1
    <2> QED BY <1>1, <1>3, <1>4, <2>1 DEF Loose, PosSet
  <1>6. e.pos[i] = p0 /\ e.seq[i] = S /\ e.shift[i] = 0
    BY <1>0, <1>1, <1>4
  <1>7. PICK d : d = SeqPos(e, i, 1)
    OBVIOUS
  <1>8. Added(n, e, d, i, 1)
    BY <1>5, <1>6, <1>7, SeqPosIs
  <1>9. d \in Loose(n) /\ Apart(n, c, d, i) /\ d.pos[i] = p0 /\ d.seq[i] = S /\ d.shift[i] = 0
    BY <1>1, <1>4, <1>6, <1>8 DEF Added, Apart
  <1>10. \A s \in Seq_id, p \in Positions :
           d.seq_pos[s][p] = c.seq_pos[s][p] - Tally(c, i, s, p) + Tally(d, i, s, p)
    <2>1. \A s \in Seq_id, p \in Positions : c.seq_pos[s][p] \in Int
      BY <1>1 DEF Loose
    <2> QED BY <1>0, <1>1, <1>4, <1>6, <1>8, <1>9, <2>1 DEF Added, Tally
  <1>11. d \in Sound(n)
    <2>1. Rewritten(n, c, d, i)
      BY <1>2, <1>4, <1>8, <1>9, <1>10 DEF Added, Rewritten
    <2> QED BY <2>1, ChangedSound, Zenon
  <1>12. Place(c, i, p0, S) = d
    BY <1>3, <1>7 DEF Place
  <1> QED BY <1>4, <1>8, <1>9, <1>11, <1>12 DEF Holds, Added

\* The counts lose, or gain, what cell i stands for.
Without(n, c, d, i) ==
  /\ d \in Loose(n)
  /\ d.pos = c.pos /\ d.seq = c.seq /\ d.shift = c.shift /\ d.used = c.used
  /\ d.has_shift = c.has_shift
  /\ \A s \in Seq_id, p \in Positions : d.seq_pos[s][p] = c.seq_pos[s][p] - Tally(c, i, s, p)

With(n, c, d, i) ==
  /\ d \in Loose(n)
  /\ d.pos = c.pos /\ d.seq = c.seq /\ d.shift = c.shift /\ d.used = c.used
  /\ d.has_shift = c.has_shift
  /\ \A s \in Seq_id, p \in Positions : d.seq_pos[s][p] = c.seq_pos[s][p] + Tally(c, i, s, p)

\* seq_pos_rm().
LEMMA SeqPosWithout ==
  ASSUME NEW n \in Nat, NEW c \in Loose(n), NEW i \in 0 .. n - 1, c.pos[i] \in Positions
  PROVE  Without(n, c, SeqPos(c, i, -1), i)
  <1>1. PICK d : d = SeqPos(c, i, -1)
    OBVIOUS
  <1>2. Added(n, c, d, i, -1)
    BY <1>1, SeqPosIs
  <1>3. \A s \in Seq_id, p \in Positions : c.seq_pos[s][p] \in Int
    BY DEF Loose
  <1> QED BY <1>1, <1>2, <1>3 DEF Added, Without, Tally

\* seq_pos_add().
LEMMA SeqPosWith ==
  ASSUME NEW n \in Nat, NEW c \in Loose(n), NEW i \in 0 .. n - 1, c.pos[i] \in Positions
  PROVE  With(n, c, SeqPos(c, i, 1), i)
  <1>1. PICK d : d = SeqPos(c, i, 1)
    OBVIOUS
  <1>2. Added(n, c, d, i, 1)
    BY <1>1, SeqPosIs
  <1>3. \A s \in Seq_id, p \in Positions : c.seq_pos[s][p] \in Int
    BY DEF Loose
  <1> QED BY <1>1, <1>2, <1>3 DEF Added, With, Tally

\* A cell that is in no sequence counts for nothing.
LEMMA EmptyTally ==
  ASSUME NEW n \in Nat, NEW c \in Loose(n), NEW i \in 0 .. n - 1, c.pos[i] = -1
  PROVE  Without(n, c, c, i) /\ With(n, c, c, i)
  <1>1. \A s \in Seq_id, p \in Positions : c.seq_pos[s][p] \in Int /\ Tally(c, i, s, p) = 0
    BY KVCellsAssumption DEF Loose, Positions, Tally
  <1> QED BY <1>1 DEF Without, With

\* Cell i of d, which counts the others only, is rewritten.
Recast(n, d, e, i, q, S, x) ==
  /\ e.pos = [d.pos EXCEPT ![i] = q] /\ e.shift = [d.shift EXCEPT ![i] = x]
  /\ e.seq = [d.seq EXCEPT ![i] = S] /\ e.seq_pos = d.seq_pos
  /\ e.used = IF q = -1 THEN d.used \ {i} ELSE d.used \cup {i}
  /\ d.has_shift => e.has_shift
  /\ e \in Loose(n)

\* Counting a cell out, changing it and counting it in again leaves the cells exact.
LEMMA RecastIs ==
  ASSUME NEW n \in Nat, NEW c \in Sound(n), NEW i \in 0 .. n - 1, NEW d, NEW e, NEW r,
         NEW q, NEW S, NEW x,
         q = -1 <=> S = {}, x # 0 => q # -1 /\ e.has_shift,
         Without(n, c, d, i), Recast(n, d, e, i, q, S, x), With(n, e, r, i)
  PROVE  Holds(n, c, r, i, q, S, x)
  <1>1. /\ c \in Loose(n) /\ c.pos \in [0 .. n - 1 -> Positions \cup {-1}]
        /\ c.shift \in [0 .. n - 1 -> Int]
        /\ c.seq \in [0 .. n - 1 -> SUBSET Seq_id] /\ c.used \in SUBSET (0 .. n - 1)
    BY SoundIs
  <1>2. /\ r.pos = [c.pos EXCEPT ![i] = q] /\ r.shift = [c.shift EXCEPT ![i] = x]
        /\ r.seq = [c.seq EXCEPT ![i] = S] /\ r \in Loose(n)
        /\ r.used = IF q = -1 THEN c.used \ {i} ELSE c.used \cup {i}
        /\ c.has_shift => r.has_shift
        /\ r.has_shift = e.has_shift
    BY DEF Without, Recast, With
  <1>3. r.pos[i] = q /\ r.shift[i] = x /\ r.seq[i] = S /\ Apart(n, c, r, i)
    BY <1>1, <1>2 DEF Apart
  <1>4. ASSUME NEW s \in Seq_id, NEW p \in Positions
        PROVE  r.seq_pos[s][p] = c.seq_pos[s][p] - Tally(c, i, s, p) + Tally(r, i, s, p)
    <2>1. /\ r.seq_pos[s][p] = e.seq_pos[s][p] + Tally(e, i, s, p)
          /\ d.seq_pos[s][p] = c.seq_pos[s][p] - Tally(c, i, s, p)
          /\ e.seq_pos = d.seq_pos
      BY DEF Without, Recast, With
    <2>2. Tally(r, i, s, p) = Tally(e, i, s, p)
      BY DEF With, Tally
    <2> QED BY <2>1, <2>2, Zenon
  <1>5. Rewritten(n, c, r, i)
    BY <1>2, <1>3, <1>4 DEF Rewritten
  <1>6. r \in Sound(n)
    BY <1>5, ChangedSound, Zenon
  <1> QED BY <1>3, <1>6 DEF Holds

\* seq_rm(): the cell is emptied, or loses the sequence.
LEMMA SeqRmIs ==
  ASSUME NEW n \in Nat, NEW c \in Sound(n), NEW i \in 0 .. n - 1, NEW s \in Seq_id, s \in c.seq[i]
  PROVE  /\ \/ Holds(n, c, SeqRm(c, i, s), i, -1, {}, 0)
            \/ Holds(n, c, SeqRm(c, i, s), i, c.pos[i], c.seq[i] \ {s}, c.shift[i])
         /\ SeqRm(c, i, s).has_shift = c.has_shift
  <1>1. /\ c \in Loose(n) /\ c.pos \in [0 .. n - 1 -> Positions \cup {-1}]
        /\ c.shift \in [0 .. n - 1 -> Int]
        /\ c.seq \in [0 .. n - 1 -> SUBSET Seq_id] /\ c.used \in SUBSET (0 .. n - 1)
        /\ c.has_shift \in BOOLEAN
        /\ c.used = {j \in 0 .. n - 1 : c.pos[j] # -1}
        /\ \A j \in 0 .. n - 1 : /\ c.pos[j] = -1 <=> c.seq[j] = {}
                                 /\ c.shift[j] # 0 => c.pos[j] # -1 /\ c.has_shift
    BY SoundIs
  <1>2. c.pos[i] # -1 /\ c.pos[i] \in Positions
    BY <1>1
  <1>3. CASE c.seq[i] = {s}
    BY <1>2, <1>3, RmIs DEF SeqRm
  <1>4. CASE c.seq[i] # {s}
    <2>1. PICK d : d = SeqRm(c, i, s)
      OBVIOUS
    <2>2. d = [c EXCEPT !.seq[i] = c.seq[i] \ {s}, !.seq_pos[s][c.pos[i]] = @ - 1]
      BY <1>4, <2>1 DEF SeqRm
    <2>3. PICK m : m = [c.seq_pos EXCEPT ![s][c.pos[i]] = c.seq_pos[s][c.pos[i]] - 1]
      OBVIOUS
    <2>4. c.seq_pos \in [Seq_id -> [Positions -> Int]]
      BY <1>1 DEF Loose
    <2>5. m \in [Seq_id -> [Positions -> Int]]
      BY <1>2, <2>3, <2>4
    <2>6. [c.seq EXCEPT ![i] = c.seq[i] \ {s}] \in [0 .. n - 1 -> SUBSET Seq_id]
      BY <1>1
    <2>7. /\ d.pos = c.pos /\ d.shift = c.shift /\ d.used = c.used /\ d.has_shift = c.has_shift
          /\ d.seq = [c.seq EXCEPT ![i] = c.seq[i] \ {s}] /\ d.seq_pos = m
          /\ d \in Loose(n)
      BY <1>1, <2>2, <2>3, <2>5, <2>6 DEF Loose
    <2>8. /\ d.pos[i] = c.pos[i] /\ d.seq[i] = c.seq[i] \ {s} /\ d.shift[i] = c.shift[i]
          /\ Apart(n, c, d, i) /\ d.seq[i] # {}
      BY <1>1, <1>4, <2>7 DEF Apart
    <2>9. ASSUME NEW t \in Seq_id, NEW p \in Positions
          PROVE  d.seq_pos[t][p] = c.seq_pos[t][p] - Tally(c, i, t, p) + Tally(d, i, t, p)
      <3>1. m[t][p] = c.seq_pos[t][p] - IF t = s /\ p = c.pos[i] THEN 1 ELSE 0
        BY <1>2, <2>3, <2>4
      <3>2. c.seq_pos[t][p] \in Int
        BY <2>4
      <3> QED BY <2>7, <2>8, <3>1, <3>2 DEF Tally
    <2>10. d.used = c.used \cup {i}
      BY <1>1, <1>2, <2>7
    <2>11. Rewritten(n, c, d, i)
      BY <1>1, <1>2, <2>7, <2>8, <2>9, <2>10 DEF Rewritten
    <2>12. d \in Sound(n)
      BY <2>11, ChangedSound, Zenon
    <2> QED BY <2>1, <2>7, <2>8, <2>12 DEF Holds
  <1> QED BY <1>3, <1>4

\* seq_add().
LEMMA SeqAddIs ==
  ASSUME NEW n \in Nat, NEW c \in Sound(n), NEW i \in 0 .. n - 1, NEW s \in Seq_id,
         c.pos[i] # -1, s \notin c.seq[i]
  PROVE  Holds(n, c, SeqAdd(c, i, s), i, c.pos[i], c.seq[i] \cup {s}, c.shift[i])
  <1>1. /\ c \in Loose(n) /\ c.pos \in [0 .. n - 1 -> Positions \cup {-1}]
        /\ c.shift \in [0 .. n - 1 -> Int]
        /\ c.seq \in [0 .. n - 1 -> SUBSET Seq_id] /\ c.used \in SUBSET (0 .. n - 1)
        /\ c.has_shift \in BOOLEAN
        /\ c.used = {j \in 0 .. n - 1 : c.pos[j] # -1}
        /\ \A j \in 0 .. n - 1 : /\ c.pos[j] = -1 <=> c.seq[j] = {}
                                 /\ c.shift[j] # 0 => c.pos[j] # -1 /\ c.has_shift
    BY SoundIs
  <1>2. c.pos[i] \in Positions
    BY <1>1
  <1>3. PICK d : d = SeqAdd(c, i, s)
    OBVIOUS
  <1>4. PICK m : m = [c.seq_pos EXCEPT ![s][c.pos[i]] = c.seq_pos[s][c.pos[i]] + 1]
    OBVIOUS
  <1>5. d = [c EXCEPT !.seq[i] = c.seq[i] \cup {s}, !.seq_pos[s][c.pos[i]] = @ + 1]
    BY <1>3 DEF SeqAdd
  <1>6. c.seq_pos \in [Seq_id -> [Positions -> Int]]
    BY <1>1 DEF Loose
  <1>7. m \in [Seq_id -> [Positions -> Int]]
    BY <1>2, <1>4, <1>6
  <1>8. [c.seq EXCEPT ![i] = c.seq[i] \cup {s}] \in [0 .. n - 1 -> SUBSET Seq_id]
    BY <1>1
  <1>9. /\ d.pos = c.pos /\ d.shift = c.shift /\ d.used = c.used /\ d.has_shift = c.has_shift
        /\ d.seq = [c.seq EXCEPT ![i] = c.seq[i] \cup {s}] /\ d.seq_pos = m
        /\ d \in Loose(n)
    BY <1>1, <1>4, <1>5, <1>7, <1>8 DEF Loose
  <1>10. /\ d.pos[i] = c.pos[i] /\ d.seq[i] = c.seq[i] \cup {s} /\ d.shift[i] = c.shift[i]
         /\ Apart(n, c, d, i) /\ d.seq[i] # {}
    BY <1>1, <1>9 DEF Apart
  <1>11. ASSUME NEW t \in Seq_id, NEW p \in Positions
         PROVE  d.seq_pos[t][p] = c.seq_pos[t][p] - Tally(c, i, t, p) + Tally(d, i, t, p)
    <2>1. m[t][p] = c.seq_pos[t][p] + IF t = s /\ p = c.pos[i] THEN 1 ELSE 0
      BY <1>2, <1>4, <1>6
    <2>2. c.seq_pos[t][p] \in Int
      BY <1>6
    <2> QED BY <1>9, <1>10, <2>1, <2>2 DEF Tally
  <1>12. d.used = c.used \cup {i}
    BY <1>1, <1>9
  <1>13. Rewritten(n, c, d, i)
    BY <1>1, <1>9, <1>10, <1>11, <1>12 DEF Rewritten
  <1>14. d \in Sound(n)
    BY <1>13, ChangedSound, Zenon
  <1> QED BY <1>3, <1>10, <1>14 DEF Holds

\* The fields of one of the exact cells.
LEMMA Cell ==
  ASSUME NEW n \in Nat, NEW c \in Sound(n), NEW i \in 0 .. n - 1
  PROVE  /\ c \in Loose(n)
         /\ c.pos[i] \in Positions \cup {-1} /\ c.shift[i] \in Int /\ c.seq[i] \in SUBSET Seq_id
         /\ c.pos[i] = -1 <=> c.seq[i] = {}
         /\ c.pos[i] = -1 => c.shift[i] = 0
         /\ IsEmpty(c, i) <=> c.pos[i] = -1
         /\ i \in c.used <=> c.pos[i] # -1
         /\ c.has_shift \in BOOLEAN
         /\ c.shift[i] # 0 => c.has_shift
  <1>1. /\ c.pos \in [0 .. n - 1 -> Positions \cup {-1}] /\ c.shift \in [0 .. n - 1 -> Int]
        /\ c.seq \in [0 .. n - 1 -> SUBSET Seq_id]
        /\ c.has_shift \in BOOLEAN
        /\ c.used = {j \in 0 .. n - 1 : c.pos[j] # -1}
        /\ \A j \in 0 .. n - 1 : /\ c.pos[j] = -1 <=> c.seq[j] = {}
                                 /\ c.shift[j] # 0 => c.pos[j] # -1 /\ c.has_shift
        /\ c \in Loose(n)
    BY SoundIs
  <1> QED BY <1>1 DEF IsEmpty

\* seq_keep(): the cell is emptied, or keeps one sequence, or is as it was.
LEMMA SeqKeepIs ==
  ASSUME NEW n \in Nat, NEW c \in Sound(n), NEW i \in 0 .. n - 1, NEW s \in Seq_id
  PROVE  \/ Holds(n, c, SeqKeep(c, i, s), i, -1, {}, 0)
         \/ /\ Holds(n, c, SeqKeep(c, i, s), i, c.pos[i], {s}, c.shift[i])
            /\ c.pos[i] # -1
         \/ SeqKeep(c, i, s) = c
  <1>1. /\ c \in Loose(n) /\ c.pos[i] \in Positions \cup {-1} /\ c.shift[i] \in Int
        /\ c.seq[i] \in SUBSET Seq_id /\ c.has_shift \in BOOLEAN
        /\ c.pos[i] = -1 <=> c.seq[i] = {}
        /\ c.shift[i] # 0 => c.pos[i] # -1 /\ c.has_shift
        /\ i \in c.used <=> c.pos[i] # -1
    BY Cell
  <1>2. CASE s \in c.seq[i]
    <2>1. c.pos[i] # -1 /\ c.pos[i] \in Positions
      BY <1>1, <1>2
    <2>2. PICK d : d = SeqPos(c, i, -1)
      OBVIOUS
    <2>3. Without(n, c, d, i)
      BY <1>1, <2>1, <2>2, SeqPosWithout
    <2>4. PICK e : e = [d EXCEPT !.seq[i] = {s}]
      OBVIOUS
    <2>5. d \in Loose(n) /\ d.has_shift = c.has_shift /\ d.pos[i] = c.pos[i]
          /\ d.shift[i] = c.shift[i] /\ d.used = c.used
      BY <2>3 DEF Without
    <2>6. Recast(n, d, e, i, c.pos[i], {s}, c.shift[i])
      <3>1. /\ d.pos \in [0 .. n - 1 -> Positions \cup {-1}] /\ d.shift \in [0 .. n - 1 -> Int]
            /\ d.seq \in [0 .. n - 1 -> SUBSET Seq_id] /\ d.used \in SUBSET (0 .. n - 1)
        BY <2>5 DEF Loose
      <3>2. /\ e.pos = d.pos /\ e.shift = d.shift /\ e.used = d.used
            /\ e.has_shift = d.has_shift /\ e.seq_pos = d.seq_pos
            /\ e.seq = [d.seq EXCEPT ![i] = {s}]
        BY <2>4, <2>5 DEF Loose
      <3>3. /\ e.pos = [d.pos EXCEPT ![i] = c.pos[i]]
            /\ e.shift = [d.shift EXCEPT ![i] = c.shift[i]]
            /\ e.used = d.used \cup {i}
            /\ e.seq \in [0 .. n - 1 -> SUBSET Seq_id]
        BY <1>1, <2>1, <2>5, <3>1, <3>2
      <3>4. e \in Loose(n)
        BY <2>4, <2>5, <3>2, <3>3 DEF Loose
      <3> QED BY <2>1, <3>2, <3>3, <3>4 DEF Recast
    <2>7. PICK r : r = [e EXCEPT !.seq_pos[s][c.pos[i]] = @ + 1]
      OBVIOUS
    <2>8. e \in Loose(n) /\ e.seq[i] = {s} /\ e.pos[i] = c.pos[i]
      <3>1. /\ d.pos \in [0 .. n - 1 -> Positions \cup {-1}]
            /\ d.seq \in [0 .. n - 1 -> SUBSET Seq_id]
        BY <2>5 DEF Loose
      <3> QED BY <2>6, <3>1 DEF Recast
    <2>9. With(n, e, r, i)
      <3>1. PICK m : m = [e.seq_pos EXCEPT ![s][c.pos[i]] = e.seq_pos[s][c.pos[i]] + 1]
        OBVIOUS
      <3>2. e.seq_pos \in [Seq_id -> [Positions -> Int]]
        BY <2>8 DEF Loose
      <3>3. m \in [Seq_id -> [Positions -> Int]]
        BY <2>1, <3>1, <3>2
      <3>4. /\ r.pos = e.pos /\ r.shift = e.shift /\ r.used = e.used /\ r.seq = e.seq
            /\ r.has_shift = e.has_shift /\ r.seq_pos = m /\ r \in Loose(n)
        BY <2>7, <2>8, <3>1, <3>3 DEF Loose
      <3>5. ASSUME NEW t \in Seq_id, NEW p \in Positions
            PROVE  r.seq_pos[t][p] = e.seq_pos[t][p] + Tally(e, i, t, p)
        <4>1. m[t][p] = e.seq_pos[t][p] + IF t = s /\ p = c.pos[i] THEN 1 ELSE 0
          BY <2>1, <3>1, <3>2
        <4> QED BY <2>8, <3>4, <4>1 DEF Tally
      <3> QED BY <3>4, <3>5 DEF With
    <2>10. c.shift[i] # 0 => c.pos[i] # -1 /\ e.has_shift
      BY <1>1, <2>4, <2>5 DEF Loose
    <2>11. Holds(n, c, r, i, c.pos[i], {s}, c.shift[i])
      <3>1. c.pos[i] = -1 <=> {s} = {}
        BY <2>1
      <3> QED BY <2>3, <2>6, <2>9, <2>10, <3>1, RecastIs
    <2>12. SeqKeep(c, i, s) = r
      BY <1>2, <2>2, <2>4, <2>5, <2>7 DEF SeqKeep, Loose
    <2> QED BY <2>1, <2>11, <2>12
  <1>3. CASE s \notin c.seq[i] /\ c.seq[i] # {}
    BY <1>1, <1>3, RmIs DEF SeqKeep
  <1>4. CASE s \notin c.seq[i] /\ c.seq[i] = {}
    BY <1>4 DEF SeqKeep
  <1> QED BY <1>2, <1>3, <1>4

\* A cell that moves, with the shift that is accumulated.
Moved(c, i, q, x) ==
  SeqPos([SeqPos(c, i, -1) EXCEPT !.pos[i] = q, !.shift[i] = x, !.has_shift = TRUE], i, 1)

\* A cell that is counted out, moved and counted in again.
LEMMA MovedIs ==
  ASSUME NEW n \in Nat, NEW c \in Sound(n), NEW i \in 0 .. n - 1, c.pos[i] # -1,
         NEW q \in Positions, NEW x \in Int
  PROVE  Holds(n, c, Moved(c, i, q, x), i, q, c.seq[i], x)
  <1>1. /\ c \in Loose(n) /\ c.pos[i] \in Positions
        /\ c.seq[i] \in SUBSET Seq_id /\ c.seq[i] # {} /\ i \in c.used
    BY Cell
  <1>2. q # -1
    BY KVCellsAssumption DEF Positions
  <1>3. PICK d : d = SeqPos(c, i, -1)
    OBVIOUS
  <1>4. Without(n, c, d, i)
    BY <1>1, <1>3, SeqPosWithout
  <1>5. d \in Loose(n) /\ d.seq = c.seq /\ d.used = c.used
    BY <1>4 DEF Without
  <1>6. PICK e : e = [d EXCEPT !.pos[i] = q, !.shift[i] = x, !.has_shift = TRUE]
    OBVIOUS
  <1>7. /\ d.pos \in [0 .. n - 1 -> Positions \cup {-1}] /\ d.shift \in [0 .. n - 1 -> Int]
        /\ d.seq \in [0 .. n - 1 -> SUBSET Seq_id] /\ d.used \in SUBSET (0 .. n - 1)
    BY <1>5 DEF Loose
  <1>8. /\ e.pos = [d.pos EXCEPT ![i] = q] /\ e.shift = [d.shift EXCEPT ![i] = x]
        /\ e.seq = d.seq /\ e.used = d.used /\ e.seq_pos = d.seq_pos /\ e.has_shift = TRUE
    BY <1>5, <1>6 DEF Loose
  <1>9. Recast(n, d, e, i, q, c.seq[i], x)
    <2>1. /\ e.pos \in [0 .. n - 1 -> Positions \cup {-1}] /\ e.shift \in [0 .. n - 1 -> Int]
          /\ e.seq = [d.seq EXCEPT ![i] = c.seq[i]] /\ e.used = d.used \cup {i}
      BY <1>1, <1>5, <1>7, <1>8
    <2>2. e \in Loose(n)
      BY <1>5, <1>6, <1>7, <1>8, <2>1 DEF Loose
    <2> QED BY <1>2, <1>8, <2>1, <2>2 DEF Recast
  <1>10. e \in Loose(n) /\ e.pos[i] \in Positions
    BY <1>7, <1>8, <1>9 DEF Recast
  <1>11. PICK r : r = SeqPos(e, i, 1)
    OBVIOUS
  <1>12. With(n, e, r, i)
    BY <1>10, <1>11, SeqPosWith
  <1>13. (q = -1 <=> c.seq[i] = {}) /\ (x # 0 => q # -1 /\ e.has_shift)
    BY <1>1, <1>2, <1>8
  <1>14. Holds(n, c, r, i, q, c.seq[i], x)
    BY <1>4, <1>9, <1>12, <1>13, RecastIs
  <1>15. Moved(c, i, q, x) = r
    BY <1>3, <1>6, <1>11 DEF Moved
  <1> QED BY <1>14, <1>15

\* A shift may be said to be pending when none is.
LEMMA Flagged ==
  ASSUME NEW n \in Nat, NEW c \in Sound(n)
  PROVE  /\ [c EXCEPT !.has_shift = TRUE] \in Sound(n)
         /\ [c EXCEPT !.has_shift = TRUE].pos = c.pos
         /\ [c EXCEPT !.has_shift = TRUE].seq = c.seq
         /\ [c EXCEPT !.has_shift = TRUE].shift = c.shift
  <1>1. PICK d : d = [c EXCEPT !.has_shift = TRUE]
    OBVIOUS
  <1>2. c \in Cells(n) /\ Exact(c)
    BY DEF Sound
  <1>3. /\ d.pos = c.pos /\ d.seq = c.seq /\ d.shift = c.shift /\ d.used = c.used
        /\ d.seq_pos = c.seq_pos /\ d.has_shift /\ d \in Cells(n)
    BY <1>1, <1>2 DEF Cells
  <1>4. Indices(d) = Indices(c)
    BY <1>3 DEF Indices
  <1>5. Exact(d)
    BY <1>2, <1>3, <1>4 DEF Exact
  <1> QED BY <1>1, <1>3, <1>5 DEF Sound

\* pos_add(): the cell is emptied, or its position and its shift move together.
LEMMA PosAddIs ==
  ASSUME NEW n \in Nat, NEW c \in Sound(n), NEW i \in 0 .. n - 1, NEW d \in Int,
         c.pos[i] # -1, c.pos[i] + d <= LastPos
  PROVE  \/ Holds(n, c, PosAdd(c, i, d), i, -1, {}, 0)
         \/ Holds(n, c, PosAdd(c, i, d), i, c.pos[i] + d, c.seq[i], c.shift[i] + d)
  <1>1. /\ c \in Loose(n) /\ c.pos[i] \in Positions /\ c.shift[i] \in Int
    BY Cell
  <1>2. CASE c.pos[i] + d < 0
    <2>1. PICK e : e = Rm(c, i)
      OBVIOUS
    <2>2. Holds(n, c, e, i, -1, {}, 0)
      BY <2>1, RmIs
    <2>3. PICK r : r = [e EXCEPT !.has_shift = TRUE]
      OBVIOUS
    <2>4. r \in Sound(n) /\ r.pos = e.pos /\ r.seq = e.seq /\ r.shift = e.shift
      BY <2>2, <2>3, Flagged DEF Holds
    <2>5. Holds(n, c, r, i, -1, {}, 0)
      BY <2>2, <2>4 DEF Holds, Apart
    <2>6. PosAdd(c, i, d) = r
      BY <1>2, <2>1, <2>3 DEF PosAdd
    <2> QED BY <2>5, <2>6
  <1>3. CASE ~(c.pos[i] + d < 0)
    <2>1. c.pos[i] + d \in Positions /\ c.shift[i] + d \in Int
      BY <1>1, <1>3, KVCellsAssumption DEF Positions
    <2>2. PICK e : e = SeqPos(c, i, -1)
      OBVIOUS
    <2>3. e \in Loose(n) /\ e.pos[i] = c.pos[i] /\ e.shift[i] = c.shift[i]
      BY <1>1, <2>2, SeqPosWithout DEF Without
    <2>4. [e EXCEPT !.pos[i] = @ + d, !.shift[i] = @ + d, !.has_shift = TRUE]
            = [e EXCEPT !.pos[i] = c.pos[i] + d, !.shift[i] = c.shift[i] + d, !.has_shift = TRUE]
      BY <2>3 DEF Loose
    <2>5. PosAdd(c, i, d) = Moved(c, i, c.pos[i] + d, c.shift[i] + d)
      BY <1>3, <2>2, <2>4 DEF PosAdd, Moved
    <2> QED BY <2>1, <2>5, MovedIs
  <1> QED BY <1>2, <1>3

\* pos_div() keeps the cells exact; its key is not carried along.
LEMMA PosDivIs ==
  ASSUME NEW n \in Nat, NEW c \in Sound(n), NEW i \in 0 .. n - 1, c.pos[i] # -1
  PROVE  PosDiv(c, i, 2) \in Sound(n) /\ Apart(n, c, PosDiv(c, i, 2), i)
  <1>1. /\ c \in Loose(n) /\ c.pos[i] \in Positions /\ c.shift[i] \in Int
    BY Cell
  <1>2. PICK p : p = c.pos[i] \div 2
    OBVIOUS
  <1>3. p \in Positions /\ c.shift[i] + (c.pos[i] - p) \in Int
    BY <1>1, <1>2, KVCellsAssumption DEF Positions
  <1>4. PICK e : e = SeqPos(c, i, -1)
    OBVIOUS
  <1>5. e \in Loose(n) /\ e.shift[i] = c.shift[i]
    BY <1>1, <1>4, SeqPosWithout DEF Without
  <1>6. [e EXCEPT !.pos[i] = p, !.shift[i] = @ + (c.pos[i] - p), !.has_shift = TRUE]
          = [e EXCEPT !.pos[i] = p, !.shift[i] = c.shift[i] + (c.pos[i] - p), !.has_shift = TRUE]
    BY <1>5 DEF Loose
  <1>7. PosDiv(c, i, 2) = Moved(c, i, p, c.shift[i] + (c.pos[i] - p))
    BY <1>2, <1>4, <1>6 DEF PosDiv, Moved
  <1> QED BY <1>3, <1>7, MovedIs DEF Holds

\* set() with what cp() returned, to a cell that is not shifted.
LEMMA SetCellIs ==
  ASSUME NEW n \in Nat, NEW c \in Sound(n), NEW i \in 0 .. n - 1, c.shift[i] = 0,
         NEW old, old.pos \in Positions \cup {-1}, old.seq \in SUBSET Seq_id,
         old.pos = -1 <=> old.seq = {}
  PROVE  /\ Holds(n, c, SetCell(c, i, old), i, old.pos, old.seq, 0)
         /\ SetCell(c, i, old).has_shift = c.has_shift
  <1>1. /\ c \in Loose(n) /\ c.pos[i] \in Positions \cup {-1}
        /\ IsEmpty(c, i) <=> c.pos[i] = -1
    BY Cell
  <1>2. PICK d : d = IF IsEmpty(c, i) THEN c ELSE SeqPos(c, i, -1)
    OBVIOUS
  <1>3. Without(n, c, d, i)
    <2>1. CASE IsEmpty(c, i)
      BY <1>1, <1>2, <2>1, EmptyTally
    <2>2. CASE ~IsEmpty(c, i)
      BY <1>1, <1>2, <2>2, SeqPosWithout
    <2> QED BY <2>1, <2>2
  <1>4. d \in Loose(n) /\ d.has_shift = c.has_shift /\ d.shift[i] = 0
    BY <1>3 DEF Without
  <1>5. PICK u : u = IF old.pos = -1 THEN d.used \ {i} ELSE d.used \cup {i}
    OBVIOUS
  <1>6. PICK e : e = [d EXCEPT !.pos[i] = old.pos, !.seq[i] = old.seq, !.used = u]
    OBVIOUS
  <1>7. /\ d.pos \in [0 .. n - 1 -> Positions \cup {-1}] /\ d.shift \in [0 .. n - 1 -> Int]
        /\ d.seq \in [0 .. n - 1 -> SUBSET Seq_id] /\ d.used \in SUBSET (0 .. n - 1)
    BY <1>4 DEF Loose
  <1>8. /\ e.pos = [d.pos EXCEPT ![i] = old.pos] /\ e.shift = d.shift
        /\ e.seq = [d.seq EXCEPT ![i] = old.seq] /\ e.used = u
        /\ e.seq_pos = d.seq_pos /\ e.has_shift = d.has_shift
    BY <1>4, <1>6 DEF Loose
  <1>9. Recast(n, d, e, i, old.pos, old.seq, 0)
    <2>1. /\ e.pos \in [0 .. n - 1 -> Positions \cup {-1}]
          /\ e.shift = [d.shift EXCEPT ![i] = 0]
          /\ e.seq \in [0 .. n - 1 -> SUBSET Seq_id] /\ u \in SUBSET (0 .. n - 1)
      BY <1>4, <1>5, <1>7, <1>8
    <2>2. e \in Loose(n)
      BY <1>4, <1>6, <1>7, <1>8, <2>1 DEF Loose
    <2> QED BY <1>5, <1>8, <2>1, <2>2 DEF Recast
  <1>10. e \in Loose(n) /\ e.pos[i] = old.pos
    BY <1>7, <1>8, <1>9 DEF Recast
  <1>11. PICK r : r = IF old.pos = -1 THEN e ELSE SeqPos(e, i, 1)
    OBVIOUS
  <1>12. With(n, e, r, i)
    <2>1. CASE old.pos = -1
      BY <1>10, <1>11, <2>1, EmptyTally
    <2>2. CASE old.pos # -1
      BY <1>10, <1>11, <2>2, SeqPosWith
    <2> QED BY <2>1, <2>2
  <1>13. Holds(n, c, r, i, old.pos, old.seq, 0)
    BY <1>3, <1>9, <1>12, RecastIs
  <1>14. r.has_shift = c.has_shift
    BY <1>4, <1>8, <1>12 DEF With
  <1>15. SetCell(c, i, old) = r
    <2>1. [d EXCEPT !.pos[i] = old.pos, !.seq[i] = old.seq,
                    !.used = IF old.pos = -1 THEN @ \ {i} ELSE @ \cup {i}] = e
      BY <1>4, <1>5, <1>6 DEF Loose
    <2> QED BY <1>2, <1>11, <2>1 DEF SetCell
  <1> QED BY <1>13, <1>14, <1>15

\* The cells after reset() and resize().
LEMMA FreshIs ==
  ASSUME NEW n \in Nat
  PROVE  /\ Fresh(n) \in Sound(n) /\ ~Fresh(n).has_shift
         /\ \A i \in 0 .. n - 1 : Fresh(n).pos[i] = -1 /\ Fresh(n).shift[i] = 0
  <1>1. PICK c : c = Fresh(n)
    OBVIOUS
  <1>2. /\ c.pos = [i \in 0 .. n-1 |-> -1] /\ c.shift = [i \in 0 .. n-1 |-> 0]
        /\ c.seq = [i \in 0 .. n-1 |-> {}] /\ c.used = {} /\ c.has_shift = FALSE
        /\ c.seq_pos = [s \in Seq_id |-> [p \in Positions |-> 0]]
        /\ Indices(c) = 0 .. n - 1
    BY <1>1 DEF Fresh, Indices
  <1>3. c \in Cells(n)
    BY <1>1 DEF Fresh, Cells
  <1>4. ASSUME NEW s \in Seq_id, NEW p \in Positions
        PROVE  c.seq_pos[s][p] = Cardinality({i \in Indices(c) : c.pos[i] = p /\ s \in c.seq[i]})
    <2>1. {i \in Indices(c) : c.pos[i] = p /\ s \in c.seq[i]} = {}
      BY <1>2
    <2>2. c.seq_pos[s][p] = 0
      BY <1>2
    <2>3. Cardinality({}) = 0
      BY FS_EmptySet
    <2> QED BY <2>1, <2>2, <2>3, Zenon
  <1>5. Exact(c)
    BY <1>2, <1>4 DEF Exact
  <1> QED BY <1>1, <1>2, <1>3, <1>5 DEF Sound

\* The pending shifts are over.
LEMMA ResetShiftIs ==
  ASSUME NEW n \in Nat, NEW c \in Sound(n)
  PROVE  /\ ResetShift(c) \in Sound(n) /\ ~ResetShift(c).has_shift
         /\ ResetShift(c).pos = c.pos /\ ResetShift(c).seq = c.seq
         /\ \A i \in 0 .. n - 1 : ResetShift(c).shift[i] = 0
  <1>1. PICK d : d = ResetShift(c)
    OBVIOUS
  <1>2. c \in Cells(n) /\ Exact(c) /\ Indices(c) = 0 .. n - 1
    BY SoundIs DEF Sound
  <1>6. PICK z : z = [i \in Indices(c) |-> 0]
    OBVIOUS
  <1>7. z \in [0 .. n - 1 -> Int] /\ \A i \in 0 .. n - 1 : z[i] = 0
    BY <1>2, <1>6
  <1>8. d = [c EXCEPT !.shift = z, !.has_shift = FALSE]
    BY <1>1, <1>6 DEF ResetShift
  <1>3. /\ d.pos = c.pos /\ d.seq = c.seq /\ d.used = c.used /\ d.shift = z
        /\ d.seq_pos = c.seq_pos /\ ~d.has_shift /\ d \in Cells(n)
    BY <1>2, <1>7, <1>8 DEF Cells
  <1>4. Indices(d) = Indices(c)
    BY <1>3 DEF Indices
  <1>5. Exact(d)
    BY <1>2, <1>3, <1>4, <1>7 DEF Exact
  <1> QED BY <1>1, <1>3, <1>5, <1>7 DEF Sound

SameAt(c, d, i) == d.pos[i] = c.pos[i] /\ d.seq[i] = c.seq[i] /\ d.shift[i] = c.shift[i]

\* A token that is still in cell i is one that was there, and what its position
\* and the pending shift say of its key is the same.
CarriedAt(c, d, i) ==
  d.pos[i] # -1 => c.pos[i] # -1 /\ d.pos[i] - d.shift[i] = c.pos[i] - c.shift[i]

Carried(n, c, d) == \A i \in 0 .. n - 1 : CarriedAt(c, d, i)

\* What a call does to cell i; "key" and "still" are in m when it carries the
\* key along and when it leaves has_shift alone.
CellStep(n, c, d, i, m) ==
  /\ d \in Sound(n) /\ Apart(n, c, d, i)
  /\ "key" \in m => CarriedAt(c, d, i)
  /\ "still" \in m => d.has_shift = c.has_shift

\* What a loop over the cells has made of c when it comes to cell k.
Sweep(n, c, k, m) ==
  {d \in Sound(n) : /\ \A j \in 0 .. n - 1 : j >= k => SameAt(c, d, j)
                    /\ "key" \in m => Carried(n, c, d)
                    /\ "still" \in m => d.has_shift = c.has_shift}

Sweeps(f, n, c, I, op, m) ==
  /\ f[0] = c
  /\ f = [k \in 0 .. n |-> IF k = 0 THEN c
                           ELSE IF k - 1 \in I THEN op[k - 1][f[k - 1]] ELSE f[k - 1]]
  /\ \A k \in 0 .. n : f[k] \in Sweep(n, c, k, m)
  /\ \A k \in 1 .. n : f[k - 1] \in Sound(n)

\* One round of a loop over the cells.
LEMMA SweepStep ==
  ASSUME NEW n \in Nat, NEW c \in Sound(n), NEW m, NEW k \in 1 .. n,
         NEW d \in Sweep(n, c, k - 1, m), NEW e, CellStep(n, d, e, k - 1, m) \/ e = d
  PROVE  e \in Sweep(n, c, k, m)
  <1>1. PICK i \in 0 .. n - 1 : i = k - 1
    OBVIOUS
  <1>2. \A j \in 0 .. n - 1 : (j >= k => j >= i) /\ (j >= k => j # i)
    BY <1>1
  <1>3. SameAt(c, d, i) /\ d \in Sound(n)
    BY <1>1 DEF Sweep
  <1>4. CASE e = d
    BY <1>1, <1>2, <1>4 DEF Sweep
  <1>5. CASE CellStep(n, d, e, k - 1, m)
    <2>1. CellStep(n, d, e, i, m)
      BY <1>1, <1>5
    <2>2. e \in Sound(n) /\ \A j \in 0 .. n - 1 : j # i => SameAt(d, e, j)
      BY <2>1 DEF CellStep, Apart, SameAt
    <2>3. ASSUME NEW j \in 0 .. n - 1, j >= k PROVE SameAt(c, e, j)
      <3>1. SameAt(c, d, j) /\ SameAt(d, e, j)
        BY <1>1, <1>2, <2>2, <2>3 DEF Sweep
      <3> QED BY <3>1 DEF SameAt
    <2>4. ASSUME "key" \in m PROVE Carried(n, c, e)
      <3>1. ASSUME NEW j \in 0 .. n - 1 PROVE CarriedAt(c, e, j)
        <4>1. CarriedAt(c, d, j)
          BY <2>4 DEF Sweep, Carried
        <4>2. CASE j = i
          <5>1. CarriedAt(d, e, i)
            BY <2>1, <2>4 DEF CellStep
          <5> QED BY <1>3, <4>2, <5>1 DEF CarriedAt, SameAt
        <4>3. CASE j # i
          <5>1. SameAt(d, e, j)
            BY <2>2, <4>3
          <5> QED BY <4>1, <5>1 DEF CarriedAt, SameAt
        <4> QED BY <4>2, <4>3
      <3> QED BY <3>1 DEF Carried
    <2>5. "still" \in m => e.has_shift = c.has_shift
      BY <2>1 DEF CellStep, Sweep
    <2> QED BY <2>2, <2>3, <2>4, <2>5 DEF Sweep
  <1> QED BY <1>4, <1>5

\* A loop over the cells of I.
LEMMA EachCell ==
  ASSUME NEW n \in Nat, NEW c \in Sound(n), NEW I, NEW op, NEW m,
         \A i \in 0 .. n - 1 : i \in I =>
            \A d \in Sound(n) : SameAt(c, d, i) => CellStep(n, d, op[i][d], i, m)
  PROVE  \E f : Sweeps(f, n, c, I, op, m)
  <1>1. PICK W : W = [k \in 0 .. n |-> Sweep(n, c, k, m)]
    OBVIOUS
  <1>2. PICK step : step = [k \in 1 .. n |-> [d \in Sound(n) |->
                               IF k - 1 \in I THEN op[k - 1][d] ELSE d]]
    OBVIOUS
  <1>3. c \in W[0]
    <2>1. c \in Sweep(n, c, 0, m)
      <3>1. \A i \in 0 .. n - 1 : c.pos[i] - c.shift[i] = c.pos[i] - c.shift[i]
        OBVIOUS
      <3> QED BY <3>1 DEF Sweep, SameAt, Carried, CarriedAt
    <2>2. 0 \in 0 .. n
      OBVIOUS
    <2> QED BY <1>1, <2>1, <2>2
  <1>4. ASSUME NEW k \in 1 .. n, NEW d \in W[k - 1] PROVE step[k][d] \in W[k]
    <2>1. k - 1 \in 0 .. n /\ k \in 0 .. n /\ k - 1 \in 0 .. n - 1
      OBVIOUS
    <2>2. d \in Sweep(n, c, k - 1, m) /\ d \in Sound(n)
      BY <1>1, <2>1 DEF Sweep
    <2>3. step[k][d] = IF k - 1 \in I THEN op[k - 1][d] ELSE d
      BY <1>2, <2>2
    <2>4. SameAt(c, d, k - 1)
      BY <2>1, <2>2 DEF Sweep
    <2>5. CellStep(n, d, step[k][d], k - 1, m) \/ step[k][d] = d
      BY <2>1, <2>2, <2>3, <2>4
    <2>6. step[k][d] \in Sweep(n, c, k, m)
      BY <2>2, <2>5, SweepStep
    <2> QED BY <1>1, <2>1, <2>6
  <1>5. PICK f : Turns(f, n, W, c, step)
    BY <1>3, <1>4, LoopExists
  <1>6. \A k \in 0 .. n : f[k] \in Sweep(n, c, k, m) /\ f[k] \in Sound(n)
    BY <1>1, <1>5 DEF Turns, Sweep
  <1>7. ASSUME NEW k \in 0 .. n
        PROVE  (IF k = 0 THEN c ELSE step[k][f[k - 1]])
                 = IF k = 0 THEN c ELSE IF k - 1 \in I THEN op[k - 1][f[k - 1]] ELSE f[k - 1]
    <2>1. CASE k = 0
      BY <2>1
    <2>2. CASE k # 0
      <3>1. k \in 1 .. n /\ k - 1 \in 0 .. n
        BY <2>2
      <3>2. f[k - 1] \in Sound(n)
        BY <1>6, <3>1
      <3> QED BY <1>2, <2>2, <3>1, <3>2
    <2> QED BY <2>1, <2>2
  <1>8. f = [k \in 0 .. n |-> IF k = 0 THEN c
                              ELSE IF k - 1 \in I THEN op[k - 1][f[k - 1]] ELSE f[k - 1]]
    BY <1>5, <1>7, Zenon DEF Turns
  <1>9. f[0] = c
    BY <1>8
  <1>10. \A k \in 1 .. n : k - 1 \in 0 .. n
    OBVIOUS
  <1> QED BY <1>6, <1>8, <1>9, <1>10 DEF Sweeps

\* What the loop has made of c in the end.
Swept(n, c, d, m) ==
  /\ d \in Sound(n)
  /\ "key" \in m => Carried(n, c, d)
  /\ "still" \in m => d.has_shift = c.has_shift

\* The end of a loop over the cells.
LEMMA SweepsEnd ==
  ASSUME NEW n \in Nat, NEW c, NEW m, NEW f, NEW I, NEW op, Sweeps(f, n, c, I, op, m)
  PROVE  Swept(n, c, f[n], m)
  <1>1. n \in 0 .. n
    OBVIOUS
  <1> QED BY <1>1 DEF Sweeps, Sweep, Swept

\* The cells of the record are those of the cache.
LEMMA CellCount ==
  ASSUME NEW n \in Nat, NEW c \in Sound(n)
  PROVE  Cardinality(Indices(c)) = n /\ Indices(c) = 0 .. n - 1
  <1>1. Indices(c) = 0 .. n - 1
    BY SoundIs
  <1>2. 0 \in Int /\ n - 1 \in Int
    OBVIOUS
  <1>3. Cardinality(0 .. n - 1) = IF 0 > n - 1 THEN 0 ELSE n - 1 - 0 + 1
    BY <1>2, FS_Interval
  <1> QED BY <1>1, <1>3

\* The loop of seq_rm() over the cells of a sequence.
LEMMA RmInIs ==
  ASSUME NEW n \in Nat, NEW c \in Sound(n), NEW s \in Seq_id, NEW p0, NEW p1
  PROVE  Swept(n, c, RmIn(c, s, p0, p1), {"key", "still"})
  <1> DEFINE N == Cardinality(Indices(c))
             I == Holding(c, s, p0, p1)
  <1> HIDE DEF N, I
  <1>1. N = n
    BY CellCount DEF N
  <1>2. PICK op : op = [i \in 0 .. N - 1 |-> [d \in Sound(N) |-> SeqRm(d, i, s)]]
    OBVIOUS
  <1>3. PICK m : m = {"key", "still"}
    OBVIOUS
  <1>4. ASSUME NEW i \in 0 .. N - 1, i \in I, NEW d \in Sound(N), SameAt(c, d, i)
        PROVE  CellStep(N, d, op[i][d], i, m)
    <2>1. s \in d.seq[i] /\ op[i][d] = SeqRm(d, i, s)
      BY <1>2, <1>4 DEF I, Holding, SameAt
    <2>2. PICK e : e = SeqRm(d, i, s)
      OBVIOUS
    <2>3. /\ Holds(N, d, e, i, -1, {}, 0) \/ Holds(N, d, e, i, d.pos[i], d.seq[i] \ {s}, d.shift[i])
          /\ e.has_shift = d.has_shift
      BY <1>1, <2>1, <2>2, SeqRmIs
    <2> QED BY <1>3, <2>1, <2>2, <2>3 DEF CellStep, Holds, CarriedAt
  <1>5. PICK f : Sweeps(f, N, c, I, op, m)
    BY <1>1, <1>4, EachCell
  <1>6. f = [k \in 0 .. N |-> IF k = 0 THEN c
                              ELSE IF k - 1 \in I THEN SeqRm(f[k - 1], k - 1, s) ELSE f[k - 1]]
    <2>1. \A k \in 0 .. N : k # 0 => k - 1 \in 0 .. N - 1 /\ f[k - 1] \in Sound(N)
      <3>1. ASSUME NEW k \in 0 .. N, k # 0 PROVE k \in 1 .. N /\ k - 1 \in 0 .. N - 1
        BY <1>1, <3>1
      <3> QED BY <1>5, <3>1 DEF Sweeps
    <2>2. \A k \in 0 .. N : k # 0 => op[k - 1][f[k - 1]] = SeqRm(f[k - 1], k - 1, s)
      BY <1>2, <2>1, Zenon
    <2> QED BY <1>5, <2>2, Zenon DEF Sweeps
  <1>7. ASSUME NEW g, g = [k \in 0 .. N |-> IF k = 0 THEN c
                             ELSE IF k - 1 \in I THEN SeqRm(g[k - 1], k - 1, s) ELSE g[k - 1]]
        PROVE  g[N] = f[N]
    <2>1. g[0] = f[0]
      BY <1>1, <1>6, <1>7
    <2>2. ASSUME NEW k \in 1 .. N, g[k - 1] = f[k - 1] PROVE g[k] = f[k]
      <3>1. k \in 0 .. N /\ k # 0
        BY <1>1
      <3> QED BY <1>6, <1>7, <2>2, <3>1, Zenon
    <2> QED BY <1>1, <2>1, <2>2, SameLoop
  <1>8. RmIn(c, s, p0, p1) = f[N]
    BY <1>6, <1>7, Zenon DEF RmIn, ForEach, For, N, I
  <1> QED BY <1>1, <1>3, <1>5, <1>8, SweepsEnd

\* The loop of seq_rm() over the cells of any sequence.
LEMMA RmAnyInIs ==
  ASSUME NEW n \in Nat, NEW c \in Sound(n), NEW p0, NEW p1
  PROVE  Swept(n, c, RmAnyIn(c, p0, p1), {"key", "still"})
  <1> DEFINE N == Cardinality(Indices(c))
             I == {i \in Indices(c) : PosIn(c, i, p0, p1)}
  <1> HIDE DEF N, I
  <1>1. N = n /\ Indices(c) = 0 .. n - 1
    BY CellCount DEF N
  <1>2. PICK op : op = [i \in 0 .. N - 1 |-> [d \in Sound(N) |-> Rm(d, i)]]
    OBVIOUS
  <1>3. PICK m : m = {"key", "still"}
    OBVIOUS
  <1>4. ASSUME NEW i \in 0 .. N - 1, i \in I, NEW d \in Sound(N), SameAt(c, d, i)
        PROVE  CellStep(N, d, op[i][d], i, m)
    <2>1. d.pos[i] # -1 /\ op[i][d] = Rm(d, i)
      BY <1>2, <1>4 DEF I, PosIn, SameAt
    <2>2. PICK e : e = Rm(d, i)
      OBVIOUS
    <2>3. Holds(N, d, e, i, -1, {}, 0) /\ e.has_shift = d.has_shift
      BY <1>1, <2>1, <2>2, RmIs
    <2> QED BY <1>3, <2>1, <2>2, <2>3 DEF CellStep, Holds, CarriedAt
  <1>5. PICK f : Sweeps(f, N, c, I, op, m)
    BY <1>1, <1>4, EachCell
  <1>6. f = [k \in 0 .. N |-> IF k = 0 THEN c
                              ELSE IF k - 1 \in I THEN Rm(f[k - 1], k - 1) ELSE f[k - 1]]
    <2>1. \A k \in 0 .. N : k # 0 => k - 1 \in 0 .. N - 1 /\ f[k - 1] \in Sound(N)
      <3>1. ASSUME NEW k \in 0 .. N, k # 0 PROVE k \in 1 .. N /\ k - 1 \in 0 .. N - 1
        BY <1>1, <3>1
      <3> QED BY <1>5, <3>1 DEF Sweeps
    <2>2. \A k \in 0 .. N : k # 0 => op[k - 1][f[k - 1]] = Rm(f[k - 1], k - 1)
      BY <1>2, <2>1, Zenon
    <2> QED BY <1>5, <2>2, Zenon DEF Sweeps
  <1>7. ASSUME NEW g, g = [k \in 0 .. N |-> IF k = 0 THEN c
                             ELSE IF k - 1 \in I THEN Rm(g[k - 1], k - 1) ELSE g[k - 1]]
        PROVE  g[N] = f[N]
    <2>1. g[0] = f[0]
      BY <1>1, <1>6, <1>7
    <2>2. ASSUME NEW k \in 1 .. N, g[k - 1] = f[k - 1] PROVE g[k] = f[k]
      <3>1. k \in 0 .. N /\ k # 0
        BY <1>1
      <3> QED BY <1>6, <1>7, <2>2, <3>1, Zenon
    <2> QED BY <1>1, <2>1, <2>2, SameLoop
  <1>8. RmAnyIn(c, p0, p1) = f[N]
    BY <1>6, <1>7, Zenon DEF RmAnyIn, ForEach, For, N, I
  <1> QED BY <1>1, <1>3, <1>5, <1>8, SweepsEnd

\* The loop of seq_cp() within a stream.
LEMMA AddToIs ==
  ASSUME NEW n \in Nat, NEW c \in Sound(n), NEW J, NEW s \in Seq_id,
         \A i \in J : i \in 0 .. n - 1 => c.pos[i] # -1 /\ s \notin c.seq[i]
  PROVE  Swept(n, c, AddTo(c, J, s), {"key"})
  <1> DEFINE N == Cardinality(Indices(c))
             I == J
  <1> HIDE DEF N, I
  <1>1. N = n /\ Indices(c) = 0 .. n - 1
    BY CellCount DEF N
  <1>2. PICK op : op = [i \in 0 .. N - 1 |-> [d \in Sound(N) |-> SeqAdd(d, i, s)]]
    OBVIOUS
  <1>3. PICK m : m = {"key"}
    OBVIOUS
  <1>4. ASSUME NEW i \in 0 .. N - 1, i \in I, NEW d \in Sound(N), SameAt(c, d, i)
        PROVE  CellStep(N, d, op[i][d], i, m)
    <2>1. d.pos[i] # -1 /\ s \notin d.seq[i] /\ op[i][d] = SeqAdd(d, i, s)
      BY <1>1, <1>2, <1>4 DEF I, SameAt
    <2>2. PICK e : e = SeqAdd(d, i, s)
      OBVIOUS
    <2>3. Holds(N, d, e, i, d.pos[i], d.seq[i] \cup {s}, d.shift[i])
      BY <1>1, <2>1, <2>2, SeqAddIs
    <2> QED BY <1>3, <2>1, <2>2, <2>3 DEF CellStep, Holds, CarriedAt
  <1>5. PICK f : Sweeps(f, N, c, I, op, m)
    BY <1>1, <1>4, EachCell
  <1>6. f = [k \in 0 .. N |-> IF k = 0 THEN c
                              ELSE IF k - 1 \in I THEN SeqAdd(f[k - 1], k - 1, s) ELSE f[k - 1]]
    <2>1. \A k \in 0 .. N : k # 0 => k - 1 \in 0 .. N - 1 /\ f[k - 1] \in Sound(N)
      <3>1. ASSUME NEW k \in 0 .. N, k # 0 PROVE k \in 1 .. N /\ k - 1 \in 0 .. N - 1
        BY <1>1, <3>1
      <3> QED BY <1>5, <3>1 DEF Sweeps
    <2>2. \A k \in 0 .. N : k # 0 => op[k - 1][f[k - 1]] = SeqAdd(f[k - 1], k - 1, s)
      BY <1>2, <2>1, Zenon
    <2> QED BY <1>5, <2>2, Zenon DEF Sweeps
  <1>7. ASSUME NEW g, g = [k \in 0 .. N |-> IF k = 0 THEN c
                             ELSE IF k - 1 \in I THEN SeqAdd(g[k - 1], k - 1, s) ELSE g[k - 1]]
        PROVE  g[N] = f[N]
    <2>1. g[0] = f[0]
      BY <1>1, <1>6, <1>7
    <2>2. ASSUME NEW k \in 1 .. N, g[k - 1] = f[k - 1] PROVE g[k] = f[k]
      <3>1. k \in 0 .. N /\ k # 0
        BY <1>1
      <3> QED BY <1>6, <1>7, <2>2, <3>1, Zenon
    <2> QED BY <1>1, <2>1, <2>2, SameLoop
  <1>8. AddTo(c, J, s) = f[N]
    BY <1>6, <1>7, Zenon DEF AddTo, ForEach, For, N, I
  <1> QED BY <1>1, <1>3, <1>5, <1>8, SweepsEnd

\* The loop of seq_keep().
LEMMA KeepInIs ==
  ASSUME NEW n \in Nat, NEW c \in Sound(n), NEW s \in Seq_id
  PROVE  Swept(n, c, KeepIn(c, s), {"key"})
  <1> DEFINE N == Cardinality(Indices(c))
             I == Indices(c)
  <1> HIDE DEF N, I
  <1>1. N = n /\ Indices(c) = 0 .. n - 1
    BY CellCount DEF N
  <1>2. PICK op : op = [i \in 0 .. N - 1 |-> [d \in Sound(N) |-> SeqKeep(d, i, s)]]
    OBVIOUS
  <1>3. PICK m : m = {"key"}
    OBVIOUS
  <1>4. ASSUME NEW i \in 0 .. N - 1, i \in I, NEW d \in Sound(N), SameAt(c, d, i)
        PROVE  CellStep(N, d, op[i][d], i, m)
    <2>1. op[i][d] = SeqKeep(d, i, s)
      BY <1>2, <1>4
    <2>2. PICK e : e = SeqKeep(d, i, s)
      OBVIOUS
    <2>3. \/ Holds(N, d, e, i, -1, {}, 0)
          \/ Holds(N, d, e, i, d.pos[i], {s}, d.shift[i])
          \/ e = d
      BY <1>1, <2>2, SeqKeepIs
    <2> QED BY <1>3, <2>1, <2>2, <2>3 DEF CellStep, Holds, CarriedAt, Apart
  <1>5. PICK f : Sweeps(f, N, c, I, op, m)
    BY <1>1, <1>4, EachCell
  <1>6. f = [k \in 0 .. N |-> IF k = 0 THEN c
                              ELSE IF k - 1 \in I THEN SeqKeep(f[k - 1], k - 1, s) ELSE f[k - 1]]
    <2>1. \A k \in 0 .. N : k # 0 => k - 1 \in 0 .. N - 1 /\ f[k - 1] \in Sound(N)
      <3>1. ASSUME NEW k \in 0 .. N, k # 0 PROVE k \in 1 .. N /\ k - 1 \in 0 .. N - 1
        BY <1>1, <3>1
      <3> QED BY <1>5, <3>1 DEF Sweeps
    <2>2. \A k \in 0 .. N : k # 0 => op[k - 1][f[k - 1]] = SeqKeep(f[k - 1], k - 1, s)
      BY <1>2, <2>1, Zenon
    <2> QED BY <1>5, <2>2, Zenon DEF Sweeps
  <1>7. ASSUME NEW g, g = [k \in 0 .. N |-> IF k = 0 THEN c
                             ELSE IF k - 1 \in I THEN SeqKeep(g[k - 1], k - 1, s) ELSE g[k - 1]]
        PROVE  g[N] = f[N]
    <2>1. g[0] = f[0]
      BY <1>1, <1>6, <1>7
    <2>2. ASSUME NEW k \in 1 .. N, g[k - 1] = f[k - 1] PROVE g[k] = f[k]
      <3>1. k \in 0 .. N /\ k # 0
        BY <1>1
      <3> QED BY <1>6, <1>7, <2>2, <3>1, Zenon
    <2> QED BY <1>1, <2>1, <2>2, SameLoop
  <1>8. KeepIn(c, s) = f[N]
    BY <1>6, <1>7, Zenon DEF KeepIn, ForEach, For, N, I
  <1> QED BY <1>1, <1>3, <1>5, <1>8, SweepsEnd

\* The loop of seq_add().
LEMMA AddInIs ==
  ASSUME NEW n \in Nat, NEW c \in Sound(n), NEW s, NEW p0, NEW p1, NEW x \in Int,
         \A i \in Holding(c, s, p0, p1) : c.pos[i] + x <= LastPos
  PROVE  Swept(n, c, AddIn(c, s, p0, p1, x), {"key"})
  <1> DEFINE N == Cardinality(Indices(c))
             I == Holding(c, s, p0, p1)
  <1> HIDE DEF N, I
  <1>1. N = n /\ Indices(c) = 0 .. n - 1
    BY CellCount DEF N
  <1>2. PICK op : op = [i \in 0 .. N - 1 |-> [d \in Sound(N) |-> PosAdd(d, i, x)]]
    OBVIOUS
  <1>3. PICK m : m = {"key"}
    OBVIOUS
  <1>4. ASSUME NEW i \in 0 .. N - 1, i \in I, NEW d \in Sound(N), SameAt(c, d, i)
        PROVE  CellStep(N, d, op[i][d], i, m)
    <2>1. d.pos[i] # -1 /\ d.pos[i] + x <= LastPos /\ op[i][d] = PosAdd(d, i, x)
      BY <1>2, <1>4 DEF I, Holding, PosIn, SameAt
    <2>2. PICK e : e = PosAdd(d, i, x)
      OBVIOUS
    <2>3. \/ Holds(N, d, e, i, -1, {}, 0)
          \/ Holds(N, d, e, i, d.pos[i] + x, d.seq[i], d.shift[i] + x)
      BY <1>1, <2>1, <2>2, PosAddIs
    <2>4. d.pos[i] \in Int /\ d.shift[i] \in Int
      BY <1>1, Cell DEF Positions
    <2> QED BY <1>3, <2>1, <2>2, <2>3, <2>4 DEF CellStep, Holds, CarriedAt
  <1>5. PICK f : Sweeps(f, N, c, I, op, m)
    BY <1>1, <1>4, EachCell
  <1>6. f = [k \in 0 .. N |-> IF k = 0 THEN c
                              ELSE IF k - 1 \in I THEN PosAdd(f[k - 1], k - 1, x) ELSE f[k - 1]]
    <2>1. \A k \in 0 .. N : k # 0 => k - 1 \in 0 .. N - 1 /\ f[k - 1] \in Sound(N)
      <3>1. ASSUME NEW k \in 0 .. N, k # 0 PROVE k \in 1 .. N /\ k - 1 \in 0 .. N - 1
        BY <1>1, <3>1
      <3> QED BY <1>5, <3>1 DEF Sweeps
    <2>2. \A k \in 0 .. N : k # 0 => op[k - 1][f[k - 1]] = PosAdd(f[k - 1], k - 1, x)
      BY <1>2, <2>1, Zenon
    <2> QED BY <1>5, <2>2, Zenon DEF Sweeps
  <1>7. ASSUME NEW g, g = [k \in 0 .. N |-> IF k = 0 THEN c
                             ELSE IF k - 1 \in I THEN PosAdd(g[k - 1], k - 1, x) ELSE g[k - 1]]
        PROVE  g[N] = f[N]
    <2>1. g[0] = f[0]
      BY <1>1, <1>6, <1>7
    <2>2. ASSUME NEW k \in 1 .. N, g[k - 1] = f[k - 1] PROVE g[k] = f[k]
      <3>1. k \in 0 .. N /\ k # 0
        BY <1>1
      <3> QED BY <1>6, <1>7, <2>2, <3>1, Zenon
    <2> QED BY <1>1, <2>1, <2>2, SameLoop
  <1>8. AddIn(c, s, p0, p1, x) = f[N]
    BY <1>6, <1>7, Zenon DEF AddIn, ForEach, For, N, I
  <1> QED BY <1>1, <1>3, <1>5, <1>8, SweepsEnd

\* The loop of seq_div().
LEMMA DivInIs ==
  ASSUME NEW n \in Nat, NEW c \in Sound(n), NEW s, NEW p0, NEW p1
  PROVE  Swept(n, c, DivIn(c, s, p0, p1, 2), {})
  <1> DEFINE N == Cardinality(Indices(c))
             I == Holding(c, s, p0, p1)
  <1> HIDE DEF N, I
  <1>1. N = n /\ Indices(c) = 0 .. n - 1
    BY CellCount DEF N
  <1>2. PICK op : op = [i \in 0 .. N - 1 |-> [d \in Sound(N) |-> PosDiv(d, i, 2)]]
    OBVIOUS
  <1>3. PICK m : m = {}
    OBVIOUS
  <1>4. ASSUME NEW i \in 0 .. N - 1, i \in I, NEW d \in Sound(N), SameAt(c, d, i)
        PROVE  CellStep(N, d, op[i][d], i, m)
    <2>1. d.pos[i] # -1 /\ op[i][d] = PosDiv(d, i, 2)
      BY <1>2, <1>4 DEF I, Holding, PosIn, SameAt
    <2>2. PICK e : e = PosDiv(d, i, 2)
      OBVIOUS
    <2>3. e \in Sound(N) /\ Apart(N, d, e, i)
      BY <1>1, <2>1, <2>2, PosDivIs
    <2> QED BY <1>3, <2>1, <2>2, <2>3 DEF CellStep
  <1>5. PICK f : Sweeps(f, N, c, I, op, m)
    BY <1>1, <1>4, EachCell
  <1>6. f = [k \in 0 .. N |-> IF k = 0 THEN c
                              ELSE IF k - 1 \in I THEN PosDiv(f[k - 1], k - 1, 2) ELSE f[k - 1]]
    <2>1. \A k \in 0 .. N : k # 0 => k - 1 \in 0 .. N - 1 /\ f[k - 1] \in Sound(N)
      <3>1. ASSUME NEW k \in 0 .. N, k # 0 PROVE k \in 1 .. N /\ k - 1 \in 0 .. N - 1
        BY <1>1, <3>1
      <3> QED BY <1>5, <3>1 DEF Sweeps
    <2>2. \A k \in 0 .. N : k # 0 => op[k - 1][f[k - 1]] = PosDiv(f[k - 1], k - 1, 2)
      BY <1>2, <2>1, Zenon
    <2> QED BY <1>5, <2>2, Zenon DEF Sweeps
  <1>7. ASSUME NEW g, g = [k \in 0 .. N |-> IF k = 0 THEN c
                             ELSE IF k - 1 \in I THEN PosDiv(g[k - 1], k - 1, 2) ELSE g[k - 1]]
        PROVE  g[N] = f[N]
    <2>1. g[0] = f[0]
      BY <1>1, <1>6, <1>7
    <2>2. ASSUME NEW k \in 1 .. N, g[k - 1] = f[k - 1] PROVE g[k] = f[k]
      <3>1. k \in 0 .. N /\ k # 0
        BY <1>1
      <3> QED BY <1>6, <1>7, <2>2, <3>1, Zenon
    <2> QED BY <1>1, <2>1, <2>2, SameLoop
  <1>8. DivIn(c, s, p0, p1, 2) = f[N]
    BY <1>6, <1>7, Zenon DEF DivIn, ForEach, For, N, I
  <1> QED BY <1>1, <1>3, <1>5, <1>8, SweepsEnd

\* What seq_cp() between streams has made when it comes to cell k.
CopiedCells(n, c, k) ==
  {d \in Sound(n) : /\ \A j \in 0 .. n - 1 : j >= k => d.pos[j] = -1
                    /\ Carried(n, c, d)}

\* One cell that seq_cp() copies to another stream.
LEMMA CopiedCellIs ==
  ASSUME NEW n \in Nat, NEW c \in Sound(n), NEW b \in Seq_id, NEW d \in Sound(n),
         NEW i \in 0 .. n - 1, d.pos[i] = -1, c.pos[i] # -1, c.pos[i] - c.shift[i] \in Positions
  PROVE  /\ CopiedCell(c, d, i, b) \in Sound(n) /\ Apart(n, d, CopiedCell(c, d, i, b), i)
         /\ CarriedAt(c, CopiedCell(c, d, i, b), i)
  <1>1. PICK e : e = Place(d, i, c.pos[i] - c.shift[i], {b})
    OBVIOUS
  <1>2. Holds(n, d, e, i, c.pos[i] - c.shift[i], {b}, 0)
    BY <1>1, PlaceIs
  <1>3. c.pos[i] \in Positions /\ c.shift[i] \in Int
    BY Cell
  <1>4. CASE c.shift[i] = 0
    <2>1. CopiedCell(c, d, i, b) = e
      BY <1>1, <1>4 DEF CopiedCell
    <2> QED BY <1>2, <1>3, <1>4, <2>1 DEF Holds, CarriedAt, Positions
  <1>5. CASE c.shift[i] # 0
    <2>1. PICK r : r = PosAdd(e, i, c.shift[i])
      OBVIOUS
    <2>2. /\ e \in Sound(n) /\ e.pos[i] # -1 /\ e.pos[i] + c.shift[i] <= LastPos
          /\ e.pos[i] + c.shift[i] = c.pos[i] /\ e.shift[i] + c.shift[i] = c.shift[i]
      BY <1>2, <1>3, KVCellsAssumption DEF Holds, Positions
    <2>3. \/ Holds(n, e, r, i, -1, {}, 0)
          \/ Holds(n, e, r, i, e.pos[i] + c.shift[i], e.seq[i], e.shift[i] + c.shift[i])
      BY <1>3, <2>1, <2>2, PosAddIs
    <2>4. CopiedCell(c, d, i, b) = r
      BY <1>1, <1>5, <2>1 DEF CopiedCell
    <2>5. r.pos[i] = -1 \/ (r.pos[i] = c.pos[i] /\ r.shift[i] = c.shift[i])
      <3>1. CASE Holds(n, e, r, i, -1, {}, 0)
        BY <3>1, Zenon DEF Holds
      <3>2. CASE Holds(n, e, r, i, e.pos[i] + c.shift[i], e.seq[i], e.shift[i] + c.shift[i])
        <4>1. r.pos[i] = e.pos[i] + c.shift[i] /\ r.shift[i] = e.shift[i] + c.shift[i]
          BY <3>2, Zenon DEF Holds
        <4> QED BY <2>2, <4>1, Zenon
      <3> QED BY <2>3, <3>1, <3>2
    <2>6. Apart(n, d, e, i) /\ Apart(n, e, r, i) /\ r \in Sound(n)
      BY <1>2, <2>3 DEF Holds
    <2>7. Apart(n, d, r, i)
      BY <2>6 DEF Apart
    <2>8. c.pos[i] # -1
      OBVIOUS
    <2>9. CarriedAt(c, r, i)
      BY <2>5, <2>8 DEF CarriedAt
    <2> QED BY <2>4, <2>6, <2>7, <2>9
  <1> QED BY <1>4, <1>5

\* The cells that seq_cp() makes in another stream carry the keys of the first one.
LEMMA CopyOfIs ==
  ASSUME NEW n \in Nat, n = conf.size, NEW c \in Sound(n), NEW a \in Seq_id, NEW b \in Seq_id,
         \A i \in 0 .. n - 1 : a \in c.seq[i] => c.pos[i] - c.shift[i] \in Positions
  PROVE  CopyOf(c, a, b) \in Sound(n) /\ Carried(n, c, CopyOf(c, a, b))
  <1> DEFINE N == Cardinality(Indices(Fresh(conf.size)))
             I == {i \in Indices(c) : a \in c.seq[i]}
  <1> HIDE DEF N, I
  <1>1. PICK base : base = Fresh(conf.size)
    OBVIOUS
  <1>2. base \in Sound(n) /\ \A i \in 0 .. n - 1 : base.pos[i] = -1
    BY <1>1, FreshIs
  <1>3. N = n /\ Indices(c) = 0 .. n - 1
    BY <1>1, <1>2, CellCount DEF N
  <1>4. PICK W : W = [k \in 0 .. N |-> CopiedCells(N, c, k)]
    OBVIOUS
  <1>5. PICK step : step = [k \in 1 .. N |-> [d \in Sound(N) |->
                               IF k - 1 \in I THEN CopiedCell(c, d, k - 1, b) ELSE d]]
    OBVIOUS
  <1>6. base \in W[0]
    <2>1. base \in CopiedCells(N, c, 0)
      BY <1>2, <1>3 DEF CopiedCells, Carried, CarriedAt
    <2>2. 0 \in 0 .. N
      BY <1>3
    <2> QED BY <1>4, <2>1, <2>2
  <1>7. ASSUME NEW k \in 1 .. N, NEW d \in W[k - 1] PROVE step[k][d] \in W[k]
    <2>1. PICK i \in 0 .. n - 1 : i = k - 1 /\ i \in 0 .. N /\ k \in 0 .. N
      BY <1>3
    <2>2. d \in CopiedCells(N, c, i) /\ d \in Sound(n)
      BY <1>3, <1>4, <2>1 DEF CopiedCells
    <2>3. step[k][d] = IF i \in I THEN CopiedCell(c, d, i, b) ELSE d
      BY <1>3, <1>5, <2>1, <2>2
    <2>4. \A j \in 0 .. n - 1 : (j >= k => j >= i) /\ (j >= k => j # i)
      BY <2>1
    <2>5. step[k][d] \in CopiedCells(N, c, k)
      <3>1. CASE i \notin I
        BY <1>3, <2>2, <2>3, <2>4, <3>1 DEF CopiedCells
      <3>2. CASE i \in I
        <4>1. PICK e : e = CopiedCell(c, d, i, b)
          OBVIOUS
        <4>2. a \in c.seq[i] /\ c.pos[i] # -1 /\ d.pos[i] = -1
          BY <1>3, <2>1, <2>2, <3>2, Cell DEF I, CopiedCells
        <4>3. e \in Sound(n) /\ Apart(n, d, e, i) /\ CarriedAt(c, e, i)
          BY <2>2, <4>1, <4>2, CopiedCellIs
        <4>4. \A j \in 0 .. n - 1 : j >= k => e.pos[j] = -1
          BY <1>3, <2>2, <2>4, <4>3 DEF Apart, CopiedCells
        <4>5. ASSUME NEW j \in 0 .. n - 1 PROVE CarriedAt(c, e, j)
          <5>1. CASE j = i
            BY <4>3, <5>1
          <5>2. CASE j # i
            <6>1. CarriedAt(c, d, j)
              BY <1>3, <2>2 DEF CopiedCells, Carried
            <6> QED BY <4>3, <5>2, <6>1 DEF Apart, CarriedAt
          <5> QED BY <5>1, <5>2
        <4> QED BY <1>3, <2>3, <3>2, <4>1, <4>3, <4>4, <4>5 DEF CopiedCells, Carried
      <3> QED BY <3>1, <3>2
    <2> QED BY <1>4, <2>1, <2>5
  <1>8. PICK f : Turns(f, N, W, base, step)
    BY <1>3, <1>6, <1>7, LoopExists
  <1>9. f = [k \in 0 .. N |-> IF k = 0 THEN base
               ELSE IF k - 1 \in I THEN CopiedCell(c, f[k - 1], k - 1, b) ELSE f[k - 1]]
    <2>1. ASSUME NEW k \in 0 .. N, k # 0
          PROVE  step[k][f[k - 1]] = IF k - 1 \in I THEN CopiedCell(c, f[k - 1], k - 1, b)
                                     ELSE f[k - 1]
      <3>1. k \in 1 .. N /\ k - 1 \in 0 .. N
        BY <1>3, <2>1
      <3>2. f[k - 1] \in Sound(N)
        BY <1>4, <1>8, <3>1 DEF Turns, CopiedCells
      <3> QED BY <1>5, <3>1, <3>2
    <2> QED BY <1>8, <2>1, Zenon DEF Turns
  <1>10. ASSUME NEW g, g = [k \in 0 .. N |-> IF k = 0 THEN base
               ELSE IF k - 1 \in I THEN CopiedCell(c, g[k - 1], k - 1, b) ELSE g[k - 1]]
         PROVE  g[N] = f[N]
    <2>1. g[0] = f[0]
      BY <1>3, <1>9, <1>10
    <2>2. ASSUME NEW k \in 1 .. N, g[k - 1] = f[k - 1] PROVE g[k] = f[k]
      <3>1. k \in 0 .. N /\ k # 0
        BY <1>3
      <3> QED BY <1>9, <1>10, <2>2, <3>1, Zenon
    <2> QED BY <1>3, <2>1, <2>2, SameLoop
  <1>11. CopyOf(c, a, b) = f[N]
    BY <1>1, <1>9, <1>10, Zenon DEF CopyOf, ForEach, For, N, I
  <1>12. f[n] \in CopiedCells(n, c, n)
    <2>1. n \in 0 .. n
      OBVIOUS
    <2> QED BY <1>3, <1>4, <1>8, <2>1 DEF Turns
  <1> QED BY <1>3, <1>11, <1>12 DEF CopiedCells

\* Distinct cells for the tokens of a stream.
Distinct(slots) == \A a, b \in DOMAIN slots : a # b => slots[a] # slots[b]

Token == [seq : Seq_id, tok : Tok \cup {NoTok}, pos : Positions, rot : Int]

Slotted(n, slots, toks) ==
  /\ slots \in Seq(0 .. n - 1) /\ toks \in Seq(Token)
  /\ Len(slots) = Len(toks) /\ Len(slots) >= 1
  /\ Distinct(slots)

\* Cells for the tokens of some streams.
Laid(ub, slots) ==
  /\ DOMAIN ub \in SUBSET Streams /\ DOMAIN slots = DOMAIN ub
  /\ \A st \in DOMAIN ub : Slotted(conf.size, slots[st], ub[st])

\* A key is computed for the position of its token.
Computed(ub) == \A st \in DOMAIN ub : \A k \in DOMAIN ub[st] : ub[st][k].rot = ub[st][k].pos

KeptCell == [seqs : (SUBSET Seq_id) \ {{}}, pos : Positions, tok : Tok \cup {NoTok}, rot : Int]

Types ==
  /\ conf \in Confs
  /\ v_cells \in [Streams -> Sound(conf.size)]
  /\ v_heads \in [Streams -> 0 .. conf.size]
  /\ buf \in [Streams -> [Idx -> [tok : Tok \cup {NoTok}, rot : Int]]]
  /\ sc_info \in Seq(Streams \X Streams)
  /\ todo \in Seq(Range(todo))
  /\ \A k \in DOMAIN todo : Laid(todo[k].ub, todo[k].slots) /\ Computed(todo[k].ub)

\* While a decode is in progress nothing is deferred.
Updated == todo # <<>> => sc_info = <<>> /\ \A st \in Streams : ~v_cells[st].has_shift

KeptState ==
  /\ kept.all \in BOOLEAN /\ kept.cells \in Seq(KeptCell)
  /\ kept.all => conf.unified /\ Len(kept.cells) <= conf.size
  /\ "divide" \notin conf.uses => \A k \in DOMAIN kept.cells : kept.cells[k].rot = kept.cells[k].pos

IInv == Types /\ Updated /\ KeptState /\ KRotated

----------------------------------------------------------------------------
(* Loops that fill cells *)

\* The first k of the cells slots hold the positions of val, the others are as
\* they were.
PutTo(n, c, slots, val, k) ==
  {d \in Sound(n) :
     /\ d.has_shift = c.has_shift
     /\ \A j \in 1 .. k : d.pos[slots[j]] = val[j].pos /\ d.shift[slots[j]] = 0
     /\ \A i \in 0 .. n - 1 : (\A j \in 1 .. k : slots[j] # i) => SameAt(c, d, i)}

\* One round of a loop over the slots.
LEMMA PutStep ==
  ASSUME NEW n \in Nat, NEW c \in Sound(n), NEW L \in Nat, NEW slots, NEW val, NEW k \in 1 .. L,
         \A j \in 1 .. L : slots[j] \in 0 .. n - 1,
         \A a, b \in 1 .. L : a # b => slots[a] # slots[b],
         NEW d \in PutTo(n, c, slots, val, k - 1), NEW S, NEW e,
         Holds(n, d, e, slots[k], val[k].pos, S, 0), e.has_shift = d.has_shift
  PROVE  e \in PutTo(n, c, slots, val, k)
  <1>1. PICK i \in 0 .. n - 1 : i = slots[k]
    OBVIOUS
  <1>2. /\ e \in Sound(n) /\ e.pos[i] = val[k].pos /\ e.shift[i] = 0
        /\ \A j \in 0 .. n - 1 : j # i => SameAt(d, e, j)
    BY <1>1 DEF Holds, Apart, SameAt
  <1>3. e.has_shift = c.has_shift
    BY DEF PutTo
  <1>4. ASSUME NEW j \in 1 .. k PROVE e.pos[slots[j]] = val[j].pos /\ e.shift[slots[j]] = 0
    <2>1. CASE j = k
      BY <1>1, <1>2, <2>1
    <2>2. CASE j # k
      <3>1. j \in 1 .. k - 1 /\ j \in 1 .. L /\ slots[j] # i /\ slots[j] \in 0 .. n - 1
        BY <1>1, <2>2
      <3>2. d.pos[slots[j]] = val[j].pos /\ d.shift[slots[j]] = 0
        BY <3>1 DEF PutTo
      <3>3. SameAt(d, e, slots[j])
        BY <1>2, <3>1
      <3> QED BY <3>2, <3>3 DEF SameAt
    <2> QED BY <2>1, <2>2
  <1>5. ASSUME NEW j \in 0 .. n - 1, \A a \in 1 .. k : slots[a] # j PROVE SameAt(c, e, j)
    <2>1. k \in 1 .. k /\ \A a \in 1 .. k - 1 : a \in 1 .. k
      OBVIOUS
    <2>2. j # i /\ \A a \in 1 .. k - 1 : slots[a] # j
      BY <1>1, <1>5, <2>1
    <2>3. SameAt(c, d, j)
      BY <2>2 DEF PutTo
    <2>4. SameAt(d, e, j)
      BY <1>2, <2>2
    <2> QED BY <2>3, <2>4 DEF SameAt
  <1> QED BY <1>2, <1>3, <1>4, <1>5 DEF PutTo

\* The rounds of such a loop.
Puts(f, n, c, slots, val, L, op) ==
  /\ f = [k \in 0 .. L |-> IF k = 0 THEN c ELSE op[k][f[k - 1]]]
  /\ \A k \in 0 .. L : f[k] \in PutTo(n, c, slots, val, k)

\* A loop over the slots, from the k-th of which on the cells are as they were.
LEMMA PutEach ==
  ASSUME NEW n \in Nat, NEW c \in Sound(n), NEW L \in Nat, NEW slots, NEW val, NEW op,
         \A j \in 1 .. L : slots[j] \in 0 .. n - 1,
         \A a, b \in 1 .. L : a # b => slots[a] # slots[b],
         \A k \in 1 .. L : \A d \in PutTo(n, c, slots, val, k - 1) :
            /\ \E S : Holds(n, d, op[k][d], slots[k], val[k].pos, S, 0)
            /\ op[k][d].has_shift = d.has_shift
  PROVE  \E f : Puts(f, n, c, slots, val, L, op)
  <1>1. PICK W : W = [k \in 0 .. L |-> PutTo(n, c, slots, val, k)]
    OBVIOUS
  <1>2. c \in W[0]
    <2>1. c \in PutTo(n, c, slots, val, 0)
      BY DEF PutTo, SameAt
    <2> QED BY <1>1, <2>1
  <1>3. ASSUME NEW k \in 1 .. L, NEW d \in W[k - 1] PROVE op[k][d] \in W[k]
    <2>1. k - 1 \in 0 .. L /\ k \in 0 .. L
      OBVIOUS
    <2>2. d \in PutTo(n, c, slots, val, k - 1)
      BY <1>1, <2>1
    <2>3. PICK S : Holds(n, d, op[k][d], slots[k], val[k].pos, S, 0)
      BY <2>2
    <2>4. PICK e : e = op[k][d]
      OBVIOUS
    <2>5. Holds(n, d, e, slots[k], val[k].pos, S, 0) /\ e.has_shift = d.has_shift
      BY <2>2, <2>3, <2>4
    <2>6. e \in PutTo(n, c, slots, val, k)
      BY <2>2, <2>5, PutStep
    <2> QED BY <1>1, <2>1, <2>4, <2>6
  <1>4. PICK f : Turns(f, L, W, c, op)
    BY <1>2, <1>3, LoopExists
  <1>5. Puts(f, n, c, slots, val, L, op)
    BY <1>1, <1>4 DEF Turns, Puts
  <1> QED BY <1>5

\* A cell is given back, if it has to be, and taken again.
LEMMA EmplacedIs ==
  ASSUME NEW n \in Nat, NEW c \in Sound(n), NEW i \in 0 .. n - 1, NEW t \in Token
  PROVE  /\ Holds(n, c, Emplaced(c, i, t), i, t.pos, {t.seq}, 0)
         /\ Emplaced(c, i, t).has_shift = c.has_shift
  <1>1. t.pos \in Positions /\ {t.seq} \in SUBSET Seq_id /\ {t.seq} # {}
    BY DEF Token
  <1>2. PICK d : d = IF IsEmpty(c, i) THEN c ELSE Rm(c, i)
    OBVIOUS
  <1>3. d \in Sound(n) /\ d.pos[i] = -1 /\ Apart(n, c, d, i) /\ d.has_shift = c.has_shift
    <2>1. CASE IsEmpty(c, i)
      BY <1>2, <2>1 DEF IsEmpty, Apart
    <2>2. CASE ~IsEmpty(c, i)
      <3>1. c.pos[i] # -1 /\ d = Rm(c, i)
        BY <1>2, <2>2 DEF IsEmpty
      <3> QED BY <3>1, RmIs DEF Holds
    <2> QED BY <2>1, <2>2
  <1>4. PICK e : e = Place(d, i, t.pos, {t.seq})
    OBVIOUS
  <1>5. Holds(n, d, e, i, t.pos, {t.seq}, 0) /\ e.has_shift = d.has_shift
    BY <1>1, <1>3, <1>4, PlaceIs
  <1>6. Holds(n, c, e, i, t.pos, {t.seq}, 0)
    BY <1>3, <1>5 DEF Holds, Apart
  <1>7. Emplaced(c, i, t) = e
    BY <1>2, <1>4 DEF Emplaced
  <1> QED BY <1>3, <1>5, <1>6, <1>7

\* The loop that places the tokens of an ubatch.
LEMMA PlacedInIs ==
  ASSUME NEW n \in Nat, NEW c \in Sound(n), NEW slots, NEW val, Slotted(n, slots, val)
  PROVE  PlacedIn(c, slots, val) \in PutTo(n, c, slots, val, Len(val))
  <1> DEFINE L == Len(val)
  <1> HIDE DEF L
  <1>1. L \in Nat /\ slots \in Seq(0 .. n - 1) /\ val \in Seq(Token) /\ Len(slots) = L
    BY DEF Slotted, L
  <1>2. /\ \A j \in 1 .. L : slots[j] \in 0 .. n - 1 /\ val[j] \in Token
        /\ \A a, b \in 1 .. L : a # b => slots[a] # slots[b]
    BY <1>1 DEF Slotted, Distinct, L
  <1>3. PICK op : op = [k \in 1 .. L |-> [d \in Sound(n) |-> Emplaced(d, slots[k], val[k])]]
    OBVIOUS
  <1>4. ASSUME NEW k \in 1 .. L, NEW d \in PutTo(n, c, slots, val, k - 1)
        PROVE  /\ \E S : Holds(n, d, op[k][d], slots[k], val[k].pos, S, 0)
               /\ op[k][d].has_shift = d.has_shift
    <2>1. d \in Sound(n) /\ d.has_shift = c.has_shift
      BY DEF PutTo
    <2>2. op[k][d] = Emplaced(d, slots[k], val[k])
      BY <1>3, <2>1
    <2>3. PICK e : e = Emplaced(d, slots[k], val[k])
      OBVIOUS
    <2>4. Holds(n, d, e, slots[k], val[k].pos, {val[k].seq}, 0) /\ e.has_shift = d.has_shift
      BY <1>2, <2>1, <2>3, EmplacedIs
    <2> QED BY <2>2, <2>3, <2>4
  <1>5. PICK f : Puts(f, n, c, slots, val, L, op)
    BY <1>1, <1>2, <1>4, PutEach
  <1>6. f = [k \in 0 .. L |-> IF k = 0 THEN c ELSE Emplaced(f[k - 1], slots[k], val[k])]
    <2>1. ASSUME NEW k \in 0 .. L, k # 0 PROVE op[k][f[k - 1]] = Emplaced(f[k - 1], slots[k], val[k])
      <3>1. k \in 1 .. L /\ k - 1 \in 0 .. L
        BY <1>1, <2>1
      <3>2. f[k - 1] \in Sound(n)
        BY <1>5, <3>1 DEF Puts, PutTo
      <3> QED BY <1>3, <3>1, <3>2
    <2> QED BY <1>5, <2>1, Zenon DEF Puts
  <1>7. ASSUME NEW g, g = [k \in 0 .. L |-> IF k = 0 THEN c ELSE Emplaced(g[k - 1], slots[k], val[k])]
        PROVE  g[L] = f[L]
    <2>1. g[0] = f[0]
      BY <1>1, <1>6, <1>7
    <2>2. ASSUME NEW k \in 1 .. L, g[k - 1] = f[k - 1] PROVE g[k] = f[k]
      <3>1. k \in 0 .. L /\ k # 0
        BY <1>1
      <3> QED BY <1>6, <1>7, <2>2, <3>1, Zenon
    <2> QED BY <1>1, <2>1, <2>2, SameLoop
  <1>8. PlacedIn(c, slots, val) = f[L]
    BY <1>6, <1>7, Zenon DEF PlacedIn, For, L
  <1>9. f[L] \in PutTo(n, c, slots, val, L)
    <2>1. L \in 0 .. L
      BY <1>1
    <2> QED BY <1>5, <2>1 DEF Puts
  <1> QED BY <1>8, <1>9 DEF L

\* What cp() returns of a cell.
SavedCells(n, c, slots, saved) ==
  /\ slots \in Seq(0 .. n - 1) /\ Distinct(slots) /\ DOMAIN saved = DOMAIN slots
  /\ \A k \in DOMAIN slots : saved[k] = Saved(c, slots[k])

\* set() of the cells that prepare() remembered.
LEMMA RestoreCellsIs ==
  ASSUME NEW n \in Nat, NEW b \in Sound(n), NEW c \in Sound(n), ~c.has_shift,
         NEW state, NEW st, SavedCells(n, b, state.slots[st], state.cells[st])
  PROVE  RestoreCells(state, c, st) \in PutTo(n, c, state.slots[st], state.cells[st], Len(state.slots[st]))
  <1> DEFINE L == Len(state.slots[st])
  <1> HIDE DEF L
  <1>0. PICK slots, val : slots = state.slots[st] /\ val = state.cells[st]
    OBVIOUS
  <1>1. /\ L \in Nat /\ slots \in Seq(0 .. n - 1) /\ Len(slots) = L /\ DOMAIN slots = 1 .. L
    BY <1>0 DEF SavedCells, L
  <1>2. /\ \A j \in 1 .. L : slots[j] \in 0 .. n - 1 /\ val[j] = Saved(b, slots[j])
        /\ \A a, d \in 1 .. L : a # d => slots[a] # slots[d]
    <2>1. \A j \in 1 .. L : slots[j] \in 0 .. n - 1
      BY <1>1
    <2>2. \A j \in 1 .. L : val[j] = Saved(b, slots[j])
      BY <1>0, <1>1 DEF SavedCells
    <2>3. \A a, d \in 1 .. L : a # d => slots[a] # slots[d]
      BY <1>0, <1>1 DEF SavedCells, Distinct
    <2> QED BY <2>1, <2>2, <2>3
  <1>3. PICK op : op = [k \in 1 .. L |-> [d \in Sound(n) |-> SetCell(d, state.slots[st][k], state.cells[st][k])]]
    OBVIOUS
  <1>4. ASSUME NEW k \in 1 .. L, NEW d \in PutTo(n, c, slots, val, k - 1)
        PROVE  /\ \E S : Holds(n, d, op[k][d], slots[k], val[k].pos, S, 0)
               /\ op[k][d].has_shift = d.has_shift
    <2>1. d \in Sound(n) /\ d.has_shift = c.has_shift
      BY DEF PutTo
    <2>2. op[k][d] = SetCell(d, state.slots[st][k], state.cells[st][k])
      BY <1>3, <2>1
    <2>3. PICK e : e = SetCell(d, state.slots[st][k], state.cells[st][k])
      OBVIOUS
    <2>5. PICK i \in 0 .. n - 1 : i = slots[k] /\ val[k] = Saved(b, i)
      BY <1>2
    <2>6. PICK old : old = val[k]
      OBVIOUS
    <2>7. old.pos = b.pos[i] /\ old.seq = b.seq[i]
      BY <2>5, <2>6 DEF Saved
    <2>8. /\ old.pos \in Positions \cup {-1} /\ old.seq \in SUBSET Seq_id
          /\ old.pos = -1 <=> old.seq = {}
      BY <2>7, Cell
    <2>9. d.shift[i] = 0
      BY <2>1, Cell
    <2>10. e = SetCell(d, i, old)
      BY <1>0, <2>3, <2>5, <2>6
    <2>4. Holds(n, d, e, slots[k], val[k].pos, old.seq, 0) /\ e.has_shift = d.has_shift
      <3>1. Holds(n, d, e, i, old.pos, old.seq, 0) /\ e.has_shift = d.has_shift
        BY <2>1, <2>8, <2>9, <2>10, SetCellIs
      <3> QED BY <2>5, <2>6, <3>1
    <2> QED BY <2>2, <2>3, <2>4
  <1>5. PICK f : Puts(f, n, c, slots, val, L, op)
    BY <1>1, <1>2, <1>4, PutEach
  <1>6. f = [k \in 0 .. L |-> IF k = 0 THEN c ELSE SetCell(f[k - 1], state.slots[st][k], state.cells[st][k])]
    <2>1. ASSUME NEW k \in 0 .. L, k # 0 PROVE op[k][f[k - 1]] = SetCell(f[k - 1], state.slots[st][k], state.cells[st][k])
      <3>1. k \in 1 .. L /\ k - 1 \in 0 .. L
        BY <1>1, <2>1
      <3>2. f[k - 1] \in Sound(n)
        BY <1>5, <3>1 DEF Puts, PutTo
      <3> QED BY <1>3, <3>1, <3>2
    <2> QED BY <1>5, <2>1, Zenon DEF Puts
  <1>7. ASSUME NEW g, g = [k \in 0 .. L |-> IF k = 0 THEN c ELSE SetCell(g[k - 1], state.slots[st][k], state.cells[st][k])]
        PROVE  g[L] = f[L]
    <2>1. g[0] = f[0]
      BY <1>1, <1>6, <1>7
    <2>2. ASSUME NEW k \in 1 .. L, g[k - 1] = f[k - 1] PROVE g[k] = f[k]
      <3>1. k \in 0 .. L /\ k # 0
        BY <1>1
      <3> QED BY <1>6, <1>7, <2>2, <3>1, Zenon
    <2> QED BY <1>1, <2>1, <2>2, SameLoop
  <1>8. RestoreCells(state, c, st) = f[L]
    BY <1>6, <1>7, Zenon DEF RestoreCells, For, L
  <1>9. f[L] \in PutTo(n, c, slots, val, L)
    <2>1. L \in 0 .. L
      BY <1>1
    <2> QED BY <1>5, <2>1 DEF Puts
  <1> QED BY <1>0, <1>8, <1>9 DEF L

\* The loop that reads the cells of a saved state into an empty cache.
LEMMA CellsReadIs ==
  ASSUME NEW n \in Nat, n = conf.size, NEW val \in Seq(KeptCell), Len(val) <= n,
         NEW slots, slots = [k \in 1 .. Len(val) |-> k - 1]
  PROVE  CellsRead(val) \in PutTo(n, Fresh(n), slots, val, Len(val))
  <1> DEFINE L == Len(val)
  <1> HIDE DEF L
  <1>0. PICK c : c = Fresh(conf.size)
    OBVIOUS
  <1>1. L \in Nat /\ L <= n /\ slots = [k \in 1 .. L |-> k - 1]
    BY DEF L
  <1>2. /\ \A j \in 1 .. L : slots[j] \in 0 .. n - 1 /\ val[j] \in KeptCell
        /\ \A a, b \in 1 .. L : a # b => slots[a] # slots[b]
        /\ c \in Sound(n) /\ \A j \in 0 .. n - 1 : c.pos[j] = -1
    <2>1. \A j \in 1 .. L : val[j] \in KeptCell
      BY DEF L
    <2>2. c \in Sound(n) /\ \A j \in 0 .. n - 1 : c.pos[j] = -1
      BY <1>0, FreshIs
    <2>3. \A j \in 1 .. L : slots[j] = j - 1 /\ j - 1 \in 0 .. n - 1
      BY <1>1
    <2>4. \A a, b \in 1 .. L : a # b => slots[a] # slots[b]
      BY <1>1, <2>3
    <2> QED BY <2>1, <2>2, <2>3, <2>4
  <1>3. PICK op : op = [k \in 1 .. L |-> [d \in Sound(n) |-> Place(d, k - 1, val[k].pos, val[k].seqs)]]
    OBVIOUS
  <1>4. ASSUME NEW k \in 1 .. L, NEW d \in PutTo(n, c, slots, val, k - 1)
        PROVE  /\ \E S : Holds(n, d, op[k][d], slots[k], val[k].pos, S, 0)
               /\ op[k][d].has_shift = d.has_shift
    <2>1. d \in Sound(n) /\ d.has_shift = c.has_shift
      BY DEF PutTo
    <2>2. op[k][d] = Place(d, k - 1, val[k].pos, val[k].seqs)
      BY <1>3, <2>1
    <2>3. PICK e : e = Place(d, k - 1, val[k].pos, val[k].seqs)
      OBVIOUS
    <2>5. PICK i \in 0 .. n - 1 : i = k - 1 /\ i = slots[k]
      BY <1>1, <1>2
    <2>6. \A j \in 1 .. k - 1 : slots[j] # i
      BY <1>1, <1>2, <2>5
    <2>7. d.pos[i] = -1
      BY <1>2, <2>6 DEF PutTo, SameAt
    <2>8. val[k].pos \in Positions /\ val[k].seqs \in SUBSET Seq_id /\ val[k].seqs # {}
      BY <1>2 DEF KeptCell
    <2>4. Holds(n, d, e, slots[k], val[k].pos, val[k].seqs, 0) /\ e.has_shift = d.has_shift
      <3>1. e = Place(d, i, val[k].pos, val[k].seqs)
        BY <2>3, <2>5
      <3>2. Holds(n, d, e, i, val[k].pos, val[k].seqs, 0) /\ e.has_shift = d.has_shift
        BY <2>1, <2>7, <2>8, <3>1, PlaceIs
      <3> QED BY <2>5, <3>2
    <2> QED BY <2>2, <2>3, <2>4
  <1>5. PICK f : Puts(f, n, c, slots, val, L, op)
    BY <1>1, <1>2, <1>4, PutEach
  <1>6. f = [k \in 0 .. L |-> IF k = 0 THEN c ELSE Place(f[k - 1], k - 1, val[k].pos, val[k].seqs)]
    <2>1. ASSUME NEW k \in 0 .. L, k # 0 PROVE op[k][f[k - 1]] = Place(f[k - 1], k - 1, val[k].pos, val[k].seqs)
      <3>1. k \in 1 .. L /\ k - 1 \in 0 .. L
        BY <1>1, <2>1
      <3>2. f[k - 1] \in Sound(n)
        BY <1>5, <3>1 DEF Puts, PutTo
      <3> QED BY <1>3, <3>1, <3>2
    <2> QED BY <1>5, <2>1, Zenon DEF Puts
  <1>7. ASSUME NEW g, g = [k \in 0 .. L |-> IF k = 0 THEN c ELSE Place(g[k - 1], k - 1, val[k].pos, val[k].seqs)]
        PROVE  g[L] = f[L]
    <2>1. g[0] = f[0]
      BY <1>1, <1>6, <1>7
    <2>2. ASSUME NEW k \in 1 .. L, g[k - 1] = f[k - 1] PROVE g[k] = f[k]
      <3>1. k \in 0 .. L /\ k # 0
        BY <1>1
      <3> QED BY <1>6, <1>7, <2>2, <3>1, Zenon
    <2> QED BY <1>1, <2>1, <2>2, SameLoop
  <1>8. CellsRead(val) = f[L]
    BY <1>0, <1>6, <1>7, Zenon DEF CellsRead, For, L
  <1>9. f[L] \in PutTo(n, c, slots, val, L)
    <2>1. L \in 0 .. L
      BY <1>1
    <2> QED BY <1>5, <2>1 DEF Puts
  <1> QED BY <1>0, <1>8, <1>9 DEF L

\* seq_rm() of several sequences.
LEMMA RmEachIs ==
  ASSUME NEW n \in Nat, NEW c \in Sound(n), NEW S, NEW p0, NEW p1
  PROVE  Swept(n, c, RmEach(c, S, p0, p1), {"key", "still"})
  <1> DEFINE L == Cardinality(Seq_id)
  <1> HIDE DEF L
  <1>1. L \in Nat /\ Seq_id = 0 .. L - 1
    BY KVCellsAssumption, KVCacheAssumption, FS_CardinalityType DEF L
  <1>2. PICK m : m = {"key", "still"}
    OBVIOUS
  <1>3. PICK V : V = {d \in Sound(n) : Swept(n, c, d, m)}
    OBVIOUS
  <1>4. PICK op : op = [k \in 1 .. L |-> [d \in Sound(n) |->
                           IF k - 1 \in S THEN RmIn(d, k - 1, p0[k - 1], p1[k - 1]) ELSE d]]
    OBVIOUS
  <1>5. PICK W : W = [k \in 0 .. L |-> V]
    OBVIOUS
  <1>6. c \in W[0]
    <2>1. \A i \in 0 .. n - 1 : c.pos[i] - c.shift[i] = c.pos[i] - c.shift[i]
      OBVIOUS
    <2>2. Swept(n, c, c, m)
      BY <2>1 DEF Swept, Carried, CarriedAt
    <2> QED BY <1>1, <1>3, <1>5, <2>2
  <1>7. ASSUME NEW k \in 1 .. L, NEW d \in W[k - 1] PROVE op[k][d] \in W[k]
    <2>1. k - 1 \in 0 .. L /\ k \in 0 .. L /\ k - 1 \in Seq_id
      BY <1>1
    <2>2. d \in V /\ W[k] = V
      BY <1>5, <2>1
    <2>3. d \in Sound(n) /\ Swept(n, c, d, m)
      BY <1>3, <2>2
    <2>4. PICK e : e = RmIn(d, k - 1, p0[k - 1], p1[k - 1])
      OBVIOUS
    <2>5. Swept(n, d, e, m)
      BY <1>2, <2>1, <2>3, <2>4, RmInIs
    <2>6. e \in Sound(n) /\ e.has_shift = c.has_shift
      BY <1>2, <2>3, <2>5 DEF Swept
    <2>7. Carried(n, c, d) /\ Carried(n, d, e)
      BY <1>2, <2>3, <2>5 DEF Swept
    <2>8. Carried(n, c, e)
      BY <2>7 DEF Carried, CarriedAt
    <2>9. e \in V
      BY <1>3, <2>6, <2>8 DEF Swept
    <2> QED BY <1>4, <2>2, <2>3, <2>4, <2>9
  <1>8. PICK f : Turns(f, L, W, c, op)
    BY <1>1, <1>6, <1>7, LoopExists
  <1>9. f = [k \in 0 .. L |-> IF k = 0 THEN c
               ELSE IF k - 1 \in S THEN RmIn(f[k - 1], k - 1, p0[k - 1], p1[k - 1]) ELSE f[k - 1]]
    <2>1. ASSUME NEW k \in 0 .. L, k # 0
          PROVE  op[k][f[k - 1]] = IF k - 1 \in S THEN RmIn(f[k - 1], k - 1, p0[k - 1], p1[k - 1])
                                   ELSE f[k - 1]
      <3>1. k \in 1 .. L /\ k - 1 \in 0 .. L
        BY <1>1, <2>1
      <3>2. f[k - 1] \in Sound(n)
        BY <1>3, <1>5, <1>8, <3>1 DEF Turns
      <3> QED BY <1>4, <3>1, <3>2
    <2> QED BY <1>8, <2>1, Zenon DEF Turns
  <1>10. ASSUME NEW g, g = [k \in 0 .. L |-> IF k = 0 THEN c
               ELSE IF k - 1 \in S THEN RmIn(g[k - 1], k - 1, p0[k - 1], p1[k - 1]) ELSE g[k - 1]]
         PROVE  g[L] = f[L]
    <2>1. g[0] = f[0]
      BY <1>1, <1>9, <1>10
    <2>2. ASSUME NEW k \in 1 .. L, g[k - 1] = f[k - 1] PROVE g[k] = f[k]
      <3>1. k \in 0 .. L /\ k # 0
        BY <1>1
      <3> QED BY <1>9, <1>10, <2>2, <3>1, Zenon
    <2> QED BY <1>1, <2>1, <2>2, SameLoop
  <1>11. RmEach(c, S, p0, p1) = f[L]
    BY <1>9, <1>10, Zenon DEF RmEach, For, L
  <1>12. f[L] \in V
    <2>1. L \in 0 .. L
      BY <1>1
    <2> QED BY <1>5, <1>8, <2>1 DEF Turns
  <1> QED BY <1>2, <1>3, <1>11, <1>12

\* A cache has cells.
LEMMA SizeIs ==
  ASSUME conf \in Confs
  PROVE  conf.size \in Nat /\ conf.size >= 1 /\ Idx = 0 .. conf.size - 1
  BY KVCacheAssumption DEF Idx

----------------------------------------------------------------------------
(* find_slot() and apply_ubatch() *)

\* The remainder of a number that goes around at most once.
LEMMA Around ==
  ASSUME NEW x \in Nat, NEW n \in Nat, x < n + n
  PROVE  x % n = IF x < n THEN x ELSE x - n
  <1>1. CASE x < n
    BY <1>1
  <1>2. CASE x >= n
    BY <1>2, Z3
  <1> QED BY <1>1, <1>2

\* All n cells, each once.
Tour(order, n) ==
  /\ order \in Seq(0 .. n - 1) /\ Len(order) = n
  /\ \A a, b \in 1 .. n : a < b => order[a] # order[b]

\* Going around from the head visits each cell once.
LEMMA InOrder ==
  ASSUME NEW n \in Nat, n >= 1, NEW from \in 0 .. n, NEW order,
         order = [k \in 1 .. n |-> (from + k - 1) % n]
  PROVE  Tour(order, n)
  <1>1. ASSUME NEW k \in 1 .. n
        PROVE  (from + k - 1) % n = IF from + k - 1 < n THEN from + k - 1 ELSE from + k - 1 - n
    <2>1. PICK x \in Nat : x = from + k - 1 /\ x < n + n
      OBVIOUS
    <2>2. x % n = IF x < n THEN x ELSE x - n
      BY <2>1, Around
    <2> QED BY <2>1, <2>2
  <1>2. \A k \in 1 .. n : order[k] = IF from + k - 1 < n THEN from + k - 1 ELSE from + k - 1 - n
    BY <1>1
  <1>3. ASSUME NEW k \in 1 .. n PROVE order[k] \in 0 .. n - 1
    BY <1>2
  <1>4. order \in Seq(0 .. n - 1) /\ Len(order) = n
    BY <1>3
  <1>5. ASSUME NEW a \in 1 .. n, NEW b \in 1 .. n, a < b PROVE order[a] # order[b]
    <2>1. /\ order[a] = IF from + a - 1 < n THEN from + a - 1 ELSE from + a - 1 - n
          /\ order[b] = IF from + b - 1 < n THEN from + b - 1 ELSE from + b - 1 - n
      BY <1>2
    <2>2. PICK x \in Int, y \in Int : x = from + a - 1 /\ y = from + b - 1
      OBVIOUS
    <2>3. x < y /\ y < x + n
      BY <1>5, <2>2
    <2>4. order[a] = (IF x < n THEN x ELSE x - n) /\ order[b] = IF y < n THEN y ELSE y - n
      BY <2>1, <2>2
    <2> QED BY <2>3, <2>4
  <1> QED BY <1>4, <1>5 DEF Tour

\* Cells for k tokens, or none.
Offered(n, slots, k) ==
  slots # <<>> => slots \in Seq(0 .. n - 1) /\ Len(slots) = k /\ k >= 1 /\ Distinct(slots)

\* find_slot() finds different cells, or none.
LEMMA FindSlotIs ==
  ASSUME conf \in Confs, NEW c, NEW head \in 0 .. conf.size, NEW k \in Nat
  PROVE  Offered(conf.size, FindSlot(c, head, k), k)
  <1>1. PICK n \in Nat : n = conf.size /\ n >= 1
    BY SizeIs
  <1>2. PICK from : from = IF head > Cardinality(c.used) + 2 * k THEN 0 ELSE head
    OBVIOUS
  <1>3. from \in 0 .. n
    BY <1>1, <1>2
  <1>4. PICK order : order = [j \in 1 .. n |-> (from + j - 1) % n]
    OBVIOUS
  <1>5. /\ order \in Seq(0 .. n - 1) /\ Len(order) = n
        /\ \A a, b \in 1 .. n : a < b => order[a] # order[b]
    <2>1. Tour(order, n)
      BY <1>1, <1>3, <1>4, InOrder
    <2> QED BY <2>1 DEF Tour
  <1>6. PICK R : R = {p \in (0 .. n - 1) \X (0 .. n - 1) : p[1] # p[2]}
    OBVIOUS
  <1>7. Goes(order, R)
    <2>1. ASSUME NEW a \in 1 .. n, NEW b \in 1 .. n, a < b PROVE <<order[a], order[b]>> \in R
      <3>1. order[a] \in 0 .. n - 1 /\ order[b] \in 0 .. n - 1 /\ order[a] # order[b]
        BY <1>5, <2>1
      <3> QED BY <1>6, <3>1
    <2> QED BY <1>5, <2>1 DEF Goes
  <1>8. PICK S : S = {i \in Idx : IsEmpty(c, i) \/ Masked(c, i)}
    OBVIOUS
  <1>9. PICK found : found = Those(order, S)
    OBVIOUS
  <1>10. found \in Seq(0 .. n - 1) /\ Goes(found, R)
    BY <1>5, <1>7, <1>9, ThoseItems, ThoseGoes
  <1>11. PICK r : r = FindSlot(c, head, k)
    OBVIOUS
  <1>12. r = IF Len(found) < k THEN <<>> ELSE SubSeq(found, 1, k)
    BY <1>1, <1>2, <1>4, <1>8, <1>9, <1>11 DEF FindSlot
  <1>13. Offered(n, r, k)
    <2>1. CASE Len(found) < k
      BY <1>12, <2>1 DEF Offered
    <2>2. CASE ~(Len(found) < k) /\ k = 0
      <3>1. r = <<>>
        BY <1>10, <1>12, <2>2
      <3> QED BY <3>1 DEF Offered
    <2>3. CASE ~(Len(found) < k) /\ k >= 1
      <3>1. r = [j \in 1 .. k |-> found[j]]
        BY <1>10, <1>12, <2>3
      <3>2. \A j \in 1 .. k : j \in 1 .. Len(found) /\ found[j] \in 0 .. n - 1
        BY <1>10, <2>3
      <3>3. r \in Seq(0 .. n - 1) /\ Len(r) = k /\ DOMAIN r = 1 .. k
        BY <3>1, <3>2
      <3>4. ASSUME NEW a \in 1 .. k, NEW b \in 1 .. k, a < b PROVE found[a] # found[b]
        <4>1. a \in DOMAIN found /\ b \in DOMAIN found
          BY <1>10, <3>2
        <4>2. <<found[a], found[b]>> \in R
          BY <1>10, <3>4, <4>1 DEF Goes
        <4> QED BY <1>6, <4>2
      <3>5. ASSUME NEW a \in 1 .. k, NEW b \in 1 .. k, a # b PROVE r[a] # r[b]
        <4>1. a < b \/ b < a
          BY <3>5
        <4> QED BY <3>1, <3>4, <4>1
      <3> QED BY <2>3, <3>3, <3>5 DEF Offered, Distinct
    <2> QED BY <2>1, <2>2, <2>3
  <1> QED BY <1>1, <1>11, <1>13

\* The tokens toks are in the cells slots, unless they were purged; what is in
\* the others was there.
Landed(n, c, d, slots, toks) ==
  /\ d \in Sound(n) /\ d.has_shift = c.has_shift
  /\ \A k \in DOMAIN slots :
       d.pos[slots[k]] # -1 => d.pos[slots[k]] - d.shift[slots[k]] = toks[k].pos
  /\ \A i \in 0 .. n - 1 : (\A k \in DOMAIN slots : slots[k] # i) => CarriedAt(c, d, i)

\* apply_ubatch() places its tokens, and what it evicts takes no key with it.
LEMMA ApplyStreamIs ==
  ASSUME NEW n \in Nat, NEW c \in Sound(n), NEW slots, NEW toks, Slotted(n, slots, toks)
  PROVE  Landed(n, c, ApplyStream(c, slots, toks), slots, toks)
  <1>1. PICK L \in Nat : /\ L = Len(toks) /\ DOMAIN slots = 1 .. L
                         /\ \A k \in 1 .. L : toks[k].pos \in Int /\ slots[k] \in 0 .. n - 1
    <2>1. slots \in Seq(0 .. n - 1) /\ toks \in Seq(Token) /\ Len(slots) = Len(toks)
      BY DEF Slotted
    <2>2. \A t \in Token : t.pos \in Int
      BY DEF Token, Positions
    <2> QED BY <2>1, <2>2
  <1>2. PICK p : p = PlacedIn(c, slots, toks)
    OBVIOUS
  <1>3. p \in PutTo(n, c, slots, toks, L)
    BY <1>1, <1>2, PlacedInIs
  <1>4. p \in Sound(n)
    BY <1>3 DEF PutTo
  <1>5. PICK lost : lost = [s \in Seq_id |-> Overwritten(c, Range(slots), s)]
    OBVIOUS
  <1>6. PICK S : S = {s \in Seq_id : lost[s] # {}}
    OBVIOUS
  <1>7. PICK d : d = RmEach(p, S, [s \in S |-> 0], [s \in S |-> Max(lost[s]) + 1])
    OBVIOUS
  <1>8. Swept(n, p, d, {"key", "still"})
    BY <1>4, <1>7, RmEachIs
  <1>9. ApplyStream(c, slots, toks) = d
    BY <1>2, <1>5, <1>6, <1>7, Zenon DEF ApplyStream
  <1>10. /\ d \in Sound(n) /\ d.has_shift = p.has_shift /\ Carried(n, p, d)
         /\ p.has_shift = c.has_shift
    BY <1>3, <1>8 DEF Swept, PutTo
  <1>11. ASSUME NEW k \in 1 .. L, d.pos[slots[k]] # -1
         PROVE  d.pos[slots[k]] - d.shift[slots[k]] = toks[k].pos
    <2>1. PICK i \in 0 .. n - 1 : i = slots[k]
      BY <1>1
    <2>2. p.pos[i] = toks[k].pos /\ p.shift[i] = 0
      BY <1>3, <2>1 DEF PutTo
    <2>3. d.pos[i] - d.shift[i] = p.pos[i] - p.shift[i]
      BY <1>10, <1>11, <2>1 DEF Carried, CarriedAt
    <2> QED BY <1>1, <2>1, <2>2, <2>3
  <1>12. ASSUME NEW i \in 0 .. n - 1, \A k \in 1 .. L : slots[k] # i PROVE CarriedAt(c, d, i)
    <2>1. SameAt(c, p, i)
      BY <1>3, <1>12 DEF PutTo
    <2>2. CarriedAt(p, d, i)
      BY <1>10 DEF Carried
    <2> QED BY <2>1, <2>2 DEF SameAt, CarriedAt
  <1> QED BY <1>1, <1>9, <1>10, <1>11, <1>12 DEF Landed

\* What decode() removes after a failure takes no key with it.
LEMMA FailedRmIs ==
  ASSUME NEW n \in Nat, NEW c \in Sound(n), NEW toks
  PROVE  Swept(n, c, FailedRm(c, toks), {"key", "still"})
  <1>1. PICK S : S = {t.seq : t \in Range(toks)}
    OBVIOUS
  <1>2. FailedRm(c, toks) = RmEach(c, S, [s \in S |-> Min(PosOf(toks, s))], [s \in S |-> -1])
    BY <1>1, Zenon DEF FailedRm
  <1> QED BY <1>2, RmEachIs

----------------------------------------------------------------------------
(* The cells and heads of all streams *)

\* A memory without pending shifts.
Steady(m) ==
  /\ m \in [cells : [Streams -> Sound(conf.size)], heads : [Streams -> 0 .. conf.size]]
  /\ \A st \in Streams : ~m.cells[st].has_shift

CarriedAll(m, w) == \A st \in Streams : Carried(conf.size, m.cells[st], w.cells[st])

Applies(m, w, ub, slots) ==
  /\ Steady(w)
  /\ \A st \in DOMAIN ub : Landed(conf.size, m.cells[st], w.cells[st], slots[st], ub[st])
  /\ \A st \in Streams : st \notin DOMAIN ub => w.cells[st] = m.cells[st]

\* apply_ubatch() on all streams leaves exact cells that carry their keys.
LEMMA AppliedIs ==
  ASSUME conf \in Confs, NEW m, Steady(m), NEW ub, NEW slots, Laid(ub, slots)
  PROVE  Applies(m, Applied(m, ub, slots), ub, slots)
  <1>1. PICK n \in Nat : n = conf.size /\ n >= 1
    BY SizeIs
  <1>2. PICK w : w = Applied(m, ub, slots)
    OBVIOUS
  <1>3. /\ DOMAIN ub \subseteq Streams
        /\ \A st \in DOMAIN ub : Slotted(n, slots[st], ub[st])
        /\ m.cells \in [Streams -> Sound(n)] /\ m.heads \in [Streams -> 0 .. n]
        /\ \A st \in Streams : ~m.cells[st].has_shift
    BY <1>1 DEF Laid, Steady
  <1>4. PICK cells, heads :
          /\ cells = [st \in Streams |->
               IF st \in DOMAIN ub THEN ApplyStream(m.cells[st], slots[st], ub[st]) ELSE m.cells[st]]
          /\ heads = [st \in Streams |->
               IF st \in DOMAIN ub THEN Last(slots[st]) + 1 ELSE m.heads[st]]
    OBVIOUS
  <1>5. w = [cells |-> cells, heads |-> heads]
    BY <1>2, <1>4, Zenon DEF Applied
  <1>6. ASSUME NEW st \in DOMAIN ub
        PROVE  Landed(n, m.cells[st], cells[st], slots[st], ub[st]) /\ st \in Streams
    <2>1. st \in Streams /\ m.cells[st] \in Sound(n) /\ Slotted(n, slots[st], ub[st])
      BY <1>3
    <2>2. cells[st] = ApplyStream(m.cells[st], slots[st], ub[st])
      BY <1>4, <2>1
    <2> QED BY <2>1, <2>2, ApplyStreamIs
  <1>7. ASSUME NEW st \in Streams PROVE cells[st] \in Sound(n) /\ ~cells[st].has_shift
    <2>1. CASE st \in DOMAIN ub
      BY <1>3, <1>6, <2>1 DEF Landed
    <2>2. CASE st \notin DOMAIN ub
      BY <1>3, <1>4, <2>2
    <2> QED BY <2>1, <2>2
  <1>8. ASSUME NEW st \in Streams PROVE heads[st] \in 0 .. n
    <2>1. CASE st \in DOMAIN ub
      <3>1. PICK s : s = slots[st]
        OBVIOUS
      <3>2. s \in Seq(0 .. n - 1) /\ Len(s) >= 1
        BY <1>3, <2>1, <3>1 DEF Slotted
      <3>3. s[Len(s)] \in 0 .. n - 1
        BY <3>2
      <3>4. heads[st] = s[Len(s)] + 1
        BY <1>4, <2>1, <3>1 DEF Last
      <3> QED BY <3>3, <3>4
    <2>2. CASE st \notin DOMAIN ub
      BY <1>3, <1>4, <2>2
    <2> QED BY <2>1, <2>2
  <1>9. cells \in [Streams -> Sound(n)] /\ heads \in [Streams -> 0 .. n]
    BY <1>4, <1>7, <1>8
  <1>10. Steady(w)
    BY <1>1, <1>5, <1>7, <1>9 DEF Steady
  <1>11. \A st \in Streams : st \notin DOMAIN ub => cells[st] = m.cells[st]
    BY <1>4
  <1>12. w.cells = cells
    BY <1>5
  <1> QED BY <1>1, <1>2, <1>6, <1>10, <1>11, <1>12, Zenon DEF Applies

\* What prepare() keeps of the memory m, which becomes w.
Remembered(m, w, state) ==
  /\ Steady(m) /\ Steady(w)
  /\ DOMAIN state.slots \in SUBSET Streams /\ state.heads = m.heads
  /\ \A st \in DOMAIN state.slots :
       /\ SavedCells(conf.size, m.cells[st], state.slots[st], state.cells[st])
       /\ \A i \in Idx : (\A k \in DOMAIN state.slots[st] : state.slots[st][k] # i)
                           => CarriedAt(m.cells[st], w.cells[st], i)
  /\ \A st \in Streams : st \notin DOMAIN state.slots => w.cells[st] = m.cells[st]

\* The stream that the s-th index of a slot info names.
LEMMA Place0In ==
  ASSUME conf \in Confs, NEW S \in SUBSET Streams, NEW st \in S
  PROVE  Place0(S, st) \in Streams
  <1>1. PICK T : T = {x \in S : x < st}
    OBVIOUS
  <1>2. Place0(S, st) = Cardinality(T)
    BY <1>1 DEF Place0
  <1>3. PICK N \in Nat : Streams = 0 .. N - 1
    <2>1. PICK C \in Nat : C = Cardinality(Seq_id) /\ Seq_id = 0 .. C - 1
      BY KVCellsAssumption, KVCacheAssumption, FS_CardinalityType
    <2>2. CASE conf.unified
      <3>1. Streams = {0} /\ {0} = 0 .. 1 - 1
        BY <2>2 DEF Streams
      <3> QED BY <3>1
    <2>3. CASE ~conf.unified
      BY <2>1, <2>3 DEF Streams
    <2> QED BY <2>2, <2>3
  <1>4. /\ st \in Nat /\ st < N
        /\ \A x \in S : x \in Nat
    BY <1>3
  <1>5. T \subseteq 0 .. st - 1
    <2>1. ASSUME NEW x \in T PROVE x \in 0 .. st - 1
      <3>1. x \in S /\ x < st
        BY <1>1
      <3>2. x \in Nat
        BY <1>4, <3>1
      <3> QED BY <1>4, <3>1, <3>2
    <2> QED BY <2>1
  <1>6. 0 \in Int /\ st - 1 \in Int /\ (0 > st - 1 <=> st = 0)
    BY <1>4
  <1>7. IsFiniteSet(0 .. st - 1)
        /\ Cardinality(0 .. st - 1) = IF 0 > st - 1 THEN 0 ELSE st - 1 - 0 + 1
    BY <1>6, FS_Interval
  <1>8. Cardinality(0 .. st - 1) = st
    BY <1>4, <1>6, <1>7
  <1>9. Cardinality(T) \in Nat /\ Cardinality(T) <= st
    BY <1>5, <1>7, <1>8, FS_Subset, FS_CardinalityType
  <1> QED BY <1>2, <1>3, <1>4, <1>9

\* Going back from an ubatch to the remembered cells keeps the keys of what was there.
LEMMA UndoIs ==
  ASSUME conf \in Confs, NEW m, NEW w, NEW state, Remembered(m, w, state),
         NEW x, Steady(x), CarriedAll(w, x)
  PROVE  Steady(Undo(state, x)) /\ CarriedAll(m, Undo(state, x))
  <1>1. PICK n \in Nat : n = conf.size /\ n >= 1 /\ Idx = 0 .. n - 1
    BY SizeIs
  <1>2. PICK S : S = DOMAIN state.slots
    OBVIOUS
  <1>3. PICK u : u = Undo(state, x)
    OBVIOUS
  <1>4. PICK cells, heads :
          /\ cells = [st \in Streams |->
               IF st \in S THEN RestoreCells(state, x.cells[st], st) ELSE x.cells[st]]
          /\ heads = [st \in Streams |->
               IF st \in S THEN state.heads[Place0(S, st)] ELSE x.heads[st]]
    OBVIOUS
  <1>5. u = [cells |-> cells, heads |-> heads]
    BY <1>2, <1>3, <1>4, Zenon DEF Undo
  <1>6. /\ S \in SUBSET Streams /\ state.heads = m.heads
        /\ m.cells \in [Streams -> Sound(n)] /\ m.heads \in [Streams -> 0 .. n]
        /\ w.cells \in [Streams -> Sound(n)]
        /\ x.cells \in [Streams -> Sound(n)] /\ x.heads \in [Streams -> 0 .. n]
        /\ \A st \in Streams : ~x.cells[st].has_shift /\ ~m.cells[st].has_shift
    BY <1>1, <1>2 DEF Remembered, Steady
  <1>7. ASSUME NEW st \in Streams
        PROVE  /\ cells[st] \in Sound(n) /\ ~cells[st].has_shift
               /\ Carried(n, m.cells[st], cells[st])
    <2>1. PICK a, b, c, d : a = m.cells[st] /\ b = w.cells[st] /\ c = x.cells[st] /\ d = cells[st]
      OBVIOUS
    <2>2. /\ a \in Sound(n) /\ b \in Sound(n) /\ c \in Sound(n) /\ ~c.has_shift /\ ~a.has_shift
          /\ Carried(n, b, c)
      BY <1>1, <1>6, <2>1 DEF CarriedAll
    <2>3. CASE st \notin S
      <3>1. b = a /\ d = c
        BY <1>2, <1>4, <2>1, <2>3 DEF Remembered
      <3> QED BY <2>1, <2>2, <3>1
    <2>4. CASE st \in S
      <3>1. PICK slots, saved : slots = state.slots[st] /\ saved = state.cells[st]
        OBVIOUS
      <3>2. /\ SavedCells(n, a, slots, saved)
            /\ \A i \in 0 .. n - 1 : (\A k \in DOMAIN slots : slots[k] # i) => CarriedAt(a, b, i)
        BY <1>1, <1>2, <2>1, <2>4, <3>1 DEF Remembered
      <3>3. d = RestoreCells(state, c, st)
        BY <1>4, <2>1, <2>4
      <3>4. d \in PutTo(n, c, slots, saved, Len(slots))
        BY <2>2, <3>1, <3>2, <3>3, RestoreCellsIs
      <3>5. /\ DOMAIN slots = 1 .. Len(slots)
            /\ \A k \in DOMAIN slots : slots[k] \in 0 .. n - 1 /\ saved[k] = Saved(a, slots[k])
        BY <3>2 DEF SavedCells
      <3>6. d \in Sound(n) /\ ~d.has_shift
        BY <2>2, <3>4 DEF PutTo
      <3>7. ASSUME NEW i \in 0 .. n - 1 PROVE CarriedAt(a, d, i)
        <4>1. CASE \E k \in DOMAIN slots : slots[k] = i
          <5>1. PICK k \in DOMAIN slots : slots[k] = i
            BY <4>1
          <5>2. d.pos[i] = saved[k].pos /\ d.shift[i] = 0
            BY <3>4, <3>5, <5>1 DEF PutTo
          <5>3. saved[k].pos = a.pos[i]
            <6>1. saved[k] = Saved(a, i)
              BY <3>5, <5>1
            <6> QED BY <6>1 DEF Saved
          <5>4. a.shift[i] = 0
            BY <2>2, Cell
          <5> QED BY <5>2, <5>3, <5>4 DEF CarriedAt
        <4>2. CASE \A k \in DOMAIN slots : slots[k] # i
          <5>1. CarriedAt(a, b, i) /\ CarriedAt(b, c, i)
            BY <2>2, <3>2, <4>2 DEF Carried
          <5>2. SameAt(c, d, i)
            BY <3>4, <3>5, <4>2 DEF PutTo
          <5> QED BY <5>1, <5>2 DEF CarriedAt, SameAt
        <4> QED BY <4>1, <4>2
      <3> QED BY <2>1, <3>6, <3>7 DEF Carried
    <2> QED BY <2>3, <2>4
  <1>8. ASSUME NEW st \in Streams PROVE heads[st] \in 0 .. n
    <2>1. CASE st \in S
      <3>1. Place0(S, st) \in Streams
        BY <1>6, <2>1, Place0In
      <3> QED BY <1>4, <1>6, <2>1, <3>1
    <2>2. CASE st \notin S
      BY <1>4, <1>6, <2>2
    <2> QED BY <2>1, <2>2
  <1>9. cells \in [Streams -> Sound(n)] /\ heads \in [Streams -> 0 .. n]
    BY <1>4, <1>7, <1>8
  <1>10. Steady(u)
    BY <1>1, <1>5, <1>7, <1>9 DEF Steady
  <1>11. u.cells = cells
    BY <1>5
  <1>12. CarriedAll(m, u)
    BY <1>1, <1>7, <1>11 DEF CarriedAll
  <1> QED BY <1>3, <1>10, <1>12

----------------------------------------------------------------------------
(* prepare(), of at most two ubatches *)

FirstTry(m) == [ok |-> TRUE, m |-> m, steps |-> <<>>, states |-> <<>>]

\* The loop of prepare() over one ubatch.
LEMMA TriedOnce ==
  ASSUME NEW m, NEW ubs, Len(ubs) = 1
  PROVE  Tried(m, ubs) = Try(FirstTry(m), ubs[1])
  <1> DEFINE N == Len(ubs)
             base == [ok |-> TRUE, m |-> m, steps |-> <<>>, states |-> <<>>]
  <1>0. N = 1 /\ FirstTry(m) = base
    BY DEF FirstTry
  <1> HIDE DEF N, base
  <1>1. PICK f : f = [k \in 0 .. 1 |-> IF k = 0 THEN base ELSE Try(base, ubs[1])]
    OBVIOUS
  <1>2. f = [k \in 0 .. N |-> IF k = 0 THEN base ELSE Try(f[k - 1], ubs[k])]
    <2>1. ASSUME NEW k \in 0 .. 1, k # 0 PROVE f[k - 1] = base /\ ubs[k] = ubs[1]
      <3>1. k = 1 /\ f[0] = base
        BY <1>1, <2>1
      <3> QED BY <3>1
    <2>2. ASSUME NEW k \in 0 .. 1, k # 0 PROVE Try(base, ubs[1]) = Try(f[k - 1], ubs[k])
      BY <2>1, <2>2, Zenon
    <2> QED BY <1>0, <1>1, <2>2, Zenon
  <1>3. ASSUME NEW g, g = [k \in 0 .. N |-> IF k = 0 THEN base ELSE Try(g[k - 1], ubs[k])]
        PROVE  g[N] = Try(base, ubs[1])
    <2>1. g[0] = base
      BY <1>0, <1>3
    <2>2. 1 \in 0 .. N /\ 1 # 0 /\ 1 - 1 = 0
      BY <1>0
    <2>3. g[1] = Try(g[1 - 1], ubs[1])
      BY <1>3, <2>2, Zenon
    <2> QED BY <1>0, <2>1, <2>2, <2>3
  <1>4. Tried(m, ubs) = Try(base, ubs[1])
    BY <1>2, <1>3, Zenon DEF Tried, For, N, base
  <1> QED BY <1>0, <1>4

\* The loop of prepare() over two ubatches.
LEMMA TriedTwice ==
  ASSUME NEW m, NEW ubs, Len(ubs) = 2
  PROVE  Tried(m, ubs) = Try(Try(FirstTry(m), ubs[1]), ubs[2])
  <1> DEFINE N == Len(ubs)
             base == [ok |-> TRUE, m |-> m, steps |-> <<>>, states |-> <<>>]
             one == Try(base, ubs[1])
  <1>0. N = 2 /\ FirstTry(m) = base
    BY DEF FirstTry
  <1> HIDE DEF N, base
  <1>1. PICK f : f = [k \in 0 .. 2 |-> IF k = 0 THEN base ELSE IF k = 1 THEN one ELSE Try(one, ubs[2])]
    OBVIOUS
  <1>2. f = [k \in 0 .. N |-> IF k = 0 THEN base ELSE Try(f[k - 1], ubs[k])]
    <2>1. f[0] = base /\ f[1] = one
      BY <1>1
    <2>2. ASSUME NEW k \in 0 .. 2
          PROVE  (IF k = 0 THEN base ELSE IF k = 1 THEN one ELSE Try(one, ubs[2]))
                   = IF k = 0 THEN base ELSE Try(f[k - 1], ubs[k])
      <3>1. k = 0 \/ (k = 1 /\ k - 1 = 0) \/ (k = 2 /\ k - 1 = 1)
        OBVIOUS
      <3> QED BY <2>1, <3>1
    <2> QED BY <1>0, <1>1, <2>2, Zenon
  <1>3. ASSUME NEW g, g = [k \in 0 .. N |-> IF k = 0 THEN base ELSE Try(g[k - 1], ubs[k])]
        PROVE  g[N] = Try(one, ubs[2])
    <2>1. g[0] = base
      BY <1>0, <1>3
    <2>2. 1 \in 0 .. N /\ 1 # 0 /\ 1 - 1 = 0 /\ 2 \in 0 .. N /\ 2 # 0 /\ 2 - 1 = 1
      BY <1>0
    <2>3. g[1] = Try(g[1 - 1], ubs[1]) /\ g[2] = Try(g[2 - 1], ubs[2])
      BY <1>3, <2>2, Zenon
    <2>4. g[1] = one
      BY <2>1, <2>2, <2>3
    <2> QED BY <1>0, <2>2, <2>3, <2>4
  <1>4. Tried(m, ubs) = Try(one, ubs[2])
    BY <1>2, <1>3, Zenon DEF Tried, For, N, base
  <1> QED BY <1>0, <1>4

\* No ubatch is undone.
LEMMA UndoneNone ==
  ASSUME NEW t, Len(t.states) = 0
  PROVE  Undone(t) = t.m
  <1> DEFINE N == Len(t.states)
  <1>0. N = 0
    OBVIOUS
  <1> HIDE DEF N
  <1>1. PICK f : f = [k \in 0 .. 0 |-> t.m]
    OBVIOUS
  <1>2. f = [k \in 0 .. N |-> IF k = 0 THEN t.m ELSE Undo(t.states[N + 1 - k], f[k - 1])]
    <2>1. \A k \in 0 .. 0 : t.m = IF k = 0 THEN t.m ELSE Undo(t.states[N + 1 - k], f[k - 1])
      OBVIOUS
    <2> QED BY <1>0, <1>1, <2>1, Zenon
  <1>3. ASSUME NEW g,
               g = [k \in 0 .. N |-> IF k = 0 THEN t.m ELSE Undo(t.states[N + 1 - k], g[k - 1])]
        PROVE  g[N] = t.m
    BY <1>0, <1>3
  <1> QED BY <1>2, <1>3, Zenon DEF Undone, For, N

\* One ubatch is undone.
LEMMA UndoneOnce ==
  ASSUME NEW t, Len(t.states) = 1
  PROVE  Undone(t) = Undo(t.states[1], t.m)
  <1> DEFINE N == Len(t.states)
             one == Undo(t.states[1], t.m)
  <1>0. N = 1
    OBVIOUS
  <1> HIDE DEF N
  <1>1. PICK f : f = [k \in 0 .. 1 |-> IF k = 0 THEN t.m ELSE one]
    OBVIOUS
  <1>2. f = [k \in 0 .. N |-> IF k = 0 THEN t.m ELSE Undo(t.states[N + 1 - k], f[k - 1])]
    <2>1. f[0] = t.m
      BY <1>1
    <2>2. ASSUME NEW k \in 0 .. 1
          PROVE  (IF k = 0 THEN t.m ELSE one)
                   = IF k = 0 THEN t.m ELSE Undo(t.states[N + 1 - k], f[k - 1])
      <3>1. k = 0 \/ (k = 1 /\ k - 1 = 0 /\ N + 1 - k = 1)
        BY <1>0
      <3> QED BY <2>1, <3>1
    <2> QED BY <1>0, <1>1, <2>2, Zenon
  <1>3. ASSUME NEW g,
               g = [k \in 0 .. N |-> IF k = 0 THEN t.m ELSE Undo(t.states[N + 1 - k], g[k - 1])]
        PROVE  g[N] = one
    <2>1. g[0] = t.m
      BY <1>0, <1>3
    <2>2. 1 \in 0 .. N /\ 1 # 0 /\ 1 - 1 = 0 /\ N + 1 - 1 = 1
      BY <1>0
    <2>3. g[1] = Undo(t.states[N + 1 - 1], g[1 - 1])
      BY <1>3, <2>2, Zenon
    <2> QED BY <1>0, <2>1, <2>2, <2>3
  <1>4. Undone(t) = one
    BY <1>2, <1>3, Zenon DEF Undone, For, N
  <1> QED BY <1>4

\* Two ubatches are undone, the last one first.
LEMMA UndoneTwice ==
  ASSUME NEW t, Len(t.states) = 2
  PROVE  Undone(t) = Undo(t.states[1], Undo(t.states[2], t.m))
  <1> DEFINE N == Len(t.states)
             one == Undo(t.states[2], t.m)
             two == Undo(t.states[1], one)
  <1>0. N = 2
    OBVIOUS
  <1> HIDE DEF N
  <1>1. PICK f : f = [k \in 0 .. 2 |-> IF k = 0 THEN t.m ELSE IF k = 1 THEN one ELSE two]
    OBVIOUS
  <1>2. f = [k \in 0 .. N |-> IF k = 0 THEN t.m ELSE Undo(t.states[N + 1 - k], f[k - 1])]
    <2>1. f[0] = t.m /\ f[1] = one
      BY <1>1
    <2>2. ASSUME NEW k \in 0 .. 2
          PROVE  (IF k = 0 THEN t.m ELSE IF k = 1 THEN one ELSE two)
                   = IF k = 0 THEN t.m ELSE Undo(t.states[N + 1 - k], f[k - 1])
      <3>1. \/ k = 0
            \/ k = 1 /\ k - 1 = 0 /\ N + 1 - k = 2
            \/ k = 2 /\ k - 1 = 1 /\ N + 1 - k = 1
        BY <1>0
      <3> QED BY <2>1, <3>1
    <2> QED BY <1>0, <1>1, <2>2, Zenon
  <1>3. ASSUME NEW g,
               g = [k \in 0 .. N |-> IF k = 0 THEN t.m ELSE Undo(t.states[N + 1 - k], g[k - 1])]
        PROVE  g[N] = two
    <2>1. g[0] = t.m
      BY <1>0, <1>3
    <2>2. /\ 1 \in 0 .. N /\ 1 # 0 /\ 1 - 1 = 0 /\ N + 1 - 1 = 2
          /\ 2 \in 0 .. N /\ 2 # 0 /\ 2 - 1 = 1 /\ N + 1 - 2 = 1
      BY <1>0
    <2>3. g[1] = Undo(t.states[N + 1 - 1], g[1 - 1]) /\ g[2] = Undo(t.states[N + 1 - 2], g[2 - 1])
      BY <1>3, <2>2, Zenon
    <2>4. g[1] = one
      BY <2>1, <2>2, <2>3
    <2> QED BY <1>0, <2>2, <2>3, <2>4
  <1>4. Undone(t) = two
    BY <1>2, <1>3, Zenon DEF Undone, For, N
  <1> QED BY <1>4

Tokens(u) ==
  /\ DOMAIN u \in SUBSET Streams
  /\ \A st \in DOMAIN u : u[st] \in Seq(Token) /\ Len(u[st]) >= 1

Batched(u) == Tokens(u) /\ Computed(u)

Planned(steps) ==
  /\ steps \in Seq(Range(steps))
  /\ \A k \in DOMAIN steps : Laid(steps[k].ub, steps[k].slots) /\ Computed(steps[k].ub)

\* The slots found are different cells for the tokens of each stream.
LEMMA FindSlotsAre ==
  ASSUME conf \in Confs, NEW m, Steady(m), NEW u, Tokens(u), Found(FindSlots(m, u))
  PROVE  Laid(u, FindSlots(m, u))
  <1>1. PICK n \in Nat : n = conf.size
    BY SizeIs
  <1>2. PICK slots : slots = FindSlots(m, u)
    OBVIOUS
  <1>3. slots = [st \in DOMAIN u |-> FindSlot(m.cells[st], m.heads[st], Len(u[st]))]
    BY <1>2, Zenon DEF FindSlots
  <1>4. DOMAIN slots = DOMAIN u /\ \A st \in DOMAIN u : slots[st] # <<>>
    BY <1>2, <1>3 DEF Found
  <1>5. ASSUME NEW st \in DOMAIN u PROVE Slotted(n, slots[st], u[st])
    <2>1. st \in Streams /\ u[st] \in Seq(Token) /\ Len(u[st]) \in Nat
      BY DEF Tokens
    <2>2. m.heads[st] \in 0 .. conf.size
      BY <2>1 DEF Steady
    <2>3. PICK r : r = FindSlot(m.cells[st], m.heads[st], Len(u[st]))
      OBVIOUS
    <2>4. Offered(n, r, Len(u[st]))
      BY <1>1, <2>1, <2>2, <2>3, FindSlotIs
    <2>5. r = slots[st] /\ r # <<>>
      BY <1>3, <1>4, <2>3
    <2> QED BY <2>1, <2>4, <2>5 DEF Offered, Slotted
  <1>6. DOMAIN u \in SUBSET Streams
    BY DEF Tokens
  <1> QED BY <1>1, <1>2, <1>4, <1>5, <1>6 DEF Laid

\* What try t becomes when cells are found for one ubatch more.
Tested(t, u, slots, state, r) ==
  /\ Laid(u, slots) /\ Remembered(t.m, r.m, state)
  /\ r = [ok |-> TRUE, m |-> r.m, steps |-> Append(t.steps, [ub |-> u, slots |-> slots]),
          states |-> Append(t.states, state)]

\* A round of prepare() fails, or places an ubatch and remembers what was there.
LEMMA TryIs ==
  ASSUME conf \in Confs, NEW t, Steady(t.m), NEW u, Batched(u)
  PROVE  \/ Try(t, u) = [t EXCEPT !.ok = FALSE]
         \/ \E slots, state : Tested(t, u, slots, state, Try(t, u))
  <1>1. PICK n \in Nat : n = conf.size
    BY SizeIs
  <1>2. PICK slots : slots = FindSlots(t.m, u)
    OBVIOUS
  <1>3. PICK w : w = Applied(t.m, u, slots)
    OBVIOUS
  <1>4. PICK state :
          state = [slots |-> slots, heads |-> t.m.heads,
                   cells |-> [st \in DOMAIN u |->
                     [k \in DOMAIN slots[st] |-> Saved(t.m.cells[st], slots[st][k])]]]
    OBVIOUS
  <1>5. PICK r : r = Try(t, u)
    OBVIOUS
  <1>6. r = IF ~t.ok \/ ~Found(slots) THEN [t EXCEPT !.ok = FALSE]
            ELSE [ok |-> TRUE, m |-> w, steps |-> Append(t.steps, [ub |-> u, slots |-> slots]),
                  states |-> Append(t.states, state)]
    BY <1>2, <1>3, <1>4, <1>5, Zenon DEF Try
  <1>7. CASE ~t.ok \/ ~Found(slots)
    BY <1>5, <1>6, <1>7
  <1>8. CASE t.ok /\ Found(slots)
    <2>1. Laid(u, slots)
      BY <1>2, <1>8, FindSlotsAre DEF Batched
    <2>2. Applies(t.m, w, u, slots)
      BY <1>3, <2>1, AppliedIs
    <2>3. /\ r.m = w
          /\ r = [ok |-> TRUE, m |-> w, steps |-> Append(t.steps, [ub |-> u, slots |-> slots]),
                  states |-> Append(t.states, state)]
      BY <1>6, <1>8
    <2>4. state.slots = slots /\ state.heads = t.m.heads /\ DOMAIN slots = DOMAIN u
          /\ DOMAIN u \in SUBSET Streams
      BY <1>4, <2>1 DEF Laid
    <2>5. ASSUME NEW st \in DOMAIN u
          PROVE  /\ SavedCells(n, t.m.cells[st], state.slots[st], state.cells[st])
                 /\ \A i \in Idx : (\A k \in DOMAIN state.slots[st] : state.slots[st][k] # i)
                           => CarriedAt(t.m.cells[st], w.cells[st], i)
      <3>1. Slotted(n, slots[st], u[st]) /\ Landed(n, t.m.cells[st], w.cells[st], slots[st], u[st])
        BY <1>1, <2>1, <2>2 DEF Laid, Applies
      <3>2. state.cells[st] = [k \in DOMAIN slots[st] |-> Saved(t.m.cells[st], slots[st][k])]
        BY <1>4
      <3>3. SavedCells(n, t.m.cells[st], slots[st], state.cells[st])
        BY <3>1, <3>2 DEF Slotted, SavedCells
      <3>4. Idx = 0 .. n - 1
        BY <1>1, SizeIs
      <3> QED BY <2>4, <3>1, <3>3, <3>4 DEF Landed
    <2>6. Steady(w) /\ \A st \in Streams : st \notin DOMAIN u => w.cells[st] = t.m.cells[st]
      BY <2>2 DEF Applies
    <2>7. Remembered(t.m, w, state)
      BY <1>1, <2>4, <2>5, <2>6 DEF Remembered
    <2> QED BY <1>5, <2>1, <2>3, <2>7 DEF Tested
  <1> QED BY <1>7, <1>8

\* The tries of at most two ubatches.
Trying(m, t) ==
  /\ t = [ok |-> t.ok, m |-> t.m, steps |-> t.steps, states |-> t.states]
  /\ Steady(t.m)
  /\ \/ t.states = <<>> /\ t.m = m /\ t.steps = <<>>
     \/ \E s, x : t.states = <<s>> /\ Remembered(m, t.m, s) /\ t.steps = <<x>>
     \/ \E s, x, w, s2, x2 : /\ t.states = <<s, s2>> /\ t.steps = <<x, x2>>
                             /\ Remembered(m, w, s) /\ Remembered(w, t.m, s2)
  /\ \A k \in DOMAIN t.steps : Laid(t.steps[k].ub, t.steps[k].slots) /\ Computed(t.steps[k].ub)

\* The first round of prepare().
LEMMA TryOnce ==
  ASSUME conf \in Confs, NEW m, Steady(m), NEW u, Batched(u)
  PROVE  Trying(m, Try(FirstTry(m), u)) /\ Len(Try(FirstTry(m), u).states) \in 0 .. 1
  <1>1. PICK t : t = FirstTry(m)
    OBVIOUS
  <1>2. t = [ok |-> TRUE, m |-> m, steps |-> <<>>, states |-> <<>>]
    BY <1>1 DEF FirstTry
  <1>3. PICK r : r = Try(t, u)
    OBVIOUS
  <1>4. CASE r = [t EXCEPT !.ok = FALSE]
    <2>1. r = [ok |-> FALSE, m |-> m, steps |-> <<>>, states |-> <<>>]
      BY <1>2, <1>4
    <2> QED BY <1>1, <1>3, <2>1 DEF Trying
  <1>5. CASE \E slots, state : Tested(t, u, slots, state, r)
    <2>1. PICK slots, state : Tested(t, u, slots, state, r)
      BY <1>5
    <2>2. PICK x : x = [ub |-> u, slots |-> slots]
      OBVIOUS
    <2>3. /\ Laid(u, slots) /\ Remembered(m, r.m, state)
          /\ r = [ok |-> TRUE, m |-> r.m, steps |-> <<x>>, states |-> <<state>>]
      BY <1>2, <2>1, <2>2 DEF Tested
    <2>4. Steady(r.m) /\ Computed(u)
      BY <2>3 DEF Remembered, Batched
    <2>5. r.steps = <<x>> /\ r.states = <<state>> /\ r.ok = TRUE
      BY <2>3
    <2>6. \A k \in DOMAIN r.steps : Laid(r.steps[k].ub, r.steps[k].slots) /\ Computed(r.steps[k].ub)
      BY <2>2, <2>3, <2>4, <2>5
    <2>7. Trying(m, r)
      BY <2>3, <2>4, <2>5, <2>6 DEF Trying
    <2> QED BY <1>1, <1>3, <2>5, <2>7
  <1>6. Steady(t.m)
    BY <1>2
  <1> QED BY <1>3, <1>4, <1>5, <1>6, TryIs

\* The second round of prepare().
LEMMA TryTwice ==
  ASSUME conf \in Confs, NEW m, NEW t, Trying(m, t), Len(t.states) \in 0 .. 1, NEW u, Batched(u)
  PROVE  Trying(m, Try(t, u))
  <1>1. PICK r : r = Try(t, u)
    OBVIOUS
  <1>2. /\ t = [ok |-> t.ok, m |-> t.m, steps |-> t.steps, states |-> t.states]
        /\ Steady(t.m)
        /\ \/ t.states = <<>> /\ t.m = m /\ t.steps = <<>>
           \/ \E s, x : t.states = <<s>> /\ Remembered(m, t.m, s) /\ t.steps = <<x>>
        /\ \A k \in DOMAIN t.steps : Laid(t.steps[k].ub, t.steps[k].slots) /\ Computed(t.steps[k].ub)
    BY DEF Trying
  <1>3. CASE r = [t EXCEPT !.ok = FALSE]
    <2>1. r = [ok |-> FALSE, m |-> t.m, steps |-> t.steps, states |-> t.states]
      BY <1>2, <1>3
    <2>2. r.ok = FALSE /\ r.m = t.m /\ r.steps = t.steps /\ r.states = t.states
      BY <2>1
    <2>3. Trying(m, r)
      BY <1>2, <2>1, <2>2 DEF Trying
    <2> QED BY <1>1, <2>3
  <1>4. CASE \E slots, state : Tested(t, u, slots, state, r)
    <2>1. PICK slots, state : Tested(t, u, slots, state, r)
      BY <1>4
    <2>2. PICK x : x = [ub |-> u, slots |-> slots]
      OBVIOUS
    <2>3. /\ Laid(u, slots) /\ Remembered(t.m, r.m, state)
          /\ r = [ok |-> TRUE, m |-> r.m, steps |-> Append(t.steps, x),
                  states |-> Append(t.states, state)]
      BY <2>1, <2>2 DEF Tested
    <2>4. Steady(r.m) /\ Computed(u) /\ x.ub = u /\ x.slots = slots
      BY <2>2, <2>3 DEF Remembered, Batched
    <2>5. r.steps = Append(t.steps, x) /\ r.states = Append(t.states, state) /\ r.ok = TRUE
      BY <2>3
    <2>6. CASE t.states = <<>> /\ t.m = m /\ t.steps = <<>>
      <3>1. r.steps = <<x>> /\ r.states = <<state>> /\ Remembered(m, r.m, state)
        BY <2>3, <2>5, <2>6
      <3>2. \A k \in DOMAIN r.steps : Laid(r.steps[k].ub, r.steps[k].slots) /\ Computed(r.steps[k].ub)
        BY <2>3, <2>4, <3>1
      <3>3. Trying(m, r)
        BY <2>3, <2>4, <2>5, <3>1, <3>2 DEF Trying
      <3> QED BY <1>1, <3>3
    <2>7. CASE \E s, y : t.states = <<s>> /\ Remembered(m, t.m, s) /\ t.steps = <<y>>
      <3>1. PICK s, y : t.states = <<s>> /\ Remembered(m, t.m, s) /\ t.steps = <<y>>
        BY <2>7
      <3>2. r.steps = <<y, x>> /\ r.states = <<s, state>>
        <4>1. ASSUME NEW a, NEW b PROVE Append(<<a>>, b) = <<a, b>>
          <5>1. PICK p, q : p = Append(<<a>>, b) /\ q = <<a, b>>
            OBVIOUS
          <5>2. /\ p \in Seq({a, b}) /\ Len(p) = 2 /\ p[1] = a /\ p[2] = b
                /\ q \in Seq({a, b}) /\ Len(q) = 2 /\ q[1] = a /\ q[2] = b
            BY <5>1, AppendProperties
          <5>3. \A k \in 1 .. 2 : p[k] = q[k]
            BY <5>2
          <5>4. p = q
            BY <5>2, <5>3, SeqEqual
          <5> QED BY <5>1, <5>4
        <4> QED BY <2>5, <3>1, <4>1, Zenon
      <3>3. Laid(y.ub, y.slots) /\ Computed(y.ub)
        BY <1>2, <3>1
      <3>4. \A k \in DOMAIN r.steps : Laid(r.steps[k].ub, r.steps[k].slots) /\ Computed(r.steps[k].ub)
        BY <2>3, <2>4, <3>2, <3>3
      <3>5. Trying(m, r)
        BY <2>3, <2>4, <2>5, <3>1, <3>2, <3>4 DEF Trying
      <3> QED BY <1>1, <3>5
    <2> QED BY <1>2, <2>6, <2>7
  <1> QED BY <1>1, <1>2, <1>3, <1>4, TryIs

\* prepare() leaves what was there, and cells for the ubatches.
LEMMA Prepared ==
  ASSUME conf \in Confs, NEW m, Steady(m), NEW ubs,
         \/ Len(ubs) = 1 /\ Batched(ubs[1])
         \/ Len(ubs) = 2 /\ Batched(ubs[1]) /\ Batched(ubs[2])
  PROVE  /\ Steady(Undone(Tried(m, ubs))) /\ CarriedAll(m, Undone(Tried(m, ubs)))
         /\ Planned(Tried(m, ubs).steps)
  <1>1. PICK t : t = Tried(m, ubs)
    OBVIOUS
  <1>2. Trying(m, t)
    <2>1. CASE Len(ubs) = 1 /\ Batched(ubs[1])
      BY <1>1, <2>1, TriedOnce, TryOnce
    <2>2. CASE Len(ubs) = 2 /\ Batched(ubs[1]) /\ Batched(ubs[2])
      <3>1. PICK r : r = Try(FirstTry(m), ubs[1])
        OBVIOUS
      <3>2. Trying(m, r) /\ Len(r.states) \in 0 .. 1
        BY <2>2, <3>1, TryOnce
      <3>3. Trying(m, Try(r, ubs[2]))
        BY <2>2, <3>2, TryTwice
      <3> QED BY <1>1, <2>2, <3>1, <3>3, TriedTwice
    <2> QED BY <2>1, <2>2
  <1>3. PICK u : u = Undone(t)
    OBVIOUS
  <1>4. ASSUME NEW w, Steady(w) PROVE CarriedAll(w, w)
    <2>1. \A st \in Streams : \A i \in 0 .. conf.size - 1 :
            w.cells[st].pos[i] - w.cells[st].shift[i] = w.cells[st].pos[i] - w.cells[st].shift[i]
      OBVIOUS
    <2> QED BY <2>1 DEF CarriedAll, Carried, CarriedAt
  <1>5. Steady(u) /\ CarriedAll(m, u)
    <2>1. CASE t.states = <<>> /\ t.m = m
      <3>1. Len(t.states) = 0
        BY <2>1
      <3>2. u = m
        BY <1>3, <2>1, <3>1, UndoneNone
      <3> QED BY <1>4, <3>2
    <2>2. CASE \E s : t.states = <<s>> /\ Remembered(m, t.m, s)
      <3>1. PICK s : t.states = <<s>> /\ Remembered(m, t.m, s)
        BY <2>2
      <3>2. Len(t.states) = 1 /\ t.states[1] = s
        BY <3>1
      <3>3. u = Undo(s, t.m)
        BY <1>3, <3>2, UndoneOnce
      <3>4. Steady(t.m) /\ CarriedAll(t.m, t.m)
        BY <1>2, <1>4 DEF Trying
      <3>5. Steady(Undo(s, t.m)) /\ CarriedAll(m, Undo(s, t.m))
        BY <3>1, <3>4, UndoIs
      <3> QED BY <3>3, <3>5
    <2>3. CASE \E s, w, s2 : /\ t.states = <<s, s2>>
                             /\ Remembered(m, w, s) /\ Remembered(w, t.m, s2)
      <3>1. PICK s, w, s2 : t.states = <<s, s2>> /\ Remembered(m, w, s) /\ Remembered(w, t.m, s2)
        BY <2>3
      <3>2. Len(t.states) = 2 /\ t.states[1] = s /\ t.states[2] = s2
        BY <3>1
      <3>3. u = Undo(s, Undo(s2, t.m))
        BY <1>3, <3>2, UndoneTwice
      <3>4. Steady(t.m) /\ CarriedAll(t.m, t.m)
        BY <1>2, <1>4 DEF Trying
      <3>5. PICK x : x = Undo(s2, t.m)
        OBVIOUS
      <3>6. Steady(x) /\ CarriedAll(w, x)
        BY <3>1, <3>4, <3>5, UndoIs
      <3>7. Steady(Undo(s, x)) /\ CarriedAll(m, Undo(s, x))
        BY <3>1, <3>6, UndoIs
      <3> QED BY <3>3, <3>5, <3>7
    <2>4. \/ t.states = <<>> /\ t.m = m
          \/ \E s : t.states = <<s>> /\ Remembered(m, t.m, s)
          \/ \E s, w, s2 : t.states = <<s, s2>> /\ Remembered(m, w, s) /\ Remembered(w, t.m, s2)
      BY <1>2, Zenon DEF Trying
    <2> QED BY <2>1, <2>2, <2>3, <2>4
  <1>6. Planned(t.steps)
    <2>1. \/ t.steps = <<>> \/ (\E x : t.steps = <<x>>) \/ (\E x, y : t.steps = <<x, y>>)
      BY <1>2, Zenon DEF Trying
    <2>2. t.steps \in Seq(Range(t.steps))
      <3>1. CASE t.steps = <<>>
        BY <3>1
      <3>2. CASE \E x : t.steps = <<x>>
        <4>1. PICK x : t.steps = <<x>>
          BY <3>2
        <4>2. x \in Range(<<x>>)
          BY DEF Range
        <4> QED BY <4>1, <4>2
      <3>3. CASE \E x, y : t.steps = <<x, y>>
        <4>1. PICK x, y : t.steps = <<x, y>>
          BY <3>3
        <4>2. x \in Range(<<x, y>>) /\ y \in Range(<<x, y>>)
          BY DEF Range
        <4> QED BY <4>1, <4>2
      <3> QED BY <2>1, <3>1, <3>2, <3>3
    <2>3. \A k \in DOMAIN t.steps : Laid(t.steps[k].ub, t.steps[k].slots) /\ Computed(t.steps[k].ub)
      BY <1>2, Zenon DEF Trying
    <2> QED BY <2>2, <2>3, Zenon DEF Planned
  <1> QED BY <1>1, <1>3, <1>5, <1>6

----------------------------------------------------------------------------
(* The tokens of a batch *)

\* The least number of a set.
LEMMA LeastIs ==
  ASSUME NEW S \in SUBSET Nat, S # {}
  PROVE  Min(S) \in S /\ \A x \in S : Min(S) <= x
  <1>1. \E m \in S : \A k \in S : m <= k
    BY Least
  <1>2. \E m \in S : \A k \in S : k >= m
    BY <1>1
  <1>3. Min(S) \in S /\ \A x \in S : x >= Min(S)
    BY <1>2 DEF Min
  <1> QED BY <1>3

\* The greatest number of a finite set.
LEMMA GreatestIs ==
  ASSUME NEW n \in Nat, NEW S \in SUBSET (0 .. n), S # {}
  PROVE  Max(S) \in S
  <1>1. PICK T : T = {n - x : x \in S}
    OBVIOUS
  <1>2. T \in SUBSET Nat /\ T # {}
    <2>1. ASSUME NEW x \in S PROVE n - x \in Nat
      <3>1. x \in 0 .. n
        OBVIOUS
      <3> QED BY <3>1
    <2> QED BY <1>1, <2>1
  <1>3. PICK m \in T : \A k \in T : m <= k
    BY <1>2, Least
  <1>4. PICK x \in S : m = n - x
    BY <1>1
  <1>5. ASSUME NEW y \in S PROVE x >= y
    <2>1. n - y \in T
      BY <1>1
    <2>2. n - x <= n - y
      BY <1>3, <1>4, <2>1
    <2> QED BY <2>2
  <1>6. \E z \in S : \A y \in S : z >= y
    BY <1>5
  <1> QED BY <1>6 DEF Max

\* seq_to_stream.
LEMMA StreamIn ==
  ASSUME NEW s \in Seq_id
  PROVE  Stream(s) \in Streams
  BY DEF Stream, Streams

\* seq_pos_max() is an integer from -1 on.
LEMMA SeqPosMaxIs ==
  ASSUME NEW c, NEW s
  PROVE  SeqPosMax(c, s) \in Int /\ SeqPosMax(c, s) >= -1
  <1>1. PICK S : S = Present(c, s)
    OBVIOUS
  <1>2. S \in SUBSET (0 .. LastPos) /\ LastPos \in Nat
    BY <1>1, KVCellsAssumption DEF Present, Positions
  <1>3. CASE S = {}
    BY <1>1, <1>3 DEF SeqPosMax
  <1>4. CASE S # {}
    <2>1. Max(S) \in S
      BY <1>2, <1>4, GreatestIs
    <2>2. SeqPosMax(c, s) = Max(S)
      BY <1>1, <1>4 DEF SeqPosMax
    <2>3. Max(S) \in 0 .. LastPos
      BY <1>2, <2>1
    <2> QED BY <1>2, <2>2, <2>3
  <1> QED BY <1>3, <1>4

\* Tokens with keys for their positions.
Placed(toks) == toks \in Seq(Token) /\ \A k \in DOMAIN toks : toks[k].rot = toks[k].pos

\* The tokens of a batch have positions, for which their keys are computed.
LEMMA PositionedIs ==
  ASSUME conf \in Confs, NEW batch \in Batches,
         \A t \in Range(Positioned(batch)) : t.pos <= conf.last
  PROVE  Placed(Positioned(batch)) /\ Len(Positioned(batch)) \in {1, 2}
  <1>1. PICK n \in {1, 2} : /\ DOMAIN batch = 1 .. n
                            /\ \A k \in 1 .. n : batch[k] \in [seq : Seq_id, tok : Tok]
    <2>1. batch \in [{1} -> [seq : Seq_id, tok : Tok]] \/ batch \in [{1, 2} -> [seq : Seq_id, tok : Tok]]
      BY KVCacheAssumption
    <2>2. {1} = 1 .. 1 /\ {1, 2} = 1 .. 2
      OBVIOUS
    <2> QED BY <2>1, <2>2
  <1>2. PICK toks : toks = Positioned(batch)
    OBVIOUS
  <1>3. DOMAIN toks = 1 .. n
    BY <1>1, <1>2 DEF Positioned
  <1>4. ASSUME NEW k \in 1 .. n
        PROVE  toks[k] \in Token /\ toks[k].rot = toks[k].pos
    <2>1. PICK s, p : /\ s = batch[k].seq
                      /\ p = SeqPosMax(v_cells[Stream(s)], s)
                               + Cardinality({j \in 1 .. k : batch[j].seq = s})
      OBVIOUS
    <2>2. toks[k] = [seq |-> s, tok |-> batch[k].tok, pos |-> p, rot |-> p]
      BY <1>1, <1>2, <2>1, Zenon DEF Positioned
    <2>3. s \in Seq_id /\ batch[k].tok \in Tok
      BY <1>1, <2>1
    <2>4. PICK J : J = {j \in 1 .. k : batch[j].seq = s}
      OBVIOUS
    <2>5. Cardinality(J) \in Nat /\ Cardinality(J) # 0
      <3>1. IsFiniteSet(1 .. k)
        BY FS_Interval
      <3>2. IsFiniteSet(J) /\ k \in J
        BY <2>1, <2>4, <3>1, FS_Subset
      <3> QED BY <3>2, FS_EmptySet, FS_CardinalityType
    <2>6. PICK x \in Int : x = SeqPosMax(v_cells[Stream(s)], s) /\ x >= -1
      BY SeqPosMaxIs
    <2>7. p = x + Cardinality(J)
      BY <2>1, <2>4, <2>6
    <2>8. p \in Nat
      BY <2>5, <2>6, <2>7
    <2>9. p <= conf.last
      <3>1. toks[k] \in Range(toks) /\ toks[k].pos = p
        BY <1>3, <2>2 DEF Range
      <3> QED BY <1>2, <3>1
    <2>10. conf.last \in 0 .. LastPos /\ LastPos \in Nat
      BY KVCacheAssumption, KVCellsAssumption DEF Positions
    <2>11. p \in Positions /\ p \in Int
      BY <2>8, <2>9, <2>10 DEF Positions
    <2> QED BY <2>2, <2>3, <2>11 DEF Token
  <1>5. toks = [k \in 1 .. n |-> toks[k]]
    BY <1>2, <1>3, Zenon DEF Positioned
  <1>6. toks \in Seq(Token) /\ Len(toks) = n
    BY <1>4, <1>5
  <1> QED BY <1>2, <1>3, <1>4, <1>6 DEF Placed

\* The tokens of an ubatch by their streams.
LEMMA ByStreamIs ==
  ASSUME NEW toks, Placed(toks)
  PROVE  Batched(ByStream(toks))
  <1>1. toks \in Seq(Token) /\ \A k \in DOMAIN toks : toks[k].rot = toks[k].pos
    BY DEF Placed
  <1>2. PICK u : u = ByStream(toks)
    OBVIOUS
  <1>3. PICK D : D = {Stream(t.seq) : t \in Range(toks)}
    OBVIOUS
  <1>4. u = [st \in D |-> Those(toks, {t \in Range(toks) : Stream(t.seq) = st})]
    BY <1>2, <1>3, Zenon DEF ByStream
  <1>5. \A t : t \in ToSet(toks) <=> t \in Range(toks)
    BY DEF ToSet, Range
  <1>6. \A t \in Range(toks) : t \in Token /\ t.rot = t.pos
    BY <1>1 DEF Range
  <1>7. D \in SUBSET Streams
    <2>1. ASSUME NEW t \in Range(toks) PROVE Stream(t.seq) \in Streams
      BY <1>6, StreamIn DEF Token
    <2> QED BY <1>3, <2>1
  <1>8. ASSUME NEW st \in D
        PROVE  /\ u[st] \in Seq(Token) /\ Len(u[st]) >= 1
               /\ \A k \in DOMAIN u[st] : u[st][k].rot = u[st][k].pos
    <2>1. PICK S : S = {t \in Range(toks) : Stream(t.seq) = st}
      OBVIOUS
    <2>2. PICK r : r = Those(toks, S)
      OBVIOUS
    <2>3. u[st] = r
      BY <1>4, <2>1, <2>2, Zenon
    <2>4. r \in Seq(Token) /\ \A x : x \in ToSet(r) <=> x \in ToSet(toks) /\ x \in S
      BY <1>1, <2>2, ThoseItems
    <2>5. PICK t \in Range(toks) : Stream(t.seq) = st
      BY <1>3
    <2>6. t \in ToSet(r)
      BY <1>5, <2>1, <2>4, <2>5
    <2>7. Len(r) >= 1
      BY <2>4, <2>6 DEF ToSet
    <2>8. ASSUME NEW k \in DOMAIN r PROVE r[k].rot = r[k].pos
      <3>1. r[k] \in ToSet(r)
        BY DEF ToSet
      <3>2. r[k] \in Range(toks)
        BY <1>5, <2>4, <3>1
      <3> QED BY <1>6, <3>2
    <2> QED BY <2>3, <2>4, <2>7, <2>8
  <1>9. DOMAIN u = D
    BY <1>4
  <1> QED BY <1>2, <1>7, <1>8, <1>9 DEF Batched, Tokens, Computed

\* A batch of at most two tokens makes one or two ubatches.
LEMMA UbatchesAre ==
  ASSUME NEW toks, Placed(toks), Len(toks) \in {1, 2}
  PROVE  \/ Len(Ubatches(toks)) = 1 /\ Batched(Ubatches(toks)[1])
         \/ /\ Len(Ubatches(toks)) = 2
            /\ Batched(Ubatches(toks)[1]) /\ Batched(Ubatches(toks)[2])
  <1>1. PICK ubs : ubs = Ubatches(toks)
    OBVIOUS
  <1>2. Batched(ByStream(toks))
    BY ByStreamIs
  <1>3. CASE ubs = <<ByStream(toks)>>
    <2>1. Len(ubs) = 1 /\ ubs[1] = ByStream(toks)
      BY <1>3
    <2> QED BY <1>1, <1>2, <2>1
  <1>4. CASE Len(toks) = 2 /\ ubs = <<ByStream(<<toks[1]>>), ByStream(<<toks[2]>>)>>
    <2>1. /\ toks[1] \in Token /\ toks[2] \in Token
          /\ toks[1].rot = toks[1].pos /\ toks[2].rot = toks[2].pos
      BY <1>4 DEF Placed
    <2>2. Placed(<<toks[1]>>) /\ Placed(<<toks[2]>>)
      BY <2>1 DEF Placed
    <2>3. Batched(ByStream(<<toks[1]>>)) /\ Batched(ByStream(<<toks[2]>>))
      BY <2>2, ByStreamIs
    <2>4. Len(ubs) = 2 /\ ubs[1] = ByStream(<<toks[1]>>) /\ ubs[2] = ByStream(<<toks[2]>>)
      BY <1>4
    <2> QED BY <1>1, <2>3, <2>4
  <1> QED BY <1>1, <1>3, <1>4, Zenon DEF Ubatches

----------------------------------------------------------------------------
(* Copies between streams *)

Copying(f, n, S, V, copies, b) ==
  /\ f = [k \in 0 .. n |-> IF k = 0 THEN b
             ELSE [f[k - 1] EXCEPT ![copies[k][2]] = f[k - 1][copies[k][1]]]]
  /\ \A k \in 0 .. n : f[k] \in [S -> V]

\* The values of the loop over the deferred copies.
LEMMA CopyingExists ==
  ASSUME NEW S, NEW V, NEW copies \in Seq(S \X S), NEW b \in [S -> V], NEW n \in Nat, n = Len(copies)
  PROVE  \E f : Copying(f, n, S, V, copies, b)
  <1>1. PICK W : W = [k \in 0 .. n |-> [S -> V]]
    OBVIOUS
  <1>2. PICK op : op = [k \in 1 .. n |-> [x \in [S -> V] |->
                          [x EXCEPT ![copies[k][2]] = x[copies[k][1]]]]]
    OBVIOUS
  <1>3. ASSUME NEW k \in 1 .. n PROVE W[k] = [S -> V] /\ W[k - 1] = [S -> V] /\ copies[k] \in S \X S
    <2>1. k \in 0 .. n /\ k - 1 \in 0 .. n
      OBVIOUS
    <2> QED BY <1>1, <2>1
  <1>4. b \in W[0]
    BY <1>1
  <1>5. ASSUME NEW k \in 1 .. n, NEW x \in W[k - 1] PROVE op[k][x] \in W[k]
    <2>1. x \in [S -> V] /\ copies[k][1] \in S /\ copies[k][2] \in S
      BY <1>3
    <2>2. op[k][x] = [x EXCEPT ![copies[k][2]] = x[copies[k][1]]]
      BY <1>2, <2>1
    <2>3. PICK y, z : y = copies[k][1] /\ z = copies[k][2]
      OBVIOUS
    <2>4. [x EXCEPT ![z] = x[y]] \in [S -> V]
      BY <2>1, <2>3
    <2> QED BY <1>3, <2>2, <2>3, <2>4
  <1>6. PICK f : Turns(f, n, W, b, op)
    BY <1>4, <1>5, LoopExists
  <1>7. \A k \in 0 .. n : f[k] \in [S -> V]
    BY <1>1, <1>6 DEF Turns
  <1>8. f = [k \in 0 .. n |-> IF k = 0 THEN b
               ELSE [f[k - 1] EXCEPT ![copies[k][2]] = f[k - 1][copies[k][1]]]]
    <2>1. ASSUME NEW k \in 0 .. n, k # 0
          PROVE  op[k][f[k - 1]] = [f[k - 1] EXCEPT ![copies[k][2]] = f[k - 1][copies[k][1]]]
      <3>1. k \in 1 .. n /\ k - 1 \in 0 .. n
        BY <2>1
      <3>2. f[k - 1] \in [S -> V]
        BY <1>7, <3>1
      <3> QED BY <1>2, <3>1, <3>2
    <2> QED BY <1>6, <2>1, Zenon DEF Turns
  <1> QED BY <1>7, <1>8 DEF Copying

\* The first round is b, the last one what CopiedBy() is.
CopyEnds(f, n, S, V, copies, b) == CopiedBy(copies, b) = f[n] /\ CopiedBy(copies, b) \in [S -> V]

\* The copies made are the last value of the loop.
LEMMA CopiedByIs ==
  ASSUME NEW S, NEW V, NEW copies \in Seq(S \X S), NEW b \in [S -> V], NEW n \in Nat,
         n = Len(copies), NEW f, Copying(f, n, S, V, copies, b)
  PROVE  CopyEnds(f, n, S, V, copies, b)
  <1> DEFINE N == Len(copies)
  <1>0. N = n
    OBVIOUS
  <1> HIDE DEF N
  <1>1. f = [k \in 0 .. N |-> IF k = 0 THEN b
               ELSE [f[k - 1] EXCEPT ![copies[k][2]] = f[k - 1][copies[k][1]]]]
    BY <1>0, Zenon DEF Copying
  <1>2. ASSUME NEW g,
               g = [k \in 0 .. N |-> IF k = 0 THEN b
                      ELSE [g[k - 1] EXCEPT ![copies[k][2]] = g[k - 1][copies[k][1]]]]
        PROVE  g[N] = f[N]
    <2>1. g[0] = f[0]
      <3>1. 0 \in 0 .. N
        BY <1>0
      <3> QED BY <1>1, <1>2, <3>1, Zenon
    <2>2. ASSUME NEW k \in 1 .. N, g[k - 1] = f[k - 1] PROVE g[k] = f[k]
      <3>1. k \in 0 .. N /\ k # 0
        BY <1>0
      <3>2. f[k] = [f[k - 1] EXCEPT ![copies[k][2]] = f[k - 1][copies[k][1]]]
        BY <1>1, <3>1, Zenon
      <3>3. g[k] = [g[k - 1] EXCEPT ![copies[k][2]] = g[k - 1][copies[k][1]]]
        BY <1>2, <3>1, Zenon
      <3> QED BY <2>2, <3>2, <3>3, Zenon
    <2> QED BY <1>0, <2>1, <2>2, SameLoop
  <1>3. CopiedBy(copies, b) = f[N]
    BY <1>1, <1>2, Zenon DEF CopiedBy, For, N
  <1>4. f[n] \in [S -> V]
    <2>1. n \in 0 .. n
      OBVIOUS
    <2> QED BY <2>1 DEF Copying
  <1> QED BY <1>0, <1>3, <1>4 DEF CopyEnds

\* Copies give buffers.
LEMMA CopiedType ==
  ASSUME NEW S, NEW V, NEW copies \in Seq(S \X S), NEW b \in [S -> V]
  PROVE  CopiedBy(copies, b) \in [S -> V]
  <1>1. PICK n \in Nat : n = Len(copies)
    OBVIOUS
  <1>2. PICK f : Copying(f, n, S, V, copies, b)
    BY <1>1, CopyingExists
  <1>3. CopyEnds(f, n, S, V, copies, b)
    BY <1>1, <1>2, CopiedByIs
  <1> QED BY <1>3 DEF CopyEnds

\* No copy changes nothing.
LEMMA CopiedNone ==
  ASSUME NEW S, NEW V, NEW b \in [S -> V]
  PROVE  CopiedBy(<<>>, b) = b
  <1>1. PICK q : q = <<>>
    OBVIOUS
  <1>2. q \in Seq(S \X S) /\ 0 = Len(q) /\ 0 \in Nat
    BY <1>1
  <1>3. PICK f : Copying(f, 0, S, V, q, b)
    BY <1>2, CopyingExists, Zenon
  <1>4. CopiedBy(q, b) = f[0]
    <2>1. CopyEnds(f, 0, S, V, q, b)
      BY <1>2, <1>3, CopiedByIs, Zenon
    <2> QED BY <2>1 DEF CopyEnds
  <1>5. f[0] = b
    BY <1>3 DEF Copying
  <1> QED BY <1>1, <1>4, <1>5

CopiedTo(x, y, d, e) == e = [d EXCEPT ![y] = d[x]]

\* A copy appended is made after the others.
LEMMA CopiedOnce ==
  ASSUME NEW S, NEW V, NEW copies \in Seq(S \X S), NEW b \in [S -> V], NEW x \in S, NEW y \in S
  PROVE  CopiedTo(x, y, CopiedBy(copies, b), CopiedBy(Append(copies, <<x, y>>), b))
  <1>0. PICK d : d = CopiedBy(copies, b)
    OBVIOUS
  <1>1. PICK n \in Nat : n = Len(copies)
    OBVIOUS
  <1>2. PICK q, m : q = Append(copies, <<x, y>>) /\ m = n + 1
    OBVIOUS
  <1>3. /\ q \in Seq(S \X S) /\ m = Len(q) /\ m \in Nat /\ q[m] = <<x, y>>
        /\ \A k \in 1 .. n : q[k] = copies[k]
    <2>1. <<x, y>> \in S \X S
      OBVIOUS
    <2> QED BY <1>1, <1>2, <2>1, AppendProperties
  <1>4. PICK f : Copying(f, n, S, V, copies, b)
    BY <1>1, CopyingExists
  <1>5. PICK g : Copying(g, m, S, V, q, b)
    BY <1>3, CopyingExists
  <1>6. d = f[n] /\ CopiedBy(q, b) = g[m]
    <2>1. d = f[n]
      <3>1. CopyEnds(f, n, S, V, copies, b)
        BY <1>1, <1>4, CopiedByIs, Zenon
      <3> QED BY <1>0, <3>1 DEF CopyEnds
    <2>2. CopiedBy(q, b) = g[m]
      <3>1. CopyEnds(g, m, S, V, q, b)
        BY <1>3, <1>5, CopiedByIs, Zenon
      <3> QED BY <3>1 DEF CopyEnds
    <2> QED BY <2>1, <2>2
  <1>7. f[n] = g[n]
    <2>1. f[0] = g[0]
      BY <1>3, <1>4, <1>5 DEF Copying
    <2>2. ASSUME NEW k \in 1 .. n, f[k - 1] = g[k - 1] PROVE f[k] = g[k]
      <3>1. k \in 0 .. n /\ k \in 0 .. m /\ k # 0
        BY <1>2
      <3>2. f[k] = [f[k - 1] EXCEPT ![copies[k][2]] = f[k - 1][copies[k][1]]]
        BY <1>4, <3>1, Zenon DEF Copying
      <3>3. g[k] = [g[k - 1] EXCEPT ![q[k][2]] = g[k - 1][q[k][1]]]
        BY <1>5, <3>1, Zenon DEF Copying
      <3>4. q[k] = copies[k]
        BY <1>3
      <3> QED BY <2>2, <3>2, <3>3, <3>4, Zenon
    <2> QED BY <2>1, <2>2, SameLoop
  <1>8. g[m] = [g[n] EXCEPT ![y] = g[n][x]]
    <2>1. m \in 0 .. m /\ m # 0 /\ m - 1 = n /\ q[m][1] = x /\ q[m][2] = y
      BY <1>2, <1>3
    <2>2. g[m] = [g[m - 1] EXCEPT ![q[m][2]] = g[m - 1][q[m][1]]]
      BY <1>5, <2>1, Zenon DEF Copying
    <2> QED BY <2>1, <2>2
  <1>9. g[m] = [d EXCEPT ![y] = d[x]]
    BY <1>6, <1>7, <1>8, Zenon
  <1> QED BY <1>0, <1>2, <1>6, <1>9, Zenon DEF CopiedTo

----------------------------------------------------------------------------
(* The next state *)

Buffers == [Streams -> [Idx -> [tok : Tok \cup {NoTok}, rot : Int]]]

\* The buffers b, when the copies q have been made, and the metadata agree.
Keys(q, b, cells) ==
  \A st \in Streams : \A i \in Idx : ~IsEmpty(cells[st], i) =>
     CopiedBy(q, b)[st][i].rot + cells[st].shift[i] = cells[st].pos[i]

KeptIs(k) ==
  /\ k.all \in BOOLEAN /\ k.cells \in Seq(KeptCell)
  /\ k.all => conf.unified /\ Len(k.cells) <= conf.size
  /\ "divide" \notin conf.uses => \A j \in DOMAIN k.cells : k.cells[j].rot = k.cells[j].pos

\* The invariant, with the types that the lemmas use.
LEMMA IInvIs ==
  ASSUME IInv
  PROVE  /\ conf \in Confs /\ v_cells \in [Streams -> Sound(conf.size)]
         /\ v_heads \in [Streams -> 0 .. conf.size] /\ buf \in Buffers
         /\ sc_info \in Seq(Streams \X Streams) /\ Planned(todo)
         /\ todo # <<>> => sc_info = <<>> /\ \A st \in Streams : ~v_cells[st].has_shift
         /\ KeptIs(kept)
         /\ "divide" \notin conf.uses => Keys(sc_info, buf, v_cells)
  <1>1. Types /\ Updated /\ KeptState /\ KRotated
    BY DEF IInv
  <1>2. /\ conf \in Confs /\ v_cells \in [Streams -> Sound(conf.size)]
        /\ v_heads \in [Streams -> 0 .. conf.size] /\ buf \in Buffers
        /\ sc_info \in Seq(Streams \X Streams) /\ Planned(todo)
    BY <1>1, Zenon DEF Types, Buffers, Planned
  <1>3. todo # <<>> => sc_info = <<>> /\ \A st \in Streams : ~v_cells[st].has_shift
    BY <1>1, Zenon DEF Updated
  <1>4. KeptIs(kept)
    BY <1>1, Zenon DEF KeptState, KeptIs
  <1>5. ASSUME "divide" \notin conf.uses, NEW st \in Streams, NEW i \in Idx, ~IsEmpty(v_cells[st], i)
        PROVE  CopiedBy(sc_info, buf)[st][i].rot + v_cells[st].shift[i] = v_cells[st].pos[i]
    <2>1. PICK f : f = <<st, i>>
      OBVIOUS
    <2>2. f \in Filled
      BY <1>5, <2>1 DEF Filled
    <2>3. Rotated(f[1], f[2])
      BY <1>1, <1>5, <2>2, Zenon DEF KRotated
    <2>4. Rotated(st, i)
      <3>1. f[1] = st /\ f[2] = i
        BY <2>1
      <3> QED BY <2>3, <3>1, Zenon
    <2> QED BY <2>4, Zenon DEF Rotated, Key, Copied
  <1>6. "divide" \notin conf.uses => Keys(sc_info, buf, v_cells)
    BY <1>5, Zenon DEF Keys
  <1> QED BY <1>2, <1>3, <1>4, <1>6

\* What the next state has to satisfy.
LEMMA IInvNext ==
  ASSUME conf \in Confs, UNCHANGED conf, v_cells' \in [Streams -> Sound(conf.size)],
         v_heads' \in [Streams -> 0 .. conf.size], buf' \in Buffers,
         sc_info' \in Seq(Streams \X Streams), Planned(todo'),
         todo' # <<>> => sc_info' = <<>> /\ \A st \in Streams : ~v_cells'[st].has_shift,
         KeptIs(kept'), "divide" \notin conf.uses => Keys(sc_info', buf', v_cells')
  PROVE  IInv'
  <1>1. conf' = conf /\ Streams' = Streams /\ Idx' = Idx
    BY DEF Streams, Idx
  <1>2. Types'
    <2>1. (conf \in Confs)' /\ (v_heads \in [Streams -> 0 .. conf.size])'
          /\ (sc_info \in Seq(Streams \X Streams))'
      BY <1>1
    <2>2. (v_cells \in [Streams -> Sound(conf.size)])'
      BY <1>1
    <2>3. (buf \in [Streams -> [Idx -> [tok : Tok \cup {NoTok}, rot : Int]]])'
      BY <1>1 DEF Buffers
    <2>4. (todo \in Seq(Range(todo)))'
      BY DEF Planned
    <2>5. (\A k \in DOMAIN todo : Laid(todo[k].ub, todo[k].slots) /\ Computed(todo[k].ub))'
      <3>1. \A k \in DOMAIN todo' : Laid(todo'[k].ub, todo'[k].slots) /\ Computed(todo'[k].ub)
        BY Zenon DEF Planned
      <3> QED BY <1>1, <3>1 DEF Laid
    <2> QED BY <2>1, <2>2, <2>3, <2>4, <2>5 DEF Types
  <1>3. Updated'
    BY <1>1 DEF Updated
  <1>4. KeptState'
    BY <1>1 DEF KeptState, KeptIs
  <1>5. KRotated'
    BY <1>1 DEF KRotated, Keys, Filled, Rotated, Key, Copied
  <1> QED BY <1>2, <1>3, <1>4, <1>5 DEF IInv

\* Writing the copies and the shifts down changes no key.
LEMMA SettledIs ==
  ASSUME NEW b \in Buffers, NEW cells, buf' = Settled(b, cells),
         sc_info' \in Seq(Streams \X Streams)
  PROVE  buf' \in Buffers /\ (Keys(sc_info', b, cells) => Keys(sc_info', buf', cells))
  <1>1. CASE sc_info' # <<>>
    BY <1>1 DEF Settled
  <1>2. CASE sc_info' = <<>>
    <2>1. PICK V : V = [Idx -> [tok : Tok \cup {NoTok}, rot : Int]]
      OBVIOUS
    <2>2. b \in [Streams -> V] /\ Buffers = [Streams -> V]
      BY <2>1 DEF Buffers
    <2>3. PICK d : d = [st \in Streams |-> [i \in Idx |->
                          IF IsEmpty(cells[st], i) THEN Junk ELSE b[st][i]]]
      OBVIOUS
    <2>4. buf' = d
      BY <1>2, <2>3, Zenon DEF Settled
    <2>5. Junk \in [tok : Tok \cup {NoTok}, rot : Int]
      BY DEF Junk
    <2>6. ASSUME NEW st \in Streams, NEW i \in Idx
          PROVE  d[st][i] \in [tok : Tok \cup {NoTok}, rot : Int]
      <3>1. b[st][i] \in [tok : Tok \cup {NoTok}, rot : Int]
        BY <2>1, <2>2
      <3>2. d[st][i] = IF IsEmpty(cells[st], i) THEN Junk ELSE b[st][i]
        BY <2>3
      <3> QED BY <2>5, <3>1, <3>2
    <2>7. d \in [Streams -> V]
      <3>1. ASSUME NEW st \in Streams PROVE d[st] \in V
        <4>1. d[st] = [i \in Idx |-> d[st][i]]
          BY <2>3
        <4> QED BY <2>1, <2>6, <4>1
      <3> QED BY <2>3, <3>1
    <2>8. CopiedBy(sc_info', b) = b /\ CopiedBy(sc_info', buf') = d
      BY <1>2, <2>2, <2>4, <2>7, CopiedNone
    <2>9. ASSUME Keys(sc_info', b, cells), NEW st \in Streams, NEW i \in Idx, ~IsEmpty(cells[st], i)
          PROVE  CopiedBy(sc_info', buf')[st][i].rot + cells[st].shift[i] = cells[st].pos[i]
      <3>1. CopiedBy(sc_info', b)[st][i].rot + cells[st].shift[i] = cells[st].pos[i]
        BY <2>9, Zenon DEF Keys
      <3>2. d[st][i] = b[st][i]
        BY <2>3, <2>9
      <3> QED BY <2>8, <3>1, <3>2
    <2>10. Keys(sc_info', b, cells) => Keys(sc_info', buf', cells)
      BY <2>9, Zenon DEF Keys
    <2> QED BY <2>2, <2>4, <2>7, <2>10
  <1> QED BY <1>1, <1>2

\* Cells of which the keys are carried along.
LEMMA KeysCarried ==
  ASSUME conf \in Confs, NEW q \in Seq(Streams \X Streams), NEW b \in Buffers,
         NEW x \in [Streams -> Sound(conf.size)], NEW y \in [Streams -> Sound(conf.size)],
         Keys(q, b, x), \A st \in Streams : Carried(conf.size, x[st], y[st])
  PROVE  Keys(q, b, y)
  <1>1. PICK n \in Nat : n = conf.size /\ Idx = 0 .. n - 1
    BY SizeIs
  <1>2. PICK e : e = CopiedBy(q, b)
    OBVIOUS
  <1>3. e \in Buffers
    BY <1>2, CopiedType DEF Buffers
  <1>4. ASSUME NEW st \in Streams, NEW i \in Idx, ~IsEmpty(y[st], i)
        PROVE  e[st][i].rot + y[st].shift[i] = y[st].pos[i]
    <2>1. PICK c, d : c = x[st] /\ d = y[st]
      OBVIOUS
    <2>2. c \in Sound(n) /\ d \in Sound(n) /\ Carried(n, c, d) /\ i \in 0 .. n - 1
      BY <1>1, <2>1
    <2>3. /\ c.pos[i] \in Int /\ c.shift[i] \in Int /\ d.pos[i] \in Int /\ d.shift[i] \in Int
      <3>1. Positions \cup {-1} \subseteq Int
        BY KVCellsAssumption DEF Positions
      <3>2. /\ c.pos[i] \in Positions \cup {-1} /\ c.shift[i] \in Int
            /\ d.pos[i] \in Positions \cup {-1} /\ d.shift[i] \in Int
        BY <2>2, Cell
      <3> QED BY <3>1, <3>2
    <2>4. d.pos[i] # -1
      BY <1>4, <2>1 DEF IsEmpty
    <2>5. c.pos[i] # -1 /\ d.pos[i] - d.shift[i] = c.pos[i] - c.shift[i]
      BY <2>2, <2>4 DEF Carried, CarriedAt
    <2>6. ~IsEmpty(x[st], i)
      BY <2>1, <2>5 DEF IsEmpty
    <2>7. e[st][i].rot + c.shift[i] = c.pos[i]
      BY <1>2, <2>1, <2>6 DEF Keys
    <2>8. e[st][i].rot \in Int
      BY <1>3 DEF Buffers
    <2> QED BY <2>1, <2>3, <2>5, <2>7, <2>8
  <1> QED BY <1>2, <1>4 DEF Keys

\* A call that rewrites metadata only.
LEMMA MetaStep ==
  ASSUME IInv, Calls, Meta, v_cells' \in [Streams -> Sound(conf.size)],
         v_heads' \in [Streams -> 0 .. conf.size],
         "divide" \in conf.uses \/ \A st \in Streams : Carried(conf.size, v_cells[st], v_cells'[st])
  PROVE  IInv'
  <1>1. /\ conf' = conf /\ sc_info' = sc_info /\ todo' = todo /\ kept' = kept
        /\ buf' = Settled(buf, v_cells') /\ todo = <<>>
    BY DEF Meta, Calls
  <1>2. /\ conf \in Confs /\ v_cells \in [Streams -> Sound(conf.size)]
        /\ v_heads \in [Streams -> 0 .. conf.size] /\ buf \in Buffers
        /\ sc_info \in Seq(Streams \X Streams) /\ Planned(todo) /\ KeptIs(kept)
        /\ "divide" \notin conf.uses => Keys(sc_info, buf, v_cells)
    BY IInvIs
  <1>3. "divide" \notin conf.uses => Keys(sc_info, buf, v_cells')
    BY <1>2, KeysCarried
  <1>4. buf' \in Buffers /\ ("divide" \notin conf.uses => Keys(sc_info', buf', v_cells'))
    BY <1>1, <1>2, <1>3, SettledIs
  <1> QED BY <1>1, <1>2, <1>4, IInvNext

----------------------------------------------------------------------------
(* The calls *)

\* The head stays within the cells.
LEMMA HeadAfterIn ==
  ASSUME conf \in Confs, NEW head \in 0 .. conf.size, NEW old, NEW new
  PROVE  /\ HeadAfter(head, old, new) \in 0 .. conf.size
         /\ Freed(old, new) # {} => Min(Freed(old, new)) \in 0 .. conf.size
  <1>1. PICK n \in Nat : n = conf.size /\ Idx = 0 .. n - 1
    BY SizeIs
  <1>2. PICK F : F = Freed(old, new)
    OBVIOUS
  <1>3. F \in SUBSET Nat /\ \A i \in F : i \in 0 .. n
    BY <1>1, <1>2 DEF Freed
  <1>4. F # {} => Min(F) \in 0 .. n
    BY <1>3, LeastIs
  <1> QED BY <1>1, <1>2, <1>4 DEF HeadAfter

\* Cells that do not change carry their keys.
LEMMA CarriedSelf ==
  ASSUME NEW n, NEW c
  PROVE  Carried(n, c, c)
  <1>1. \A i \in 0 .. n - 1 : c.pos[i] - c.shift[i] = c.pos[i] - c.shift[i]
    OBVIOUS
  <1> QED BY <1>1 DEF Carried, CarriedAt

\* A call that changes the cells of one stream.
LEMMA StreamStep ==
  ASSUME IInv, Calls, Meta, NEW st \in Streams, NEW d, NEW m,
         v_cells' = [v_cells EXCEPT ![st] = d], Swept(conf.size, v_cells[st], d, m),
         v_heads' \in [Streams -> 0 .. conf.size], "key" \in m \/ "divide" \in conf.uses
  PROVE  IInv'
  <1>1. v_cells \in [Streams -> Sound(conf.size)]
    BY IInvIs
  <1>2. d \in Sound(conf.size)
    BY DEF Swept
  <1>3. v_cells' \in [Streams -> Sound(conf.size)]
    BY <1>1, <1>2
  <1>4. CASE "divide" \in conf.uses
    BY <1>3, <1>4, MetaStep
  <1>5. CASE "key" \in m
    <2>1. ASSUME NEW s \in Streams PROVE Carried(conf.size, v_cells[s], v_cells'[s])
      <3>1. CASE s = st
        <4>1. v_cells'[s] = d
          BY <1>1, <3>1
        <4> QED BY <1>5, <3>1, <4>1 DEF Swept
      <3>2. CASE s # st
        <4>1. v_cells'[s] = v_cells[s]
          BY <1>1, <3>2
        <4> QED BY <4>1, CarriedSelf
      <3> QED BY <3>1, <3>2
    <2> QED BY <1>3, <2>1, MetaStep
  <1> QED BY <1>4, <1>5

\* clear().
LEMMA ClearStep ==
  ASSUME IInv, Clear
  PROVE  IInv'
  <1>1. Calls /\ Meta /\ conf \in Confs
    BY IInvIs DEF Clear
  <1>2. PICK n \in Nat : n = conf.size /\ Idx = 0 .. n - 1
    BY <1>1, SizeIs
  <1>3. PICK f : f = Fresh(n)
    OBVIOUS
  <1>4. f \in Sound(n) /\ \A i \in 0 .. n - 1 : f.pos[i] = -1
    BY <1>3, FreshIs
  <1>5. v_cells' = [st \in Streams |-> f] /\ v_heads' = [st \in Streams |-> 0]
    BY <1>2, <1>3 DEF Clear
  <1>6. \A st \in Streams : Carried(n, v_cells[st], v_cells'[st])
    BY <1>4, <1>5 DEF Carried, CarriedAt
  <1>7. v_cells' \in [Streams -> Sound(n)] /\ v_heads' \in [Streams -> 0 .. n]
    BY <1>4, <1>5
  <1> QED BY <1>1, <1>2, <1>6, <1>7, MetaStep

\* seq_rm() of a sequence.
LEMMA SeqRmStep ==
  ASSUME IInv, NEW s \in Seq_id, NEW p0, NEW p1, SeqRmCall(s, p0, p1)
  PROVE  IInv'
  <1>1. PICK st \in Streams : st = Stream(s)
    BY StreamIn
  <1>2. /\ conf \in Confs /\ v_cells \in [Streams -> Sound(conf.size)]
        /\ v_heads \in [Streams -> 0 .. conf.size]
    BY IInvIs
  <1>3. PICK n \in Nat : n = conf.size
    BY <1>2, SizeIs
  <1>4. PICK d, h : d = RmIn(v_cells[st], s, p0, p1) /\ h = HeadAfter(v_heads[st], v_cells[st], v_cells'[st])
    OBVIOUS
  <1>5. /\ Calls /\ Meta /\ v_cells' = [v_cells EXCEPT ![st] = d]
        /\ v_heads' = [v_heads EXCEPT ![st] = h]
    BY <1>1, <1>4 DEF SeqRmCall
  <1>6. Swept(n, v_cells[st], d, {"key", "still"})
    BY <1>2, <1>3, <1>4, RmInIs
  <1>7. h \in 0 .. n
    BY <1>2, <1>3, <1>4, HeadAfterIn
  <1>8. v_heads' \in [Streams -> 0 .. n]
    BY <1>2, <1>3, <1>5, <1>7
  <1>9. "key" \in {"key", "still"}
    OBVIOUS
  <1> QED BY <1>3, <1>5, <1>6, <1>8, <1>9, StreamStep

\* seq_rm() of any sequence.
LEMMA SeqRmAnyStep ==
  ASSUME IInv, NEW p0, NEW p1, SeqRmAny(p0, p1)
  PROVE  IInv'
  <1>1. /\ conf \in Confs /\ v_cells \in [Streams -> Sound(conf.size)]
        /\ v_heads \in [Streams -> 0 .. conf.size]
    BY IInvIs
  <1>2. PICK n \in Nat : n = conf.size
    BY <1>1, SizeIs
  <1>3. /\ Calls /\ Meta /\ v_cells' = [st \in Streams |-> RmAnyIn(v_cells[st], p0, p1)]
        /\ v_heads' = [st \in Streams |-> HeadAfter(v_heads[st], v_cells[st], v_cells'[st])]
    BY DEF SeqRmAny
  <1>4. ASSUME NEW st \in Streams
        PROVE  /\ v_cells'[st] \in Sound(n) /\ Carried(n, v_cells[st], v_cells'[st])
               /\ v_heads'[st] \in 0 .. n
    <2>1. PICK d : d = RmAnyIn(v_cells[st], p0, p1)
      OBVIOUS
    <2>2. Swept(n, v_cells[st], d, {"key", "still"})
      BY <1>1, <1>2, <2>1, RmAnyInIs
    <2>3. v_cells'[st] = d
      BY <1>3, <2>1
    <2>4. PICK h : h = HeadAfter(v_heads[st], v_cells[st], v_cells'[st])
      OBVIOUS
    <2>5. h \in 0 .. n
      BY <1>1, <1>2, <2>4, HeadAfterIn
    <2>6. v_heads'[st] = h
      BY <1>3, <2>4
    <2> QED BY <2>2, <2>3, <2>5, <2>6 DEF Swept
  <1>5. v_cells' \in [Streams -> Sound(n)] /\ v_heads' \in [Streams -> 0 .. n]
    BY <1>3, <1>4
  <1> QED BY <1>2, <1>3, <1>4, <1>5, MetaStep

\* seq_cp() within a stream.
LEMMA SeqCpSharedStep ==
  ASSUME IInv, NEW a \in Seq_id, NEW b \in Seq_id, NEW p0, NEW p1, SeqCpShared(a, b, p0, p1)
  PROVE  IInv'
  <1>1. /\ conf \in Confs /\ v_cells \in [Streams -> Sound(conf.size)]
        /\ v_heads \in [Streams -> 0 .. conf.size]
    BY IInvIs
  <1>2. PICK n \in Nat : n = conf.size
    BY <1>1, SizeIs
  <1>3. PICK I, d : I = Holding(v_cells[0], a, p0, p1) /\ d = AddTo(v_cells[0], I, b)
    OBVIOUS
  <1>4. /\ Calls /\ Meta /\ conf.unified /\ v_cells' = [v_cells EXCEPT ![0] = d]
        /\ v_heads' = v_heads /\ \A i \in I : b \notin v_cells[0].seq[i]
    BY <1>3 DEF SeqCpShared
  <1>5. 0 \in Streams
    BY <1>4 DEF Streams
  <1>6. \A i \in I : v_cells[0].pos[i] # -1
    BY <1>3 DEF Holding, PosIn
  <1>7. Swept(n, v_cells[0], d, {"key"})
    BY <1>1, <1>2, <1>3, <1>4, <1>5, <1>6, AddToIs
  <1>8. "key" \in {"key"}
    OBVIOUS
  <1> QED BY <1>1, <1>2, <1>4, <1>5, <1>7, <1>8, StreamStep

\* seq_keep().
LEMMA SeqKeepStep ==
  ASSUME IInv, NEW s \in Seq_id, SeqKeepCall(s)
  PROVE  IInv'
  <1>1. PICK st \in Streams : st = Stream(s)
    BY StreamIn
  <1>2. /\ conf \in Confs /\ v_cells \in [Streams -> Sound(conf.size)]
        /\ v_heads \in [Streams -> 0 .. conf.size]
    BY IInvIs
  <1>3. PICK n \in Nat : n = conf.size
    BY <1>2, SizeIs
  <1>4. PICK d, h : d = KeepIn(v_cells[st], s) /\ h = HeadAfter(v_heads[st], v_cells[st], v_cells'[st])
    OBVIOUS
  <1>5. /\ Calls /\ Meta /\ v_cells' = [v_cells EXCEPT ![st] = d]
        /\ v_heads' = [v_heads EXCEPT ![st] = h]
    BY <1>1, <1>4 DEF SeqKeepCall
  <1>6. Swept(n, v_cells[st], d, {"key"})
    BY <1>2, <1>3, <1>4, KeepInIs
  <1>7. h \in 0 .. n
    BY <1>2, <1>3, <1>4, HeadAfterIn
  <1>8. v_heads' \in [Streams -> 0 .. n]
    BY <1>2, <1>3, <1>5, <1>7
  <1>9. "key" \in {"key"}
    OBVIOUS
  <1> QED BY <1>3, <1>5, <1>6, <1>8, <1>9, StreamStep

\* seq_add().
LEMMA SeqAddStep ==
  ASSUME IInv, NEW s \in Seq_id, NEW p0, NEW p1, NEW x \in Deltas, SeqAddCall(s, p0, p1, x)
  PROVE  IInv'
  <1>1. PICK st \in Streams : st = Stream(s)
    BY StreamIn
  <1>2. /\ conf \in Confs /\ v_cells \in [Streams -> Sound(conf.size)]
        /\ v_heads \in [Streams -> 0 .. conf.size]
    BY IInvIs
  <1>3. PICK n \in Nat : n = conf.size
    BY <1>2, SizeIs
  <1>4. PICK c, d, h :
          /\ c = v_cells[st] /\ d = AddIn(c, s, p0, p1, x)
          /\ h = IF Freed(v_cells[st], v_cells'[st]) = {} THEN 0
                 ELSE Min(Freed(v_cells[st], v_cells'[st]))
    OBVIOUS
  <1>5. /\ Calls /\ Meta /\ v_cells' = [v_cells EXCEPT ![st] = d]
        /\ v_heads' = [v_heads EXCEPT ![st] = h] /\ InBound(s, p0, p1, x)
    BY <1>1, <1>4 DEF SeqAddCall
  <1>6. x \in Int /\ conf.last \in 0 .. LastPos /\ LastPos \in Nat
    BY <1>2, KVCacheAssumption, KVCellsAssumption DEF Positions
  <1>7. ASSUME NEW i \in Holding(c, s, p0, p1) PROVE c.pos[i] + x <= LastPos
    <2>1. c.pos[i] + x <= conf.last
      BY <1>1, <1>4, <1>5 DEF InBound
    <2>2. c \in Sound(n)
      BY <1>2, <1>3, <1>4
    <2>3. i \in 0 .. n - 1
      BY <2>2, SoundIs DEF Holding
    <2>4. c.pos[i] \in Positions \cup {-1}
      BY <2>2, <2>3, Cell
    <2>5. c.pos[i] + x \in Int
      BY <1>6, <2>4, KVCellsAssumption DEF Positions
    <2> QED BY <1>6, <2>1, <2>5
  <1>8. Swept(n, v_cells[st], d, {"key"})
    BY <1>2, <1>3, <1>4, <1>6, <1>7, AddInIs
  <1>9. h \in 0 .. n
    BY <1>2, <1>3, <1>4, HeadAfterIn
  <1>10. v_heads' \in [Streams -> 0 .. n]
    BY <1>2, <1>3, <1>5, <1>9
  <1>11. "key" \in {"key"}
    OBVIOUS
  <1> QED BY <1>3, <1>5, <1>8, <1>10, <1>11, StreamStep

\* seq_div().
LEMMA SeqDivStep ==
  ASSUME IInv, NEW s \in Seq_id, NEW p0, NEW p1, SeqDivCall(s, p0, p1, 2)
  PROVE  IInv'
  <1>1. PICK st \in Streams : st = Stream(s)
    BY StreamIn
  <1>2. /\ conf \in Confs /\ v_cells \in [Streams -> Sound(conf.size)]
        /\ v_heads \in [Streams -> 0 .. conf.size]
    BY IInvIs
  <1>3. PICK n \in Nat : n = conf.size
    BY <1>2, SizeIs
  <1>4. PICK d : d = DivIn(v_cells[st], s, p0, p1, 2)
    OBVIOUS
  <1>5. /\ Calls /\ Meta /\ v_cells' = [v_cells EXCEPT ![st] = d]
        /\ v_heads' = v_heads /\ "divide" \in conf.uses
    BY <1>1, <1>4 DEF SeqDivCall
  <1>6. Swept(n, v_cells[st], d, {})
    BY <1>2, <1>3, <1>4, DivInIs
  <1> QED BY <1>2, <1>3, <1>5, <1>6, StreamStep

\* The position less the shift is an integer.
LEMMA Whole ==
  ASSUME NEW n \in Nat, NEW c \in Sound(n), NEW i \in 0 .. n - 1
  PROVE  c.pos[i] \in Int /\ c.shift[i] \in Int
  <1>1. Positions \cup {-1} \subseteq Int
    BY KVCellsAssumption DEF Positions
  <1>2. c.pos[i] \in Positions \cup {-1} /\ c.shift[i] \in Int
    BY Cell
  <1> QED BY <1>1, <1>2

\* seq_cp() between streams, whose copy is deferred.
LEMMA SeqCpStreamStep ==
  ASSUME IInv, NEW a \in Seq_id, NEW b \in Seq_id, SeqCpStream(a, b)
  PROVE  IInv'
  <1>1. /\ conf \in Confs /\ v_cells \in [Streams -> Sound(conf.size)]
        /\ v_heads \in [Streams -> 0 .. conf.size] /\ buf \in Buffers
        /\ sc_info \in Seq(Streams \X Streams) /\ Planned(todo) /\ KeptIs(kept)
        /\ "divide" \notin conf.uses => Keys(sc_info, buf, v_cells)
    BY IInvIs
  <1>2. PICK n \in Nat : n = conf.size /\ Idx = 0 .. n - 1
    BY <1>1, SizeIs
  <1>3. PICK c, d : c = v_cells[a] /\ d = CopyOf(c, a, b)
    OBVIOUS
  <1>4. /\ todo = <<>> /\ ~conf.unified /\ a # b
        /\ \A i \in Idx : a \in c.seq[i] => c.pos[i] - c.shift[i] \in Positions
        /\ sc_info' = Append(sc_info, <<a, b>>) /\ v_cells' = [v_cells EXCEPT ![b] = d]
        /\ v_heads' = [v_heads EXCEPT ![b] = v_heads[a]] /\ buf' = Settled(buf, v_cells')
        /\ UNCHANGED <<conf, todo, kept>>
    BY <1>3, Zenon DEF SeqCpStream, Calls
  <1>5. a \in Streams /\ b \in Streams
    BY <1>4 DEF Streams
  <1>6. c \in Sound(n)
    BY <1>1, <1>2, <1>3, <1>5
  <1>7. d \in Sound(n) /\ Carried(n, c, d)
    BY <1>2, <1>3, <1>4, <1>6, CopyOfIs
  <1>8. v_cells' \in [Streams -> Sound(n)] /\ v_heads' \in [Streams -> 0 .. n]
    BY <1>1, <1>2, <1>4, <1>5, <1>7
  <1>9. sc_info' \in Seq(Streams \X Streams)
    BY <1>1, <1>4, <1>5
  <1>10. PICK x, y : x = CopiedBy(sc_info, buf) /\ y = CopiedBy(sc_info', buf)
    OBVIOUS
  <1>11. x \in Buffers /\ y = [x EXCEPT ![b] = x[a]]
    <2>1. buf \in [Streams -> [Idx -> [tok : Tok \cup {NoTok}, rot : Int]]]
      BY <1>1 DEF Buffers
    <2>2. x \in Buffers
      BY <1>1, <1>10, <2>1, CopiedType DEF Buffers
    <2>3. CopiedBy(Append(sc_info, <<a, b>>), buf) = [x EXCEPT ![b] = x[a]]
      <3>1. PICK V : V = [Idx -> [tok : Tok \cup {NoTok}, rot : Int]]
        OBVIOUS
      <3>2. buf \in [Streams -> V] /\ sc_info \in Seq(Streams \X Streams)
        BY <1>1, <2>1, <3>1
      <3>3. CopiedTo(a, b, CopiedBy(sc_info, buf), CopiedBy(Append(sc_info, <<a, b>>), buf))
        BY <1>5, <3>2, CopiedOnce, Zenon
      <3> QED BY <1>10, <3>3, Zenon DEF CopiedTo
    <2> QED BY <1>4, <1>10, <2>2, <2>3
  <1>12. ASSUME "divide" \notin conf.uses, NEW st \in Streams, NEW i \in Idx, ~IsEmpty(v_cells'[st], i)
         PROVE  y[st][i].rot + v_cells'[st].shift[i] = v_cells'[st].pos[i]
    <2>1. \A s \in Streams : ~IsEmpty(v_cells[s], i) =>
            x[s][i].rot + v_cells[s].shift[i] = v_cells[s].pos[i]
      BY <1>1, <1>10, <1>12 DEF Keys
    <2>2. CASE st = b
      <3>1. v_cells'[st] = d /\ y[st] = x[a]
        BY <1>1, <1>4, <1>5, <1>11, <2>2 DEF Buffers
      <3>2. d.pos[i] # -1
        BY <1>12, <3>1 DEF IsEmpty
      <3>3. c.pos[i] # -1 /\ d.pos[i] - d.shift[i] = c.pos[i] - c.shift[i]
        BY <1>2, <1>7, <3>2 DEF Carried, CarriedAt
      <3>4. x[a][i].rot + c.shift[i] = c.pos[i]
        BY <1>3, <1>5, <2>1, <3>3 DEF IsEmpty
      <3>5. x[a][i].rot \in Int
        BY <1>5, <1>11 DEF Buffers
      <3>6. /\ c.pos[i] \in Int /\ c.shift[i] \in Int /\ d.pos[i] \in Int /\ d.shift[i] \in Int
        BY <1>2, <1>6, <1>7, Whole
      <3> QED BY <3>1, <3>3, <3>4, <3>5, <3>6
    <2>3. CASE st # b
      <3>1. v_cells'[st] = v_cells[st] /\ y[st] = x[st]
        BY <1>1, <1>4, <1>11, <2>3 DEF Buffers
      <3> QED BY <1>12, <2>1, <3>1
    <2> QED BY <2>2, <2>3
  <1>13. "divide" \notin conf.uses => Keys(sc_info', buf, v_cells')
    BY <1>10, <1>12, Zenon DEF Keys
  <1>14. buf' \in Buffers /\ ("divide" \notin conf.uses => Keys(sc_info', buf', v_cells'))
    BY <1>1, <1>4, <1>9, <1>13, SettledIs
  <1> QED BY <1>1, <1>2, <1>4, <1>8, <1>9, <1>14, IInvNext

----------------------------------------------------------------------------
(* Sequences that are removed *)

\* Cell i holds what it did, but for some sequences.
Less(c, d, i) == d.seq[i] \subseteq c.seq[i] /\ (d.pos[i] # -1 => d.pos[i] = c.pos[i])

Removed(n, c, d, s, p0, p1) ==
  /\ d \in Sound(n)
  /\ \A i \in 0 .. n - 1 : Less(c, d, i) /\ (PosIn(c, i, p0, p1) => s \notin d.seq[i])

\* What the loop of seq_rm() has made of c when it comes to cell k.
Removing(n, c, s, I, k) ==
  {d \in Sound(n) : \A j \in 0 .. n - 1 :
      /\ j >= k => SameAt(c, d, j)
      /\ Less(c, d, j) /\ (j < k /\ j \in I => s \notin d.seq[j])}

\* One round of the loop of seq_rm().
LEMMA RemovingStep ==
  ASSUME NEW n \in Nat, NEW c \in Sound(n), NEW s \in Seq_id, NEW p0, NEW p1,
         NEW I, I = Holding(c, s, p0, p1), NEW k \in 1 .. n,
         NEW d \in Removing(n, c, s, I, k - 1), NEW e,
         e = IF k - 1 \in I THEN SeqRm(d, k - 1, s) ELSE d
  PROVE  e \in Removing(n, c, s, I, k)
  <1>1. PICK i \in 0 .. n - 1 : i = k - 1
    OBVIOUS
  <1>2. /\ d \in Sound(n)
        /\ \A j \in 0 .. n - 1 : /\ j >= i => SameAt(c, d, j)
                                 /\ Less(c, d, j) /\ (j < i /\ j \in I => s \notin d.seq[j])
    BY <1>1 DEF Removing
  <1>3. \A j \in 0 .. n - 1 : (j >= k => j >= i /\ j # i) /\ (j < k => j < i \/ j = i)
    BY <1>1
  <1>4. CASE i \notin I
    <2>1. e = d
      BY <1>1, <1>4
    <2>2. \A j \in 0 .. n - 1 : j < k /\ j \in I => j < i
      BY <1>3, <1>4
    <2> QED BY <1>2, <1>3, <2>1, <2>2 DEF Removing
  <1>5. CASE i \in I
    <2>1. e = SeqRm(d, i, s)
      BY <1>1, <1>5
    <2>2. SameAt(c, d, i) /\ s \in c.seq[i]
      BY <1>2, <1>5 DEF Holding
    <2>3. s \in d.seq[i]
      BY <2>2 DEF SameAt
    <2>4. Holds(n, d, e, i, -1, {}, 0) \/ Holds(n, d, e, i, d.pos[i], d.seq[i] \ {s}, d.shift[i])
      BY <1>2, <2>1, <2>3, SeqRmIs
    <2>5. /\ e \in Sound(n) /\ Apart(n, d, e, i)
          /\ \/ e.pos[i] = -1 /\ e.seq[i] = {}
             \/ e.pos[i] = d.pos[i] /\ e.seq[i] = d.seq[i] \ {s}
      BY <2>4 DEF Holds
    <2>6. s \notin e.seq[i] /\ Less(c, e, i)
      BY <2>2, <2>5 DEF Less, SameAt
    <2>7. ASSUME NEW j \in 0 .. n - 1
          PROVE  /\ j >= k => SameAt(c, e, j)
                 /\ Less(c, e, j) /\ (j < k /\ j \in I => s \notin e.seq[j])
      <3>1. CASE j = i
        BY <1>3, <2>6, <3>1
      <3>2. CASE j # i
        <4>1. e.pos[j] = d.pos[j] /\ e.seq[j] = d.seq[j] /\ e.shift[j] = d.shift[j]
          BY <2>5, <3>2 DEF Apart
        <4>2. Less(c, e, j)
          BY <1>2, <4>1 DEF Less
        <4>3. j >= k => SameAt(c, e, j)
          BY <1>2, <1>3, <4>1 DEF SameAt
        <4>4. j < k /\ j \in I => s \notin e.seq[j]
          BY <1>2, <1>3, <3>2, <4>1
        <4> QED BY <4>2, <4>3, <4>4
      <3> QED BY <3>1, <3>2
    <2> QED BY <2>5, <2>7 DEF Removing
  <1> QED BY <1>4, <1>5

\* seq_rm() leaves no token of the sequence in the range.
LEMMA RmInRemoves ==
  ASSUME NEW n \in Nat, NEW c \in Sound(n), NEW s \in Seq_id, NEW p0, NEW p1
  PROVE  Removed(n, c, RmIn(c, s, p0, p1), s, p0, p1)
  <1> DEFINE N == Cardinality(Indices(c))
             I == Holding(c, s, p0, p1)
  <1>0. PICK H : H = Holding(c, s, p0, p1)
    OBVIOUS
  <1>00. H = I
    BY <1>0
  <1> HIDE DEF N, I
  <1>1. N = n /\ Indices(c) = 0 .. n - 1
    BY CellCount DEF N
  <1>2. PICK W : W = [k \in 0 .. n |-> Removing(n, c, s, H, k)]
    OBVIOUS
  <1>3. PICK op : op = [k \in 1 .. n |-> [d \in Sound(n) |->
                          IF k - 1 \in H THEN SeqRm(d, k - 1, s) ELSE d]]
    OBVIOUS
  <1>4. c \in W[0]
    <2>1. \A j \in 0 .. n - 1 : SameAt(c, c, j) /\ Less(c, c, j) /\ ~(j < 0)
      BY DEF SameAt, Less
    <2>2. c \in Removing(n, c, s, H, 0)
      BY <2>1 DEF Removing
    <2> QED BY <1>2, <2>2
  <1>5. ASSUME NEW k \in 1 .. n, NEW d \in W[k - 1] PROVE op[k][d] \in W[k]
    <2>1. k - 1 \in 0 .. n /\ k \in 0 .. n
      OBVIOUS
    <2>2. d \in Removing(n, c, s, H, k - 1) /\ W[k] = Removing(n, c, s, H, k)
      BY <1>2, <2>1
    <2>3. d \in Sound(n)
      BY <2>2 DEF Removing
    <2>4. PICK e : e = IF k - 1 \in H THEN SeqRm(d, k - 1, s) ELSE d
      OBVIOUS
    <2>5. e \in Removing(n, c, s, H, k)
      BY <1>0, <2>2, <2>4, RemovingStep
    <2>6. op[k][d] = e
      BY <1>3, <2>3, <2>4
    <2> QED BY <2>2, <2>5, <2>6
  <1>6. PICK f : Turns(f, n, W, c, op)
    BY <1>4, <1>5, LoopExists
  <1>7. ASSUME NEW k \in 0 .. n PROVE f[k] \in Removing(n, c, s, H, k) /\ f[k] \in Sound(n)
    <2>1. f[k] \in Removing(n, c, s, H, k)
      BY <1>2, <1>6 DEF Turns
    <2> QED BY <2>1 DEF Removing
  <1>8. f = [k \in 0 .. N |-> IF k = 0 THEN c
                              ELSE IF k - 1 \in I THEN SeqRm(f[k - 1], k - 1, s) ELSE f[k - 1]]
    <2>1. ASSUME NEW k \in 0 .. n, k # 0
          PROVE  op[k][f[k - 1]] = IF k - 1 \in I THEN SeqRm(f[k - 1], k - 1, s) ELSE f[k - 1]
      <3>1. k \in 1 .. n /\ k - 1 \in 0 .. n
        BY <2>1
      <3>2. f[k - 1] \in Sound(n)
        BY <1>7, <3>1
      <3> QED BY <1>00, <1>3, <3>1, <3>2
    <2> QED BY <1>1, <1>6, <2>1, Zenon DEF Turns
  <1>9. ASSUME NEW g, g = [k \in 0 .. N |-> IF k = 0 THEN c
                             ELSE IF k - 1 \in I THEN SeqRm(g[k - 1], k - 1, s) ELSE g[k - 1]]
        PROVE  g[N] = f[N]
    <2>1. g[0] = f[0]
      BY <1>1, <1>8, <1>9
    <2>2. ASSUME NEW k \in 1 .. N, g[k - 1] = f[k - 1] PROVE g[k] = f[k]
      <3>1. k \in 0 .. N /\ k # 0
        BY <1>1
      <3> QED BY <1>8, <1>9, <2>2, <3>1, Zenon
    <2> QED BY <1>1, <2>1, <2>2, SameLoop
  <1>10. RmIn(c, s, p0, p1) = f[n]
    <2>1. RmIn(c, s, p0, p1) = f[N]
      BY <1>8, <1>9, Zenon DEF RmIn, ForEach, For, N, I
    <2> QED BY <1>1, <2>1
  <1>11. PICK r : r = f[n]
    OBVIOUS
  <1>12. r \in Removing(n, c, s, H, n)
    <2>1. n \in 0 .. n
      OBVIOUS
    <2> QED BY <1>7, <1>11, <2>1
  <1>13. ASSUME NEW i \in 0 .. n - 1
         PROVE  Less(c, r, i) /\ (PosIn(c, i, p0, p1) => s \notin r.seq[i])
    <2>1. i < n /\ Less(c, r, i) /\ (i \in H => s \notin r.seq[i])
      BY <1>12 DEF Removing
    <2>2. PosIn(c, i, p0, p1) /\ s \in c.seq[i] => i \in H
      BY <1>0, <1>1 DEF Holding
    <2> QED BY <2>1, <2>2 DEF Less
  <1> QED BY <1>10, <1>11, <1>12, <1>13 DEF Removing, Removed

\* The sequences of S that are less than k are removed.
EachRemoved(n, c, S, p0, p1, k) ==
  {d \in Sound(n) : \A i \in 0 .. n - 1 :
      /\ Less(c, d, i)
      /\ \A s \in S : s < k /\ PosIn(c, i, p0[s], p1[s]) => s \notin d.seq[i]}

\* One round of the loop over the sequences whose positions were overwritten.
LEMMA EachRemovedStep ==
  ASSUME NEW n \in Nat, NEW c \in Sound(n), NEW S \in SUBSET Seq_id, Seq_id \subseteq Nat, NEW p0, NEW p1,
         NEW k \in Nat, NEW t \in Seq_id, k = t + 1, NEW d \in EachRemoved(n, c, S, p0, p1, t),
         NEW e, e = IF t \in S THEN RmIn(d, t, p0[t], p1[t]) ELSE d
  PROVE  e \in EachRemoved(n, c, S, p0, p1, k)
  <1>1. /\ d \in Sound(n)
        /\ \A i \in 0 .. n - 1 :
             /\ Less(c, d, i)
             /\ \A s \in S : s < t /\ PosIn(c, i, p0[s], p1[s]) => s \notin d.seq[i]
    BY DEF EachRemoved
  <1>2. \A s \in S : s < k <=> s < t \/ s = t
    OBVIOUS
  <1>3. CASE t \notin S
    <2>1. \A s \in S : s < k => s < t
      BY <1>2, <1>3
    <2> QED BY <1>1, <1>3, <2>1 DEF EachRemoved
  <1>4. CASE t \in S
    <2>1. PICK a, b : a = p0[t] /\ b = p1[t]
      OBVIOUS
    <2>2. e = RmIn(d, t, a, b)
      BY <1>4, <2>1
    <2>3. Removed(n, d, e, t, a, b)
      BY <1>1, <2>2, RmInRemoves
    <2>4. e \in Sound(n) /\ \A i \in 0 .. n - 1 :
            Less(d, e, i) /\ (PosIn(d, i, a, b) => t \notin e.seq[i])
      BY <2>3 DEF Removed
    <2>5. ASSUME NEW i \in 0 .. n - 1
          PROVE  /\ Less(c, e, i)
                 /\ \A s \in S : s < k /\ PosIn(c, i, p0[s], p1[s]) => s \notin e.seq[i]
      <3>1. Less(c, e, i)
        BY <1>1, <2>4 DEF Less
      <3>2. ASSUME NEW s \in S, s < k, PosIn(c, i, p0[s], p1[s]) PROVE s \notin e.seq[i]
        <4>1. CASE s < t
          BY <1>1, <2>4, <3>2, <4>1 DEF Less
        <4>2. CASE s = t
          <5>1. CASE d.pos[i] = -1
            <6>1. d.seq[i] = {}
              BY <1>1, <5>1, Cell
            <6> QED BY <2>4, <6>1 DEF Less
          <5>2. CASE d.pos[i] # -1
            <6>1. d.pos[i] = c.pos[i]
              BY <1>1, <5>2 DEF Less
            <6>2. PosIn(c, i, a, b)
              BY <2>1, <3>2, <4>2
            <6>3. PosIn(d, i, a, b)
              BY <6>1, <6>2 DEF PosIn
            <6> QED BY <2>4, <4>2, <6>3
          <5> QED BY <5>1, <5>2
        <4> QED BY <1>2, <3>2, <4>1, <4>2
      <3> QED BY <3>1, <3>2
    <2> QED BY <2>4, <2>5 DEF EachRemoved
  <1> QED BY <1>3, <1>4

\* That loop leaves no token of these sequences in their ranges.
LEMMA RmEachRemoves ==
  ASSUME NEW n \in Nat, NEW c \in Sound(n), NEW S \in SUBSET Seq_id, NEW p0, NEW p1
  PROVE  RmEach(c, S, p0, p1) \in EachRemoved(n, c, S, p0, p1, Cardinality(Seq_id))
  <1> DEFINE L == Cardinality(Seq_id)
  <1> HIDE DEF L
  <1>1. L \in Nat /\ Seq_id = 0 .. L - 1 /\ Seq_id \subseteq Nat
    BY KVCellsAssumption, KVCacheAssumption, FS_CardinalityType DEF L
  <1>2. PICK W : W = [k \in 0 .. L |-> EachRemoved(n, c, S, p0, p1, k)]
    OBVIOUS
  <1>3. PICK op : op = [k \in 1 .. L |-> [d \in Sound(n) |->
                           IF k - 1 \in S THEN RmIn(d, k - 1, p0[k - 1], p1[k - 1]) ELSE d]]
    OBVIOUS
  <1>4. c \in W[0]
    <2>1. \A i \in 0 .. n - 1 : Less(c, c, i) /\ \A s \in S : ~(s < 0)
      BY <1>1 DEF Less
    <2>2. c \in EachRemoved(n, c, S, p0, p1, 0)
      BY <2>1 DEF EachRemoved
    <2> QED BY <1>1, <1>2, <2>2
  <1>5. ASSUME NEW k \in 1 .. L, NEW d \in W[k - 1] PROVE op[k][d] \in W[k]
    <2>1. PICK t \in Seq_id : t = k - 1 /\ k = t + 1 /\ k \in Nat /\ t \in 0 .. L /\ k \in 0 .. L
      BY <1>1
    <2>2. d \in EachRemoved(n, c, S, p0, p1, t) /\ W[k] = EachRemoved(n, c, S, p0, p1, k)
      BY <1>2, <2>1
    <2>3. d \in Sound(n)
      BY <2>2 DEF EachRemoved
    <2>4. PICK e : e = IF t \in S THEN RmIn(d, t, p0[t], p1[t]) ELSE d
      OBVIOUS
    <2>5. e \in EachRemoved(n, c, S, p0, p1, k)
      BY <1>1, <2>1, <2>2, <2>4, EachRemovedStep
    <2>6. op[k][d] = e
      BY <1>3, <2>1, <2>3, <2>4
    <2> QED BY <2>2, <2>5, <2>6
  <1>6. PICK f : Turns(f, L, W, c, op)
    BY <1>1, <1>4, <1>5, LoopExists
  <1>7. ASSUME NEW k \in 0 .. L PROVE f[k] \in EachRemoved(n, c, S, p0, p1, k) /\ f[k] \in Sound(n)
    <2>1. f[k] \in EachRemoved(n, c, S, p0, p1, k)
      BY <1>2, <1>6 DEF Turns
    <2> QED BY <2>1 DEF EachRemoved
  <1>9. f = [k \in 0 .. L |-> IF k = 0 THEN c
               ELSE IF k - 1 \in S THEN RmIn(f[k - 1], k - 1, p0[k - 1], p1[k - 1]) ELSE f[k - 1]]
    <2>1. ASSUME NEW k \in 0 .. L, k # 0
          PROVE  op[k][f[k - 1]] = IF k - 1 \in S THEN RmIn(f[k - 1], k - 1, p0[k - 1], p1[k - 1])
                                   ELSE f[k - 1]
      <3>1. k \in 1 .. L /\ k - 1 \in 0 .. L
        BY <1>1, <2>1
      <3>2. f[k - 1] \in Sound(n)
        BY <1>7, <3>1
      <3> QED BY <1>3, <3>1, <3>2
    <2> QED BY <1>6, <2>1, Zenon DEF Turns
  <1>10. ASSUME NEW g, g = [k \in 0 .. L |-> IF k = 0 THEN c
               ELSE IF k - 1 \in S THEN RmIn(g[k - 1], k - 1, p0[k - 1], p1[k - 1]) ELSE g[k - 1]]
         PROVE  g[L] = f[L]
    <2>1. g[0] = f[0]
      BY <1>1, <1>9, <1>10
    <2>2. ASSUME NEW k \in 1 .. L, g[k - 1] = f[k - 1] PROVE g[k] = f[k]
      <3>1. k \in 0 .. L /\ k # 0
        BY <1>1
      <3> QED BY <1>9, <1>10, <2>2, <3>1, Zenon
    <2> QED BY <1>1, <2>1, <2>2, SameLoop
  <1>11. RmEach(c, S, p0, p1) = f[L]
    BY <1>9, <1>10, Zenon DEF RmEach, For, L
  <1>12. L \in 0 .. L
    BY <1>1
  <1> QED BY <1>7, <1>11, <1>12 DEF L

\* The cells that were filled hold the sequences of the tokens.
Seated(n, c, slots, toks, k) ==
  {d \in Sound(n) : \A j \in 1 .. k : d.seq[slots[j]] = {toks[j].seq}}

\* The tokens are in their slots.
LEMMA PlacedInSeats ==
  ASSUME NEW n \in Nat, NEW c \in Sound(n), NEW slots, NEW val, Slotted(n, slots, val)
  PROVE  PlacedIn(c, slots, val) \in Seated(n, c, slots, val, Len(val))
  <1> DEFINE L == Len(val)
  <1> HIDE DEF L
  <1>1. L \in Nat /\ slots \in Seq(0 .. n - 1) /\ val \in Seq(Token) /\ Len(slots) = L
    BY DEF Slotted, L
  <1>2. /\ \A j \in 1 .. L : slots[j] \in 0 .. n - 1 /\ val[j] \in Token
        /\ \A a, b \in 1 .. L : a # b => slots[a] # slots[b]
    BY <1>1 DEF Slotted, Distinct, L
  <1>3. PICK op : op = [k \in 1 .. L |-> [d \in Sound(n) |-> Emplaced(d, slots[k], val[k])]]
    OBVIOUS
  <1>4. PICK W : W = [k \in 0 .. L |-> Seated(n, c, slots, val, k)]
    OBVIOUS
  <1>5. c \in W[0]
    <2>1. c \in Seated(n, c, slots, val, 0)
      BY DEF Seated
    <2> QED BY <1>1, <1>4, <2>1
  <1>6. ASSUME NEW k \in 1 .. L, NEW d \in W[k - 1] PROVE op[k][d] \in W[k]
    <2>1. k - 1 \in 0 .. L /\ k \in 0 .. L
      BY <1>1
    <2>2. d \in Seated(n, c, slots, val, k - 1) /\ W[k] = Seated(n, c, slots, val, k)
      BY <1>4, <2>1
    <2>3. d \in Sound(n) /\ \A j \in 1 .. k - 1 : d.seq[slots[j]] = {val[j].seq}
      BY <2>2 DEF Seated
    <2>4. PICK i \in 0 .. n - 1 : i = slots[k]
      BY <1>2
    <2>5. PICK e : e = Emplaced(d, i, val[k])
      OBVIOUS
    <2>6. Holds(n, d, e, i, val[k].pos, {val[k].seq}, 0)
      BY <1>2, <2>3, <2>5, EmplacedIs
    <2>7. /\ e \in Sound(n) /\ e.seq[i] = {val[k].seq}
          /\ \A j \in 0 .. n - 1 : j # i => e.seq[j] = d.seq[j]
      BY <2>6 DEF Holds, Apart
    <2>8. ASSUME NEW j \in 1 .. k PROVE e.seq[slots[j]] = {val[j].seq}
      <3>1. CASE j = k
        BY <2>4, <2>7, <3>1
      <3>2. CASE j # k
        <4>1. j \in 1 .. k - 1 /\ j \in 1 .. L
          BY <1>1, <3>2
        <4>2. slots[j] # i /\ slots[j] \in 0 .. n - 1
          BY <1>2, <2>4, <3>2, <4>1
        <4> QED BY <2>3, <2>7, <4>1, <4>2
      <3> QED BY <3>1, <3>2
    <2>9. op[k][d] = e
      BY <1>3, <2>3, <2>4, <2>5
    <2> QED BY <2>2, <2>7, <2>8, <2>9 DEF Seated
  <1>7. PICK f : Turns(f, L, W, c, op)
    BY <1>1, <1>5, <1>6, LoopExists
  <1>8. ASSUME NEW k \in 0 .. L PROVE f[k] \in Seated(n, c, slots, val, k) /\ f[k] \in Sound(n)
    <2>1. f[k] \in Seated(n, c, slots, val, k)
      BY <1>4, <1>7 DEF Turns
    <2> QED BY <2>1 DEF Seated
  <1>9. f = [k \in 0 .. L |-> IF k = 0 THEN c ELSE Emplaced(f[k - 1], slots[k], val[k])]
    <2>1. ASSUME NEW k \in 0 .. L, k # 0 PROVE op[k][f[k - 1]] = Emplaced(f[k - 1], slots[k], val[k])
      <3>1. k \in 1 .. L /\ k - 1 \in 0 .. L
        BY <1>1, <2>1
      <3>2. f[k - 1] \in Sound(n)
        BY <1>8, <3>1
      <3> QED BY <1>3, <3>1, <3>2
    <2> QED BY <1>7, <2>1, Zenon DEF Turns
  <1>10. ASSUME NEW g, g = [k \in 0 .. L |-> IF k = 0 THEN c ELSE Emplaced(g[k - 1], slots[k], val[k])]
         PROVE  g[L] = f[L]
    <2>1. g[0] = f[0]
      BY <1>1, <1>9, <1>10
    <2>2. ASSUME NEW k \in 1 .. L, g[k - 1] = f[k - 1] PROVE g[k] = f[k]
      <3>1. k \in 0 .. L /\ k # 0
        BY <1>1
      <3> QED BY <1>9, <1>10, <2>2, <3>1, Zenon
    <2> QED BY <1>1, <2>1, <2>2, SameLoop
  <1>11. PlacedIn(c, slots, val) = f[L]
    BY <1>9, <1>10, Zenon DEF PlacedIn, For, L
  <1>12. L \in 0 .. L
    BY <1>1
  <1> QED BY <1>8, <1>11, <1>12 DEF L

\* The cells slots hold nothing but the tokens toks.
Only(d, slots, toks) ==
  \A k \in DOMAIN slots : /\ d.seq[slots[k]] \subseteq {toks[k].seq}
                          /\ d.pos[slots[k]] # -1 => d.pos[slots[k]] = toks[k].pos

\* After apply_ubatch() the slots hold the tokens, of their sequence only.
LEMMA ApplyStreamHolds ==
  ASSUME NEW n \in Nat, NEW c \in Sound(n), NEW slots, NEW toks, Slotted(n, slots, toks)
  PROVE  Only(ApplyStream(c, slots, toks), slots, toks)
  <1>1. PICK L \in Nat : /\ L = Len(toks) /\ DOMAIN slots = 1 .. L
                         /\ \A k \in 1 .. L : slots[k] \in 0 .. n - 1
    <2>1. slots \in Seq(0 .. n - 1) /\ toks \in Seq(Token) /\ Len(slots) = Len(toks)
      BY DEF Slotted
    <2> QED BY <2>1
  <1>2. PICK p : p = PlacedIn(c, slots, toks)
    OBVIOUS
  <1>3. p \in PutTo(n, c, slots, toks, L) /\ p \in Seated(n, c, slots, toks, L)
    BY <1>1, <1>2, PlacedInIs, PlacedInSeats
  <1>4. p \in Sound(n) /\ \A k \in 1 .. L : p.pos[slots[k]] = toks[k].pos /\ p.seq[slots[k]] = {toks[k].seq}
    BY <1>3 DEF PutTo, Seated
  <1>5. PICK lost : lost = [s \in Seq_id |-> Overwritten(c, Range(slots), s)]
    OBVIOUS
  <1>6. PICK S : S = {s \in Seq_id : lost[s] # {}}
    OBVIOUS
  <1>7. PICK p0, p1 : p0 = [s \in S |-> 0] /\ p1 = [s \in S |-> Max(lost[s]) + 1]
    OBVIOUS
  <1>8. PICK d : d = RmEach(p, S, p0, p1)
    OBVIOUS
  <1>9. d \in EachRemoved(n, p, S, p0, p1, Cardinality(Seq_id))
    BY <1>4, <1>6, <1>8, RmEachRemoves
  <1>10. \A i \in 0 .. n - 1 : Less(p, d, i)
    BY <1>9 DEF EachRemoved
  <1>11. ApplyStream(c, slots, toks) = d
    BY <1>2, <1>5, <1>6, <1>7, <1>8, Zenon DEF ApplyStream
  <1>12. ASSUME NEW k \in 1 .. L
         PROVE  /\ d.seq[slots[k]] \subseteq {toks[k].seq}
                /\ d.pos[slots[k]] # -1 => d.pos[slots[k]] = toks[k].pos
    BY <1>1, <1>4, <1>10 DEF Less
  <1> QED BY <1>1, <1>11, <1>12 DEF Only

\* decode() takes back what a failed ubatch had placed.
LEMMA FailedRmEmpties ==
  ASSUME NEW n \in Nat, NEW c \in Sound(n), NEW slots, NEW toks, Slotted(n, slots, toks),
         Only(c, slots, toks), NEW k \in DOMAIN slots
  PROVE  FailedRm(c, toks).pos[slots[k]] = -1
  <1>1. /\ toks \in Seq(Token) /\ k \in DOMAIN toks /\ slots[k] \in 0 .. n - 1
    BY DEF Slotted
  <1>2. PICK t, i, s : t = toks[k] /\ i = slots[k] /\ s = t.seq
    OBVIOUS
  <1>3. /\ t \in Token /\ t \in Range(toks) /\ i \in 0 .. n - 1
        /\ \A u \in Range(toks) : u \in Token
    BY <1>1, <1>2 DEF Range
  <1>4. \A u \in Token : u.seq \in Seq_id /\ u.pos \in Nat
    BY KVCellsAssumption DEF Token, Positions
  <1>5. PICK S : S = {u.seq : u \in Range(toks)}
    OBVIOUS
  <1>6. S \in SUBSET Seq_id /\ s \in S
    BY <1>2, <1>3, <1>4, <1>5
  <1>7. PICK p0, p1 : p0 = [r \in S |-> Min(PosOf(toks, r))] /\ p1 = [r \in S |-> -1]
    OBVIOUS
  <1>8. PICK d : d = RmEach(c, S, p0, p1)
    OBVIOUS
  <1>9. FailedRm(c, toks) = d
    BY <1>5, <1>7, <1>8, Zenon DEF FailedRm
  <1>10. d \in EachRemoved(n, c, S, p0, p1, Cardinality(Seq_id))
    BY <1>6, <1>8, RmEachRemoves
  <1>11. s < Cardinality(Seq_id)
    <2>1. Cardinality(Seq_id) \in Nat /\ Seq_id = 0 .. Cardinality(Seq_id) - 1
      BY KVCellsAssumption, KVCacheAssumption, FS_CardinalityType
    <2> QED BY <1>6, <2>1
  <1>12. /\ d \in Sound(n) /\ Less(c, d, i)
         /\ PosIn(c, i, p0[s], p1[s]) => s \notin d.seq[i]
    BY <1>3, <1>6, <1>10, <1>11 DEF EachRemoved
  <1>13. c.seq[i] \subseteq {s} /\ (c.pos[i] # -1 => c.pos[i] = t.pos)
    BY <1>2 DEF Only
  <1>14. ASSUME d.pos[i] # -1 PROVE FALSE
    <2>1. d.pos[i] = c.pos[i] /\ c.pos[i] = t.pos /\ c.pos[i] # -1
      BY <1>12, <1>13, <1>14 DEF Less
    <2>2. PICK P : P = PosOf(toks, s)
      OBVIOUS
    <2>3. P \in SUBSET Nat /\ t.pos \in P
      BY <1>2, <1>3, <1>4, <2>2 DEF PosOf
    <2>4. Min(P) <= t.pos
      BY <2>3, LeastIs
    <2>5. Min(P) \in Nat /\ t.pos \in Nat
      BY <2>3, LeastIs
    <2>6. p0[s] = Min(P) /\ p1[s] = -1
      BY <1>6, <1>7, <2>2
    <2>7. PosIn(c, i, p0[s], p1[s])
      BY <2>1, <2>4, <2>5, <2>6 DEF PosIn
    <2>8. d.seq[i] = {}
      BY <1>12, <1>13, <2>7 DEF Less
    <2>9. d.pos[i] = -1
      BY <1>3, <1>12, <2>8, Cell
    <2> QED BY <1>14, <2>9
  <1> QED BY <1>2, <1>9, <1>14

----------------------------------------------------------------------------
(* Keys that are written *)

\* The buffers w are b with the keys of ub in the cells slots.
Wrote(b, w, ub, slots) ==
  /\ \A st \in DOMAIN ub : \A k \in DOMAIN slots[st] : w[st][slots[st][k]].rot = ub[st][k].rot
  /\ \A st \in Streams : \A i \in Idx :
       (st \in DOMAIN ub => \A k \in DOMAIN slots[st] : slots[st][k] # i) => w[st][i] = b[st][i]

\* The keys of an ubatch are written to the slots of its tokens, and nowhere else.
LEMMA WrittenIs ==
  ASSUME conf \in Confs, NEW b \in Buffers, NEW ub, NEW slots, Laid(ub, slots),
         NEW w, w = Written(b, ub, slots)
  PROVE  w \in Buffers /\ Wrote(b, w, ub, slots)
  <1>1. PICK n \in Nat : n = conf.size /\ Idx = 0 .. n - 1
    BY SizeIs
  <1>2. DOMAIN ub \in SUBSET Streams /\ \A st \in DOMAIN ub : Slotted(n, slots[st], ub[st])
    BY <1>1 DEF Laid
  <1>3. PICK V : V = [tok : Tok \cup {NoTok}, rot : Int]
    OBVIOUS
  <1>4. Buffers = [Streams -> [Idx -> V]]
    BY <1>3 DEF Buffers
  <1>5. PICK key : key = [st \in Streams |-> [i \in Idx |->
           LET t == ub[st][CHOOSE k \in DOMAIN ub[st] : slots[st][k] = i]
           IN [tok |-> t.tok, rot |-> t.rot]]]
    OBVIOUS
  <1>6. w = [st \in Streams |-> [i \in Idx |->
              IF st \in DOMAIN ub /\ i \in Range(slots[st]) THEN key[st][i] ELSE b[st][i]]]
    BY <1>5 DEF Written
  <1>7. ASSUME NEW st \in DOMAIN ub, NEW k \in DOMAIN slots[st]
        PROVE  /\ slots[st][k] \in Idx /\ slots[st][k] \in Range(slots[st])
               /\ key[st][slots[st][k]] \in V
               /\ key[st][slots[st][k]].rot = ub[st][k].rot
    <2>1. PICK s, q, i : s = slots[st] /\ q = ub[st] /\ i = s[k]
      OBVIOUS
    <2>2. /\ s \in Seq(0 .. n - 1) /\ q \in Seq(Token) /\ Len(s) = Len(q) /\ Distinct(s)
      BY <1>2, <2>1 DEF Slotted
    <2>3. DOMAIN q = DOMAIN s /\ k \in DOMAIN s /\ i \in Idx /\ q[k] \in Token
      BY <1>1, <2>1, <2>2
    <2>4. PICK j : j = CHOOSE l \in DOMAIN q : s[l] = i
      OBVIOUS
    <2>5. j \in DOMAIN q /\ s[j] = i
      BY <2>1, <2>3, <2>4
    <2>6. j = k
      BY <2>1, <2>2, <2>3, <2>5 DEF Distinct
    <2>7. st \in Streams
      BY <1>2
    <2>8. key[st][i] = [tok |-> q[j].tok, rot |-> q[j].rot]
      BY <1>5, <2>1, <2>3, <2>4, <2>7, Zenon
    <2>9. i \in Range(s)
      BY <2>1, <2>3 DEF Range
    <2>10. key[st][i] \in V /\ key[st][i].rot = q[k].rot
      BY <1>3, <2>3, <2>6, <2>8 DEF Token
    <2> QED BY <2>1, <2>3, <2>9, <2>10
  <1>8. ASSUME NEW st \in Streams, NEW i \in Idx
        PROVE  w[st][i] \in V
    <2>1. CASE st \in DOMAIN ub /\ i \in Range(slots[st])
      <3>1. PICK k \in DOMAIN slots[st] : slots[st][k] = i
        BY <2>1 DEF Range
      <3>2. key[st][i] \in V
        BY <1>7, <2>1, <3>1
      <3> QED BY <1>6, <2>1, <3>2
    <2>2. CASE ~(st \in DOMAIN ub /\ i \in Range(slots[st]))
      <3>1. w[st][i] = b[st][i]
        BY <1>6, <2>2
      <3> QED BY <1>4, <3>1
    <2> QED BY <2>1, <2>2
  <1>9. w \in Buffers
    <2>1. ASSUME NEW st \in Streams PROVE w[st] \in [Idx -> V]
      <3>1. w[st] = [i \in Idx |-> w[st][i]]
        BY <1>6
      <3> QED BY <1>8, <3>1
    <2> QED BY <1>4, <1>6, <2>1
  <1>10. ASSUME NEW st \in DOMAIN ub, NEW k \in DOMAIN slots[st]
         PROVE  w[st][slots[st][k]].rot = ub[st][k].rot
    BY <1>2, <1>6, <1>7
  <1>11. ASSUME NEW st \in Streams, NEW i \in Idx,
                st \in DOMAIN ub => \A k \in DOMAIN slots[st] : slots[st][k] # i
         PROVE  w[st][i] = b[st][i]
    <2>1. ~(st \in DOMAIN ub /\ i \in Range(slots[st]))
      BY <1>11 DEF Range
    <2> QED BY <1>6, <2>1
  <1> QED BY <1>9, <1>10, <1>11, Zenon DEF Wrote

\* Without copies to be made.
Plain(b, cells) ==
  \A st \in Streams : \A i \in Idx : ~IsEmpty(cells[st], i) =>
     b[st][i].rot + cells[st].shift[i] = cells[st].pos[i]

\* No copies are to be made.
LEMMA KeysPlain ==
  ASSUME NEW b \in Buffers, NEW cells
  PROVE  Keys(<<>>, b, cells) <=> Plain(b, cells)
  <1>1. CopiedBy(<<>>, b) = b
    BY CopiedNone DEF Buffers
  <1> QED BY <1>1, Zenon DEF Keys, Plain

\* After an ubatch is applied and computed, keys and metadata agree.
LEMMA AppliedKeys ==
  ASSUME conf \in Confs, NEW m, Steady(m), NEW b \in Buffers, Plain(b, m.cells),
         NEW ub, NEW slots, Laid(ub, slots), Computed(ub),
         NEW cells, cells = Applied(m, ub, slots).cells
  PROVE  Plain(Written(b, ub, slots), cells)
  <1>1. PICK n \in Nat : n = conf.size /\ Idx = 0 .. n - 1
    BY SizeIs
  <1>2. PICK w : w = Written(b, ub, slots)
    OBVIOUS
  <1>3. PICK a : a = Applied(m, ub, slots)
    OBVIOUS
  <1>4. Applies(m, a, ub, slots) /\ cells = a.cells
    BY <1>3, AppliedIs
  <1>5. /\ \A st \in DOMAIN ub : Landed(n, m.cells[st], cells[st], slots[st], ub[st])
        /\ \A st \in Streams : st \notin DOMAIN ub => cells[st] = m.cells[st]
        /\ \A st \in Streams : cells[st] \in Sound(n) /\ m.cells[st] \in Sound(n)
    BY <1>1, <1>4 DEF Applies, Steady
  <1>6. /\ DOMAIN ub \in SUBSET Streams /\ \A st \in DOMAIN ub : Slotted(n, slots[st], ub[st])
    BY <1>1 DEF Laid
  <1>7. /\ \A st \in DOMAIN ub : \A k \in DOMAIN slots[st] :
              w[st][slots[st][k]].rot = ub[st][k].rot
        /\ \A st \in Streams : \A i \in Idx :
              (st \in DOMAIN ub => \A k \in DOMAIN slots[st] : slots[st][k] # i) => w[st][i] = b[st][i]
    <2>1. Wrote(b, w, ub, slots)
      BY <1>2, WrittenIs
    <2> QED BY <2>1, Zenon DEF Wrote
  <1>8. ASSUME NEW st \in Streams, NEW i \in Idx, ~IsEmpty(cells[st], i)
        PROVE  w[st][i].rot + cells[st].shift[i] = cells[st].pos[i]
    <2>1. PICK c, d : c = m.cells[st] /\ d = cells[st]
      OBVIOUS
    <2>2. /\ c \in Sound(n) /\ d \in Sound(n) /\ i \in 0 .. n - 1 /\ d.pos[i] # -1
          /\ c.pos[i] \in Int /\ c.shift[i] \in Int /\ d.pos[i] \in Int /\ d.shift[i] \in Int
      <3>1. c \in Sound(n) /\ d \in Sound(n) /\ i \in 0 .. n - 1 /\ d.pos[i] # -1
        BY <1>1, <1>5, <1>8, <2>1 DEF IsEmpty
      <3> QED BY <3>1, Whole
    <2>3. CASE st \in DOMAIN ub /\ \E k \in DOMAIN slots[st] : slots[st][k] = i
      <3>1. PICK k \in DOMAIN slots[st] : slots[st][k] = i
        BY <2>3
      <3>2. Landed(n, c, d, slots[st], ub[st])
        BY <1>5, <2>1, <2>3
      <3>3. d.pos[i] - d.shift[i] = ub[st][k].pos
        BY <2>2, <3>1, <3>2 DEF Landed
      <3>4. w[st][i].rot = ub[st][k].rot
        BY <1>7, <2>3, <3>1
      <3>5. k \in DOMAIN ub[st]
        <4>1. slots[st] \in Seq(0 .. n - 1) /\ ub[st] \in Seq(Token) /\ Len(slots[st]) = Len(ub[st])
          BY <1>6, <2>3 DEF Slotted
        <4> QED BY <4>1
      <3>6. ub[st][k].rot = ub[st][k].pos
        BY <2>3, <3>5 DEF Computed
      <3> QED BY <2>1, <2>2, <3>3, <3>4, <3>6
    <2>4. CASE st \in DOMAIN ub => \A k \in DOMAIN slots[st] : slots[st][k] # i
      <3>1. w[st][i] = b[st][i]
        BY <1>7, <2>4
      <3>2. CarriedAt(c, d, i)
        <4>1. CASE st \in DOMAIN ub
          <5>1. Landed(n, c, d, slots[st], ub[st])
            BY <1>5, <2>1, <4>1
          <5> QED BY <2>2, <2>4, <4>1, <5>1 DEF Landed
        <4>2. CASE st \notin DOMAIN ub
          <5>1. c = d
            BY <1>5, <2>1, <4>2
          <5> QED BY <2>2, <5>1 DEF CarriedAt
        <4> QED BY <4>1, <4>2
      <3>3. c.pos[i] # -1 /\ d.pos[i] - d.shift[i] = c.pos[i] - c.shift[i]
        BY <2>2, <3>2 DEF CarriedAt
      <3>4. b[st][i].rot + c.shift[i] = c.pos[i]
        BY <2>1, <3>3 DEF Plain, IsEmpty
      <3>5. b[st][i].rot \in Int
        BY DEF Buffers
      <3> QED BY <2>1, <2>2, <3>1, <3>3, <3>4, <3>5
    <2> QED BY <2>3, <2>4
  <1> QED BY <1>2, <1>8, Zenon DEF Plain

\* The state of a decode in progress.
LEMMA InProgress ==
  ASSUME IInv, todo # <<>>
  PROVE  /\ "divide" \notin conf.uses => Plain(buf, v_cells)
         /\ Steady(Now) /\ sc_info = <<>> /\ Planned(Tail(todo))
         /\ Laid(Head(todo).ub, Head(todo).slots) /\ Computed(Head(todo).ub)
  <1>1. /\ conf \in Confs /\ v_cells \in [Streams -> Sound(conf.size)]
        /\ v_heads \in [Streams -> 0 .. conf.size] /\ buf \in Buffers
        /\ sc_info = <<>> /\ \A st \in Streams : ~v_cells[st].has_shift
        /\ "divide" \notin conf.uses => Keys(sc_info, buf, v_cells)
        /\ Planned(todo)
    BY IInvIs
  <1>2. Steady(Now)
    BY <1>1 DEF Steady, Now
  <1>3. "divide" \notin conf.uses => Plain(buf, v_cells)
    BY <1>1, KeysPlain
  <1>4. todo \in Seq(Range(todo))
    BY <1>1 DEF Planned
  <1>5. PICK q, t : q = todo /\ t = Tail(todo)
    OBVIOUS
  <1>6. /\ q \in Seq(Range(q)) /\ q # <<>> /\ Len(q) \in Nat /\ Len(q) # 0
        /\ t \in Seq(Range(q)) /\ Len(t) = Len(q) - 1 /\ \A k \in 1 .. Len(t) : t[k] = q[k + 1]
    BY <1>4, <1>5, EmptySeq
  <1>7. ASSUME NEW k \in DOMAIN t PROVE k + 1 \in DOMAIN q /\ t[k] = q[k + 1] /\ t[k] \in Range(t)
    BY <1>6 DEF Range
  <1>8. t \in Seq(Range(t))
    <2>1. t = [k \in 1 .. Len(t) |-> t[k]] /\ Len(t) \in Nat
      BY <1>6
    <2>2. \A k \in 1 .. Len(t) : t[k] \in Range(t)
      BY <1>6, <1>7
    <2> QED BY <2>1, <2>2
  <1>9. \A k \in DOMAIN q : Laid(q[k].ub, q[k].slots) /\ Computed(q[k].ub)
    BY <1>1, <1>5 DEF Planned
  <1>10. Planned(t)
    BY <1>7, <1>8, <1>9 DEF Planned
  <1>11. Head(q) = q[1] /\ 1 \in DOMAIN q
    BY <1>6
  <1> QED BY <1>1, <1>2, <1>3, <1>5, <1>9, <1>10, <1>11

\* process_ubatch() succeeds.
LEMMA ComputeStep ==
  ASSUME IInv, Compute
  PROVE  IInv'
  <1>1. /\ conf \in Confs /\ v_cells \in [Streams -> Sound(conf.size)]
        /\ v_heads \in [Streams -> 0 .. conf.size] /\ buf \in Buffers /\ KeptIs(kept)
    BY IInvIs
  <1>2. PICK u, m : u = Head(todo) /\ m = Applied(Now, u.ub, u.slots)
    OBVIOUS
  <1>3. /\ todo # <<>> /\ v_cells' = m.cells /\ v_heads' = m.heads /\ sc_info' = sc_info
        /\ buf' = Settled(Written(buf, u.ub, u.slots), v_cells')
        /\ todo' = Tail(todo) /\ UNCHANGED <<conf, kept>>
    BY <1>2, Zenon DEF Compute
  <1>4. /\ Steady(Now) /\ sc_info = <<>> /\ Planned(Tail(todo))
        /\ Laid(u.ub, u.slots) /\ Computed(u.ub)
        /\ "divide" \notin conf.uses => Plain(buf, v_cells)
    BY <1>2, <1>3, InProgress
  <1>5. Steady(m)
    BY <1>1, <1>2, <1>4, AppliedIs DEF Applies
  <1>6. /\ v_cells' \in [Streams -> Sound(conf.size)] /\ v_heads' \in [Streams -> 0 .. conf.size]
        /\ \A st \in Streams : ~v_cells'[st].has_shift
    BY <1>3, <1>5 DEF Steady
  <1>7. PICK w : w = Written(buf, u.ub, u.slots)
    OBVIOUS
  <1>8. w \in Buffers
    BY <1>1, <1>4, <1>7, WrittenIs
  <1>9. "divide" \notin conf.uses => Plain(w, v_cells')
    <2>1. Now.cells = v_cells
      BY DEF Now
    <2> QED BY <1>1, <1>2, <1>3, <1>4, <1>7, <2>1, AppliedKeys
  <1>10. sc_info' = <<>> /\ sc_info' \in Seq(Streams \X Streams)
    BY <1>3, <1>4
  <1>11. "divide" \notin conf.uses => Keys(sc_info', w, v_cells')
    BY <1>8, <1>9, <1>10, KeysPlain
  <1>12. buf' \in Buffers /\ ("divide" \notin conf.uses => Keys(sc_info', buf', v_cells'))
    BY <1>3, <1>7, <1>8, <1>10, <1>11, SettledIs
  <1> QED BY <1>1, <1>3, <1>4, <1>6, <1>10, <1>12, IInvNext

\* process_ubatch() fails.
LEMMA ComputeFailsStep ==
  ASSUME IInv, ComputeFails
  PROVE  IInv'
  <1>1. /\ conf \in Confs /\ v_cells \in [Streams -> Sound(conf.size)]
        /\ v_heads \in [Streams -> 0 .. conf.size] /\ buf \in Buffers /\ KeptIs(kept)
    BY IInvIs
  <1>2. PICK u, m : u = Head(todo) /\ m = Applied(Now, u.ub, u.slots)
    OBVIOUS
  <1>3. /\ todo # <<>> /\ sc_info' = sc_info
        /\ v_cells' = [st \in Streams |->
              IF st \in DOMAIN u.ub THEN FailedRm(m.cells[st], u.ub[st]) ELSE m.cells[st]]
        /\ v_heads' = [st \in Streams |-> HeadAfter(m.heads[st], m.cells[st], v_cells'[st])]
        /\ buf' = Settled(buf, v_cells')
        /\ todo' = <<>> /\ UNCHANGED <<conf, kept>>
    BY <1>2, Zenon DEF ComputeFails
  <1>4. /\ Steady(Now) /\ sc_info = <<>> /\ Laid(u.ub, u.slots)
        /\ "divide" \notin conf.uses => Plain(buf, v_cells)
    BY <1>2, <1>3, InProgress
  <1>5. PICK n \in Nat : n = conf.size /\ Idx = 0 .. n - 1
    BY <1>1, SizeIs
  <1>6. Applies(Now, m, u.ub, u.slots) /\ Now.cells = v_cells
    BY <1>1, <1>2, <1>4, AppliedIs DEF Now
  <1>7. /\ m.cells \in [Streams -> Sound(n)] /\ m.heads \in [Streams -> 0 .. n]
        /\ \A st \in DOMAIN u.ub : Landed(n, v_cells[st], m.cells[st], u.slots[st], u.ub[st])
        /\ \A st \in Streams : st \notin DOMAIN u.ub => m.cells[st] = v_cells[st]
    BY <1>5, <1>6 DEF Applies, Steady
  <1>8. DOMAIN u.ub \in SUBSET Streams /\ \A st \in DOMAIN u.ub : Slotted(n, u.slots[st], u.ub[st])
    BY <1>5, <1>4 DEF Laid
  <1>9. ASSUME NEW st \in Streams
        PROVE  v_cells'[st] \in Sound(n) /\ Carried(n, v_cells[st], v_cells'[st])
    <2>1. CASE st \notin DOMAIN u.ub
      <3>1. v_cells'[st] = v_cells[st]
        BY <1>3, <1>7, <2>1
      <3> QED BY <1>1, <1>5, <3>1, CarriedSelf
    <2>2. CASE st \in DOMAIN u.ub
      <3>1. PICK b, c, d, slots, toks :
              /\ b = v_cells[st] /\ c = m.cells[st] /\ d = v_cells'[st]
              /\ slots = u.slots[st] /\ toks = u.ub[st]
        OBVIOUS
      <3>2. /\ b \in Sound(n) /\ c \in Sound(n) /\ Landed(n, b, c, slots, toks)
            /\ Slotted(n, slots, toks)
        BY <1>1, <1>5, <1>7, <1>8, <2>2, <3>1
      <3>3. d = FailedRm(c, toks)
        BY <1>3, <2>2, <3>1
      <3>4. Swept(n, c, d, {"key", "still"})
        BY <3>2, <3>3, FailedRmIs
      <3>5. d \in Sound(n) /\ Carried(n, c, d)
        BY <3>4 DEF Swept
      <3>6. Only(c, slots, toks)
        <4>1. c = ApplyStream(b, slots, toks)
          <5>1. m = [cells |-> m.cells, heads |-> m.heads]
                /\ m.cells = [r \in Streams |-> IF r \in DOMAIN u.ub
                      THEN ApplyStream(Now.cells[r], u.slots[r], u.ub[r]) ELSE Now.cells[r]]
            BY <1>2 DEF Applied
          <5> QED BY <1>6, <2>2, <3>1, <5>1
        <4> QED BY <3>2, <4>1, ApplyStreamHolds
      <3>7. ASSUME NEW i \in 0 .. n - 1 PROVE CarriedAt(b, d, i)
        <4>1. CASE \E k \in DOMAIN slots : slots[k] = i
          <5>1. PICK k \in DOMAIN slots : slots[k] = i
            BY <4>1
          <5>2. FailedRm(c, toks).pos[slots[k]] = -1
            BY <3>2, <3>6, FailedRmEmpties
          <5> QED BY <3>3, <5>1, <5>2 DEF CarriedAt
        <4>2. CASE \A k \in DOMAIN slots : slots[k] # i
          <5>1. CarriedAt(b, c, i)
            BY <3>2, <4>2 DEF Landed
          <5>2. CarriedAt(c, d, i)
            BY <3>5 DEF Carried
          <5> QED BY <5>1, <5>2 DEF CarriedAt
        <4> QED BY <4>1, <4>2
      <3> QED BY <3>1, <3>5, <3>7 DEF Carried
    <2> QED BY <2>1, <2>2
  <1>10. v_cells' \in [Streams -> Sound(n)]
    BY <1>3, <1>9
  <1>11. v_heads' \in [Streams -> 0 .. n]
    <2>1. ASSUME NEW st \in Streams PROVE v_heads'[st] \in 0 .. n
      <3>1. PICK h : h = HeadAfter(m.heads[st], m.cells[st], v_cells'[st])
        OBVIOUS
      <3>2. h \in 0 .. n
        BY <1>1, <1>5, <1>7, <3>1, HeadAfterIn
      <3> QED BY <1>3, <3>1, <3>2
    <2> QED BY <1>3, <2>1
  <1>12. sc_info' = <<>> /\ sc_info' \in Seq(Streams \X Streams)
    BY <1>3, <1>4
  <1>13. ASSUME "divide" \notin conf.uses PROVE Keys(sc_info', buf, v_cells')
    <2>1. Keys(sc_info', buf, v_cells)
      BY <1>1, <1>4, <1>12, <1>13, KeysPlain
    <2> QED BY <1>1, <1>5, <1>9, <1>10, <1>12, <2>1, KeysCarried
  <1>14. buf' \in Buffers /\ ("divide" \notin conf.uses => Keys(sc_info', buf', v_cells'))
    BY <1>1, <1>3, <1>12, <1>13, SettledIs
  <1>15. Planned(todo')
    BY <1>3 DEF Planned
  <1> QED BY <1>1, <1>3, <1>5, <1>10, <1>11, <1>12, <1>14, <1>15, IInvNext

\* update(): nothing is deferred any more.
LEMMA UpdatedIs ==
  ASSUME IInv, NEW b, b = UpdatedBuf, NEW cells, cells = UpdatedCells
  PROVE  /\ b \in Buffers /\ cells \in [Streams -> Sound(conf.size)]
         /\ \A st \in Streams : ~cells[st].has_shift
         /\ "divide" \notin conf.uses => Plain(b, cells)
  <1>1. /\ conf \in Confs /\ v_cells \in [Streams -> Sound(conf.size)] /\ buf \in Buffers
        /\ sc_info \in Seq(Streams \X Streams)
        /\ "divide" \notin conf.uses => Keys(sc_info, buf, v_cells)
    BY IInvIs
  <1>2. PICK n \in Nat : n = conf.size /\ Idx = 0 .. n - 1
    BY <1>1, SizeIs
  <1>3. PICK e : e = Copied(buf)
    OBVIOUS
  <1>4. e = CopiedBy(sc_info, buf)
    BY <1>3 DEF Copied
  <1>5. e \in Buffers
    BY <1>1, <1>4, CopiedType DEF Buffers
  <1>6. ASSUME "divide" \notin conf.uses, NEW st \in Streams, NEW i \in Idx, ~IsEmpty(v_cells[st], i)
        PROVE  e[st][i].rot + v_cells[st].shift[i] = v_cells[st].pos[i]
    BY <1>1, <1>4, <1>6 DEF Keys
  <1>7. CASE ~HasShift
    <2>1. b = e /\ cells = v_cells
      BY <1>3, <1>7 DEF UpdatedBuf, UpdatedCells
    <2>2. \A st \in Streams : ~v_cells[st].has_shift
      BY <1>7 DEF HasShift
    <2>3. "divide" \notin conf.uses => Plain(b, cells)
      BY <1>6, <2>1 DEF Plain
    <2> QED BY <1>1, <1>5, <2>1, <2>2, <2>3
  <1>8. CASE HasShift
    <2>1. b = Shifted(e) /\ cells = [st \in Streams |-> ResetShift(v_cells[st])]
      BY <1>3, <1>8 DEF UpdatedBuf, UpdatedCells
    <2>2. ASSUME NEW st \in Streams
          PROVE  /\ cells[st] \in Sound(n) /\ ~cells[st].has_shift /\ cells[st].pos = v_cells[st].pos
                 /\ \A i \in 0 .. n - 1 : cells[st].shift[i] = 0
      <3>1. PICK c, d : c = v_cells[st] /\ d = ResetShift(c)
        OBVIOUS
      <3>2. c \in Sound(n)
        BY <1>1, <1>2, <3>1
      <3>3. cells[st] = d
        BY <2>1, <3>1
      <3> QED BY <3>1, <3>2, <3>3, ResetShiftIs
    <2>3. cells \in [Streams -> Sound(n)]
      BY <2>1, <2>2
    <2>4. PICK V : V = [tok : Tok \cup {NoTok}, rot : Int]
      OBVIOUS
    <2>5. ASSUME NEW st \in Streams, NEW i \in Idx
          PROVE  b[st][i] \in V /\ b[st][i].rot = e[st][i].rot + v_cells[st].shift[i]
      <3>1. PICK k, x : k = e[st][i] /\ x = v_cells[st].shift[i]
        OBVIOUS
      <3>2. k \in V /\ x \in Int
        <4>1. k \in V
          BY <1>5, <2>4, <3>1 DEF Buffers
        <4>2. v_cells[st] \in Sound(n) /\ i \in 0 .. n - 1
          BY <1>1, <1>2
        <4> QED BY <3>1, <4>1, <4>2, Whole
      <3>3. b[st][i] = [k EXCEPT !.rot = k.rot + x]
        BY <2>1, <3>1 DEF Shifted
      <3> QED BY <2>4, <3>1, <3>2, <3>3
    <2>6. b \in Buffers
      <3>1. ASSUME NEW st \in Streams PROVE b[st] \in [Idx -> V]
        <4>1. b[st] = [i \in Idx |-> b[st][i]]
          BY <2>1 DEF Shifted
        <4> QED BY <2>5, <4>1
      <3>2. b = [st \in Streams |-> b[st]]
        BY <2>1 DEF Shifted
      <3> QED BY <2>4, <3>1, <3>2 DEF Buffers
    <2>7. ASSUME "divide" \notin conf.uses, NEW st \in Streams, NEW i \in Idx, ~IsEmpty(cells[st], i)
          PROVE  b[st][i].rot + cells[st].shift[i] = cells[st].pos[i]
      <3>1. cells[st].pos[i] = v_cells[st].pos[i] /\ cells[st].shift[i] = 0
        BY <1>2, <2>2
      <3>2. ~IsEmpty(v_cells[st], i)
        BY <2>7, <3>1 DEF IsEmpty
      <3>3. e[st][i].rot + v_cells[st].shift[i] = v_cells[st].pos[i]
        BY <1>6, <2>7, <3>2
      <3>4. b[st][i].rot = e[st][i].rot + v_cells[st].shift[i] /\ b[st][i].rot \in Int
        BY <2>4, <2>5
      <3> QED BY <3>1, <3>3, <3>4
    <2>8. "divide" \notin conf.uses => Plain(b, cells)
      BY <2>7 DEF Plain
    <2> QED BY <1>2, <2>2, <2>3, <2>6, <2>8
  <1> QED BY <1>7, <1>8

\* decode() up to the ubatches: update(), then prepare(), which may try once more.
LEMMA DecodeStep ==
  ASSUME IInv, NEW batch \in Batches, Decode(batch)
  PROVE  IInv'
  <1>1. /\ conf \in Confs /\ v_heads \in [Streams -> 0 .. conf.size] /\ KeptIs(kept)
    BY IInvIs
  <1>2. PICK n \in Nat : n = conf.size
    BY <1>1, SizeIs
  <1>3. PICK toks, ubs : toks = Positioned(batch) /\ ubs = Ubatches(toks)
    OBVIOUS
  <1>4. PICK b, cells : b = UpdatedBuf /\ cells = UpdatedCells
    OBVIOUS
  <1>5. PICK m0 : m0 = [cells |-> cells, heads |-> v_heads]
    OBVIOUS
  <1>6. PICK t, m : t = Tried(m0, ubs) /\ m = Undone(t)
    OBVIOUS
  <1>7. /\ \A x \in Range(toks) : x.pos <= conf.last
        /\ sc_info' = <<>> /\ v_cells' = m.cells /\ v_heads' = m.heads
        /\ buf' = Settled(b, v_cells')
        /\ todo' = IF t.ok THEN t.steps ELSE <<>>
        /\ UNCHANGED <<conf, kept>>
    BY <1>3, <1>4, <1>5, <1>6, Zenon DEF Decode
  <1>8. /\ b \in Buffers /\ cells \in [Streams -> Sound(conf.size)]
        /\ \A st \in Streams : ~cells[st].has_shift
        /\ "divide" \notin conf.uses => Plain(b, cells)
    BY <1>4, UpdatedIs
  <1>9. Steady(m0)
    BY <1>1, <1>5, <1>8 DEF Steady
  <1>10. Placed(toks) /\ Len(toks) \in {1, 2}
    BY <1>1, <1>3, <1>7, PositionedIs
  <1>11. \/ Len(ubs) = 1 /\ Batched(ubs[1])
         \/ Len(ubs) = 2 /\ Batched(ubs[1]) /\ Batched(ubs[2])
    BY <1>3, <1>10, UbatchesAre
  <1>12. Steady(m) /\ CarriedAll(m0, m) /\ Planned(t.steps)
    BY <1>1, <1>6, <1>9, <1>11, Prepared
  <1>13. /\ v_cells' \in [Streams -> Sound(conf.size)] /\ v_heads' \in [Streams -> 0 .. conf.size]
         /\ \A st \in Streams : ~v_cells'[st].has_shift
    BY <1>7, <1>12 DEF Steady
  <1>14. \A st \in Streams : Carried(conf.size, cells[st], v_cells'[st])
    BY <1>5, <1>7, <1>12 DEF CarriedAll
  <1>15. sc_info' = <<>> /\ sc_info' \in Seq(Streams \X Streams)
    BY <1>7
  <1>16. ASSUME "divide" \notin conf.uses PROVE Keys(sc_info', b, v_cells')
    <2>1. Keys(sc_info', b, cells)
      BY <1>8, <1>15, <1>16, KeysPlain
    <2> QED BY <1>1, <1>8, <1>13, <1>14, <1>15, <2>1, KeysCarried
  <1>17. buf' \in Buffers /\ ("divide" \notin conf.uses => Keys(sc_info', buf', v_cells'))
    BY <1>7, <1>8, <1>15, <1>16, SettledIs
  <1>18. Planned(todo')
    <2>1. Planned(<<>>)
      BY DEF Planned
    <2> QED BY <1>7, <1>12, <2>1
  <1> QED BY <1>1, <1>7, <1>13, <1>15, <1>17, <1>18, IInvNext

----------------------------------------------------------------------------
(* States that are saved and restored *)

\* Nothing is deferred when a state is saved or restored.
LEMMA QuietIs ==
  ASSUME IInv, Quiet
  PROVE  /\ todo = <<>> /\ sc_info = <<>> /\ Steady(Now)
         /\ "divide" \notin conf.uses => Plain(buf, v_cells)
  <1>1. /\ conf \in Confs /\ v_cells \in [Streams -> Sound(conf.size)]
        /\ v_heads \in [Streams -> 0 .. conf.size] /\ buf \in Buffers
        /\ "divide" \notin conf.uses => Keys(sc_info, buf, v_cells)
    BY IInvIs
  <1>2. todo = <<>> /\ sc_info = <<>> /\ \A st \in Streams : ~v_cells[st].has_shift
    BY DEF Quiet, Calls, HasShift
  <1>3. "divide" \notin conf.uses => Plain(buf, v_cells)
    BY <1>1, <1>2, KeysPlain
  <1> QED BY <1>1, <1>2, <1>3 DEF Steady, Now

\* The cells of I hold tokens of the sequences S.
HoldAny(st, I, S) == \A i \in I : ~IsEmpty(v_cells[st], i) /\ v_cells[st].seq[i] \cap S # {}

\* The cells that are saved, in the order of their indices.
LEMMA ImageIs ==
  ASSUME IInv, Quiet, NEW st \in Streams, NEW I \in SUBSET Idx, NEW S \in SUBSET Seq_id,
         HoldAny(st, I, S), NEW q, q = Image(st, I, S)
  PROVE  /\ q \in Seq(KeptCell) /\ Len(q) <= conf.size
         /\ "divide" \notin conf.uses => \A k \in DOMAIN q : q[k].rot = q[k].pos
  <1>1. /\ conf \in Confs /\ v_cells \in [Streams -> Sound(conf.size)] /\ buf \in Buffers
    BY IInvIs
  <1>2. PICK n \in Nat : n = conf.size /\ Idx = 0 .. n - 1
    BY <1>1, SizeIs
  <1>3. \A r \in Streams : ~v_cells[r].has_shift
    BY DEF Quiet, HasShift
  <1>4. "divide" \notin conf.uses => Plain(buf, v_cells)
    BY QuietIs
  <1>5. /\ IsFiniteSet(I) /\ I \in SUBSET Nat /\ Cardinality(I) \in Nat /\ Cardinality(I) <= n
    <2>1. 0 \in Int /\ n - 1 \in Int
      OBVIOUS
    <2>2. IsFiniteSet(0 .. n - 1)
          /\ Cardinality(0 .. n - 1) = IF 0 > n - 1 THEN 0 ELSE n - 1 - 0 + 1
      BY <2>1, FS_Interval
    <2>3. Cardinality(0 .. n - 1) = n
      BY <2>2
    <2>4. I \subseteq 0 .. n - 1 /\ I \in SUBSET Nat
      BY <1>2
    <2> QED BY <2>2, <2>3, <2>4, FS_Subset, FS_CardinalityType
  <1>6. PICK L \in Nat : L = Cardinality(I)
    BY <1>5
  <1>7. PICK c : c = v_cells[st]
    OBVIOUS
  <1>8. c \in Sound(n) /\ ~c.has_shift
    BY <1>1, <1>2, <1>3, <1>7
  <1>9. q = [k \in 1 .. L |->
              [seqs |-> c.seq[Nth(I, k)] \cap S, pos |-> c.pos[Nth(I, k)],
               tok |-> buf[st][Nth(I, k)].tok, rot |-> buf[st][Nth(I, k)].rot]]
    BY <1>6, <1>7, Zenon DEF Image
  <1>10. ASSUME NEW k \in 1 .. L
         PROVE  q[k] \in KeptCell /\ ("divide" \notin conf.uses => q[k].rot = q[k].pos)
    <2>1. Nth(I, k) \in I
      BY <1>5, <1>6, NthExists
    <2>2. PICK i : i = Nth(I, k)
      OBVIOUS
    <2>3. i \in I /\ i \in Idx /\ i \in 0 .. n - 1
      BY <1>2, <2>1, <2>2
    <2>4. q[k] = [seqs |-> c.seq[i] \cap S, pos |-> c.pos[i],
                  tok |-> buf[st][i].tok, rot |-> buf[st][i].rot]
      BY <1>9, <2>2
    <2>5. ~IsEmpty(c, i) /\ c.seq[i] \cap S # {}
      BY <1>7, <2>3 DEF HoldAny
    <2>6. c.pos[i] \in Positions /\ c.shift[i] = 0 /\ c.seq[i] \cap S \in (SUBSET Seq_id) \ {{}}
      BY <1>8, <2>3, <2>5, Cell
    <2>7. buf[st][i] \in [tok : Tok \cup {NoTok}, rot : Int]
      BY <1>1, <2>3 DEF Buffers
    <2>8. q[k] \in KeptCell
      BY <2>4, <2>6, <2>7 DEF KeptCell
    <2>9. ASSUME "divide" \notin conf.uses PROVE q[k].rot = q[k].pos
      <3>1. buf[st][i].rot + c.shift[i] = c.pos[i]
        BY <1>4, <1>7, <2>3, <2>5, <2>9 DEF Plain
      <3>2. buf[st][i].rot \in Int
        BY <2>7
      <3> QED BY <2>4, <2>6, <3>1, <3>2
    <2> QED BY <2>8, <2>9
  <1>11. q = [k \in 1 .. L |-> q[k]]
    BY <1>9
  <1>12. q \in Seq(KeptCell) /\ Len(q) = L /\ DOMAIN q = 1 .. L
    BY <1>10, <1>11
  <1> QED BY <1>2, <1>5, <1>6, <1>10, <1>12

\* Saving changes nothing but what is kept.
LEMMA KeptStep ==
  ASSUME IInv, UNCHANGED <<conf, v_cells, v_heads, sc_info, buf, todo>>, KeptIs(kept')
  PROVE  IInv'
  <1>1. /\ conf' = conf /\ v_cells' = v_cells /\ v_heads' = v_heads /\ sc_info' = sc_info
        /\ buf' = buf /\ todo' = todo
    OBVIOUS
  <1>2. /\ conf \in Confs /\ v_cells \in [Streams -> Sound(conf.size)]
        /\ v_heads \in [Streams -> 0 .. conf.size] /\ buf \in Buffers
        /\ sc_info \in Seq(Streams \X Streams) /\ Planned(todo)
        /\ todo # <<>> => sc_info = <<>> /\ \A st \in Streams : ~v_cells[st].has_shift
        /\ "divide" \notin conf.uses => Keys(sc_info, buf, v_cells)
    BY IInvIs
  <1> QED BY <1>1, <1>2, IInvNext

\* state_write() of a sequence.
LEMMA SaveStep ==
  ASSUME IInv, NEW s \in Seq_id, Save(s)
  PROVE  IInv'
  <1>1. PICK st \in Streams : st = Stream(s)
    BY StreamIn
  <1>2. PICK c, I, q : c = v_cells[st] /\ I = Holding(c, s, 0, -1) /\ q = Image(st, I, {s})
    OBVIOUS
  <1>3. Quiet /\ kept' = [all |-> FALSE, cells |-> q]
        /\ UNCHANGED <<conf, v_cells, v_heads, sc_info, buf, todo>>
    BY <1>1, <1>2, Zenon DEF Save
  <1>4. conf \in Confs /\ v_cells \in [Streams -> Sound(conf.size)]
    BY IInvIs
  <1>5. PICK n \in Nat : n = conf.size /\ Idx = 0 .. n - 1
    BY <1>4, SizeIs
  <1>6. c \in Sound(n)
    BY <1>2, <1>4, <1>5
  <1>7. I \in SUBSET Idx
    BY <1>2, <1>5, <1>6, SoundIs DEF Holding
  <1>8. \A i \in I : ~IsEmpty(v_cells[st], i) /\ v_cells[st].seq[i] \cap {s} # {}
    BY <1>2 DEF Holding, PosIn, IsEmpty
  <1>9. /\ q \in Seq(KeptCell)
        /\ "divide" \notin conf.uses => \A k \in DOMAIN q : q[k].rot = q[k].pos
    <2>1. PICK S : S = {s}
      OBVIOUS
    <2>2. q = Image(st, I, S)
      BY <1>2, <2>1
    <2>3. HoldAny(st, I, S)
      BY <1>8, <2>1 DEF HoldAny
    <2>4. S \in SUBSET Seq_id
      BY <2>1
    <2> QED BY <1>3, <1>7, <2>2, <2>3, <2>4, ImageIs
  <1>10. PICK k : k = kept'
    OBVIOUS
  <1>11. k.all = FALSE /\ k.cells = q
    BY <1>3, <1>10
  <1>12. KeptIs(k)
    BY <1>9, <1>11 DEF KeptIs
  <1> QED BY <1>3, <1>10, <1>12, KeptStep

\* state_write() of the whole cache.
LEMMA SaveAllStep ==
  ASSUME IInv, SaveAll
  PROVE  IInv'
  <1>1. PICK c, I, q : c = v_cells[0] /\ I = c.used /\ q = Image(0, I, Seq_id)
    OBVIOUS
  <1>2. Quiet /\ conf.unified /\ kept' = [all |-> TRUE, cells |-> q]
        /\ UNCHANGED <<conf, v_cells, v_heads, sc_info, buf, todo>>
    BY <1>1, Zenon DEF SaveAll
  <1>3. conf \in Confs /\ v_cells \in [Streams -> Sound(conf.size)] /\ 0 \in Streams
    BY <1>2, IInvIs DEF Streams
  <1>4. PICK n \in Nat : n = conf.size /\ Idx = 0 .. n - 1
    BY <1>3, SizeIs
  <1>5. c \in Sound(n)
    BY <1>1, <1>3, <1>4
  <1>6. I \in SUBSET Idx
    BY <1>1, <1>4, <1>5, SoundIs
  <1>7. ASSUME NEW i \in I PROVE ~IsEmpty(v_cells[0], i) /\ v_cells[0].seq[i] \cap Seq_id # {}
    <2>1. i \in 0 .. n - 1
      BY <1>4, <1>6
    <2>2. ~IsEmpty(c, i) /\ c.seq[i] # {} /\ c.seq[i] \in SUBSET Seq_id
      BY <1>1, <1>5, <2>1, Cell
    <2> QED BY <1>1, <2>2
  <1>8. /\ q \in Seq(KeptCell) /\ Len(q) <= conf.size
        /\ "divide" \notin conf.uses => \A k \in DOMAIN q : q[k].rot = q[k].pos
    <2>1. HoldAny(0, I, Seq_id) /\ Seq_id \in SUBSET Seq_id
      BY <1>7 DEF HoldAny
    <2> QED BY <1>1, <1>2, <1>3, <1>6, <2>1, ImageIs
  <1>9. PICK k : k = kept'
    OBVIOUS
  <1>10. k.all = TRUE /\ k.cells = q
    BY <1>2, <1>9
  <1>11. KeptIs(k)
    BY <1>2, <1>8, <1>10 DEF KeptIs
  <1> QED BY <1>2, <1>9, <1>11, KeptStep

\* The ubatch that state_read_meta() makes of the cells that were saved.
LEMMA TokensForAre ==
  ASSUME IInv, ~kept.all, kept.cells # <<>>, NEW s \in Seq_id, NEW st \in Streams,
         NEW ub, ub = [r \in {st} |-> TokensFor(s)]
  PROVE  Tokens(ub) /\ ("divide" \notin conf.uses => Computed(ub))
  <1>1. /\ kept.cells \in Seq(KeptCell)
        /\ "divide" \notin conf.uses => \A j \in DOMAIN kept.cells : kept.cells[j].rot = kept.cells[j].pos
    BY IInvIs DEF KeptIs
  <1>2. PICK q, toks : q = kept.cells /\ toks = TokensFor(s)
    OBVIOUS
  <1>3. PICK n \in Nat : n = Len(q) /\ DOMAIN q = 1 .. n /\ n >= 1
    BY <1>1, <1>2, EmptySeq
  <1>4. toks = [k \in 1 .. n |-> [seq |-> s, tok |-> q[k].tok, pos |-> q[k].pos, rot |-> q[k].rot]]
    BY <1>2, <1>3 DEF TokensFor
  <1>5. ASSUME NEW k \in 1 .. n
        PROVE  toks[k] \in Token /\ ("divide" \notin conf.uses => toks[k].rot = toks[k].pos)
    <2>1. q[k] \in KeptCell
      BY <1>1, <1>2, <1>3
    <2>2. "divide" \notin conf.uses => q[k].rot = q[k].pos
      BY <1>1, <1>2, <1>3
    <2> QED BY <1>4, <2>1, <2>2 DEF KeptCell, Token
  <1>6. toks \in Seq(Token) /\ Len(toks) = n /\ DOMAIN toks = 1 .. n
    BY <1>4, <1>5
  <1>7. ub = [r \in {st} |-> toks]
    BY <1>2
  <1>8. DOMAIN ub = {st} /\ ub[st] = toks
    BY <1>7
  <1> QED BY <1>3, <1>5, <1>6, <1>8 DEF Tokens, Computed

\* state_read() of a sequence.
LEMMA RestoreStep ==
  ASSUME IInv, NEW s \in Seq_id, Restore(s)
  PROVE  IInv'
  <1>1. PICK st \in Streams : st = Stream(s)
    BY StreamIn
  <1>2. PICK c, d, h : /\ c = v_cells[st] /\ d = RmIn(c, s, 0, -1)
                       /\ h = HeadAfter(v_heads[st], c, d)
    OBVIOUS
  <1>3. PICK gone : gone = Cleared(s)
    OBVIOUS
  <1>4. PICK ub, slots : ub = [r \in {Stream(s)} |-> TokensFor(s)] /\ slots = FindSlots(gone, ub)
    OBVIOUS
  <1>5. PICK m : m = IF Found(slots) THEN Applied(gone, ub, slots) ELSE gone
    OBVIOUS
  <1>6. PICK w : w = IF Found(slots) THEN Written(buf, ub, slots) ELSE buf
    OBVIOUS
  <1>7. /\ Quiet /\ ~kept.all /\ kept.cells # <<>>
        /\ v_cells' = m.cells /\ v_heads' = m.heads
        /\ UNCHANGED <<conf, sc_info, todo, kept>>
        /\ buf' = Settled(w, v_cells')
    BY <1>3, <1>4, <1>5, <1>6, Zenon DEF Restore
  <1>8. /\ conf \in Confs /\ v_cells \in [Streams -> Sound(conf.size)]
        /\ v_heads \in [Streams -> 0 .. conf.size] /\ buf \in Buffers /\ KeptIs(kept)
        /\ Planned(todo)
    BY IInvIs
  <1>9. /\ todo = <<>> /\ sc_info = <<>> /\ Steady(Now)
        /\ "divide" \notin conf.uses => Plain(buf, v_cells)
    BY <1>7, QuietIs
  <1>10. PICK n \in Nat : n = conf.size
    BY <1>8, SizeIs
  <1>11. /\ c \in Sound(n) /\ ~c.has_shift /\ h \in 0 .. n
    <2>1. c \in Sound(n) /\ v_heads[st] \in 0 .. n
      BY <1>2, <1>8, <1>10
    <2>2. ~c.has_shift
      BY <1>2, <1>9 DEF Steady, Now
    <2> QED BY <1>2, <1>8, <1>10, <2>1, <2>2, HeadAfterIn
  <1>12. d \in Sound(n) /\ ~d.has_shift /\ Carried(n, c, d)
    <2>1. Swept(n, c, d, {"key", "still"})
      BY <1>2, <1>11, RmInIs
    <2> QED BY <1>11, <2>1 DEF Swept
  <1>13. gone = [cells |-> [v_cells EXCEPT ![st] = d], heads |-> [v_heads EXCEPT ![st] = h]]
    BY <1>1, <1>2, <1>3 DEF Cleared
  <1>14. gone.cells = [v_cells EXCEPT ![st] = d] /\ gone.heads = [v_heads EXCEPT ![st] = h]
    BY <1>13
  <1>15. gone.cells \in [Streams -> Sound(n)] /\ gone.heads \in [Streams -> 0 .. n]
    BY <1>8, <1>10, <1>11, <1>12, <1>14
  <1>16. ASSUME NEW r \in Streams
         PROVE  ~gone.cells[r].has_shift /\ Carried(n, v_cells[r], gone.cells[r])
    <2>1. CASE r = st
      <3>1. gone.cells[r] = d /\ v_cells[r] = c
        BY <1>2, <1>8, <1>14, <2>1
      <3> QED BY <1>12, <3>1
    <2>2. CASE r # st
      <3>1. gone.cells[r] = v_cells[r]
        BY <1>8, <1>14, <2>2
      <3>2. ~v_cells[r].has_shift
        BY <1>9 DEF Steady, Now
      <3> QED BY <3>1, <3>2, CarriedSelf
    <2> QED BY <2>1, <2>2
  <1>17. Steady(gone)
    BY <1>10, <1>13, <1>14, <1>15, <1>16 DEF Steady
  <1>18. ASSUME "divide" \notin conf.uses PROVE Plain(buf, gone.cells)
    <2>1. PICK q : q = <<>>
      OBVIOUS
    <2>2. q \in Seq(Streams \X Streams)
      BY <2>1
    <2>3. Keys(q, buf, v_cells)
      BY <1>8, <1>9, <1>18, <2>1, KeysPlain
    <2>4. Keys(q, buf, gone.cells)
      BY <1>8, <1>10, <1>15, <1>16, <2>2, <2>3, KeysCarried
    <2> QED BY <1>8, <2>1, <2>4, KeysPlain
  <1>19. Tokens(ub) /\ ("divide" \notin conf.uses => Computed(ub))
    BY <1>1, <1>4, <1>7, TokensForAre
  <1>20. /\ Steady(m) /\ w \in Buffers
         /\ "divide" \notin conf.uses => Plain(w, m.cells)
    <2>1. CASE ~Found(slots)
      <3>1. m = gone /\ w = buf
        BY <1>5, <1>6, <2>1
      <3> QED BY <1>8, <1>17, <1>18, <3>1
    <2>2. CASE Found(slots)
      <3>1. m = Applied(gone, ub, slots) /\ w = Written(buf, ub, slots)
        BY <1>5, <1>6, <2>2
      <3>2. Laid(ub, slots)
        BY <1>4, <1>8, <1>17, <1>19, <2>2, FindSlotsAre
      <3>3. Steady(m)
        BY <1>8, <1>17, <3>1, <3>2, AppliedIs DEF Applies
      <3>4. w \in Buffers
        BY <1>8, <3>1, <3>2, WrittenIs
      <3>5. ASSUME "divide" \notin conf.uses PROVE Plain(w, m.cells)
        BY <1>8, <1>17, <1>18, <1>19, <3>1, <3>2, <3>5, AppliedKeys
      <3> QED BY <3>3, <3>4, <3>5
    <2> QED BY <2>1, <2>2
  <1>21. v_cells' \in [Streams -> Sound(conf.size)] /\ v_heads' \in [Streams -> 0 .. conf.size]
    BY <1>7, <1>20 DEF Steady
  <1>22. sc_info' = <<>> /\ sc_info' \in Seq(Streams \X Streams) /\ todo' = <<>> /\ todo' = todo
    BY <1>7, <1>9
  <1>23. "divide" \notin conf.uses => Keys(sc_info', w, v_cells')
    BY <1>7, <1>20, <1>22, KeysPlain
  <1>24. buf' \in Buffers /\ ("divide" \notin conf.uses => Keys(sc_info', buf', v_cells'))
    BY <1>7, <1>20, <1>22, <1>23, SettledIs
  <1> QED BY <1>7, <1>8, <1>21, <1>22, <1>24, IInvNext

\* state_read() of the whole cache.
LEMMA RestoreAllStep ==
  ASSUME IInv, RestoreAll
  PROVE  IInv'
  <1>1. /\ conf \in Confs /\ v_cells \in [Streams -> Sound(conf.size)]
        /\ v_heads \in [Streams -> 0 .. conf.size] /\ buf \in Buffers /\ KeptIs(kept)
        /\ Planned(todo)
    BY IInvIs
  <1>2. PICK n \in Nat : n = conf.size /\ n >= 1 /\ Idx = 0 .. n - 1
    BY <1>1, SizeIs
  <1>3. PICK q : q = kept.cells
    OBVIOUS
  <1>4. PICK d, b : /\ d = CellsRead(q)
                    /\ b = [i \in Idx |-> IF i + 1 \in DOMAIN q
                                          THEN [tok |-> q[i + 1].tok, rot |-> q[i + 1].rot] ELSE Junk]
    OBVIOUS
  <1>5. PICK w : w = [buf EXCEPT ![0] = b]
    OBVIOUS
  <1>6. /\ Quiet /\ kept.all
        /\ v_cells' = [v_cells EXCEPT ![0] = d] /\ v_heads' = [v_heads EXCEPT ![0] = 0]
        /\ UNCHANGED <<conf, sc_info, todo, kept>>
        /\ buf' = Settled(w, v_cells')
    BY <1>3, <1>4, <1>5 DEF RestoreAll
  <1>7. todo = <<>> /\ sc_info = <<>>
    BY <1>6, QuietIs
  <1>8. /\ Streams = {0} /\ q \in Seq(KeptCell) /\ Len(q) <= n
        /\ "divide" \notin conf.uses => \A k \in DOMAIN q : q[k].rot = q[k].pos
    BY <1>1, <1>2, <1>3, <1>6 DEF KeptIs, Streams
  <1>9. PICK L \in Nat : L = Len(q) /\ DOMAIN q = 1 .. L /\ L <= n
    BY <1>8
  <1>10. PICK slots : slots = [k \in 1 .. Len(q) |-> k - 1]
    OBVIOUS
  <1>11. PICK f : f = Fresh(n)
    OBVIOUS
  <1>12. d \in PutTo(n, f, slots, q, L)
    BY <1>2, <1>4, <1>8, <1>9, <1>10, <1>11, CellsReadIs
  <1>13. /\ ~f.has_shift /\ \A i \in 0 .. n - 1 : f.pos[i] = -1
    BY <1>11, FreshIs
  <1>14. /\ d \in Sound(n) /\ ~d.has_shift
         /\ \A j \in 1 .. L : d.pos[j - 1] = q[j].pos /\ d.shift[j - 1] = 0
         /\ \A i \in 0 .. n - 1 : (\A j \in 1 .. L : j - 1 # i) => d.pos[i] = -1
    BY <1>9, <1>10, <1>12, <1>13 DEF PutTo, SameAt
  <1>15. v_cells' \in [Streams -> Sound(n)] /\ v_heads' \in [Streams -> 0 .. n]
    <2>1. v_cells \in [Streams -> Sound(n)] /\ v_heads \in [Streams -> 0 .. n] /\ 0 \in 0 .. n
      BY <1>1, <1>2
    <2>2. [v_cells EXCEPT ![0] = d] \in [Streams -> Sound(n)]
      BY <1>14, <2>1
    <2>3. [v_heads EXCEPT ![0] = 0] \in [Streams -> 0 .. n]
      BY <2>1
    <2> QED BY <1>6, <2>2, <2>3
  <1>16. PICK V : V = [tok : Tok \cup {NoTok}, rot : Int]
    OBVIOUS
  <1>17. ASSUME NEW i \in Idx PROVE b[i] \in V
    <2>1. CASE i + 1 \in DOMAIN q
      <3>1. q[i + 1] \in KeptCell
        BY <1>8, <2>1
      <3>2. b[i] = [tok |-> q[i + 1].tok, rot |-> q[i + 1].rot]
        BY <1>4, <2>1
      <3> QED BY <1>16, <3>1, <3>2 DEF KeptCell
    <2>2. CASE i + 1 \notin DOMAIN q
      <3>1. b[i] = Junk
        BY <1>4, <2>2
      <3> QED BY <1>16, <3>1 DEF Junk
    <2> QED BY <2>1, <2>2
  <1>18. w \in Buffers
    <2>1. b \in [Idx -> V]
      <3>1. b = [i \in Idx |-> b[i]]
        BY <1>4
      <3> QED BY <1>17, <3>1
    <2>2. buf \in [Streams -> [Idx -> V]] /\ Buffers = [Streams -> [Idx -> V]]
      BY <1>1, <1>16 DEF Buffers
    <2> QED BY <1>5, <2>1, <2>2
  <1>19. ASSUME "divide" \notin conf.uses, NEW st \in Streams, NEW i \in Idx, ~IsEmpty(v_cells'[st], i)
         PROVE  w[st][i].rot + v_cells'[st].shift[i] = v_cells'[st].pos[i]
    <2>1. st = 0 /\ v_cells'[st] = d /\ w[st] = b
      BY <1>1, <1>5, <1>6, <1>8 DEF Buffers
    <2>2. i \in 0 .. n - 1 /\ d.pos[i] # -1
      BY <1>2, <1>19, <2>1 DEF IsEmpty
    <2>3. PICK j \in 1 .. L : j - 1 = i
      BY <1>14, <2>2
    <2>4. i + 1 = j /\ j \in DOMAIN q /\ d.pos[i] = q[j].pos /\ d.shift[i] = 0
      BY <1>9, <1>14, <2>2, <2>3
    <2>5. b[i].rot = q[j].rot /\ q[j].rot = q[j].pos
      BY <1>4, <1>8, <1>19, <2>4
    <2>6. q[j].rot \in Int
      <3>1. q[j] \in KeptCell
        BY <1>8, <2>4
      <3> QED BY <3>1 DEF KeptCell
    <2> QED BY <2>1, <2>4, <2>5, <2>6
  <1>20. "divide" \notin conf.uses => Plain(w, v_cells')
    BY <1>19 DEF Plain
  <1>21. \A st \in Streams : ~v_cells'[st].has_shift
    BY <1>1, <1>6, <1>8, <1>14
  <1>22. sc_info' = <<>> /\ sc_info' \in Seq(Streams \X Streams) /\ todo' = <<>> /\ todo' = todo
    BY <1>6, <1>7
  <1>23. "divide" \notin conf.uses => Keys(sc_info', w, v_cells')
    BY <1>18, <1>20, <1>22, KeysPlain
  <1>24. buf' \in Buffers /\ ("divide" \notin conf.uses => Keys(sc_info', buf', v_cells'))
    BY <1>6, <1>18, <1>22, <1>23, SettledIs
  <1> QED BY <1>1, <1>2, <1>6, <1>15, <1>22, <1>24, IInvNext

----------------------------------------------------------------------------
(* All steps *)

\* A new cache.
LEMMA InitInv ==
  ASSUME Init
  PROVE  IInv
  <1>1. conf \in Confs
    BY DEF Init
  <1>2. PICK n \in Nat : n = conf.size /\ n >= 1 /\ Idx = 0 .. n - 1
    BY <1>1, SizeIs
  <1>3. PICK f : f = Fresh(n)
    OBVIOUS
  <1>4. f \in Sound(n) /\ \A i \in 0 .. n - 1 : f.pos[i] = -1
    BY <1>3, FreshIs
  <1>5. /\ v_cells = [st \in Streams |-> f] /\ v_heads = [st \in Streams |-> 0]
        /\ sc_info = <<>> /\ buf = [st \in Streams |-> [i \in Idx |-> Junk]]
        /\ todo = <<>> /\ kept = [all |-> FALSE, cells |-> <<>>]
    BY <1>2, <1>3 DEF Init
  <1>6. Types
    <2>1. v_cells \in [Streams -> Sound(conf.size)] /\ v_heads \in [Streams -> 0 .. conf.size]
      BY <1>2, <1>4, <1>5
    <2>2. buf \in [Streams -> [Idx -> [tok : Tok \cup {NoTok}, rot : Int]]]
      BY <1>5 DEF Junk
    <2>3. sc_info \in Seq(Streams \X Streams)
      BY <1>5
    <2>4. todo \in Seq(Range(todo)) /\ \A k \in DOMAIN todo : FALSE
      BY <1>5
    <2> QED BY <1>1, <2>1, <2>2, <2>3, <2>4 DEF Types
  <1>7. Updated
    BY <1>5 DEF Updated
  <1>8. KeptState
    BY <1>5 DEF KeptState
  <1>9. Filled = {}
    <2>1. ASSUME NEW g \in Streams \X Idx PROVE IsEmpty(v_cells[g[1]], g[2])
      <3>1. v_cells[g[1]] = f /\ g[2] \in 0 .. n - 1
        BY <1>2, <1>5
      <3> QED BY <1>4, <3>1 DEF IsEmpty
    <2> QED BY <2>1 DEF Filled
  <1>10. KRotated
    BY <1>9 DEF KRotated
  <1> QED BY <1>6, <1>7, <1>8, <1>10 DEF IInv

\* Nothing happens.
LEMMA StutterStep ==
  ASSUME IInv, UNCHANGED vars
  PROVE  IInv'
  <1>1. KeptIs(kept) /\ kept' = kept /\ UNCHANGED <<conf, v_cells, v_heads, sc_info, buf, todo>>
    BY IInvIs DEF vars
  <1> QED BY <1>1, KeptStep

\* Every step preserves the invariant.
LEMMA NextInv ==
  ASSUME IInv, [Next]_vars
  PROVE  IInv'
  <1>1. CASE Clear
    BY <1>1, ClearStep
  <1>2. CASE SaveAll
    BY <1>2, SaveAllStep
  <1>3. CASE RestoreAll
    BY <1>3, RestoreAllStep
  <1>4. CASE Compute
    BY <1>4, ComputeStep
  <1>5. CASE ComputeFails
    BY <1>5, ComputeFailsStep
  <1>6. CASE \E batch \in Batches : Decode(batch)
    BY <1>6, DecodeStep
  <1>7. CASE \E s \in Seq_id : SeqKeepCall(s) \/ Save(s) \/ Restore(s)
    BY <1>7, SeqKeepStep, SaveStep, RestoreStep
  <1>8. CASE \E a, b \in Seq_id : SeqCpStream(a, b)
    BY <1>8, SeqCpStreamStep
  <1>9. CASE \E r \in Ranges : SeqRmAny(r[1], r[2])
    BY <1>9, SeqRmAnyStep
  <1>10. CASE \E r \in Ranges, s \in Seq_id : SeqRmCall(s, r[1], r[2])
    BY <1>10, SeqRmStep
  <1>11. CASE \E r \in Ranges, s \in Seq_id, d \in Deltas : SeqAddCall(s, r[1], r[2], d)
    <2>1. PICK r \in Ranges, s \in Seq_id, d \in Deltas : SeqAddCall(s, r[1], r[2], d)
      BY <1>11
    <2> QED BY <2>1, SeqAddStep
  <1>12. CASE \E r \in Ranges, s \in Seq_id : SeqDivCall(s, r[1], r[2], 2)
    BY <1>12, SeqDivStep
  <1>13. CASE \E r \in Ranges, a, b \in Seq_id : SeqCpShared(a, b, r[1], r[2])
    BY <1>13, SeqCpSharedStep
  <1>14. CASE UNCHANGED vars
    BY <1>14, StutterStep
  <1> QED BY <1>1, <1>2, <1>3, <1>4, <1>5, <1>6, <1>7, <1>8, <1>9, <1>10, <1>11, <1>12, <1>13,
             <1>14, Zenon DEF Next

\* As many cells as tokens.
LEMMA DistinctCount ==
  ASSUME NEW n \in Nat, NEW slots, NEW toks, Slotted(n, slots, toks)
  PROVE  Cardinality(Range(slots)) = Len(toks)
  <1>1. PICK L \in Nat : L = Len(toks) /\ DOMAIN slots = 1 .. L
    <2>1. slots \in Seq(0 .. n - 1) /\ Len(slots) = Len(toks)
      BY DEF Slotted
    <2> QED BY <2>1
  <1>2. PICK A, B : A = 1 .. L /\ B = Range(slots)
    OBVIOUS
  <1>3. slots = [k \in 1 .. L |-> slots[k]]
    <2>1. slots \in Seq(0 .. n - 1)
      BY DEF Slotted
    <2> QED BY <1>1, <2>1
  <1>4. B = {slots[k] : k \in A}
    BY <1>1, <1>2 DEF Range
  <1>5. slots \in [A -> B]
    BY <1>2, <1>3, <1>4
  <1>6. \A k, l \in A : slots[k] = slots[l] => k = l
    BY <1>1, <1>2 DEF Slotted, Distinct
  <1>7. \A z \in B : \E k \in A : slots[k] = z
    BY <1>4
  <1>8. IsFiniteSet(A) /\ Cardinality(A) = L
    <2>1. 1 \in Int /\ L \in Int
      OBVIOUS
    <2>2. IsFiniteSet(1 .. L) /\ Cardinality(1 .. L) = IF 1 > L THEN 0 ELSE L - 1 + 1
      BY <2>1, FS_Interval
    <2> QED BY <1>2, <2>2
  <1>9. Cardinality(A) = Cardinality(B)
    BY <1>5, <1>6, <1>7, <1>8, SameSize
  <1> QED BY <1>1, <1>2, <1>8, <1>9

\* The invariant implies what is promised.
LEMMA InvExact ==
  ASSUME IInv
  PROVE  CellsExact
  <1>1. Types /\ KeptState /\ KRotated
    BY DEF IInv
  <1>2. PICK n \in Nat : n = conf.size /\ Idx = 0 .. n - 1
    BY <1>1, SizeIs DEF Types
  <1>3. /\ conf \in Confs /\ v_cells \in [Streams -> Sound(n)]
        /\ v_heads \in [Streams -> 0 .. n]
        /\ buf \in [Streams -> [Idx -> [tok : Tok \cup {NoTok}, rot : Int]]]
        /\ sc_info \in Seq(Streams \X Streams)
        /\ \A k \in DOMAIN todo : Laid(todo[k].ub, todo[k].slots)
    BY <1>1, <1>2 DEF Types
  <1>4. \A st \in Streams : v_cells[st] \in Cells(n) /\ Exact(v_cells[st])
    BY <1>3 DEF Sound
  <1>5. v_cells \in [Streams -> Cells(n)]
    BY <1>3, <1>4
  <1>6. \A k \in DOMAIN sc_info : sc_info[k] \in Streams \X Streams
    BY <1>3
  <1>7. ASSUME NEW k \in DOMAIN todo, NEW st \in DOMAIN todo[k].slots
        PROVE  /\ todo[k].slots[st] \in Seq(Idx)
               /\ Cardinality(Range(todo[k].slots[st])) = Len(todo[k].ub[st])
    <2>1. PICK q, t : q = todo[k].slots[st] /\ t = todo[k].ub[st]
      OBVIOUS
    <2>2. Slotted(n, q, t)
      BY <1>2, <1>3, <2>1 DEF Laid
    <2>3. q \in Seq(Idx)
      BY <1>2, <2>2 DEF Slotted
    <2> QED BY <2>1, <2>2, <2>3, DistinctCount
  <1>8. TypeOK
    BY <1>1, <1>2, <1>3, <1>5, <1>6, <1>7 DEF TypeOK, KeptState
  <1> QED BY <1>1, <1>4, <1>8 DEF CellsExact, CountsExact

\* In every reachable state the counts that llama_kv_cells keeps beside its cells
\* (used, seq_pos) are those of the cells, and each key that is read is rotated to
\* the position of its token once the pending copies and shifts are done: whatever
\* calls were made, however decodes failed and whatever was saved and restored.
THEOREM CellsStayExact == Spec => []CellsExact
  <1>1. Init => IInv
    BY InitInv
  <1>2. IInv /\ [Next]_vars => IInv'
    BY NextInv
  <1>3. IInv => CellsExact
    BY InvExact
  <1> QED BY <1>1, <1>2, <1>3, PTL DEF Spec

============================================================================
