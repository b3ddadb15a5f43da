------------------------------- MODULE KVCells -------------------------------
(***************************************************************************)
(* class llama_kv_cells (src/llama-kv-cells.h): which positions of which   *)
(* sequences the cells of one stream of the KV cache hold.  "used" and     *)
(* "seq_pos" repeat what "pos" and "seq" say, for speed: every operation   *)
(* has to keep them in step; "has_shift" tells whether a shift may be      *)
(* pending.  The 2D positions (ext) are left out.                          *)
(***************************************************************************)
EXTENDS Subsequences, FiniteSetsExt

CONSTANTS
    Seq_id,     \* llama_seq_id
    LastPos     \* positions are 0 .. LastPos

ASSUME KVCellsAssumption ==
    /\ IsFiniteSet(Seq_id)
    /\ LastPos \in Nat

Positions == 0 .. LastPos

\* The vectors have n entries; seq_pos is a map from positions to counts.
Cells(n) ==
    [pos : [0 .. n-1 -> Positions \cup {-1}], shift : [0 .. n-1 -> Int],
     seq : [0 .. n-1 -> SUBSET Seq_id], used : SUBSET (0 .. n-1),
     seq_pos : [Seq_id -> [Positions -> Nat]], has_shift : BOOLEAN]

\* reset()
Fresh(n) ==
    [pos |-> [i \in 0 .. n-1 |-> -1], shift |-> [i \in 0 .. n-1 |-> 0],
     seq |-> [i \in 0 .. n-1 |-> {}], used |-> {},
     seq_pos |-> [s \in Seq_id |-> [p \in Positions |-> 0]], has_shift |-> FALSE]

Indices(c) == DOMAIN c.pos

\* is_empty(), pos_in() with an end of -1 for none, seq_has() and both.
IsEmpty(c, i) == c.pos[i] = -1
PosIn(c, i, p0, p1) == c.pos[i] # -1 /\ c.pos[i] >= p0 /\ (p1 < 0 \/ c.pos[i] < p1)
Holding(c, s, p0, p1) == {i \in Indices(c) : PosIn(c, i, p0, p1) /\ s \in c.seq[i]}

\* seq_pos_min() and seq_pos_max(), from the map.
Present(c, s) == {p \in Positions : c.seq_pos[s][p] > 0}
SeqPosMin(c, s) == IF Present(c, s) = {} THEN -1 ELSE Min(Present(c, s))
SeqPosMax(c, s) == IF Present(c, s) = {} THEN -1 ELSE Max(Present(c, s))

----------------------------------------------------------------------------
\* seq_pos_rm() with d = -1 and seq_pos_add() with d = 1.
SeqPos(c, i, d) ==
    [c EXCEPT !.seq_pos = [s \in Seq_id |-> [p \in Positions |->
        @[s][p] + IF p = c.pos[i] /\ s \in c.seq[i] THEN d ELSE 0]]]

\* The cell is given back.
Emptied(c, i) ==
    [c EXCEPT !.pos[i] = -1, !.shift[i] = 0, !.seq[i] = {}, !.used = @ \ {i}]

Rm(c, i) == Emptied(SeqPos(c, i, -1), i)

SeqRm(c, i, s) ==
    IF c.seq[i] = {s} THEN Rm(c, i)
    ELSE [c EXCEPT !.seq[i] = @ \ {s}, !.seq_pos[s][c.pos[i]] = @ - 1]

SeqKeep(c, i, s) ==
    IF s \in c.seq[i]
    THEN [SeqPos(c, i, -1) EXCEPT !.seq[i] = {s}, !.seq_pos[s][c.pos[i]] = @ + 1]
    ELSE IF c.seq[i] # {} THEN Rm(c, i) ELSE c

SeqAdd(c, i, s) == [c EXCEPT !.seq[i] = @ \cup {s}, !.seq_pos[s][c.pos[i]] = @ + 1]

PosSet(c, i, p) == [c EXCEPT !.pos[i] = p, !.used = @ \cup {i}]

\* pos_set() and seq_add() for each sequence.
Place(c, i, p, S) == LET d == [PosSet(c, i, p) EXCEPT !.seq[i] = S] IN SeqPos(d, i, 1)

\* A cell moved below 0 is given back.
PosAdd(c, i, d) ==
    IF c.pos[i] + d < 0 THEN [Rm(c, i) EXCEPT !.has_shift = TRUE]
    ELSE SeqPos([SeqPos(c, i, -1) EXCEPT !.pos[i] = @ + d, !.shift[i] = @ + d,
                                         !.has_shift = TRUE], i, 1)

\* The shift that is accumulated is old - new, unlike that of pos_add().
PosDiv(c, i, d) ==
    LET p == c.pos[i] \div d
    IN SeqPos([SeqPos(c, i, -1) EXCEPT !.pos[i] = p, !.shift[i] = @ + (c.pos[i] - p),
                                       !.has_shift = TRUE], i, 1)

\* cp() and set() of one cell: set() does not touch the shift.
Saved(c, i) == [pos |-> c.pos[i], seq |-> c.seq[i]]
SetCell(c, i, old) ==
    LET d == IF IsEmpty(c, i) THEN c ELSE SeqPos(c, i, -1)
        e == [d EXCEPT !.pos[i] = old.pos, !.seq[i] = old.seq,
                       !.used = IF old.pos = -1 THEN @ \ {i} ELSE @ \cup {i}]
    IN IF old.pos = -1 THEN e ELSE SeqPos(e, i, 1)

\* reset_shift()
ResetShift(c) == [c EXCEPT !.shift = [i \in Indices(c) |-> 0], !.has_shift = FALSE]

\* A loop over the cells that does something to those of I.
ForEach(Op(_, _), c, I) ==
    For(LAMBDA d, k : IF k - 1 \in I THEN Op(d, k - 1) ELSE d, c, Cardinality(Indices(c)))

----------------------------------------------------------------------------
\* What "used", "seq_pos" and "has_shift" have to say.
Exact(c) ==
    /\ c.used = {i \in Indices(c) : c.pos[i] # -1}
    /\ \A i \in Indices(c) : c.pos[i] = -1 <=> c.seq[i] = {}
    /\ \A i \in Indices(c) : c.shift[i] # 0 => c.pos[i] # -1 /\ c.has_shift
    /\ \A s \in Seq_id, p \in Positions :
         c.seq_pos[s][p] = Cardinality({i \in Indices(c) : c.pos[i] = p /\ s \in c.seq[i]})
=============================================================================
