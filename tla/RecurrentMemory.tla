--------------------------- MODULE RecurrentMemory ---------------------------
(***************************************************************************)
(* llama_memory_recurrent (src/llama-memory-recurrent.cpp): one cell per   *)
(* sequence, with the position of its last token and the row of the        *)
(* tensors its state is in.  Sequences share a cell after a copy, until    *)
(* one of them is decoded.  The states of a ubatch are gathered into       *)
(* consecutive cells; with n_rs_seq > 0 the states after each of the last  *)
(* tokens are written as well, each to a group of rows of its own, for     *)
(* seq_rm() to fall back on.                                               *)
(*                                                                         *)
(* The rows are computed by the graph of build_rs() (llama-graph.cpp) and  *)
(* of the delta-net layers, in one step with find_slot().  A state is the  *)
(* sequence of tokens that led to it, as in RecurrentStates.               *)
(***************************************************************************)
EXTENDS Subsequences

CONSTANTS
    Confs,       \* cells (and sequences), groups besides the first, bounds on the
                 \* length of a state and on the tokens of a ubatch, optional calls
    Careless     \* what happens although it is not provided for (see Settled)

ASSUME RecurrentAssumption ==
    /\ Confs \subseteq [size : Nat \ {0}, n_rs_seq : Nat, len : Nat, tokens : Nat,
                         uses : SUBSET {"copy", "move", "fail", "state", "all"}]
    /\ Careless \subseteq {"any", "again", "wide"}

VARIABLES
    conf,
    cells,       \* of each cell: pos, src and the set seq_id
    tail,        \* cells[s].tail: the cell of the sequence s, -1 if it has none
    head, used,
    rs_idx,      \* per sequence: the group its state is in
    s_l,         \* the tensors: the row of a cell in a group is s_l[group][cell]
    undo,        \* per sequence: tokens the caller may take back
    given_up,    \* sequences whose decoding failed
    kept         \* a saved state: [of, cells]

mem  == <<cells, tail, head, used, rs_idx>>
memvars == <<conf, mem, s_l, undo, given_up, kept>>

size     == conf.size
n_rs_seq == conf.n_rs_seq

None  == -1
Junk  == <<-2>>                  \* what was never computed
Inf   == conf.len + 9              \* numeric_limits<llama_pos>::max()
Empty == [pos |-> -1, src |-> None, seq_id |-> {}]
Nothing == [of |-> "none", cells |-> <<>>]

Sequence == 0 .. size - 1
Cell     == 0 .. size - 1
Groups   == 0 .. n_rs_seq

NoStates == [g \in Groups |-> [i \in Cell |-> <<>>]]

Min2(a, b) == IF a < b THEN a ELSE b
Bare(c)    == c.seq_id = {}

SeqPos(s) == Max({-1} \cup {cells[i].pos : i \in {j \in Cell : s \in cells[j].seq_id}})

\* The row with the state of a cell, and the state of a sequence.
Row(i)   == IF cells[i].src >= 0 THEN cells[i].src ELSE i
State(s) == IF tail[s] = None THEN <<>> ELSE s_l[rs_idx[s]][Row(tail[s])]
Shared(s) == tail[s] # None /\ cells[tail[s]].seq_id # {s}

MemInit ==
    /\ conf \in Confs
    /\ cells = [i \in Cell |-> Empty] /\ tail = [s \in Sequence |-> None]
    /\ head = 0 /\ used = 0
    /\ rs_idx = [s \in Sequence |-> 0]
    /\ s_l = NoStates
    /\ undo = [s \in Sequence |-> 0] /\ given_up = {} /\ kept = Nothing

----------------------------------------------------------------------------
(* find_slot(): a function of the memory and of a ubatch, given by its     *)
(* sets of sequences and the position of the last token of each.           *)

Seq0(S)    == Min(S)
Members(u) == UNION {u[k] : k \in DOMAIN u}

\* Sequences that become part of the set of another one leave their cells.
Detached(m, D) ==
    [cells |-> [i \in Cell |->
        LET gone == {s \in D : m.tail[s] = i}
            c    == [m.cells[i] EXCEPT !.seq_id = @ \ gone]
        IN IF gone # {} /\ Bare(c) THEN Empty ELSE c],
     tail |-> [s \in Sequence |-> IF s \in D THEN None ELSE m.tail[s]]]

\* The first empty cell from a given one on, round the end.
NextEmpty(cs, from) ==
    LET at(i) == (from + i) % size
        E == {i \in Cell : Bare(cs[at(i)])}
    IN IF E = {} THEN from % size ELSE at(Min(E))

\* A sequence without a cell of its own gets the next empty one, and the source
\* of its state with it.
Place(m, s) ==
    LET t == m.tail[s]
        e == m.empty
        old == IF t = None THEN Empty ELSE m.cells[t]
        cs == IF t = None THEN m.cells
              ELSE [m.cells EXCEPT ![e] = [old EXCEPT !.seq_id = {s}], ![t].seq_id = @ \ {s}]
    IN IF t # None /\ Cardinality(old.seq_id) = 1
       THEN [m EXCEPT !.ok = @ /\ s \in old.seq_id]
       ELSE [m EXCEPT !.ok = /\ @
                             /\ t # None => s \in old.seq_id /\ ~Bare(cs[t])
                             /\ Bare(m.cells[e]),
                      !.cells = cs, !.tail[s] = e, !.empty = NextEmpty(cs, e + 1)]

\* Mutant: the sources of the states stay where they are.
SwapNot(m, a, b) ==
    [m EXCEPT !.cells[a] = [m.cells[b] EXCEPT !.src = m.cells[a].src],
              !.cells[b] = [m.cells[a] EXCEPT !.src = m.cells[b].src],
              !.tail = [s \in Sequence |-> CASE m.tail[s] = a -> b
                                             [] m.tail[s] = b -> a
                                             [] OTHER -> m.tail[s]]]

SwapCells(m, a, b) ==
    [m EXCEPT !.cells[a] = m.cells[b], !.cells[b] = m.cells[a],
              !.tail = [s \in Sequence |-> CASE m.tail[s] = a -> b
                                             [] m.tail[s] = b -> a
                                             [] OTHER -> m.tail[s]]]

\* The sequences of the ubatch take the consecutive cells from min on.
Gather(m, u, min) ==
    For(LAMBDA x, k : LET t == x.tail[Seq0(u[k])] IN
                      IF t = min + k - 1 THEN x ELSE SwapCells(x, min + k - 1, t),
        m, Len(u))

Occupy(m, u, min, last) ==
    LET k(i) == i - min + 1
    IN [m EXCEPT
          !.cells = [i \in Cell |-> IF k(i) \in 1 .. Len(u)
                                    THEN [m.cells[i] EXCEPT !.pos = last[k(i)], !.seq_id = u[k(i)]]
                                    ELSE m.cells[i]],
          !.tail = [s \in Sequence |-> IF \E j \in 1 .. Len(u) : s \in u[j]
                                       THEN min - 1 + (CHOOSE j \in 1 .. Len(u) : s \in u[j])
                                       ELSE m.tail[s]]]

\* Every set of the ubatch has a cell of its own, that of its first sequence.
Seated(m, u) ==
    LET d    == Detached(m, UNION {u[k] \ {Seq0(u[k])} : k \in DOMAIN u})
        from == IF m.head > m.used + 2 * Len(u) THEN 0 ELSE m.head
    IN For(LAMBDA x, k : Place(x, Seq0(u[k])),
           [cells |-> d.cells, tail |-> d.tail, ok |-> TRUE, empty |-> NextEmpty(d.cells, from)],
           Len(u))

\* The memory afterwards, the window min .. max of cells the graph touches, and
\* of each of them the row its state comes from.  zero is a row nobody needs.
FindSlot(m0, u, last) ==
    LET seated == Seated(m0, u)
        tails  == {seated.tail[Seq0(u[k])] : k \in DOMAIN u}
        min    == Min(tails)
        max    == Max(tails)
        m      == Occupy(Gather([cells |-> seated.cells, tail |-> seated.tail], u, min), u, min, last)
        free   == {i \in min .. max : \A j \in Cell : m.cells[j].src # i}
        zero   == IF free = {} THEN None ELSE Min(free)
        bare   == {i \in min .. max : m.cells[i].src < 0}
    IN [cells |-> [i \in Cell |-> IF i \in min .. max THEN [m.cells[i] EXCEPT !.src = i]
                                                      ELSE m.cells[i]],
        tail |-> m.tail, head |-> min,
        used |-> Cardinality({i \in Cell : ~Bare(m.cells[i])}), rs_idx |-> m0.rs_idx,
        min |-> min, max |-> max, zero |-> zero,
        src0 |-> [i \in min .. max |-> IF i \in bare THEN zero ELSE m.cells[i].src],
        ok |-> seated.ok /\ Cardinality(tails) = Len(u) /\ (bare # {} => zero # None)]

Memory == [cells |-> cells, tail |-> tail, head |-> head, used |-> used, rs_idx |-> rs_idx]

\* The variables but rs_idx.
Placed(m) == cells' = m.cells /\ tail' = m.tail /\ head' = m.head /\ used' = m.used
Becomes(m) == Placed(m) /\ rs_idx' = m.rs_idx

----------------------------------------------------------------------------
(* Decoding a ubatch *)

\* The ubatches of init_batch(): neighbouring sequences without snapshots, and
\* one set of sequences with them (or with embeddings for all tokens).
Ubatches ==
    {<<S>> : S \in (SUBSET Sequence) \ {{}}}
        \cup IF n_rs_seq > 0 THEN {}
             ELSE UNION {{[k \in 1 .. n |-> {a + k - 1}] : n \in 2 .. size - a} : a \in Sequence}

\* llama_batch_allocr::init() and callers that keep to the limits: see Careless.
Decodable(u, n) ==
    /\ Members(u) \cap given_up = {}
    /\ \A k \in 1 .. Len(u) : \A s \in u[k] :
         /\ SeqPos(s) = SeqPos(Seq0(u[k]))
         /\ s # Seq0(u[k]) => rs_idx[s] = 0
         /\ Len(State(s)) + n <= conf.len /\ SeqPos(s) + n < conf.len

LastPositions(u, n) == [k \in 1 .. Len(u) |-> SeqPos(Seq0(u[k])) + n]

Zeroed(f) == IF f.zero = None THEN s_l ELSE [s_l EXCEPT ![0][f.zero] = <<>>]

\* s_copy(): the state of the first sequence of a cell.
Copied(f, i) ==
    LET S == f.cells[i].seq_id
    IN Zeroed(f)[IF n_rs_seq = 0 \/ S = {} THEN 0 ELSE rs_idx[Seq0(S)]][f.src0[i]]

\* The rows after the graph: group g of a cell of the ubatch has the state before
\* its last g tokens; other cells of the window get their state at its new place.
Computed(f, u, n) ==
    [g \in Groups |-> [i \in Cell |->
        IF i \in f.min .. f.min + Len(u) - 1
        THEN IF g < n THEN Copied(f, i) \o [x \in 1 .. n - g |-> Seq0(u[i - f.min + 1])] ELSE Junk
        ELSE IF g = 0 /\ i \in f.min .. f.max THEN Copied(f, i) ELSE Zeroed(f)[g][i]]]

\* s_copy() resets the group of the sequence it reads.
Reset(f) ==
    [s \in Sequence |->
        IF n_rs_seq > 0 /\ \E i \in f.min .. f.max : ~Bare(f.cells[i]) /\ s = Seq0(f.cells[i].seq_id)
        THEN 0 ELSE rs_idx[s]]

DecodeUbatch(u, n) ==
    /\ Decodable(u, n)
    /\ LET f == FindSlot(Memory, u, LastPositions(u, n))
       IN f.ok /\ Placed(f) /\ rs_idx' = Reset(f) /\ s_l' = Computed(f, u, n)
    /\ undo' = [s \in Sequence |-> IF s \in Members(u) THEN Min2(n - 1, n_rs_seq) ELSE undo[s]]
    /\ UNCHANGED <<conf, given_up, kept>>

----------------------------------------------------------------------------
(* Memory calls *)

\* The cells without the sequence s where P(cell) holds; a cell that is empty
\* then is reset.
Without(cs, s, P(_)) ==
    [i \in Cell |-> IF ~P(cs[i]) \/ s \notin cs[i].seq_id THEN cs[i]
                    ELSE IF cs[i].seq_id = {s} THEN Empty
                    ELSE [cs[i] EXCEPT !.seq_id = @ \ {s}]]

Freed(cs, ds) == {i \in Cell : ~Bare(cs[i]) /\ Bare(ds[i])}
HeadAt(h, F)  == IF F # {} /\ Min(F) < h THEN Min(F) ELSE h

\* Mutant: the tail of a sequence stays at the cell it was removed from.
TailStays(m, s, inside) == m.tail

TailWithout(m, s, inside) == IF inside THEN [m.tail EXCEPT ![s] = None] ELSE m.tail

\* seq_rm(s, p0, p1) with s >= 0 on the memory m.
Rm(m, s, p0, p1) ==
    LET t     == m.tail[s]
        pos   == IF t = None THEN -1 ELSE m.cells[t].pos
        back  == pos - (p0 - 1)
        in(c) == p0 <= c.pos /\ c.pos < p1
        cs    == Without(m.cells, s, in)
        F     == Freed(m.cells, cs)
    IN IF t # None /\ 0 < p0 /\ p0 <= pos /\ pos < p1
       THEN IF back <= n_rs_seq
            THEN [m EXCEPT !.rs_idx[s] = back, !.cells[t].pos = p0 - 1]
            ELSE m
       ELSE [m EXCEPT !.cells = cs,
                      !.tail = TailWithout(m, s, t # None /\ p0 <= pos /\ pos < p1),
                      !.head = HeadAt(@, F), !.used = @ - Cardinality(F),
                      !.rs_idx[s] = IF p0 = 0 /\ p1 = Inf THEN 0 ELSE @]

Ranges == {<<p, Inf>> : p \in 0 .. conf.len - 1} \cup {<<0, 1>>, <<0, conf.len>>}

\* Careful callers: the tokens that a rollback takes back were in the last
\* ubatch, and it follows no other rollback (but for "again"); cells that are
\* shared are not rolled back or moved; after a rollback the sequence is decoded
\* alone, moved, saved or removed; all sequences are removed at once only where
\* there are none (but for "any").  A ubatch of one cell fails (but for "wide").
Settled(S) == \A s \in S : rs_idx[s] = 0

SeqRm(s, p0, p1) ==
    LET pos == SeqPos(s)
        r   == pos - p0 + 1
        whole == p0 = 0 /\ p1 = Inf
    IN /\ s \in given_up => whole
       /\ 0 < p0 /\ p0 <= pos /\ r <= n_rs_seq =>
             /\ r <= undo[s]
             /\ rs_idx[s] = 0 \/ "again" \in Careless
             /\ ~Shared(s)
       /\ whole \/ p0 > 0 \/ pos >= p1 \/ Settled({s})
       /\ Becomes(Rm(Memory, s, p0, p1))
       /\ undo' = [undo EXCEPT ![s] = IF tail'[s] = None THEN 0
                                      ELSE IF cells'[tail'[s]].pos < pos THEN @ - r ELSE @]
       /\ given_up' = IF whole THEN given_up \ {s} ELSE given_up
       /\ UNCHANGED <<conf, s_l, kept>>

\* seq_rm() of all sequences: anything but the whole range is refused.
SeqRmAny(p0, p1) ==
    /\ "any" \in Careless \/ used = 0
    /\ IF p0 = 0 /\ p1 = Inf
       THEN LET F == {i \in Cell : cells[i].pos >= 0} IN
            /\ cells' = [i \in Cell |-> IF i \in F THEN Empty ELSE cells[i]]
            /\ used' = used - Cardinality({i \in F : ~Bare(cells[i])})
            /\ head' = HeadAt(head, F)
            /\ rs_idx' = [s \in Sequence |-> 0]
            /\ undo' = [s \in Sequence |-> 0] /\ given_up' = {}
            /\ UNCHANGED tail
       ELSE UNCHANGED <<mem, undo, given_up>>
    /\ UNCHANGED <<conf, s_l, kept>>

\* The range is not looked at.
SeqCp(a, b) ==
    /\ "copy" \in conf.uses /\ a # b /\ a \notin given_up /\ Settled({a, b})
    /\ LET cs == IF tail[b] = None THEN cells ELSE Without(cells, b, LAMBDA c : TRUE) IN
       /\ cells' = [i \in Cell |-> IF i = tail[a] THEN [cs[i] EXCEPT !.seq_id = @ \cup {b}] ELSE cs[i]]
       /\ used' = used - Cardinality(Freed(cells, cs))
    /\ tail' = [tail EXCEPT ![b] = tail[a]]
    /\ undo' = [undo EXCEPT ![b] = undo[a]] /\ given_up' = given_up \ {b}
    /\ UNCHANGED <<conf, head, rs_idx, s_l, kept>>

SeqKeep(s) ==
    LET drop == {i \in Cell : s \notin cells[i].seq_id} IN
    /\ "copy" \in conf.uses /\ Settled(Sequence \ {s})
    /\ tail' = [t \in Sequence |-> IF t = s THEN tail[s] ELSE None]
    /\ cells' = [i \in Cell |-> IF i \in drop THEN Empty ELSE [cells[i] EXCEPT !.seq_id = {s}]]
    /\ used' = used - Cardinality({i \in drop : cells[i].pos >= 0})
    /\ head' = HeadAt(head, drop)
    /\ undo' = [t \in Sequence |-> IF t = s THEN undo[s] ELSE 0]
    /\ given_up' = given_up \cap {s}
    /\ UNCHANGED <<conf, rs_idx, s_l, kept>>

\* The position of a sequence becomes p if it is in the range.
Moved(s, p0, p1, p) ==
    /\ "move" \in conf.uses /\ s \notin given_up
    /\ tail[s] # None /\ p0 <= SeqPos(s) /\ SeqPos(s) < p1
    /\ ~Shared(s)
    /\ p \in 0 .. conf.len - 1
    /\ cells' = [cells EXCEPT ![tail[s]].pos = p]
    /\ UNCHANGED <<conf, tail, head, used, rs_idx, s_l, undo, given_up, kept>>

SeqAdd(s, p0, p1, shift) == Moved(s, p0, p1, SeqPos(s) + shift)
SeqDiv(s, p0, p1, d)     == Moved(s, p0, p1, SeqPos(s) \div d)

Cleared == [cells |-> [i \in Cell |-> Empty], tail |-> [s \in Sequence |-> None],
            head |-> 0, used |-> 0, rs_idx |-> [s \in Sequence |-> 0]]

Clear(data) ==
    /\ Becomes(Cleared)
    /\ s_l' = IF data THEN NoStates ELSE s_l
    /\ undo' = [s \in Sequence |-> 0] /\ given_up' = {}
    /\ UNCHANGED <<conf, kept>>

----------------------------------------------------------------------------
(* Decoding fails *)

\* Nothing was computed, or the graph was aborted.  decode() then removes the
\* positions of the ubatch from the memory, or tries to.
DecodeFails(u, n) ==
    /\ "fail" \in conf.uses /\ Decodable(u, n)
    /\ LET f == FindSlot(Memory, u, LastPositions(u, n)) IN
       /\ f.ok /\ (f.max = f.min \/ "wide" \in Careless)
       /\ \E aborted \in BOOLEAN :
            /\ s_l' = IF ~aborted THEN s_l
                      ELSE [g \in Groups |-> [i \in Cell |->
                              IF i \in f.min .. f.max THEN Junk ELSE Zeroed(f)[g][i]]]
            /\ Becomes(For(LAMBDA m, k : Rm(m, Seq0(u[k]), SeqPos(Seq0(u[k])) + 1, Inf),
                           IF aborted THEN [f EXCEPT !.rs_idx = Reset(f)] ELSE f, Len(u)))
    /\ given_up' = given_up \cup Members(u)
    /\ undo' = [s \in Sequence |-> IF s \in Members(u) THEN 0 ELSE undo[s]]
    /\ UNCHANGED <<conf, kept>>

----------------------------------------------------------------------------
(* State save and restore *)

Save(s) ==
    /\ "state" \in conf.uses /\ s \notin given_up
    /\ kept' = [of |-> "one",
                cells |-> IF tail[s] = None THEN <<>>
                          ELSE <<[pos |-> SeqPos(s), seq_id |-> {}, state |-> State(s)]>>]
    /\ UNCHANGED <<conf, mem, s_l, undo, given_up>>

SaveAll ==
    /\ "all" \in conf.uses /\ given_up = {}
    /\ LET is == InTurn({i \in Cell : ~Bare(cells[i])})
       IN kept' = [of |-> "all",
                   cells |-> [k \in DOMAIN is |->
                     [pos |-> cells[is[k]].pos, seq_id |-> cells[is[k]].seq_id,
                      state |-> s_l[rs_idx[Seq0(cells[is[k]].seq_id)]][Row(is[k])]]]]
    /\ UNCHANGED <<conf, mem, s_l, undo, given_up>>

\* A state that cannot be read leaves the sequence empty.
Restore(s) ==
    /\ kept.of = "one"
    /\ LET m == Rm(Memory, s, 0, Inf) IN
       IF kept.cells = <<>>
       THEN Becomes(m) /\ UNCHANGED s_l
       ELSE LET f == FindSlot(m, <<{s}>>, <<kept.cells[1].pos>>) IN
            /\ f.ok
            /\ \/ Becomes(f) /\ s_l' = [s_l EXCEPT ![0][f.min] = kept.cells[1].state]
               \/ Becomes(Rm(f, s, 0, Inf)) /\ s_l' = [s_l EXCEPT ![0][f.min] = Junk]
    /\ undo' = [undo EXCEPT ![s] = 0] /\ given_up' = given_up \ {s}
    /\ UNCHANGED <<conf, kept>>

RestoreAll ==
    /\ kept.of = "all"
    /\ LET n == Len(kept.cells)
           at(i) == kept.cells[i + 1]
           all == [Cleared EXCEPT
                     !.cells = [i \in Cell |-> IF i < n THEN [pos |-> at(i).pos, src |-> i,
                                                              seq_id |-> at(i).seq_id]
                                               ELSE Empty],
                     !.tail = [s \in Sequence |->
                                 Max({None} \cup {i \in 0 .. n - 1 : s \in at(i).seq_id})],
                     !.used = n]
       IN \/ /\ Becomes(all)
             /\ s_l' = [g \in Groups |-> [i \in Cell |-> IF g = 0 /\ i < n THEN at(i).state ELSE <<>>]]
          \/ Becomes(Cleared) /\ s_l' = NoStates
    /\ undo' = [s \in Sequence |-> 0] /\ given_up' = {}
    /\ UNCHANGED <<conf, kept>>

----------------------------------------------------------------------------
MemNext ==
    \/ \E u \in Ubatches, n \in 1 .. conf.tokens : DecodeUbatch(u, n) \/ DecodeFails(u, n)
    \/ \E r \in Ranges : \/ SeqRmAny(r[1], r[2])
                         \/ \E s \in Sequence : \/ SeqRm(s, r[1], r[2])
                                                \/ \E d \in {-1, 1} : SeqAdd(s, r[1], r[2], d)
                                                \/ SeqDiv(s, r[1], r[2], 2)
    \/ \E s \in Sequence : \/ SeqKeep(s) \/ Save(s) \/ Restore(s)
                           \/ \E t \in Sequence : SeqCp(s, t)
    \/ \E data \in BOOLEAN : Clear(data)
    \/ SaveAll \/ RestoreAll

MemSpec == MemInit /\ [][MemNext]_memvars

----------------------------------------------------------------------------
(* Properties *)

MemTypeOK ==
    /\ conf \in Confs
    /\ cells \in [Cell -> [pos : -1 .. conf.len - 1, src : Cell \cup {None}, seq_id : SUBSET Sequence]]
    /\ tail \in [Sequence -> Cell \cup {None}]
    /\ head \in Cell /\ used \in 0 .. size
    /\ rs_idx \in [Sequence -> Groups]
    /\ undo \in [Sequence -> 0 .. conf.tokens] /\ given_up \subseteq Sequence
    /\ \A g \in Groups, i \in Cell : Len(s_l[g][i]) <= conf.len

\* The tails and the count agree with the sets of sequences of the cells: what
\* find_slot() verifies in debug builds.
TailsVerified ==
    /\ MemTypeOK
    /\ \A s \in Sequence : {i \in Cell : s \in cells[i].seq_id} =
                              IF tail[s] = None THEN {} ELSE {tail[s]}
    /\ used = Cardinality({i \in Cell : ~Bare(cells[i])})
    /\ \A i \in Cell : Bare(cells[i]) <=> cells[i].pos = -1

\* No assertion of find_slot() fails, whatever is decoded next, nor does
\* state_write() find a shared state with two rollback indices.
NoAbort ==
    /\ \A u \in Ubatches : Decodable(u, 1) => FindSlot(Memory, u, LastPositions(u, 1)).ok
    /\ \A i \in Cell : \A s, t \in cells[i].seq_id \ given_up : rs_idx[s] = rs_idx[t]

\* Both: the cells are such that find_slot() can use them.
CellsSound == TailsVerified /\ NoAbort

\* The number of sequences in the largest configuration.
MaxSeq == Max({c.size : c \in Confs})

\* The cells as the states that the callers see: of each sequence, and of those kept.
PosSeen   == [s \in 0 .. MaxSeq - 1 |-> IF s \in Sequence \ given_up THEN SeqPos(s) ELSE -1]
StateSeen == [s \in 0 .. MaxSeq - 1 |-> IF s \in Sequence \ given_up THEN State(s) ELSE <<>>]
UndoSeen  == [s \in 0 .. MaxSeq - 1 |-> IF s \in Sequence THEN undo[s] ELSE 0]
KeptSeen  ==
    LET seen(C) == IF C = {} THEN [pos |-> -1, state |-> <<>>]
                   ELSE [pos |-> kept.cells[Min(C)].pos, state |-> kept.cells[Min(C)].state]
    IN CASE kept.of = "none" -> <<>>
         [] kept.of = "one"  -> [x \in {-1} |-> seen(DOMAIN kept.cells)]
         [] OTHER -> [s \in 0 .. MaxSeq - 1 |->
                        seen({k \in DOMAIN kept.cells : s \in kept.cells[k].seq_id})]

States == INSTANCE RecurrentStates WITH
    MaxSeq <- MaxSeq, pos <- PosSeen, state <- StateSeen, undo <- UndoSeen, kept <- KeptSeen

\* Whatever cells are shared, swapped, copied, rolled back, lost or restored, each
\* sequence has the state of its own tokens, at its own position.
RefinesStates == States!Spec
=============================================================================
