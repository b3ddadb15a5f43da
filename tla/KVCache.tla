------------------------------- MODULE KVCache -------------------------------
(***************************************************************************)
(* class llama_kv_cache (src/llama-kv-cache.cpp) with its part of          *)
(* llama_context::decode(): where the tokens of the sequences are kept.    *)
(*                                                                         *)
(* A cell has metadata (KVCells) and, in the buffers, the keys and values  *)
(* of its token, keys rotated (RoPE) for a position.  Shifts of positions  *)
(* and copies between streams only change the metadata; the buffers follow *)
(* at the next decode.  A key is the token it was computed from and the    *)
(* position it is rotated for.  Tokens belong to one sequence when they    *)
(* are decoded.                                                            *)
(***************************************************************************)
EXTENDS KVCells

CONSTANTS
    Tok,
    NoTok,
    Confs,      \* layout, cells of a stream, window, n_ubatch (1, or 2 for no
                \* limit), last position in use, optional calls
    Batches,    \* what llama_decode() is called with: sequences of [seq, tok]
    Ranges,     \* <<p0, p1>> of the calls, with p1 = -1 for no end
    Deltas,     \* arguments of seq_add()
    CopyBound   \* bound on the copies that wait for a decode

ASSUME KVCacheAssumption ==
    /\ NoTok \notin Tok
    /\ Seq_id = 0 .. Cardinality(Seq_id) - 1
    /\ Confs \subseteq [unified : BOOLEAN, size : Nat \ {0}, swa : Nat, ubatch : {1, 2},
                        last : Positions, 
                        uses : SUBSET {"share", "shift", "divide", "state"}]
    /\ Batches \subseteq [{1} -> [seq : Seq_id, tok : Tok]] \cup [{1, 2} -> [seq : Seq_id, tok : Tok]]
    /\ Ranges \subseteq Positions \X (Positions \cup {-1})
    /\ Deltas \subseteq Int \ {0}
    /\ CopyBound \in Nat

VARIABLES
    conf,       \* one of Confs
    v_cells,    \* metadata of each stream
    v_heads,    \* where the search for free cells starts
    sc_info,    \* copies <<source, destination>> of streams still to do
    buf,        \* buffers: the key in each cell of each stream
    todo,       \* a decode in progress: ubatches and the cells found for them
    kept        \* what a llama_state_get_data() or ..._seq_get_data() returned

vars == <<conf, v_cells, v_heads, sc_info, buf, todo, kept>>

Streams   == IF conf.unified THEN {0} ELSE Seq_id
Stream(s) == IF conf.unified THEN 0 ELSE s      \* seq_to_stream
Idx       == 0 .. conf.size - 1
Junk      == [tok |-> NoTok, rot |-> 0]

Init ==
    /\ conf \in Confs
    /\ v_cells = [st \in Streams |-> Fresh(conf.size)]
    /\ v_heads = [st \in Streams |-> 0]
    /\ sc_info = <<>>
    /\ buf = [st \in Streams |-> [i \in Idx |-> Junk]]
    /\ todo = <<>>
    /\ kept = [all |-> FALSE, cells |-> <<>>]

\* Keys of free cells are read by nobody, unless a copy is still to be made.
Settled(b, cells) ==
    IF sc_info' # <<>> THEN b
    ELSE [st \in Streams |-> [i \in Idx |-> IF IsEmpty(cells[st], i) THEN Junk ELSE b[st][i]]]

Calls == todo = <<>>    \* the application calls one function at a time

\* What an operation on the metadata leaves alone.
Meta == /\ UNCHANGED <<conf, sc_info, todo, kept>>
        /\ buf' = Settled(buf, v_cells')

\* "If we freed up a slot, set head to it so searching can start there."
Freed(old, new) == {i \in Idx : ~IsEmpty(old, i) /\ IsEmpty(new, i)}
HeadAfter(head, old, new) ==
    IF Freed(old, new) # {} /\ Min(Freed(old, new)) < head THEN Min(Freed(old, new)) ELSE head

----------------------------------------------------------------------------
(* llama_memory_*() *)

\* clear(): the copies still to be made stay.
Clear ==
    /\ Calls
    /\ v_cells' = [st \in Streams |-> Fresh(conf.size)]
    /\ v_heads' = [st \in Streams |-> 0]
    /\ Meta

RmIn(c, s, p0, p1) == ForEach(LAMBDA d, i : SeqRm(d, i, s), c, Holding(c, s, p0, p1))

SeqRmCall(s, p0, p1) == LET st == Stream(s) IN
    /\ Calls
    /\ v_cells' = [v_cells EXCEPT ![st] = RmIn(@, s, p0, p1)]
    /\ v_heads' = [v_heads EXCEPT ![st] = HeadAfter(@, v_cells[st], v_cells'[st])]
    /\ Meta

RmAnyIn(c, p0, p1) ==
    ForEach(LAMBDA d, i : Rm(d, i), c, {i \in Indices(c) : PosIn(c, i, p0, p1)})

\* seq_rm() with seq_id -1
SeqRmAny(p0, p1) ==
    /\ Calls
    /\ v_cells' = [st \in Streams |-> RmAnyIn(v_cells[st], p0, p1)]
    /\ v_heads' = [st \in Streams |-> HeadAfter(v_heads[st], v_cells[st], v_cells'[st])]
    /\ Meta

AddTo(c, I, s) == ForEach(LAMBDA d, i : SeqAdd(d, i, s), c, I)

\* seq_cp() within a stream: the cells get another sequence, which must not be
\* in them yet (assert in seq_add()).
SeqCpShared(a, b, p0, p1) == LET I == Holding(v_cells[0], a, p0, p1) IN
    /\ Calls /\ "share" \in conf.uses /\ conf.unified /\ a # b
    /\ \A i \in I : b \notin v_cells[0].seq[i]
    /\ v_cells' = [v_cells EXCEPT ![0] = AddTo(@, I, b)]
    /\ UNCHANGED v_heads
    /\ Meta

\* Mutant: the cells of the copy get the position that the key does not have yet.
CopiedCellUnshifted(c, d, i, b) == Place(d, i, c.pos[i], {b})

\* A cell of the copy: the position its key has, shifted again.
CopiedCell(c, d, i, b) ==
    LET e == Place(d, i, c.pos[i] - c.shift[i], {b})
    IN IF c.shift[i] = 0 THEN e ELSE PosAdd(e, i, c.shift[i])

CopyOf(c, a, b) ==
    ForEach(LAMBDA d, i : CopiedCell(c, d, i, b), Fresh(conf.size),
            {i \in Indices(c) : a \in c.seq[i]})

\* seq_cp() between streams, of a whole sequence: the buffer is copied later.
\* The keys must have positions that exist (assert).
SeqCpStream(a, b) == LET c == v_cells[a] IN
    /\ Calls /\ ~conf.unified /\ a # b /\ Len(sc_info) < CopyBound
    /\ \A i \in Idx : a \in c.seq[i] => c.pos[i] - c.shift[i] \in Positions
    /\ sc_info' = Append(sc_info, <<a, b>>)
    /\ v_cells' = [v_cells EXCEPT ![b] = CopyOf(c, a, b)]
    /\ v_heads' = [v_heads EXCEPT ![b] = v_heads[a]]
    /\ buf' = Settled(buf, v_cells')
    /\ UNCHANGED <<conf, todo, kept>>

KeepIn(c, s) == ForEach(LAMBDA d, i : SeqKeep(d, i, s), c, Indices(c))

SeqKeepCall(s) == LET st == Stream(s) IN
    /\ Calls
    /\ v_cells' = [v_cells EXCEPT ![st] = KeepIn(@, s)]
    /\ v_heads' = [v_heads EXCEPT ![st] = HeadAfter(@, v_cells[st], v_cells'[st])]
    /\ Meta

\* No position may leave the bound of the model.
InBound(s, p0, p1, d) ==
    \A i \in Holding(v_cells[Stream(s)], s, p0, p1) : v_cells[Stream(s)].pos[i] + d <= conf.last

AddIn(c, s, p0, p1, d) ==
    ForEach(LAMBDA e, i : PosAdd(e, i, d), c, Holding(c, s, p0, p1))

SeqAddCall(s, p0, p1, d) == LET st == Stream(s) IN
    /\ Calls /\ "shift" \in conf.uses /\ p0 # p1 /\ InBound(s, p0, p1, d)
    /\ v_cells' = [v_cells EXCEPT ![st] = AddIn(@, s, p0, p1, d)]
    /\ v_heads' = [v_heads EXCEPT ![st] =
           IF Freed(v_cells[st], v_cells'[st]) = {} THEN 0
           ELSE Min(Freed(v_cells[st], v_cells'[st]))]
    /\ Meta

DivIn(c, s, p0, p1, d) ==
    ForEach(LAMBDA e, i : PosDiv(e, i, d), c, Holding(c, s, p0, p1))

SeqDivCall(s, p0, p1, d) == LET st == Stream(s) IN
    /\ Calls /\ "divide" \in conf.uses /\ p0 # p1
    /\ v_cells' = [v_cells EXCEPT ![st] = DivIn(@, s, p0, p1, d)]
    /\ UNCHANGED v_heads
    /\ Meta

----------------------------------------------------------------------------
(* find_slot() and apply_ubatch(); an ubatch is the tokens of each stream, *)
(* its slots are the cells for them                                        *)

\* is_masked_swa() for the standard window, with the next position of the
\* only sequence in the cell.
Masked(c, i) ==
    conf.swa > 0 /\ \E s \in Seq_id : c.seq[i] = {s} /\ SeqPosMax(c, s) + 1 - c.pos[i] >= conf.swa

\* The first n cells to use, in the order of the search, or none.
FindSlot(c, head, n) ==
    LET from  == IF head > Cardinality(c.used) + 2 * n THEN 0 ELSE head
        order == [k \in 1 .. conf.size |-> (from + k - 1) % conf.size]
        found == Those(order, {i \in Idx : IsEmpty(c, i) \/ Masked(c, i)})
    IN IF Len(found) < n THEN <<>> ELSE SubSeq(found, 1, n)

FindSlots(m, ub) == [st \in DOMAIN ub |-> FindSlot(m.cells[st], m.heads[st], Len(ub[st]))]
Found(slots) == \A st \in DOMAIN slots : slots[st] # <<>>

Emplaced(c, i, t) == Place(IF IsEmpty(c, i) THEN c ELSE Rm(c, i), i, t.pos, {t.seq})

\* Positions of s in the cells that are overwritten.
Overwritten(c, I, s) == {c.pos[i] : i \in {j \in I : s \in c.seq[j]}}

PlacedIn(c, slots, toks) ==
    For(LAMBDA d, k : Emplaced(d, slots[k], toks[k]), c, Len(toks))

\* seq_rm() of each sequence of S, from p0[s] to p1[s].
RmEach(c, S, p0, p1) ==
    For(LAMBDA d, k : IF k - 1 \in S THEN RmIn(d, k - 1, p0[k - 1], p1[k - 1]) ELSE d,
        c, Cardinality(Seq_id))

\* "we have to purge any position which is less than those we would overwrite"
ApplyStream(c, slots, toks) ==
    LET lost == [s \in Seq_id |-> Overwritten(c, Range(slots), s)]
        S    == {s \in Seq_id : lost[s] # {}}
    IN RmEach(PlacedIn(c, slots, toks), S, [s \in S |-> 0], [s \in S |-> Max(lost[s]) + 1])

\* apply_ubatch()
Applied(m, ub, slots) ==
    [cells |-> [st \in Streams |->
        IF st \in DOMAIN ub THEN ApplyStream(m.cells[st], slots[st], ub[st]) ELSE m.cells[st]],
     heads |-> [st \in Streams |->
        IF st \in DOMAIN ub THEN Last(slots[st]) + 1 ELSE m.heads[st]]]

Written(b, ub, slots) ==
    [st \in Streams |-> [i \in Idx |->
        IF st \in DOMAIN ub /\ i \in Range(slots[st])
        THEN LET t == ub[st][CHOOSE k \in DOMAIN ub[st] : slots[st][k] = i]
             IN [tok |-> t.tok, rot |-> t.rot]
        ELSE b[st][i]]]

----------------------------------------------------------------------------
(* prepare(): all ubatches are placed for a try, then taken back *)

Try(acc, ub) ==
    LET slots == FindSlots(acc.m, ub)
    IN IF ~acc.ok \/ ~Found(slots) THEN [acc EXCEPT !.ok = FALSE]
       ELSE [ok |-> TRUE,
             m |-> Applied(acc.m, ub, slots),
             steps |-> Append(acc.steps, [ub |-> ub, slots |-> slots]),
             states |-> Append(acc.states,
                [slots |-> slots, heads |-> acc.m.heads,
                 cells |-> [st \in DOMAIN ub |->
                     [k \in DOMAIN slots[st] |-> Saved(acc.m.cells[st], slots[st][k])]]])]

\* The heads that were saved are taken by the place of the stream in the ubatch.
Place0(S, st) == Cardinality({x \in S : x < st})

RestoreCells(state, c, st) ==
    For(LAMBDA d, k : SetCell(d, state.slots[st][k], state.cells[st][k]),
        c, Len(state.slots[st]))

\* Positions that apply_ubatch() purged are not restored.
Undo(state, m) == LET S == DOMAIN state.slots IN
    [cells |-> [st \in Streams |->
        IF st \in S THEN RestoreCells(state, m.cells[st], st) ELSE m.cells[st]],
     heads |-> [st \in Streams |-> IF st \in S THEN state.heads[Place0(S, st)] ELSE m.heads[st]]]

Tried(m, ubs) ==
    For(LAMBDA acc, k : Try(acc, ubs[k]),
        [ok |-> TRUE, m |-> m, steps |-> <<>>, states |-> <<>>], Len(ubs))

\* The last of them first.
Undone(tried) == LET n == Len(tried.states) IN
    For(LAMBDA m, k : Undo(tried.states[n + 1 - k], m), tried.m, n)

----------------------------------------------------------------------------
(* decode() *)

\* update(): the copies between streams, then the K-shift.
CopiedBy(copies, b) ==
    For(LAMBDA x, k : [x EXCEPT ![copies[k][2]] = x[copies[k][1]]], b, Len(copies))
Copied(b) == CopiedBy(sc_info, b)

HasShift == \E st \in Streams : v_cells[st].has_shift

Shifted(b) ==
    [st \in Streams |-> [i \in Idx |-> [b[st][i] EXCEPT !.rot = @ + v_cells[st].shift[i]]]]

UpdatedBuf   == IF HasShift THEN Shifted(Copied(buf)) ELSE Copied(buf)
UpdatedCells == IF HasShift THEN [st \in Streams |-> ResetShift(v_cells[st])] ELSE v_cells

\* Positions follow those of the sequence (llama_batch_allocr::init()).
Positioned(batch) ==
    [k \in DOMAIN batch |-> LET s == batch[k].seq IN
        LET p == SeqPosMax(v_cells[Stream(s)], s)
                   + Cardinality({j \in 1 .. k : batch[j].seq = s})
        IN [seq |-> s, tok |-> batch[k].tok, pos |-> p, rot |-> p]]

ByStream(toks) ==
    [st \in {Stream(t.seq) : t \in Range(toks)} |->
        Those(toks, {t \in Range(toks) : Stream(t.seq) = st})]

\* split_simple() or, with streams, split_equal(), of at most two tokens.
Ubatches(toks) ==
    IF Len(toks) = 2 /\ (conf.ubatch = 1 \/ (~conf.unified /\ toks[1].seq > toks[2].seq))
    THEN <<ByStream(<<toks[1]>>), ByStream(<<toks[2]>>)>>
    ELSE <<ByStream(toks)>>

\* The memory is updated, cells are found for all ubatches or for none.
Decode(batch) ==
    LET toks  == Positioned(batch)
        tried == Tried([cells |-> UpdatedCells, heads |-> v_heads], Ubatches(toks))
        m     == Undone(tried)
    IN /\ Calls
       /\ \A t \in Range(toks) : t.pos <= conf.last
       /\ sc_info' = <<>>
       /\ v_cells' = m.cells /\ v_heads' = m.heads
       /\ buf' = Settled(UpdatedBuf, v_cells')
       /\ todo' = IF tried.ok THEN tried.steps ELSE <<>>
       /\ UNCHANGED <<conf, kept>>

Now == [cells |-> v_cells, heads |-> v_heads]

\* apply() and process_ubatch() of the next ubatch
Compute ==
    /\ todo # <<>>
    /\ LET u == Head(todo)
           m == Applied(Now, u.ub, u.slots)
       IN /\ v_cells' = m.cells /\ v_heads' = m.heads
          /\ UNCHANGED sc_info
          /\ buf' = Settled(Written(buf, u.ub, u.slots), v_cells')
    /\ todo' = Tail(todo)
    /\ UNCHANGED <<conf, kept>>

PosOf(toks, s) == {t.pos : t \in {u \in Range(toks) : u.seq = s}}

\* Mutant: only the first position of each sequence is removed again.
FailedRmOne(c, toks) == LET S == {t.seq : t \in Range(toks)} IN
    RmEach(c, S, [s \in S |-> Min(PosOf(toks, s))], [s \in S |-> Min(PosOf(toks, s)) + 1])

\* "the last ubatch failed or was aborted -> remove all positions of that ubatch"
FailedRm(c, toks) == LET S == {t.seq : t \in Range(toks)} IN
    RmEach(c, S, [s \in S |-> Min(PosOf(toks, s))], [s \in S |-> -1])

ComputeFails ==
    /\ todo # <<>>
    /\ LET u == Head(todo)
           m == Applied(Now, u.ub, u.slots)
       IN /\ v_cells' = [st \in Streams |->
                 IF st \in DOMAIN u.ub THEN FailedRm(m.cells[st], u.ub[st]) ELSE m.cells[st]]
          /\ v_heads' = [st \in Streams |-> HeadAfter(m.heads[st], m.cells[st], v_cells'[st])]
          /\ UNCHANGED sc_info
          /\ buf' = Settled(buf, v_cells')
    /\ todo' = <<>>
    /\ UNCHANGED <<conf, kept>>

----------------------------------------------------------------------------
(* state_write() and state_read() *)

\* Callers save and restore states when nothing waits for the next decode.
Quiet == Calls /\ "state" \in conf.uses /\ sc_info = <<>> /\ ~HasShift

\* The cells of I in the order of the buffer, for the sequences S.
Image(st, I, S) ==
    [k \in 1 .. Cardinality(I) |->
        LET i == Nth(I, k)
        IN [seqs |-> v_cells[st].seq[i] \cap S, pos |-> v_cells[st].pos[i],
            tok |-> buf[st][i].tok, rot |-> buf[st][i].rot]]

Save(s) ==
    /\ Quiet
    /\ kept' = [all |-> FALSE,
                cells |-> Image(Stream(s), Holding(v_cells[Stream(s)], s, 0, -1), {s})]
    /\ UNCHANGED <<conf, v_cells, v_heads, sc_info, buf, todo>>

\* Of a unified cache only: with streams, restoring one clears the others.
SaveAll ==
    /\ Quiet /\ conf.unified
    /\ kept' = [all |-> TRUE, cells |-> Image(0, v_cells[0].used, Seq_id)]
    /\ UNCHANGED <<conf, v_cells, v_heads, sc_info, buf, todo>>

\* The sequence is removed first.
Cleared(s) == LET st == Stream(s) IN
    [cells |-> [v_cells EXCEPT ![st] = RmIn(@, s, 0, -1)],
     heads |-> [v_heads EXCEPT ![st] = HeadAfter(@, v_cells[st], RmIn(v_cells[st], s, 0, -1))]]

TokensFor(s) ==
    [k \in DOMAIN kept.cells |-> [seq |-> s, tok |-> kept.cells[k].tok,
                                  pos |-> kept.cells[k].pos, rot |-> kept.cells[k].rot]]

\* A saved state without cells changes nothing ("skip empty streams").
Restore(s) ==
    LET gone  == Cleared(s)
        ub    == [st \in {Stream(s)} |-> TokensFor(s)]
        slots == FindSlots(gone, ub)
        m     == IF Found(slots) THEN Applied(gone, ub, slots) ELSE gone
    IN /\ Quiet /\ ~kept.all /\ kept.cells # <<>>
       /\ v_cells' = m.cells /\ v_heads' = m.heads
       /\ UNCHANGED <<conf, sc_info, todo, kept>>
       /\ buf' = Settled(IF Found(slots) THEN Written(buf, ub, slots) ELSE buf, v_cells')

\* state_read_meta() of the whole cache
CellsRead(cells) ==
    For(LAMBDA d, k : Place(d, k - 1, cells[k].pos, cells[k].seqs), Fresh(conf.size), Len(cells))

RestoreAll ==
    /\ Quiet /\ kept.all /\ kept.cells # <<>>
    /\ v_cells' = [v_cells EXCEPT ![0] = CellsRead(kept.cells)]
    /\ v_heads' = [v_heads EXCEPT ![0] = 0]
    /\ UNCHANGED <<conf, sc_info, todo, kept>>
    /\ buf' = Settled([buf EXCEPT ![0] = [i \in Idx |->
                  IF i + 1 \in DOMAIN kept.cells
                  THEN [tok |-> kept.cells[i + 1].tok, rot |-> kept.cells[i + 1].rot]
                  ELSE Junk]], v_cells')

----------------------------------------------------------------------------
Next ==
    \/ Clear \/ SaveAll \/ RestoreAll \/ Compute \/ ComputeFails
    \/ \E batch \in Batches : Decode(batch)
    \/ \E s \in Seq_id : SeqKeepCall(s) \/ Save(s) \/ Restore(s)
    \/ \E a, b \in Seq_id : SeqCpStream(a, b)
    \/ \E r \in Ranges :
         \/ SeqRmAny(r[1], r[2])
         \/ \E s \in Seq_id : \/ SeqRmCall(s, r[1], r[2])
                              \/ \E d \in Deltas : SeqAddCall(s, r[1], r[2], d)
                              \/ SeqDivCall(s, r[1], r[2], 2)
         \/ \E a, b \in Seq_id : SeqCpShared(a, b, r[1], r[2])

Spec == Init /\ [][Next]_vars

----------------------------------------------------------------------------
(* Properties *)

\* What each cell will hold once the pending copies have been made.
Key(st, i) == Copied(buf)[st][i]
Filled == {f \in Streams \X Idx : ~IsEmpty(v_cells[f[1]], f[2])}

Memory == {[tok |-> Key(f[1], f[2]).tok, pos |-> v_cells[f[1]].pos[f[2]],
            seqs |-> v_cells[f[1]].seq[f[2]]] : f \in Filled}

TypeOK ==
    /\ conf \in Confs
    /\ v_cells \in [Streams -> Cells(conf.size)]
    /\ v_heads \in [Streams -> 0 .. conf.size]
    /\ buf \in [Streams -> [Idx -> [tok : Tok \cup {NoTok}, rot : Int]]]
    /\ \A k \in DOMAIN sc_info : sc_info[k] \in Streams \X Streams
    /\ \A k \in DOMAIN todo : \A st \in DOMAIN todo[k].slots :
         /\ todo[k].slots[st] \in Seq(Idx)
         /\ Cardinality(Range(todo[k].slots[st])) = Len(todo[k].ub[st])
    /\ kept.all \in BOOLEAN

\* The counts from which positions, free cells and the room left are computed
\* agree with the cells after any sequence of calls and failed decodes ("TODO:
\* add unit tests", llama_kv_cells).
CountsExact == TypeOK /\ \A st \in Streams : Exact(v_cells[st])

Rotated(st, i) == Key(st, i).rot + v_cells[st].shift[i] = v_cells[st].pos[i]

\* The key of a token is rotated for the position of the token, once the shift
\* that is still pending is applied; but for seq_div().
KRotated == "divide" \notin conf.uses => \A f \in Filled : Rotated(f[1], f[2])

\* What is kept beside the cells, and deferred for their data, agrees with them.
CellsExact == CountsExact /\ KRotated

\* With seq_div() too ("this array accumulates any applied shifts to the pos
\* array"): not so, pos_div() accumulates the opposite shift.
DivRotated == \A f \in Filled : Rotated(f[1], f[2])

\* With cells, streams, heads, deferred copies and shifts, tries and failed
\* computations, the cache is the memory that llama.h describes: every call
\* does to each token what it promises and nothing to the others; a decode that
\* fails loses at most tokens that nothing attends to any more.
M == INSTANCE KVMemory WITH
       mem  <- Memory,
       kept <- [all |-> kept.all,
                toks |-> {[tok |-> c.tok, pos |-> c.pos, seqs |-> c.seqs] : c \in Range(kept.cells)}]

RefinesMemory == M!Spec

\* Finding the cells for a batch changes nothing (prepare(): "iterate backwards
\* and restore the cells to their original state"): not so for positions purged in
\* cells that no ubatch used.
PrepareRestores == [][(\E batch \in Batches : Decode(batch)) => Memory' = Memory]_vars
=============================================================================
