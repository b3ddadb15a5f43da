------------------------------ MODULE BatchSplit ------------------------------
(***************************************************************************)
(* class llama_batch_allocr (src/llama-batch.cpp) and the part of          *)
(* llama_context::decode() about outputs: a batch is checked, split into   *)
(* ubatches the way its memory needs it, computed one ubatch after the     *)
(* other, and its outputs are put back into the order of the batch when    *)
(* somebody looks at them.                                                 *)
(*                                                                         *)
(* Tokens are their indices in the batch, 1 .. n; a row of logits or of    *)
(* hidden states is the index of the token it was computed for.            *)
(***************************************************************************)
EXTENDS Subsequences

CONSTANTS
    Seq_id,
    Batches,    \* as callers may pass them
    NBatch,     \* n_batch, the most tokens of a batch
    Ways,       \* the splits that init_batch() of a memory tries one after the other
    Sizes,      \* n_ubatch
    LastPos     \* bound: no decode goes past this position

Token == [seqs : (SUBSET Seq_id) \ {{}}, pos : Nat, out : BOOLEAN]

ASSUME BatchAssumption ==
    /\ IsFiniteSet(Seq_id) /\ Seq_id = 0 .. Cardinality(Seq_id) - 1
    /\ NBatch \in Nat /\ NBatch >= Cardinality(Seq_id)
    /\ \A b \in Batches : b \in Seq(Token) /\ Len(b) \in 1 .. NBatch
    /\ Ways \subseteq {<<"simple">>, <<"seq">>, <<"sequential">>, <<"equal">>,
                       <<"simple", "equal">>}
    /\ Sizes \subseteq Nat \ {0}
    /\ LastPos \in Nat

VARIABLES
    ways,       \* how the memory splits batches
    n_ubatch,
    past,       \* seq_pos_max() of the memory, for each sequence
    batch,
    phase,      \* "split", "compute", "done", "failed"
    try,        \* which of the ways is being tried
    ubatches,   \* split so far; each is the sequence of its groups of tokens
    computed,   \* how many of them have been computed
    out_ids,    \* tokens with an output, in the order of the ubatches
    rows,       \* logits.data: the token of each row, 0 for none
    dense,      \* embd_pre_norm.data when not masked: a row for each token
    output_ids, \* row of each token of the batch, 0 for none
    swaps       \* output_swaps, to be applied when the outputs are read

vars == <<ways, n_ubatch, past, batch, phase, try, ubatches, computed, out_ids, rows, dense,
          output_ids, swaps>>

Tokens    == DOMAIN batch
SeqSet(i) == batch[i].seqs
Outputs   == {i \in Tokens : batch[i].out}

----------------------------------------------------------------------------
(* init(): which batches are accepted *)

PosOf(b, s) == {b[i].pos : i \in {j \in DOMAIN b : s \in b[j].seqs}}

\* The checks against the sub-sets and decreasing positions of Orderly() never
\* fail: a sequence is in each of its own sets, and cur_seq_pos stays -1.
Accepted(b, known) ==
    /\ \A s \in Seq_id : PosOf(b, s) # {} =>
         /\ known[s] >= 0 => Min(PosOf(b, s)) = known[s] + 1
         /\ Max(PosOf(b, s)) - Min(PosOf(b, s)) + 1 <= Cardinality(PosOf(b, s))
    \* coupled sequences have not diverged
    /\ \A i \in DOMAIN b : \A s, t \in b[i].seqs : known[s] = known[t]

\* What the comments of init() disallow otherwise.
Orderly(b) ==
    \A i, j \in DOMAIN b : i < j /\ b[i].seqs \cap b[j].seqs # {} =>
        /\ b[j].seqs \subseteq b[i].seqs
        /\ b[i].pos <= b[j].pos

\* The next token of each sequence in use: what a generation decodes next.
Following(order) ==
    LET ids == Those(order, {s \in Seq_id : past[s] \in 0 .. LastPos - 1})
    IN [k \in DOMAIN ids |-> [seqs |-> {ids[k]}, pos |-> past[ids[k]] + 1, out |-> TRUE]]
Ascending  == [k \in 1 .. Cardinality(Seq_id) |-> k - 1]
Descending == Reverse(Ascending)

----------------------------------------------------------------------------
(* The splits.  A split returns the groups of the next ubatch, or none. *)

Flat(u) == FlattenSeq(u)
Order   == FlattenSeq([k \in DOMAIN ubatches |-> Flat(ubatches[k])])
Used    == ToSet(Order)
Unused  == InTurn(Tokens \ Used)

First(s, n) == SubSeq(s, 1, IF Len(s) < n THEN Len(s) ELSE n)

SplitSimple == IF Unused = <<>> THEN <<>> ELSE <<First(Unused, n_ubatch)>>

\* Each token's sequences are among those of the token before.
Narrowed(acc, i) ==
    IF acc = <<>> \/ SeqSet(i) \subseteq SeqSet(Last(acc)) THEN Append(acc, i) ELSE acc

Narrowing ==
    LET narrowing[m \in 0 .. Len(Unused)] ==
            IF m = 0 THEN <<>> ELSE Narrowed(narrowing[m - 1], Unused[m])
    IN narrowing[Len(Unused)]

SplitSeq == IF Unused = <<>> THEN <<>> ELSE <<First(Narrowing, n_ubatch)>>

\* Mutant: sets that overlap take part too.
JoinsOverlap(sequential, acc, S) ==
    /\ Len(acc) <= n_ubatch
    /\ sequential /\ acc # <<>> => Min(S) = Min(Last(acc)) + 1

\* The sets take part that do not overlap those before and, if sequential, whose
\* id is the next one.  The limit is looked at when it has been passed.
Joins(sequential, acc, S) ==
    /\ Len(acc) <= n_ubatch
    /\ \A k \in DOMAIN acc : acc[k] \cap S = {}
    /\ sequential /\ acc # <<>> => Min(S) = Min(Last(acc)) + 1

Joined(sequential, acc, S) == IF Joins(sequential, acc, S) THEN Append(acc, S) ELSE acc

Participants(sequential) ==
    LET joined[m \in 0 .. Len(Unused)] ==
            IF m = 0 THEN <<>> ELSE Joined(sequential, joined[m - 1], SeqSet(Unused[m]))
    IN joined[Len(Unused)]

Coupled == \E i \in Tokens : Cardinality(SeqSet(i)) > 1

\* Mutant: a round more than n_ubatch allows.
RoundsOver(lists) ==
    Max({1, Min({n_ubatch \div Len(lists) + 1} \cup {Len(l) : l \in ToSet(lists)})})

\* How many tokens of each set: as many as all of them have and n_ubatch allows,
\* but one.
Rounds(lists) == Max({1, Min({n_ubatch \div Len(lists)} \cup {Len(l) : l \in ToSet(lists)})})

SplitEqual(sequential) ==
    LET sets  == Participants(sequential)
        lists == [k \in DOMAIN sets |-> InTurn({i \in Tokens \ Used : SeqSet(i) = sets[k]})]
    IN IF sets = <<>> \/ (sequential /\ Coupled) THEN <<>>
       ELSE [k \in DOMAIN lists |-> First(lists[k], Rounds(lists))]

NextUbatch ==
    CASE ways[try] = "simple"     -> SplitSimple
      [] ways[try] = "seq"        -> SplitSeq
      [] ways[try] = "sequential" -> SplitEqual(TRUE)
      [] ways[try] = "equal"      -> SplitEqual(FALSE)

----------------------------------------------------------------------------
(* decode() *)

Rows == [k \in 1 .. NBatch |-> 0]

Init ==
    /\ ways \in Ways /\ n_ubatch \in Sizes
    /\ past = [s \in Seq_id |-> -1]
    /\ batch \in Batches /\ Accepted(batch, past)
    /\ phase = "split" /\ try = 1
    /\ ubatches = <<>> /\ computed = 0
    /\ out_ids = <<>>
    /\ rows = Rows /\ dense = Rows /\ output_ids = Rows
    /\ swaps = <<>>

Input   == <<ways, n_ubatch, past, batch>>
Buffers == <<rows, dense, output_ids, swaps>>

WithOutput(s) == Those(s, Outputs)

\* One ubatch more, and ubatch_add() notes the outputs.
Split ==
    /\ phase = "split" /\ NextUbatch # <<>>
    /\ ubatches' = Append(ubatches, NextUbatch)
    /\ out_ids' = out_ids \o WithOutput(Flat(NextUbatch))
    /\ UNCHANGED <<Input, phase, try, computed, Buffers>>

\* The memory has room for all ubatches; output_reserve().
Prepared ==
    /\ phase = "split" /\ NextUbatch = <<>>
    /\ Used = Tokens
    /\ phase' = "compute"
    /\ rows' = Rows /\ dense' = Rows /\ output_ids' = Rows
    /\ UNCHANGED <<Input, try, ubatches, computed, out_ids, swaps>>

\* The batch cannot be split or the memory has no room: split_reset() and the
\* next way, or 1 is returned and the memory is as before.
NoRoom ==
    /\ phase = "split" /\ NextUbatch = <<>>
    /\ IF try < Len(ways)
       THEN try' = try + 1 /\ UNCHANGED phase
       ELSE phase' = "failed" /\ UNCHANGED try
    /\ ubatches' = <<>> /\ out_ids' = <<>>
    /\ UNCHANGED <<Input, computed, Buffers>>

\* Rows are written behind those of the ubatches before.
Write(buf, new, n) ==
    [k \in 1 .. NBatch |-> IF k - n \in DOMAIN new THEN new[k - n] ELSE buf[k]]
Before == FlattenSeq([k \in 1 .. computed |-> Flat(ubatches[k])])

Swap(r, w) == [r EXCEPT ![w[1]] = r[w[2]], ![w[2]] = r[w[1]]]

Smallest(s, i) == CHOOSE j \in i .. Len(s) : \A k \in i .. Len(s) : s[j] <= s[k]

\* Selection sort of the ids, and the swaps it makes.  The last round finds
\* nothing to swap.
Round(acc, i) ==
    LET j == Smallest(acc.ids, i)
    IN IF j = i THEN acc
       ELSE [ids |-> Swap(acc.ids, <<i, j>>), swaps |-> Append(acc.swaps, <<i, j>>)]

Sorted(ids) ==
    LET sorted[i \in 0 .. Len(ids)] ==
            IF i = 0 THEN [ids |-> ids, swaps |-> <<>>] ELSE Round(sorted[i - 1], i)
    IN sorted[Len(ids)]

Mapping(ids) ==
    [i \in 1 .. NBatch |-> IF i \in ToSet(ids) THEN CHOOSE k \in DOMAIN ids : ids[k] = i ELSE 0]

\* process_ubatch() and the extraction of its rows; after the last ubatch the
\* outputs are mapped.
Compute ==
    /\ phase = "compute"
    /\ LET toks == Flat(ubatches[computed + 1])
       IN /\ rows' = Write(rows, WithOutput(toks), Len(WithOutput(Before)))
          /\ dense' = Write(dense, toks, Len(Before))
    /\ computed' = computed + 1
    /\ IF computed' = Len(ubatches)
       THEN /\ phase' = "done"
            /\ output_ids' = Mapping(Sorted(out_ids).ids)
            /\ swaps' = swaps \o Sorted(out_ids).swaps
            /\ past' = [s \in Seq_id |-> Max({past[s]} \cup PosOf(batch, s))]
       ELSE UNCHANGED <<phase, output_ids, swaps, past>>
    /\ UNCHANGED <<ways, n_ubatch, batch, try, ubatches, out_ids>>

\* The tokens that a sequence has in the memory once an ubatch has failed: what is
\* at the positions of the ubatch and behind them was removed, but only for the
\* first sequence that the caller gave of each of its tokens.
Failing == Flat(ubatches[computed + 1])
StillHeld(s, first) ==
    {i \in ToSet(Before) \cup ToSet(Failing) :
        /\ s \in SeqSet(i)
        /\ \A j \in ToSet(Failing) : first[j] = s => batch[i].pos < batch[j].pos}

\* An ubatch that is in the memory already fails or is aborted; those before stay.
ComputeFails ==
    /\ phase = "compute"
    /\ phase' = "failed"
    /\ \E first \in [ToSet(Failing) -> Seq_id] :
          /\ \A i \in ToSet(Failing) : first[i] \in SeqSet(i)
          /\ past' = [s \in Seq_id |-> Max({past[s]} \cup {batch[i].pos : i \in StillHeld(s, first)})]
    /\ UNCHANGED <<ways, n_ubatch, batch, try, ubatches, computed, out_ids, Buffers>>

\* output_reorder(), when the outputs are looked at
Applied(ws, buf) ==
    LET applied[k \in 0 .. Len(ws)] ==
            IF k = 0 THEN buf ELSE Swap(applied[k - 1], ws[k])
    IN applied[Len(ws)]

Swapped(buf) == Applied(swaps, buf)

Read ==
    /\ phase = "done" /\ swaps # <<>>
    /\ rows' = Swapped(rows) /\ dense' = Swapped(dense)
    /\ swaps' = <<>>
    /\ UNCHANGED <<Input, phase, try, ubatches, computed, out_ids, output_ids>>

\* Mutant: swaps that nobody has looked at yet are not forgotten.
DecodeKeepsSwaps(order) ==
    /\ phase \in {"done", "failed"}
    /\ Following(order) # <<>> /\ Accepted(Following(order), past)
    /\ batch' = Following(order)
    /\ phase' = "split" /\ try' = 1
    /\ ubatches' = <<>> /\ computed' = 0 /\ out_ids' = <<>>
    /\ UNCHANGED <<ways, n_ubatch, past, rows, dense, output_ids, swaps>>

\* The next decode, whether the outputs of the last one were read or not.
Decode(order) ==
    /\ phase \in {"done", "failed"}
    /\ Following(order) # <<>> /\ Accepted(Following(order), past)
    /\ batch' = Following(order)
    /\ phase' = "split" /\ try' = 1
    /\ ubatches' = <<>> /\ computed' = 0 /\ out_ids' = <<>>
    /\ swaps' = <<>>
    /\ UNCHANGED <<ways, n_ubatch, past, rows, dense, output_ids>>

\* The application decodes nothing more.
Quit == phase \in {"done", "failed"} /\ UNCHANGED vars

Next ==
    \/ Split \/ Prepared \/ NoRoom \/ Compute \/ ComputeFails \/ Read
    \/ \E order \in {Ascending, Descending} : Decode(order)
    \/ Quit

Spec == Init /\ [][Next]_vars

----------------------------------------------------------------------------
(* Properties *)

TypeOK ==
    /\ ways \in Ways /\ n_ubatch \in Sizes
    /\ past \in [Seq_id -> Nat \cup {-1}]
    /\ batch \in Seq(Token) /\ Len(batch) \in 1 .. NBatch
    /\ phase \in {"split", "compute", "done", "failed"}
    /\ try \in DOMAIN ways
    /\ ubatches \in Seq(Seq(Seq(Tokens)))
    /\ computed \in 0 .. Len(ubatches)
    /\ out_ids \in Seq(Tokens)
    /\ {rows, dense, output_ids} \subseteq [1 .. NBatch -> 0 .. NBatch]
    /\ swaps \in Seq((1 .. NBatch) \X (1 .. NBatch))

InOrder ==
    \A k, l \in DOMAIN Order : k < l /\ SeqSet(Order[k]) \cap SeqSet(Order[l]) # {} =>
        batch[Order[k]].pos <= batch[Order[l]].pos

\* What find_slot() and get_k() rely on: the groups of an equal split are of one
\* length and of disjoint sequences and, when each sequence has its stream, of
\* consecutive streams ("the tokens in the ubatch will have increasing
\* sequential sequence ids").  And an ubatch fits the graph that was reserved for
\* n_ubatch tokens, rounded up to a multiple of the sequences, although the
\* number of its sets may pass n_ubatch.
Shaped(u) ==
    LET n == Cardinality(Seq_id)
    IN  /\ \A k, l \in DOMAIN u : Len(u[k]) = Len(u[l])
        /\ \A k, l \in DOMAIN u : k # l => SeqSet(u[k][1]) \cap SeqSet(u[l][1]) = {}
        /\ ways[try] \in {"equal", "sequential"} =>
              \A g \in ToSet(u) : \A i \in ToSet(g) : SeqSet(i) = SeqSet(g[1])
        /\ ways[try] = "sequential" =>
              \A k \in DOMAIN u : SeqSet(u[k][1]) = {Min(SeqSet(u[1][1])) + k - 1}
        /\ Len(Flat(u)) <= ((n_ubatch + n - 1) \div n) * n
Shape == \A u \in ToSet(ubatches) : Shaped(u)

\* No token is computed twice, none is left out of a batch that is computed, and
\* a token comes after all tokens of its sequences with smaller positions,
\* whatever the split, for batches that keep to what init() says it disallows:
\* the memory would hold no key for it to attend to, and a recurrent state would
\* be advanced in the wrong order.  And the memories find what they rely on.
OnceInOrder ==
    /\ TypeOK /\ Shape
    /\ Cardinality(Used) = Len(Order)
    /\ phase \in {"compute", "done"} => Used = Tokens
    /\ Orderly(batch) => InOrder

\* Whatever was split, reordered and deferred, also by the decodes before, the
\* logits that llama_get_logits_ith(i) returns are those of token i, the rows are
\* in the order of the batch and, when every token has an output, the hidden
\* states that are kept for all tokens are found by the index of the token.
OutputsMatch ==
    phase = "done" =>
        /\ \A i \in Outputs : output_ids[i] # 0 /\ Swapped(rows)[output_ids[i]] = i
        /\ \A i, j \in Outputs : i < j => output_ids[i] < output_ids[j]
        /\ Outputs = Tokens => \A i \in Tokens : Swapped(dense)[i] = i
=============================================================================
