---------------------------- MODULE MCBatchSplit ----------------------------
(***************************************************************************)
(* Instances of BatchSplit for TLC.                                        *)
(***************************************************************************)
EXTENDS BatchSplit

T(S, p, o) == [seqs |-> S, pos |-> p, out |-> o]

\* Every batch of up to n tokens of the sequences S, at positions up to n - 1.
UpTo(n, S, outs) ==
    UNION {[1 .. k -> [seqs : SUBSET S \ {{}}, pos : 0 .. n - 1, out : outs]] : k \in 1 .. n}

Sequences2 == 0 .. 1
Sequences3 == 0 .. 2

\* Three tokens of two sequences, with any outputs.
Small == UpTo(3, Sequences2, BOOLEAN)
\* Four tokens of two sequences, all with an output.
Wide  == {b \in UpTo(4, Sequences2, {TRUE}) : Len(b) = 4}
AllBatches == Small \cup Wide

AllWays == {<<"simple">>, <<"seq">>, <<"sequential">>, <<"equal">>, <<"simple", "equal">>}
=============================================================================
