---------------------------- MODULE MCThreadpool ----------------------------
(***************************************************************************)
(* Instances of Threadpool for TLC.                                        *)
(***************************************************************************)
EXTENDS Threadpool

G(nodes, n) == [nodes |-> nodes, n_threads |-> n]

\* Graphs for all threads, for some, for more than there are and for the main
\* thread alone, with empty nodes at the start, between nodes and at the end.
Mixed == {G(<<"chunks", "nop", "rows">>, 4), G(<<"nop", "chunks", "nop">>, 2), G(<<"rows">>, 1)}
=============================================================================
