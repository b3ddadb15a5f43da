-------------------------- MODULE MCRecurrentMemory --------------------------
(***************************************************************************)
(* Instances of RecurrentMemory for TLC.                                   *)
(***************************************************************************)
EXTENDS RecurrentMemory

C(cells_, groups, len, tokens, uses) ==
    [size |-> cells_, n_rs_seq |-> groups, len |-> len, tokens |-> tokens, uses |-> uses]

\* The order of cells, and calls, failures and states of two sequences.
Plain == {C(3, 0, 2, 1, {}), C(2, 0, 3, 2, {"copy", "move"}), C(2, 0, 2, 1, {"copy", "fail"}),
          C(2, 0, 2, 1, {"copy", "state"}), C(2, 0, 1, 1, {"copy", "all"})}
\* The same with snapshots to fall back on.
Rolls == {C(2, 2, 4, 3, {}), C(2, 1, 3, 2, {"copy"}), C(2, 1, 3, 2, {"move"}),
          C(2, 1, 2, 2, {"fail"}), C(1, 2, 3, 3, {"state", "all"}), C(2, 1, 2, 2, {"all"})}
AllConfs == Plain \cup Rolls

Decoded  == {C(2, 0, 2, 1, {})}
Failing  == {C(2, 0, 2, 1, {"fail"})}
Swapping == {C(3, 0, 2, 1, {"fail"})}
Rolling  == {C(1, 2, 4, 3, {})}

----------------------------------------------------------------------------
(* What fails where callers are not careful (README, section 6) *)

\* The state of a sequence is the result of as many tokens as its position says
\* (where positions are not moved).
StateAtPos ==
    "move" \notin conf.uses => \A s \in Sequence \ given_up : Len(State(s)) = SeqPos(s) + 1

\* decode() removes the positions of a ubatch that failed: "the last ubatch failed
\* or was aborted -> remove all positions of that ubatch from the memory module": not
\* so, seq_rm() refuses to remove a part of a sequence.
FailedIsRemoved ==
    [][\A s \in Sequence : s \in given_up' \ given_up => SeqPos(s)' <= SeqPos(s)]_memvars
=============================================================================
