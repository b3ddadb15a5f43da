--------------------------- MODULE RecurrentStates ---------------------------
(***************************************************************************)
(* What the memory calls (include/llama.h) promise of a recurrent model:   *)
(* every sequence has a state of its own, the result of all its tokens in  *)
(* their order, and the position of the last of them.  A state is written  *)
(* as the sequence of tokens that led to it; a token is named after the    *)
(* sequence it was decoded for.                                            *)
(***************************************************************************)
EXTENDS Integers, Sequences, FiniteSets

CONSTANT MaxSeq      \* sequences

VARIABLES
    pos,       \* position of the last token of a sequence, -1 if it has none
    state,     \* its state
    undo,      \* how many of its last tokens can be taken back
    given_up,  \* sequences whose decoding failed, which the caller must remove
    kept       \* what llama_state_get_data() or llama_state_seq_get_data() returned

rvars == <<pos, state, undo, given_up, kept>>

Sequence == 0 .. MaxSeq - 1
One      == -1            \* the name under which a single sequence is kept

\* n tokens of the sequence s.
Tokens(s, n) == [i \in 1 .. n |-> s]

Init ==
    /\ pos = [s \in Sequence |-> -1] /\ state = [s \in Sequence |-> <<>>]
    /\ undo = [s \in Sequence |-> 0] /\ given_up = {}
    /\ kept = <<>>

\* The sequences S have nothing any more.
Removed(S) ==
    /\ pos' = [s \in Sequence |-> IF s \in S THEN -1 ELSE pos[s]]
    /\ state' = [s \in Sequence |-> IF s \in S THEN <<>> ELSE state[s]]
    /\ undo' = [s \in Sequence |-> IF s \in S THEN 0 ELSE undo[s]]

Forget(S) == Removed(S) /\ given_up' = given_up \ S /\ UNCHANGED kept

\* n tokens for each sequence of S; those of a batch that belong to several
\* sequences are computed once, for the first of them.
Decode(S, n, shared) ==
    LET first(s) == IF shared THEN CHOOSE t \in S : \A u \in S : t <= u ELSE s
    IN  /\ S \cap given_up = {}
        /\ pos' = [s \in Sequence |-> IF s \in S THEN pos[s] + n ELSE pos[s]]
        /\ state' = [s \in Sequence |->
                        IF s \in S THEN state[first(s)] \o Tokens(first(s), n) ELSE state[s]]
        /\ \A s \in Sequence : IF s \in S THEN undo'[s] \in 0 .. n - 1 ELSE undo'[s] = undo[s]
        /\ DOMAIN undo' = Sequence
        /\ UNCHANGED <<given_up, kept>>

\* Nothing is known of the sequences of a ubatch that failed, and of no others.
DecodeFails(S) == Removed(S) /\ given_up' = given_up \cup S /\ UNCHANGED kept

\* The last r tokens are taken back.
Rollback(s, r) ==
    /\ r <= undo[s] /\ s \notin given_up
    /\ pos' = [pos EXCEPT ![s] = @ - r]
    /\ state' = [state EXCEPT ![s] = SubSeq(@, 1, Len(@) - r)]
    /\ undo' = [undo EXCEPT ![s] = @ - r]
    /\ UNCHANGED <<given_up, kept>>

Copy(a, b) ==
    /\ a \notin given_up
    /\ pos' = [pos EXCEPT ![b] = pos[a]]
    /\ state' = [state EXCEPT ![b] = state[a]]
    /\ undo' = [undo EXCEPT ![b] = undo[a]]
    /\ given_up' = given_up \ {b}
    /\ UNCHANGED kept

\* The position is moved; the state stays what it is.
Move(s, p) ==
    /\ s \notin given_up
    /\ p >= 0 /\ pos[s] >= 0
    /\ pos' = [pos EXCEPT ![s] = p]
    /\ UNCHANGED <<state, undo, given_up, kept>>

Save(s) ==
    /\ s \notin given_up
    /\ kept' = [x \in {One} |-> [pos |-> pos[s], state |-> state[s]]]
    /\ UNCHANGED <<pos, state, undo, given_up>>

SaveAll ==
    /\ given_up = {}
    /\ kept' = [s \in Sequence |-> [pos |-> pos[s], state |-> state[s]]]
    /\ UNCHANGED <<pos, state, undo, given_up>>

\* The sequence becomes what was kept, or empty if that cannot be read.
Restore(s) ==
    /\ DOMAIN kept = {One}
    /\ \/ Removed({s})
       \/ /\ pos' = [pos EXCEPT ![s] = kept[One].pos]
          /\ state' = [state EXCEPT ![s] = kept[One].state]
          /\ undo' = [undo EXCEPT ![s] = 0]
    /\ given_up' = given_up \ {s}
    /\ UNCHANGED kept

RestoreAll ==
    /\ DOMAIN kept = Sequence
    /\ \/ Removed(Sequence)
       \/ /\ pos' = [s \in Sequence |-> kept[s].pos]
          /\ state' = [s \in Sequence |-> kept[s].state]
          /\ undo' = [s \in Sequence |-> 0]
    /\ given_up' = {}
    /\ UNCHANGED kept

Next ==
    \/ \E S \in SUBSET Sequence : Forget(S) \/ DecodeFails(S)
    \/ \E S \in (SUBSET Sequence) \ {{}}, shared \in BOOLEAN :
         \E n \in 1 .. Len(state'[CHOOSE s \in S : \A t \in S : s <= t]) : Decode(S, n, shared)
    \/ \E s \in Sequence :
         \/ \E r \in 1 .. undo[s] : Rollback(s, r)
         \/ \E t \in Sequence : Copy(s, t)
         \/ Move(s, pos'[s])
         \/ Save(s) \/ Restore(s)
    \/ SaveAll \/ RestoreAll

Spec == Init /\ [][Next]_rvars
==============================================================================
