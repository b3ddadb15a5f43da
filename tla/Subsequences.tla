---------------------------- MODULE Subsequences ----------------------------
(***************************************************************************)
(* What std::remove_if and erase() leave of a vector or a deque, and loops *)
(* that pick some of its items: SelectSeq, in a closed form that can be    *)
(* proved about.  And loops whose rounds build on each other.              *)
(***************************************************************************)
EXTENDS Integers, FiniteSets, SequencesExt

\* The k-th smallest number of K.
Nth(K, k) == CHOOSE i \in K : Cardinality({j \in K : j <= i}) = k

\* The numbers of K, the smallest first.
InTurn(K) == [k \in 1 .. Cardinality(K) |-> Nth(K, k)]

\* The items of q at the positions K, in their order.
Remaining(q, K) == [k \in 1 .. Cardinality(K) |-> q[Nth(K, k)]]

\* The items of q that are in S, in their order.
Those(q, S) == Remaining(q, {k \in DOMAIN q : q[k] \in S})

\* What Op makes of base, for k = 1 .. n in turn.
For(Op(_, _), base, n) ==
    LET after[k \in 0 .. n] == IF k = 0 THEN base ELSE Op(after[k - 1], k)
    IN after[n]
=============================================================================
