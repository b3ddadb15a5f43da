------------------------------ MODULE KVMemory ------------------------------
(***************************************************************************)
(* What llama_memory_seq_*(), llama_decode() and llama_state_*() promise   *)
(* (include/llama.h): a memory of tokens, each with the sequences it       *)
(* belongs to and its position, whatever cell, stream or buffer it is in.  *)
(***************************************************************************)
EXTENDS Integers, FiniteSets, FiniteSetsExt

CONSTANTS
    Seq_id,
    Ranges,     \* <<p0, p1>> of the calls, with p1 = -1 for no end
    Deltas      \* by how much callers move positions

VARIABLES
    conf,   \* layout: "unified" and, with a sliding window, its size "swa"
    mem,    \* set of [tok, pos, seqs]
    kept    \* what llama_state_get_data() or llama_state_seq_get_data() returned

mvars == <<conf, mem, kept>>

In(t, s, p0, p1) == s \in t.seqs /\ t.pos >= p0 /\ (p1 < 0 \/ t.pos < p1)
Of(s)      == {t \in mem : s \in t.seqs}
PosMax(s)  == IF Of(s) = {} THEN -1 ELSE Max({t.pos : t \in Of(s)})

\* M without the sequence s in the tokens that In() selects.
Removed(M, s, p0, p1) ==
    {t \in M : ~In(t, s, p0, p1)}
        \cup {[t EXCEPT !.seqs = @ \ {s}] : t \in {u \in M : In(u, s, p0, p1) /\ u.seqs # {s}}}

Init == mem = {} /\ kept = [all |-> FALSE, toks |-> {}]

Clear == mem' = {} /\ UNCHANGED <<conf, kept>>

SeqRm(s, p0, p1) ==
    mem' = Removed(mem, s, p0, p1) /\ UNCHANGED <<conf, kept>>

SeqRmAny(p0, p1) ==
    /\ mem' = {t \in mem : ~(t.pos >= p0 /\ (p1 < 0 \/ t.pos < p1))}
    /\ UNCHANGED <<conf, kept>>

\* Tokens of a unified memory are shared; a stream is copied as a whole.
SeqCp(a, b, p0, p1) ==
    /\ mem' = IF conf.unified
              THEN {IF In(t, a, p0, p1) THEN [t EXCEPT !.seqs = @ \cup {b}] ELSE t : t \in mem}
              ELSE (mem \ Of(b)) \cup {[t EXCEPT !.seqs = {b}] : t \in Of(a)}
    /\ UNCHANGED <<conf, kept>>

\* The streams of other sequences are left alone.
SeqKeep(s) ==
    /\ mem' = IF conf.unified THEN {[t EXCEPT !.seqs = {s}] : t \in Of(s)} ELSE mem
    /\ UNCHANGED <<conf, kept>>

\* A token that is moved moves for every sequence that shares it.
SeqAdd(s, p0, p1, d) ==
    /\ mem' = {t \in mem : ~In(t, s, p0, p1)}
                \cup {[t EXCEPT !.pos = @ + d] :
                        t \in {u \in mem : In(u, s, p0, p1) /\ u.pos + d >= 0}}
    /\ UNCHANGED <<conf, kept>>

SeqDiv(s, p0, p1, d) ==
    /\ mem' = {IF In(t, s, p0, p1) THEN [t EXCEPT !.pos = @ \div d] ELSE t : t \in mem}
    /\ UNCHANGED <<conf, kept>>

\* No further token of s attends to t: with a sliding window, s may lose it to
\* make room for others.
Outside(t, s) == conf.swa > 0 /\ PosMax(s) + 1 - t.pos >= conf.swa

\* u is t, or what is left of it.
Fades(t, u) ==
    /\ u.tok = t.tok /\ u.pos = t.pos /\ u.seqs \subseteq t.seqs
    /\ \A s \in t.seqs \ u.seqs : Outside(t, s)

\* The tokens of N are those of M that are not lost.
Faded(M, N) ==
    /\ \A t \in M : (\E u \in N : Fades(t, u)) \/ (\A s \in t.seqs : Outside(t, s))
    /\ \A u \in N : \E t \in M : Fades(t, u)

\* Tokens are appended, each to its sequence, at the positions that follow; none
\* when the decoding finds no room or fails to compute.
Extend ==
    LET new == {u \in mem' : \A t \in mem : ~Fades(t, u)}
        At(s) == {t.pos : t \in {u \in new : s \in u.seqs}}
    IN /\ Faded(mem, mem' \ new)
       /\ \A t \in new : \E s \in Seq_id : t.seqs = {s}
       /\ \A s \in Seq_id : At(s) = PosMax(s) + 1 .. PosMax(s) + Cardinality(At(s))
       /\ UNCHANGED <<conf, kept>>

Save(s) ==
    /\ kept' = [all |-> FALSE, toks |-> {[t EXCEPT !.seqs = {s}] : t \in Of(s)}]
    /\ UNCHANGED <<conf, mem>>

SaveAll == kept' = [all |-> TRUE, toks |-> mem] /\ UNCHANGED <<conf, mem>>

\* The sequence becomes what was saved or, if there is no room, empty.  A state
\* in which nothing was saved changes nothing.
Restore(s) ==
    /\ ~kept.all /\ kept.toks # {}
    /\ \E toks \in {kept.toks, {}} :
         LET base == Removed(mem, s, 0, -1)
             new  == {[t EXCEPT !.seqs = {s}] : t \in toks}
         IN new \subseteq mem' /\ Faded(base, mem' \ (new \ base))
    /\ UNCHANGED <<conf, kept>>

RestoreAll == kept.all /\ kept.toks # {} /\ mem' = kept.toks /\ UNCHANGED <<conf, kept>>

Next ==
    \/ Clear \/ Extend \/ SaveAll \/ RestoreAll
    \/ \E s \in Seq_id : SeqKeep(s) \/ Save(s) \/ Restore(s)
    \/ \E r \in Ranges :
         \/ SeqRmAny(r[1], r[2])
         \/ \E s \in Seq_id : \/ SeqRm(s, r[1], r[2])
                              \/ \E d \in Deltas : SeqAdd(s, r[1], r[2], d)
                              \/ SeqDiv(s, r[1], r[2], 2)
                              \/ \E b \in Seq_id \ {s} : SeqCp(s, b, r[1], r[2])

Spec == Init /\ [][Next]_mvars
=============================================================================
