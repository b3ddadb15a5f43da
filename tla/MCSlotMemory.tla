---------------------------- MODULE MCSlotMemory ----------------------------
(***************************************************************************)
(* Instances of SlotMemory for TLC.                                        *)
(***************************************************************************)
EXTENDS SlotMemory

T(ts, keep, discard, reuse, cache, role) ==
    [tokens |-> ts, n_keep |-> keep, n_discard |-> discard, n_cache_reuse |-> reuse,
     cache_prompt |-> cache, role |-> role]

\* A conversation and its continuation, one that shares its middle, another one.
Short  == T(<<1, 2>>, 0, 0, 0, TRUE, "single")
Long   == T(<<1, 2, 0, 3, 1>>, -1, 0, 0, TRUE, "single")
Chunky == T(<<2, 0, 3, 1>>, 1, 1, 1, TRUE, "single")
Fresh  == T(<<1, 2, 3>>, 0, 2, 0, FALSE, "single")
Other  == T(<<3, 1>>, 0, 0, 0, TRUE, "single")
Family == T(<<1, 2, 3>>, 0, 0, 0, TRUE, "parent")

Conf(tasks, draft, cells, shift, pfails, dfails) ==
    [tasks |-> tasks, draft |-> draft, cells |-> cells, ctx_shift |-> shift,
     process_fails |-> pfails, decode_fails |-> dfails,
     limit |-> 0, idle_slots |-> FALSE, drft_fails |-> FALSE]

Reusing    == Conf({Short, Long, Chunky}, 0, 100, TRUE, FALSE, FALSE)
Failing    == Conf({Long, Fresh}, 0, 100, FALSE, FALSE, TRUE)
Drafting   == Conf({Long, Fresh}, 2, 100, TRUE, FALSE, FALSE)
Filling    == Conf({Short, Long, Chunky}, 0, 8, FALSE, FALSE, FALSE)
WithChild  == Conf({Short, Family}, 1, 100, TRUE, FALSE, FALSE)

\* With a prompt cache: idle slots are saved, or kept until they are needed.
Cached(c, limit, idle) == [c EXCEPT !.limit = limit, !.idle_slots = idle]
Stowing == Cached(Conf({Short, Other}, 0, 8, FALSE, FALSE, FALSE), 5, TRUE)
Keeping == Cached(Conf({Short, Other}, 0, 7, FALSE, FALSE, FALSE), 5, FALSE)
Both == Cached(Conf({Other, Family}, 0, 100, FALSE, FALSE, FALSE), 5, TRUE)

Sound == {Stowing, Keeping, Both, Reusing, Failing, Drafting, Filling, WithChild}
=============================================================================
