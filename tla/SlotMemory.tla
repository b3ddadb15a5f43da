------------------------------ MODULE SlotMemory ------------------------------
(***************************************************************************)
(* What the slots of server_context_impl (server-context.cpp) believe to   *)
(* be in the memory of the context, and what is in it: update_slots() from *)
(* the context shift to the verification of drafts, with the tokens and    *)
(* positions that module ServerSlots leaves out.                           *)
(*                                                                         *)
(* A slot's prompt.tokens says which token is at each position of its      *)
(* sequence.  Tasks are launched and cancelled between two calls of        *)
(* update_slots(); all of them can be batched together.  States of slots   *)
(* that are idle wait in the prompt cache (server_prompt_cache).           *)
(***************************************************************************)
EXTENDS Integers, FiniteSets, SequencesExt, Functions

CONSTANTS
    N,          \* n_parallel
    NCtx,       \* slot.n_ctx
    NBatch,     \* llama_n_batch()
    AddBos,     \* 1 if add_bos_token
    KillSwitch, \* n_empty_consecutive at which the server gives up
    Configs     \* what varies from instance to instance

Slots == 0 .. N - 1

\* Every sampled token is Sampled, and a drafted token that is not is Wrong.
Sampled == 0
Wrong   == -1

Roles == {"single", "parent", "child"}

ASSUME SlotMemoryAssumption ==
    /\ N \in Nat \ {0} /\ NBatch \in Nat \ {0} /\ KillSwitch \in Nat
    /\ NCtx \in Nat /\ NCtx > 4 /\ AddBos \in 0 .. 1
    /\ \A c \in Configs :
         /\ c.draft \in Nat       \* n_max of the drafts, 0 without speculative decoding
         /\ c.cells \in Nat       \* cells of the unified cache
         /\ c.limit \in Nat       \* limit_size of the prompt cache, in cells; 0 without one
         /\ c.idle_slots \in BOOLEAN /\ c.idle_slots => c.limit > 0   \* cache_idle_slots
         /\ c.drft_fails \in BOOLEAN  \* the state of the draft context may not be restored
         /\ {c.ctx_shift, c.process_fails, c.decode_fails} \subseteq BOOLEAN
         /\ \A t \in c.tasks :
              /\ t.role \in Roles \ {"child"} /\ t.cache_prompt \in BOOLEAN
              /\ t.n_keep \in Int /\ {t.n_discard, t.n_cache_reuse} \subseteq Nat
              /\ t.tokens # <<>> /\ \A k \in DOMAIN t.tokens : t.tokens[k] \in Nat

VARIABLES
    conf,
    pc,         \* "idle" (between two updates), "draft", "fill", "decode", "sample", "aborted"
    slot,
    mem,        \* the cells of each sequence: pairs of a position and a token
    states,     \* of the prompt cache: [tokens, main, cleared], the oldest first
    batch,      \* its tokens, [slot, pos, tok, out]
    i,          \* offset of the chunk that is decoded
    n_batch,    \* size of the next chunk
    n_empty     \* n_empty_consecutive

vars == <<conf, pc, slot, mem, states, batch, i, n_batch, n_empty>>

NoTask == [tokens |-> <<>>, role |-> "single"]
NoSlot == [state |-> "idle", task |-> NoTask, tokens |-> <<>>, i_batch |-> -1,
           spec_draft |-> <<>>, spec_first |-> -1, id_parent |-> -1]

Size(s)       == Len(slot[s].tokens)
Processing(r) == r.state # "idle"

----------------------------------------------------------------------------
(* The memory *)

Exact(ts) == {<<k - 1, ts[k]>> : k \in DOMAIN ts}

Rm(m, p0, p1) == {c \in m : c[1] < p0 \/ c[1] >= p1}
Below(m, p0)   == {c \in m : c[1] < p0}
Add(m, p0, p1, d) ==
    LET moved == {c \in m : c[1] >= p0 /\ c[1] < p1}
    IN (m \ moved) \cup {<<c[1] + d, c[2]>> : c \in {e \in moved : e[1] + d >= 0}}

PosMin(m) == IF m = {} THEN -1 ELSE Min({c[1] : c \in m})
PosMax(m) == IF m = {} THEN -1 ELSE Max({c[1] : c \in m})

----------------------------------------------------------------------------
(* server_prompt_cache *)

\* How many tokens of a and b agree from the 0-based places p and q on.
Matching(a, p, b, q) ==
    Max({0} \cup {n \in 1 .. Min({Len(a) - p, Len(b) - q}) :
                    \A k \in 1 .. n : a[p + k] = b[q + k]})

Prefix(a, b) == Matching(a, 0, b, 0)    \* get_common_prefix()

\* alloc(): nothing is saved twice, nor a state that a longer one contains.
Alloc(c, ts, m) ==
    IF \E e \in ToSet(c) : Prefix(e.tokens, ts) = Len(ts) THEN c
    ELSE Append(SelectSeq(c, LAMBDA e : Prefix(e.tokens, ts) # Len(e.tokens)),
                [tokens |-> ts, main |-> m, cleared |-> FALSE])

\* update(): the oldest states go, all but one if need be.  The limit of tokens is
\* never reached before that of the size.
Limited(c) ==
    LET n(k) == FoldLeft(LAMBDA x, e : x + Cardinality(e.main), 0, SubSeq(c, k, Len(c)))
    IN SubSeq(c, Min({k \in 1 .. Len(c) + 1 : k >= Len(c) \/ n(k) <= conf.limit}), Len(c))

\* Where load() finds a state that has more of the new prompt than ts, and more of
\* itself in it; 0 for nowhere.  A quarter is the least.
Best(c, ts, new) ==
    LET Better(acc, k) ==
            LET n == Prefix(c[k].tokens, new)
            IN /\ 4 * n >= Len(c[k].tokens)
               /\ n > acc.n /\ (acc.len = 0 \/ n * acc.len > acc.n * Len(c[k].tokens))
        Step(acc, k) == IF ~Better(acc, k) THEN acc
                        ELSE [k |-> k, n |-> Prefix(c[k].tokens, new), len |-> Len(c[k].tokens)]
    IN FoldLeft(Step, [k |-> 0, n |-> Prefix(ts, new), len |-> Len(ts)], [k \in DOMAIN c |-> k]).k

\* Cells in use.  A parent and its child share some of those they have in common.
Cells  == SumFunction([s \in Slots |-> Cardinality(mem[s])])
Shared == SumFunction([s \in Slots |-> IF slot[s].id_parent = -1 THEN 0
                                       ELSE Cardinality(mem[s] \cap mem[slot[s].id_parent])])

\* prompt_save() and prompt_load() of slot s: what it may have then, and the cache.
\* Without free cells nothing is restored and the slot is cleared.  A buffer that
\* was cleared restores nothing either, and that counts as success.
Fetched(s, new) ==
    LET c    == IF Size(s) = 0 THEN states ELSE Alloc(states, slot[s].tokens, mem[s])
        k    == Best(c, slot[s].tokens, new)
        e    == c[k]
        n    == Cells - Cardinality(mem[s]) + Cardinality(e.main)
        main == IF e.cleared THEN mem[s] ELSE e.main
        none == [tokens |-> <<>>, mem |-> {}, states |-> Limited(c)]
    IN IF k = 0
       THEN {[tokens |-> slot[s].tokens, mem |-> mem[s], states |-> Limited(c)]}
       ELSE { r \in { none,
                      [none EXCEPT !.states = Limited([c EXCEPT ![k].cleared = TRUE])],
                      [tokens |-> e.tokens, mem |-> main, states |-> Limited(RemoveAt(c, k))] } :
                /\ r = none => n > conf.cells
                /\ r.tokens # <<>> => n - Shared <= conf.cells
                /\ r # none /\ r.tokens = <<>> => conf.drft_fails /\ n - Shared <= conf.cells }

\* The slot with the most of the prompt, if that is more than a tenth of it
\* (slot_prompt_similarity), else the one that was used least recently.
Similar(t) == {s \in Slots : /\ ~Processing(slot[s]) /\ Size(s) > 0
                             /\ 10 * Prefix(slot[s].tokens, t.tokens) > Len(t.tokens)}
Available(t) ==
    LET most == {s \in Similar(t) : \A r \in Similar(t) :
                   Prefix(slot[s].tokens, t.tokens) >= Prefix(slot[r].tokens, t.tokens)}
    IN IF most = {} THEN {s \in Slots : ~Processing(slot[s])} ELSE {Min(most)}

\* get_available_slot(): what slot s may have when it is given to t.  It is saved
\* and something better looked for, if it would lose more than half.
Given(s, t) ==
    LET as_is == [tokens |-> slot[s].tokens, mem |-> mem[s], states |-> states]
    IN IF conf.limit > 0 /\ (Similar(t) = {} \/ 2 * Prefix(slot[s].tokens, t.tokens) < Size(s))
       THEN Fetched(s, t.tokens) ELSE {as_is}

\* slot_save_and_clear() of the slots that are idle
Stow(new) ==
    LET Step(acc, s) ==
            IF Processing(acc.slot[s]) \/ acc.slot[s].tokens = <<>> THEN acc
            ELSE [slot   |-> [acc.slot EXCEPT ![s].tokens = <<>>],
                  mem    |-> [acc.mem EXCEPT ![s] = {}],
                  states |-> Limited(Alloc(acc.states, acc.slot[s].tokens, acc.mem[s]))]
    IN IF conf.idle_slots THEN FoldLeft(Step, new, [k \in 1 .. N |-> k - 1]) ELSE new

----------------------------------------------------------------------------
(* Between two updates *)

Init ==
    /\ conf \in Configs
    /\ pc = "idle"
    /\ slot = [s \in Slots |-> NoSlot]
    /\ mem = [s \in Slots |-> {}]
    /\ states = <<>>
    /\ batch = <<>> /\ i = 0 /\ n_batch = NBatch
    /\ n_empty = 0

\* release() and reset(): i_batch stays, and the tokens, except a child's.
Released(r) ==
    [r EXCEPT !.state = "idle", !.task = NoTask, !.spec_draft = <<>>, !.spec_first = -1,
              !.id_parent = -1,
              !.tokens = IF r.task.role = "child" THEN <<>> ELSE r.tokens]
ReleasedMem(s) == IF slot[s].task.role = "child" THEN {} ELSE mem[s]

Started(r, t, state, p) ==
    [r EXCEPT !.state = state, !.task = t, !.id_parent = p]

\* The new tasks of slots take the memory that get_available_slot() gave to slot s,
\* or what is there, when the task names its slot.
Launched(s, t, tasks) ==
    \E g \in {[tokens |-> slot[s].tokens, mem |-> mem[s], states |-> states]} \cup
             (IF s \in Available(t) THEN Given(s, t) ELSE {}) :
       LET new == Stow([slot   |-> [c \in Slots |->
                                      LET r == IF c = s THEN [slot[s] EXCEPT !.tokens = g.tokens]
                                               ELSE slot[c]
                                      IN IF c \in DOMAIN tasks
                                         THEN Started(r, tasks[c].task, tasks[c].state, tasks[c].parent)
                                         ELSE r],
                        mem    |-> [mem EXCEPT ![s] = g.mem],
                        states |-> g.states])
       IN slot' = new.slot /\ mem' = new.mem /\ states' = new.states

Launch(s, t) ==
    /\ pc = "idle" /\ t.role = "single" /\ ~Processing(slot[s])
    /\ Launched(s, t, s :> [task |-> t, state |-> "started", parent |-> -1])
    /\ n_empty' = 0
    /\ UNCHANGED <<conf, pc, batch, i, n_batch>>

\* launch_slots_with_parent_task(), for a family of two
LaunchFamily(s, c, t) ==
    /\ pc = "idle" /\ t.role = "parent" /\ s # c
    /\ ~Processing(slot[s]) /\ ~Processing(slot[c])
    /\ Launched(s, t, s :> [task |-> t, state |-> "started", parent |-> -1] @@
                      c :> [task |-> [t EXCEPT !.role = "child"], state |-> "wait", parent |-> s])
    /\ n_empty' = 0
    /\ UNCHANGED <<conf, pc, batch, i, n_batch>>

\* No slot is left for the child: the task is deferred, its slot stays as it is.
DeferFamily(s, t) ==
    /\ pc = "idle" /\ t.role = "parent" /\ \A c \in Slots \ {s} : Processing(slot[c])
    /\ s \in Available(t)
    /\ \E g \in Given(s, t) :
          /\ slot' = [slot EXCEPT ![s].tokens = g.tokens]
          /\ mem' = [mem EXCEPT ![s] = g.mem]
          /\ states' = g.states
    /\ UNCHANGED <<conf, pc, batch, i, n_batch, n_empty>>

\* A request is cancelled with all its tasks.
Cancel(s) ==
    LET family == {s} \cup {c \in Slots : slot[c].id_parent = s}
    IN /\ pc = "idle" /\ Processing(slot[s]) /\ slot[s].id_parent = -1
       /\ slot' = [c \in Slots |-> IF c \in family THEN Released(slot[c]) ELSE slot[c]]
       /\ mem' = [c \in Slots |-> IF c \in family THEN ReleasedMem(c) ELSE mem[c]]
       /\ UNCHANGED <<conf, states, pc, batch, i, n_batch, n_empty>>

\* SLOT_ERASE, and a SLOT_RESTORE that failed: "KV may already been invalidated?"
Erase(s) ==
    /\ pc = "idle" /\ ~Processing(slot[s]) /\ Size(s) > 0
    /\ slot' = [slot EXCEPT ![s].tokens = <<>>]
    /\ \E m \in {{}, mem[s]} : mem' = [mem EXCEPT ![s] = m]
    /\ UNCHANGED <<conf, states, pc, batch, i, n_batch, n_empty>>

\* SLOT_RESTORE of the state a prompt left behind.
Restore(s, t) ==
    /\ pc = "idle" /\ ~Processing(slot[s])
    /\ Cells - Cardinality(mem[s]) + Len(t.tokens) - Shared <= conf.cells
    /\ slot' = [slot EXCEPT ![s].tokens = t.tokens]
    /\ mem' = [mem EXCEPT ![s] = Exact(t.tokens)]
    /\ UNCHANGED <<conf, states, pc, batch, i, n_batch, n_empty>>

----------------------------------------------------------------------------
(* The context shift *)

NeedsShift(s) == slot[s].state = "generating" /\ Size(s) + 1 >= NCtx
ShiftRefused(s) == ~conf.ctx_shift \/ slot[s].task.role # "single"

\* n_keep and n_discard; the last is what the client asked for, or half of what is left.
Keep(s) ==
    LET t == slot[s].task
    IN Min({NCtx - 4, AddBos + IF t.n_keep < 0 THEN Len(t.tokens) ELSE t.n_keep})
Discard(s) ==
    IF slot[s].task.n_discard # 0 THEN slot[s].task.n_discard ELSE (Size(s) - Keep(s)) \div 2

ShiftedTokens(s) ==
    LET ts == slot[s].tokens
    IN [k \in 1 .. Size(s) - Discard(s) |->
           IF k <= Keep(s) THEN ts[k]
           ELSE IF k + Discard(s) <= Size(s) THEN ts[k + Discard(s)] ELSE ts[k]]

ShiftedMem(s) ==
    Add(Rm(mem[s], Keep(s), Keep(s) + Discard(s)),
        Keep(s) + Discard(s), Size(s), -Discard(s))

\* update_slots() begins.  A family, or a slot when shifts are disabled, is
\* answered with an error.  More tokens than there are cannot be discarded: the
\* size of the vector would be negative.
Shift ==
    LET due == {s \in Slots : NeedsShift(s)}
        ok  == {s \in due : ~ShiftRefused(s)}
    IN /\ pc = "idle" /\ \E s \in Slots : Processing(slot[s])
       /\ IF \E s \in ok : Discard(s) > Size(s)
          THEN pc' = "aborted" /\ UNCHANGED <<slot, mem>>
          ELSE /\ pc' = "draft"
               /\ slot' = [s \in Slots |->
                     IF s \in ok THEN [slot[s] EXCEPT !.tokens = ShiftedTokens(s)]
                     ELSE IF s \in due THEN Released(slot[s]) ELSE slot[s]]
               /\ mem' = [s \in Slots |->
                     IF s \in ok THEN ShiftedMem(s)
                     ELSE IF s \in due THEN ReleasedMem(s) ELSE mem[s]]
       /\ UNCHANGED <<conf, states, batch, i, n_batch, n_empty>>

----------------------------------------------------------------------------
(* Sampled and drafted tokens enter the batch *)

Guesses(n) ==
    {<<>>} \cup UNION {{[k \in 1 .. l |-> Sampled],
                       [k \in 1 .. l |-> IF k = l THEN Wrong ELSE Sampled]} : l \in 1 .. n}

\* get_n_draft_max(), and the limit of the drafter
DraftMax(r) == Max({0, Min({conf.draft, NCtx - Len(r.tokens) - 2})})

Row(s, p, tok, out) == [slot |-> s, pos |-> p, tok |-> tok, out |-> out]

\* update_batch() of slot s with a draft
UpdateBatch(acc, s, draft) ==
    LET r    == acc.slot[s]
        toks == <<Sampled>> \o draft
    IN [slot  |-> [acc.slot EXCEPT ![s] =
                     [r EXCEPT !.tokens = r.tokens \o toks,
                               !.spec_draft = draft,
                               !.spec_first = IF draft = <<>> THEN -1 ELSE Len(acc.batch),
                               !.i_batch = IF draft = <<>> THEN Len(acc.batch) ELSE r.i_batch]],
        batch |-> acc.batch \o [k \in DOMAIN toks |->
                                   Row(s, Len(r.tokens) + k - 1, toks[k], TRUE)]]

\* The batch was allocated for the larger of n_batch and n_parallel tokens.
Draft ==
    \E drafts \in [Slots -> Guesses(conf.draft)] :
       LET gen == SelectSeq([k \in 1 .. N |-> k - 1], LAMBDA s : slot[s].state = "generating")
           new == FoldLeft(LAMBDA acc, s : UpdateBatch(acc, s, drafts[s]),
                           [slot |-> slot, batch |-> <<>>], gen)
       IN /\ pc = "draft"
          /\ \A s \in Slots : Len(drafts[s]) <= IF s \in ToSet(gen) THEN DraftMax(slot[s]) ELSE 0
          /\ pc' = IF Len(new.batch) > Max({NBatch, N}) THEN "aborted" ELSE "fill"
          /\ slot' = new.slot /\ batch' = new.batch
          /\ UNCHANGED <<conf, states, mem, i, n_batch, n_empty>>

----------------------------------------------------------------------------
(* Prompts *)

\* Mutant: the cells of a chunk that is reused are not moved.
ReuseStays(past, ts, m, t) ==
    LET Step(acc, k) ==
          LET n == Matching(acc.ts, acc.c, t.tokens, acc.p)
          IN IF acc.c >= Len(ts) \/ acc.p >= Len(t.tokens) THEN acc
             ELSE IF n < t.n_cache_reuse THEN [acc EXCEPT !.c = @ + 1]
             ELSE [c |-> acc.c + n, p |-> acc.p + n, past |-> acc.past + n,
                   ts |-> [j \in DOMAIN ts |-> IF j \in acc.p + 1 .. acc.p + n
                                              THEN acc.ts[acc.c + j - acc.p] ELSE acc.ts[j]],
                   m |-> acc.m]
    IN FoldLeft(Step, [c |-> past, p |-> past, past |-> past, ts |-> ts, m |-> m], ts)

\* Chunks of n_cache_reuse tokens and more are moved to where the prompt has them.
Reuse(past, ts, m, t) ==
    LET Step(acc, k) ==
          LET n == Matching(acc.ts, acc.c, t.tokens, acc.p)
          IN IF acc.c >= Len(ts) \/ acc.p >= Len(t.tokens) THEN acc
             ELSE IF n < t.n_cache_reuse THEN [acc EXCEPT !.c = @ + 1]
             ELSE [c |-> acc.c + n, p |-> acc.p + n, past |-> acc.past + n,
                   ts |-> [j \in DOMAIN ts |-> IF j \in acc.p + 1 .. acc.p + n
                                              THEN acc.ts[acc.c + j - acc.p] ELSE acc.ts[j]],
                   m |-> Add(Rm(acc.m, acc.p, acc.c), acc.c, acc.c + n, acc.p - acc.c)]
    IN FoldLeft(Step, [c |-> past, p |-> past, past |-> past, ts |-> ts, m |-> m], ts)

\* What a new prompt keeps of the tokens and the cells of its slot.  A common
\* prefix of one token starts over: no checkpoint has a smaller pos_min.  At
\* least one token is left to be evaluated.
Reused(r, m) ==
    LET t    == r.task
        past == Matching(r.tokens, 0, t.tokens, 0)
        all  == IF t.n_cache_reuse > 0 THEN Reuse(past, r.tokens, m, t)
                ELSE [past |-> past, ts |-> r.tokens, m |-> m]
        kept == IF PosMin(all.m) >= Max({0, all.past - 1}) THEN 0 ELSE all.past
    IN IF ~t.cache_prompt THEN [past |-> 0, ts |-> r.tokens, m |-> m, lost |-> FALSE]
       ELSE [past |-> IF kept = Len(t.tokens) THEN kept - 1 ELSE kept,
             ts |-> all.ts, m |-> all.m,
             lost |-> all.past > 0 /\ PosMin(all.m) = -1]  \* "should not happen"

\* keep_first(): a slot that was just started begins its prompt.
Begun(acc, s) ==
    LET r == acc.slot[s]
        k == Reused(r, acc.mem[s])
    IN IF r.state # "started" THEN acc
       ELSE [acc EXCEPT !.slot[s].state = "prompt",
                        !.slot[s].tokens = SubSeq(k.ts, 1, k.past),
                        !.mem[s] = k.m,
                        !.lost = @ \/ k.lost]

\* What is behind the tokens is removed, and the prompt goes on while there is
\* room in the batch; its last token gets an output.
Prompted(acc, s) ==
    LET r     == acc.slot[s]
        end   == Min({Len(r.task.tokens), Len(r.tokens) + NBatch - Len(acc.batch)})
        rows  == [k \in 1 .. end - Len(r.tokens) |->
                    Row(s, Len(r.tokens) + k - 1, r.task.tokens[Len(r.tokens) + k],
                        Len(r.tokens) + k = Len(r.task.tokens))]
        done  == end = Len(r.task.tokens)
    IN [acc EXCEPT !.slot[s].tokens = SubSeq(r.task.tokens, 1, end),
                   !.slot[s].state = IF done THEN "done" ELSE "prompt",
                   !.slot[s].i_batch = IF done THEN Len(acc.batch) + Len(rows) - 1 ELSE @,
                   !.mem[s] = Below(@, Len(r.tokens)),
                   !.batch = @ \o rows]

\* One slot after the other until the batch is full.
FillSlot(acc, s) ==
    LET r   == acc.slot[s]
        new == IF r.state \in {"started", "prompt"} THEN Prompted(Begun(acc, s), s) ELSE acc
    IN IF acc.full \/ r.state \in {"idle", "wait"} THEN acc
       ELSE IF r.state = "started" /\ Len(r.task.tokens) >= NCtx
       THEN [acc EXCEPT !.slot[s] = Released(r)]   \* exceeds the context size
       ELSE [new EXCEPT !.full = Len(new.batch) >= NBatch]

\* The rest of update_slots() up to the loop over the chunks.
Fill ==
    LET new == FoldLeft(FillSlot, [slot |-> slot, mem |-> mem, batch |-> batch,
                                   full |-> FALSE, lost |-> FALSE],
                        [k \in 1 .. N |-> k - 1])
    IN /\ pc = "fill"
       /\ slot' = new.slot /\ mem' = new.mem /\ batch' = new.batch
       /\ n_empty' = IF new.batch = <<>> THEN n_empty + 1 ELSE 0
       /\ pc' = IF new.lost \/ n_empty' > KillSwitch THEN "aborted"
                ELSE IF new.batch = <<>> THEN "idle" ELSE "decode"
       /\ UNCHANGED <<conf, states, i, n_batch>>

----------------------------------------------------------------------------
(* The chunks *)

Chunk    == SubSeq(batch, i + 1, Min({Len(batch), i + n_batch}))
RowsOf(s, rows) == SelectSeq(rows, LAMBDA r : r.slot = s)
CellsOf(s, rows) == {<<r.pos, r.tok>> : r \in ToSet(RowsOf(s, rows))}

\* "it is required that the sequence positions remain consecutive"
Invalid ==
    \E s \in Slots : LET rows == RowsOf(s, Chunk)
                     IN rows # <<>> /\ mem[s] # {} /\ rows[1].pos # PosMax(mem[s]) + 1

MayBeFull == Cells + Len(Chunk) > conf.cells
MayFit    == Cells - Shared + Len(Chunk) <= conf.cells

\* What every slot that is processing gets when a chunk cannot be decoded:
\* an error, release() and prompt_clear().
Failed(s) == IF Processing(slot[s]) THEN [Released(slot[s]) EXCEPT !.tokens = <<>>] ELSE slot[s]

EndUpdate == pc' = "idle" /\ batch' = <<>> /\ i' = 0 /\ n_batch' = NBatch

\* No cell is left for a single token, the batch is invalid, or the computation fails.
DecodeError ==
    /\ pc = "decode"
    /\ Invalid \/ conf.decode_fails \/ (n_batch = 1 /\ MayBeFull)
    /\ slot' = [s \in Slots |-> Failed(s)]
    /\ mem' = [s \in Slots |-> IF Processing(slot[s]) THEN {} ELSE mem[s]]
    /\ EndUpdate
    /\ UNCHANGED <<conf, states, n_empty>>

\* Mutant: the tokens of the slot that is purged are kept.
PurgeKeepsTokens ==
    /\ pc = "decode" /\ ~Invalid /\ MayBeFull /\ n_batch > 1
    /\ LET idle == {s \in Slots : ~Processing(slot[s]) /\ Size(s) > 0}
       IN IF idle # {}
          THEN mem' = [mem EXCEPT ![Min(idle)] = {}] /\ UNCHANGED n_batch
          ELSE n_batch' = n_batch \div 2 /\ UNCHANGED mem
    /\ UNCHANGED <<conf, states, pc, slot, batch, i, n_empty>>

\* try_clear_idle_slots(), or half of the chunk
Retry ==
    /\ pc = "decode" /\ ~Invalid /\ MayBeFull /\ n_batch > 1
    /\ LET idle == {s \in Slots : ~Processing(slot[s]) /\ Size(s) > 0}
       IN IF idle # {}
          THEN /\ slot' = [slot EXCEPT ![Min(idle)].tokens = <<>>]
               /\ mem' = [mem EXCEPT ![Min(idle)] = {}]
               /\ UNCHANGED n_batch
          ELSE n_batch' = n_batch \div 2 /\ UNCHANGED <<slot, mem>>
    /\ UNCHANGED <<conf, states, pc, batch, i, n_empty>>

Children(s) == {c \in Slots : slot[c].state = "wait" /\ slot[c].id_parent = s}
Copying     == {s \in Slots : slot[s].state = "done" /\ slot[s].task.role = "parent"}

\* Mutant: the child keeps its own tokens.
CopiedStateKeeps(c) ==
    [slot[c] EXCEPT !.state = "done", !.i_batch = slot[slot[c].id_parent].i_batch]

\* copy_state_to()
CopiedState(c) ==
    [slot[c] EXCEPT !.state = "done", !.tokens = slot[slot[c].id_parent].tokens,
                    !.i_batch = slot[slot[c].id_parent].i_batch]

\* The chunk is decoded, and the children of every parent in DONE_PROMPT are
\* activated; or common_speculative_process() fails ("TODO: handle error").
Decoded ==
    LET new == [s \in Slots |-> mem[s] \cup CellsOf(s, Chunk)]
        kids == UNION {Children(s) : s \in Copying}
    IN /\ pc = "decode" /\ ~Invalid /\ MayFit
       /\ \/ /\ pc' = "sample"
             /\ slot' = [c \in Slots |-> IF c \in kids THEN CopiedState(c) ELSE slot[c]]
             /\ mem' = [c \in Slots |-> IF c \in kids THEN new[slot[c].id_parent] ELSE new[c]]
             /\ UNCHANGED <<batch, i, n_batch>>
          \/ /\ conf.process_fails
             /\ mem' = new /\ EndUpdate /\ UNCHANGED slot
       /\ UNCHANGED <<conf, states, n_empty>>

\* The slot is sampled from the row i_batch, or its draft from the rows after
\* spec_first, which are counted from the start of the whole batch.
Samples(s) ==
    /\ slot[s].state \in {"done", "generating"} /\ slot[s].spec_draft = <<>>
    /\ slot[s].i_batch \in i .. i + Len(Chunk) - 1
Verifies(s) == slot[s].state = "generating" /\ slot[s].spec_draft # <<>>

Accepted(draft) == Max({n \in 0 .. Len(draft) : \A k \in 1 .. n : draft[k] = Sampled})

\* keep_first(), insert() of the accepted tokens
Verified(s) ==
    LET r == slot[s]
        n == Accepted(r.spec_draft)
    IN [r EXCEPT !.tokens = SubSeq(r.tokens, 1, Len(r.tokens) - Len(r.spec_draft))
                            \o [k \in 1 .. n |-> Sampled],
                 !.spec_draft = <<>>, !.spec_first = -1]

After(s) ==
    IF Verifies(s) THEN Verified(s)
    ELSE IF Samples(s) THEN [slot[s] EXCEPT !.state = "generating", !.i_batch = -1]
    ELSE slot[s]

\* process_token(): a slot stops when it has to, and may whenever it is sampled.
MustStop(r) == ~conf.ctx_shift /\ Len(r.tokens) + 1 >= NCtx

Sample ==
    \E stops \in SUBSET {s \in Slots : Samples(s) \/ Verifies(s)} :
       LET new == [s \in Slots |-> After(s)]
           cut == [s \in Slots |-> IF Verifies(s) THEN Below(mem[s], Len(new[s].tokens)) ELSE mem[s]]
           ended(s) == slot[s].task.role = "child" /\ s \in stops
       IN /\ pc = "sample"
          /\ \A s \in Slots : (Samples(s) \/ Verifies(s)) /\ MustStop(new[s]) => s \in stops
          /\ slot' = [s \in Slots |-> IF s \in stops THEN Released(new[s]) ELSE new[s]]
          /\ mem' = [s \in Slots |-> IF ended(s) THEN {} ELSE cut[s]]
          /\ IF i + Len(Chunk) < Len(batch)
             THEN /\ i' = i + Len(Chunk) /\ n_batch' = NBatch /\ pc' = "decode"
                  /\ UNCHANGED batch
             ELSE EndUpdate
          /\ UNCHANGED <<conf, states, n_empty>>

Update == Shift \/ Draft \/ Fill \/ DecodeError \/ Retry \/ Decoded \/ Sample

Next ==
    \/ Update
    \/ \E s \in Slots : Cancel(s) \/ Erase(s)
    \/ \E s \in Slots, t \in conf.tasks : Launch(s, t) \/ DeferFamily(s, t) \/ Restore(s, t)
    \/ \E s, c \in Slots, t \in conf.tasks : LaunchFamily(s, c, t)

Spec == Init /\ [][Next]_vars

----------------------------------------------------------------------------
(* Properties *)

\* What of the batch is still to be decoded for the slot.
Ahead(s) ==
    CellsOf(s, SubSeq(batch, i + 1 + (IF pc = "sample" THEN Len(Chunk) ELSE 0), Len(batch)))

\* A slot's tokens are the cells of its sequence: all of them, once, at their
\* positions, with what the batch will add, while it is processed; and at least
\* those when it is idle and its next prompt will look for a common prefix.  The
\* same of the states in the prompt cache, none of which begins another.
InSync ==
    /\ \A k, l \in DOMAIN states :
          /\ Below(states[k].main, Len(states[k].tokens)) = Exact(states[k].tokens)
          /\ k # l => ~IsPrefix(states[k].tokens, states[l].tokens)
    /\ pc # "aborted" =>
        \A s \in Slots :
            CASE slot[s].state \in {"prompt", "done", "generating"} ->
                     /\ mem[s] \cup Ahead(s) = Exact(slot[s].tokens)
                     /\ mem[s] \cap Ahead(s) = {}
              [] slot[s].state \in {"idle", "started"} ->
                     Below(mem[s], Size(s)) = Exact(slot[s].tokens)
              [] OTHER -> TRUE

\* A slot is sampled from the output of its own last token, or of its parent's,
\* which is in the chunk that was just decoded; a draft from all its tokens.
ReadsOwn ==
    pc = "sample" =>
        LET owner(s) == IF slot[s].state = "done" /\ slot[s].id_parent # -1
                        THEN slot[s].id_parent ELSE s
            reads(k, s, p) == /\ k < i + Len(Chunk)
                              /\ batch[k + 1].slot = owner(s) /\ batch[k + 1].pos = p
                              /\ batch[k + 1].out
        IN \A s \in Slots :
             /\ Samples(s) => reads(slot[s].i_batch, s, Size(s) - 1)
             /\ Verifies(s) => \A k \in 0 .. Len(slot[s].spec_draft) :
                   reads(i + slot[s].spec_first + k, s, Size(s) - 1 - Len(slot[s].spec_draft) + k)

\* No slot grows beyond its context, drafts included, and a generating slot that
\* has not stopped leaves room to sample one more.
ContextFits ==
    \A s \in Slots : Size(s) <= NCtx /\ (pc = "draft" => ~NeedsShift(s))

\* "the update_slots() logic will always submit a maximum of n_batch or
\* n_parallel tokens", no size gets negative, no reused prompt is found lost, and
\* the kill switch never has a reason; and no slot grows beyond its context.
NoAbort == pc # "aborted" /\ ContextFits
=============================================================================
