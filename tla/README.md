# llama-server and its runtime in TLA+

TLA+ models of the parts of this repository that keep state and take turns: the
threads, queues and slots of `llama-server` (`llama.cpp/tools/server`), its
router of model processes, below it the two kinds of memory, the batches and
the CPU thread pool that `llama_decode()` works with, and the log beside them
all. They are model-checked with TLC on small instances and, for the invariants
that matter most, proved with TLAPS for every value of the constants. The rest of
the repository (kernels, backends, model conversion, tools) is listed at the end.

## 1. The system

`llama-server` has one **main thread** and a pool of **HTTP threads**.

| part | state | operations | talks to |
|---|---|---|---|
| `server_queue` (server-queue.h, .cpp) | `queue_tasks`, `queue_tasks_deferred`, `running`, `sleeping`, `req_stop_sleeping`, `time_last_task`, one mutex, one condition variable | `post` (front, back, a vector), `defer`, `pop_deferred_task`, `cleanup_pending_task`, `wait_until_no_sleep`, `terminate`, `start_loop` | HTTP threads post; the main thread loops and calls back |
| `server_context_impl` (server-context.cpp) | `slots` (state, task, prompt, `i_batch`), `batch`, `n_empty_consecutive`, the model and its contexts | `process_single_task`, `update_slots`, `handle_sleeping_state` | called by `start_loop`; sends results |
| `server_response`, `server_response_reader` (server-queue.*) | `waiting_task_ids`, `queue_results`, a mutex and a condition variable; per reader `id_tasks`, `received_count`, `cancelled` | `send`, `recv_with_timeout`, `remove_waiting_task_id(s)`; `post_tasks`, `next`, `wait_for_all`, `stop` | the main thread sends, HTTP threads receive |
| HTTP handlers (`server_routes`) | the request; pointers to vocab and model metadata | `create_response`, tokenize, `post_tasks`, `next` in a loop, the destructor | enter through `wait_until_no_sleep` |
| prompt cache, checkpoints (server-task.*, server-context.cpp) | a list of saved states with a byte and a token limit; checkpoints per slot | `alloc`, `load`, `update`; create, restore, evict | main thread only |
| speculative decoding (common/speculative.*) | drafts per slot, the draft context | draft, verify, accept, roll back | inside `update_slots` |
| router (server-models.*) | a map of models with a status, child processes, `running_count` | `load`, `unload`, `unload_lru`, `ensure_model_ready`, a monitor thread per child | HTTP threads of the router process |
| KV cache (src/llama-kv-cache.*, llama-kv-cells.h) | cells: position, shift, set of sequences; heads | `seq_rm`, `seq_cp`, `seq_add`, `find_slot`, `apply_ubatch`, context shift | main thread through `llama_decode` |
| recurrent memory (src/llama-memory-recurrent.*), hybrid memory | a cell per sequence, its source row, tails, roll-back index; `head`, `used` | the same calls; `find_slot` moves cells, the graph copies their states | main thread through `llama_decode` |
| batch splitting (src/llama-batch.*) | used tokens, sequence sets | `split_simple`, `split_equal`, `split_seq` | `llama_decode` |
| CPU thread pool (ggml-cpu.c) | barrier counters, graph counter, `current_chunk`, `abort`, `pause` | kick-off, barrier, polling, chunk take | compute threads |
| graph allocator (ggml-alloc.c) | free blocks per chunk | allocate best fit, free with merging | graph planning |
| log (common/log.*) | ring of entries, head, tail, `running` | `add` with growth, worker, `pause`, `resume` | every thread |
| task parsing, chat templates, grammars, samplers, tensor backends, model files, tools | data | conversions and numerics | - |

A request runs like this. An HTTP thread waits until the server is awake
(`wait_until_no_sleep`), tokenizes with the model's vocab, registers its task
ids with `server_response` and posts its tasks. The main thread pops one task
at a time: an inference task takes a free slot, or is moved to
`queue_tasks_deferred`; a parent with children needs a slot for each of them
and launches all or none. When the queue is empty, `update_slots` posts a
`NEXT_RESPONSE` to itself, adds the generating slots and some prompts to a
batch, decodes it in chunks, samples, and sends results. A slot that ends is
released, and each release pops one deferred task to the front of the queue.
The HTTP thread receives results until all its tasks are answered; if it stops
early, `stop()` removes its ids and posts one `CANCEL` per task to the front of
the queue, and `post()` of a `CANCEL` first cleans the target out of both
deques. After `--sleep-idle-seconds` with nothing to do the main thread unloads
the model and sleeps until a request asks it to wake up.

What is hard about it: tasks move between five places while clients leave and
CANCELs overtake them; a family of tasks is launched, activated and ended in
several steps that can each fail; the deferred queue lives from a chain of
releases; one condition variable serves two kinds of waiters; the model may be
unloaded between a check and its use; results of all requests share one vector;
`terminate()` may come from a signal handler. `PROJECT.json` lists these hazards
at their lines, with the properties that cover them.

What makes each part correct: a task is in one place and is answered once; a
waiting client is never forgotten; the batch refers to slots in use; the kill
switch never fires; deferred tasks do not wait beside idle slots; a CANCEL is
final; tasks meet a loaded model; no wake-up is lost; the loop ends when told
to; each reader sees a private channel of results and ends.

## 2. Modules

| module | models | constants |
|---|---|---|
| `Subsequences` | what `std::remove_if` and loops that pick items leave of a sequence, in a closed form that proofs can use, and loops whose rounds build on each other (`For`); used by `TaskQueue`, `ServerResponse`, `BatchSplit`, `KVCells` and `RecurrentMemory` | |
| `TaskQueue` | the two deques: items, `cleanup_pending_task`, the choice of `pop_deferred_task` | `NoTask` |
| `ServerSlots` | main thread (`start_loop`, `process_single_task`, `update_slots`) against clients that post, cancel and leave | slots, tasks, their requests, parents, kinds, and which of them may fail, leave, be empty |
| `MCServerSlots` | task sets for the runs | |
| `ServerQueue` | the monitor of `server_queue`: condition variable, idle timer, sleeping, `terminate` | HTTP threads, `IdleSleep`, who may terminate |
| `ServerResponse` | `server_response` and the life of a `server_response_reader` | readers, tasks, `MaxPartial`, `Leavers` |
| `ResponseChannel` | abstract specification of it: a channel per reader, first in first out, exactly once | |
| `MCServerResponse` | the instance for the runs | |
| `SlotMemory` | the tokens a slot believes to be in the memory and those that are: prompts, context shift, drafts, chunks and retries, children, save and restore, the prompt cache | slots, sizes of context and batch, instances (tasks, drafts, cells, limit of the cache, faults) |
| `RouterModels` | `server_models`: requests, managing, log and stopping threads, child processes, reload, shutdown | models, HTTP threads, their work, limits, which children doze or vanish |
| `KVCells` | `llama_kv_cells`: one stream's cells with positions, shifts, sequences and counts | tokens, sequences |
| `KVCache` | `llama_kv_cache`: memory calls, search, prepare, apply, update, save and restore | layouts, batches, ranges |
| `KVMemory` | abstract specification of it: the tokens at their positions, as `llama.h` describes each call | |
| `RecurrentMemory` | `llama_memory_recurrent`: memory calls, `find_slot`, the copies and snapshots of the graph, failed ubatches, save and restore | layouts with bounds and calls; `Careless`: what happens although it is not provided for |
| `RecurrentStates` | abstract specification of it: a state per sequence, the result of its tokens | sequences |
| `BatchSplit` | `llama_batch_allocr` and the outputs of `llama_context::decode()` | batches, ways to split, ubatch sizes |
| `Threadpool` | the CPU thread pool and its barrier | threads, chunks, graphs |
| `CommonLog` | `common_log`: the ring, its growth, the worker thread, pause, resume, flush, set_file | threads, messages, capacity, calls |
| `MCSlotMemory`, `MCRouterModels`, `MCKVCache`, `MCRecurrentMemory`, `MCBatchSplit`, `MCThreadpool` | the instances for the runs | |
| `ServerSlots_proofs`, `ServerQueue_proofs` (both classes of `server-queue.cpp`: `ServerQueue` and `ServerResponse`), `KVCache_proofs`, `RecurrentMemory_proofs`, `BatchSplit_proofs`, `Threadpool_proofs`, `RouterLog_proofs` (the parts beside the decoding: `RouterModels` and `CommonLog`) | theorems and proofs | |
| `Subsequences_proofs` | the lemmas about sequences, induction and recursion that they share | |

Operators named `...Keep`, `...Never`, `...Silent` and the like, each with a
comment that begins "Mutant", are deliberately wrong versions of the definition
below them. They are used nowhere in the specifications: replacing the
definition by its mutant shows that a property notices.

### ServerSlots: state and steps

`queue` and `deferred` are the deques; `cur` is the task that `start_loop` has
moved out of the queue, a place of its own because HTTP threads may post while
it is there. `slot_state` and `slot_task` are `server_slot::state` and `task`.
`releasing` is the slot between the send of its last result and `release()`:
these are two critical sections, so a client can act between them. `batched`,
`has_tokens`, `pending` and `chunk` stand for `slot_batched`, `batch.n_tokens > 0`
and the slots whose `i_batch` points into the batch and into the chunk just
decoded. `n_empty` is `n_empty_consecutive`. `client` and `answer` are the HTTP
side: where each request is, and which ending results each task was sent.

A step of the main thread is the code between two acquisitions of `mutex_tasks`
or `mutex_results`; slots belong to the main thread alone. `pc` is where it is:

| `pc` | code |
|---|---|
| `pop`, `handle`, `wait` | `start_loop`: take a task, process it, wait |
| `rollback` | the release of the members of a family whose launch failed half-way |
| `next`, `shift` | `update_slots`: post `NEXT_RESPONSE`; context shift; generating slots |
| `batch` | prompts, slot by slot (`at` is the loop index), then the kill switch |
| `decode`, `sample` | one chunk of the batch: decode, activate children, sample |
| `fail` | a fatal `llama_decode`: an error for every processing slot |
| `aborted` | `GGML_ABORT` of the kill switch |

Data is abstracted to what the control tells apart. Tokens and positions are
gone: a prompt is entered in one or more parts, a batch decoded in one or more
chunks, a generation lasts one or more samples, each nondeterministically. The
order of `unordered_set` and the choice of `get_available_slot` (prompt
similarity or age) are nondeterministic too. Faults are constants that say
which tasks *may* meet them. `id_slot` is kept as the client sent it, because
`get_slot_by_id` takes it modulo the number of slots and `pop_deferred_task`
compares it as it is.

### ServerQueue

A section under `mutex_tasks` is one step, except `callback_sleeping_state`,
which loads or unloads the model with the mutex held (`MutexFree` is false).
`waiters` is the set of threads blocked on `condition_tasks`: `notify_one`
removes any one of them, and a woken thread evaluates its predicate in a later
step. `idle` is the comparison of the clock with `time_last_task`; it may become
true at any time. A task is processed atomically and may occupy a slot
(`active`); `update_slots` posts Main's `NEXT_RESPONSE` while one is in use,
which is the only thing that keeps the loop from sleeping. The specification is
`QueueSpec` (and `QueueInit`, `QueueNext`), because one module of proofs extends it
together with `ServerResponse`. `calm` is a history variable: no idle time has run
out on a request so far.

### ServerResponse

`waiting`, `results` and `blocked` are `waiting_task_ids`, `queue_results` and the
waiters of `condition_results` (always `notify_all`). A reader goes
`new, post, next/wait, stop, purge, ended`: `post_tasks` registers and then posts;
`next` is `recv_with_timeout`; `stop` is one critical section for all ids, then
one per id (its results are erased with `TaskQueue!Remaining`, like tasks), then the
CANCELs. The main thread is reduced to its promise, which
`ServerSlots` checks: some partial results and one final or error result per
task. The refinement mapping gives each reader the subsequence of the shared
vector that is its own; a reader's channel closes when `stop()` has removed its
ids.

### SlotMemory

The other half of `update_slots()`: the same function as in `ServerSlots`, with
its data and without the competition of tasks. `slot[s].tokens` is
`slot.prompt.tokens`, `mem[s]` the cells of sequence `s` as pairs of position and
token. `Sampled` is every token that was sampled: what matters is that a token
is where it belongs, not which it is. One call of `update_slots()` is the
sequence `Shift, Draft, Fill`, then per chunk `Retry*, Decoded, Sample` or
`DecodeError`; between calls tasks start, end, and slots are erased and restored.
`conf` is chosen in `Init`: the instances differ in what is switched on, and one
run explores them all. The unified cache may be full from the number of its
cells on, depending on which cells a child still shares with its parent, so
`MayBeFull` and `MayFit` overlap.

`states` is `server_prompt_cache::states`. A launch is the whole handler:
`get_available_slot()` picks a slot (`Available`), may save it and look for a
better state (`Given`, `Fetched`: `prompt_save`, `prompt_load`, `prompt_clear`,
`update`), the task starts, and idle slots are saved (`Stow`). `DeferFamily` is the
same with too few slots for the children: the task goes back, what was fetched
stays. `limit` is the size limit in cells: the token limit of `update()` is raised to
what fits in it. With `--cache-ram -1` the token limit alone remains; a failed
allocation, which lowers the limit, is left out.

### RouterModels

`status`, `known`, `stopping`, `joinable` are the fields of `mapping` and
`stopping_models`; `monitor`, `stopper` are the program counters of the managing
thread (with the log thread inside it) and of the stopping thread of a model;
`child` is the process, from `booting` to `reaped`, `out` its pipe. A step is a
section under the mutex; waiting on a condition variable is a guard, as all
waits of the code have predicates and all changes notify. `EofGap` lets the end
of the pipe be seen before the process can be waited for.

### KVCells, KVCache, KVMemory

`KVCells` has the operations of the class one to one, with the counts per sequence and
position that the code keeps in `seq_pos`. `KVCache` has the calls; `buf` is the
content of the tensors (which token's key is in a cell, rotated for which
position), `sc_info` the copies between streams still to be made. `KVMemory` is
the reader's view: a set of tokens, each at a position of some sequences.
The refinement maps a cell to what it will hold after pending copies. The loops of
the code over cells, slots, sequences, ubatches and copies are `For` and `ForEach`:
each round changes what the one before has made. `seq_cp()` between streams has the
guard that its assertion names: the position of a key, before its shift, exists.

### RecurrentMemory, RecurrentStates

`cells`, `tail`, `head`, `used` and `rs_idx` are the fields of
`llama_memory_recurrent`; `s_l` is the content of its tensors, a state being
the sequence of tokens that led to it. `FindSlot` is `find_slot()` as a function:
detach, search, gather, update positions, stage the sources; its loops over the
sequences of a ubatch are `For`. `DecodeUbatch` is it and the graph (`build_rs()` copies rows, the layers write the new states and, with
`n_rs_seq > 0`, the state before each of the last tokens in a group of rows of
its own); nothing looks at the memory between the two. `DecodeFails` has the cells moved and the rows not
written, or written in part, and then what `llama_context::decode()` does about
it. `undo` is how many tokens the caller may take back, `given_up` the sequences
whose decoding failed: nothing is claimed of them until they are removed. The
refinement reads each sequence's state where `s_copy()` would find it.

### BatchSplit

A batch is a sequence of tokens with their sets of sequences, positions and
output flags. `Split` is one call of the split function, `try` the fallback of a
memory that tries two of them; then `Compute` per ubatch writes rows of outputs
behind each other, the last one sorts their ids and notes the swaps, and `Read`
applies them. `Decode` begins the next batch before or after that. `ComputeFails`
removes what `decode()` removes when a ubatch fails: for each token the first of its
sequences, which may be any of its set; `StillHeld` is what each sequence keeps.

### Threadpool

`pc` is where each thread is, between atomic operations; the main thread is
thread 0. Counters are unbounded numbers, nodes are of three kinds (nothing to
do, rows dealt out by thread, chunks taken from `current_chunk`). The model is of the
build without OpenMP, under sequentially consistent memory: the fences that
the code relies on for weaker orders are not checked. Fused nodes count as one.

### CommonLog

`entries` is the ring from position 0, `call` where the thread is that pauses,
flushes or changes the file (one at a time: `log.h` says these calls are not
thread-safe), `worker` where the worker thread is, which prints without the
mutex. `said`, `accepted`, `printed`, `written` record what `add()` was given, what
it did not discard, and what reached the terminal and the open file. `LogSpec` is its
specification; `RouterLog_proofs` extends it together with `RouterModels`.

## 3. Runs

| run | question | instance |
|---|---|---|
| `SlotsFamily` | Are tasks kept, answered once, attended and batched safely when launches, prompts and decodes fail and a client leaves, for all kinds of task and without continuous batching? | 2 slots; parent and child, two embeddings of one request, one for "slot 3", a slot action, a metrics query; about 3.4 million states |
| `SlotsOrderly` | Without early leavers, failed launches and failed decodes: is nobody stalled, does a CANCEL end what runs, is every client served? | 2 slots; parent and child, a task of another type, a task for "slot 3"; continuous batching, fair; a parent or a child may fill its context, which fails the request while its other member runs; about 49,000 states |
| `Queue` | Is the model there for tasks and never unloaded under a slot, and does the loop end, with a terminate() anywhere? Until the idle time runs out on a request: is no wake-up, task or waiter lost? | 3 HTTP threads, everything allowed; 35,696 states |
| `Response` | Does the shared queue implement a channel per reader, and does every reader end? | 2 readers with 1 and 2 tasks, one may leave; 132,448 states |
| `Router` | Is the limit kept, no child lost, every stop honoured, and does every request and the shutdown end? | 2 models with room for 1, 2 HTTP threads with every pair of jobs, one child that dozes and one source that vanishes |
| `KVCache` | Is the cache the memory that `llama.h` describes? | 7 layouts of 3 to 4 cells, 2 sequences, positions up to 3; about 164,000 states |
| `Recurrent` | Has each sequence the state of its own tokens at its own position, through swaps, shared cells, rollbacks, failures and restores? | 11 layouts of 1 to 3 cells, without and with snapshots, each with some of the calls; about 100,000 states |
| `BatchSplit` | Is every token computed once, in order, and its output found? | all batches of up to 4 tokens in the sets of 2 sequences, 5 ways to split, ubatches of 1 to 3; 2.6 million states |
| `SlotMemory` | Is in the memory what the slots believe, and is each sampled from its own tokens? | 8 instances of 2 slots with 7 positions and batches of 6; about 1.6 million states |
| `Threadpool` | Are the threads in step, is every chunk computed once, does every graph end? | 3 threads, 4 chunks, 2 graphs of several kinds, an abort, pauses; about 284,000 states |
| `Log` | Is every message printed once and in order, before `pause()` returns, and does the file get what is printed while it is open? | 2 threads with 2 messages each, a ring of 2 that grows, 3 calls; 82,599 states |

One run more states what a comment of the code says, and TLC finds it violated:

| run | what the comment says | instance, and what TLC shows |
|---|---|---|
| `QueueRace` | "only use these pointers outside of this class: when not in sleeping state" (`NoUseUnloaded`) | 2 HTTP threads, `QueueSpec`: a thread found the server awake, the idle time runs out, and the thread uses the model after it was unloaded |

Bounds. Two slots are the fewest in which a family fits, in which a slot is busy
while another is free, and in which tasks that cannot be batched wait for each
other; four to six tasks fill them and leave some deferred. `SlotsFamily` takes
its tasks from all kinds the loop treats differently. Each request is posted
once: a later request of the same client is another request. `KillSwitch = 3`
is the number in the code, and bounds `n_empty` without a state constraint.
`MaxPartial = 1` partial result per task suffices to have an order to violate
(partial before final) and a final result overtaken by another task's. Three
HTTP threads are needed for a notification to reach the wrong one while another
waits: two show the loss of a task already.

In `SlotMemory` a context of seven positions is the smallest with room for a
prefix, a shift and a draft of two; a batch of six makes prompts of two slots
straddle it, and seven or eight cells for two slots of seven positions make it
full: a state of the cache may not fit. A limit of five cells for it keeps one or
two states and evicts the next.
`Router` has one model more than it may run, so every load evicts; the pipe
holds one message (`PipeBound`). In `KVCache` four cells hold two sequences that
compete; `CopyBound` limits the copies between streams that are pending, and
`LastPos` the positions, in the guards. `LastPos` and `NBatch` bound `BatchSplit`:
four tokens are the fewest in which sets of three kinds ({0}, {1}, {0, 1}) meet
twice. In `Recurrent` three cells are the fewest in which a sequence that is not
in the ubatch lies between two that are, and is swapped away; with two, all calls
meet all sharings of a cell. States of up to four tokens leave two to take back
after a ubatch of three; `len` and `tokens` of a layout bound them in the guards.
Two graphs and a pause show what one leaves to the next in `Threadpool`,
three threads that one is last, one in the middle and one late; four chunks are
more than threads. In `Log` a ring of two is full with two messages and grows
twice with four; three calls are a pause, a resume and a change of the file.
Nothing else is bounded; no constraint cuts the state space.

Deadlock is checked except in `Queue`, where a server that sleeps with nobody
to wake it does stop, and in `Log`, where a `pause()` that fills the
ring does: these are what the code does, not errors of the model (and a log with no
messages and calls left is at rest). In the other runs a stop that is meant to be one is a
named stuttering action (`Idling`, `Finished`, `QueueEnded`).

Fairness. `ServerSlots!FairSpec`: the main thread runs (weak fairness of its
steps as a whole: it is one sequential thread, and polls with a bounded wait);
prompts are finite, so a slot that is repeatedly at its prompt completes it;
`n_predict` or the size of the context bounds every generation, so a slot that
is repeatedly sampled stops; batches are finite, so their chunks end (strong
fairness of these steps). An HTTP thread that waits in `next()` reads what was
sent to it. No client has to post or to leave. `ServerQueue!QueueFairSpec`: threads
that can run do, the clock need not. `ServerResponse!FairSpec`: a reader that
posted runs on and the main thread answers; `Timeout` has no fairness, so the
result shows that notifications suffice. `ServerQueue!calm` is no
fairness but a history: it is true until an idle time runs out while a thread is
between `create_response` and `post`, which with a `--sleep-idle-seconds` of some
minutes hardly happens and which nothing in the code prevents. `NoLostWakeup`,
`TaskProcessed` and `WaiterReturns` claim nothing after that; the run has the
behaviours all the same, and the other properties hold in them too.
`RouterModels!FairSpec`: every thread of the router runs, children boot or die,
a child that was told to exit need not, the timeout of the stopping thread is
reached. `Threadpool!FairSpec`: the operating system runs every thread that can
run; nothing obliges the caller to compute another graph, and nothing is
assumed of spurious wake-ups. `CommonLog!LogFairSpec`: the worker and the thread
that waits for it run; nobody has to log or to call.

## 4. Properties

Slots: `OnePlace` (no duplicate), `AnsweredOnce` (at most one ending result, and
nothing left in the queues after it), `NotForgotten` (while a client waits, its
tasks are in the system or answered, or the request has failed), `ChildAttended`
(a child in `WAIT_OTHER` has a parent on its way, or its end is certain) and
`NoAbort` (the kill switch never fires), checked together as `FamiliesEnd`,
`BatchAlive` (the batch refers to slots in use), `NoStall`,
`CancelEffective`, `EveryClientServed`. Queue: `ModelForTasks`, `NeverSleepsBusy`,
`LoopEnds`, and while a run is calm `NoLostWakeup`, `TaskProcessed` and `WaiterReturns`;
`NoUseUnloaded` is what `QueueRace` refutes. Results: `NoOrphan`, `EndsComplete`, `ReaderEnds`,
`RefinesChannel`. Slots' memory: `InSync` (a slot's tokens are its cells, with what
the batch will add; the same of the states in the prompt cache, none of which
begins another), `ReadsOwn` (it is sampled from the row of its own last
token, in the chunk just decoded), `NoAbort` (no size gets negative, the kill
switch does not fire, and `ContextFits`). Router: `Capacity`, `AliveIsRunning`,
`StopHonoured`, `DeadIsUnloaded`, `LoadEnds`, `RouterStops`. KV cache: `RefinesMemory`
and `CellsExact`, which is `CountsExact` and `KRotated` (the key is rotated for the
position it is at). Recurrent memory: `RefinesStates` and `CellsSound`, which is
`TailsVerified` (what `find_slot()` verifies in debug builds, and the count) and
`NoAbort` (no assertion fails, whatever is decoded next). Batches: `OnceInOrder`
with `Shape`, and `OutputsMatch`. Thread pool: `Lockstep`, `ParamsQuiet`, `EachOnce`,
`GraphEnds`. Log: `Delivered`, which is `NothingLost` and `FileFollows`, and
`PauseEnds` (a `pause()` whose entry can be seen in the ring returns).

The type invariant of a module is a conjunct of one of its checked invariants
(`NoOrphan`, `AliveIsRunning`, `CountsExact`, `OnceInOrder`, `NothingLost`,
`TailsVerified`) or is proved (`ServerSlots`, `ServerQueue`, `Threadpool`, `CommonLog`,
`BatchSplit`, `RouterModels` with `AliveIsRunning`, `ServerResponse` with `NoOrphan`).

## 5. Proofs

All are for any number of slots, tasks, requests, models and threads, from the named
assumptions on the constants, which TLC evaluates in the runs.

* `ServerSlots_proofs!TypeCorrect`. The type of `n_empty` is not inductive: a
  step could count past `KillSwitch + 1`. `KillInv` says that the counter
  exceeds the switch only when the loop has stopped; `Inv == TypeOK /\ KillInv`
  is inductive. The queue's `Cleanup` needs lemmas of `Subsequences_proofs`:
  `NthExists` (the k-th smallest number of a finite set exists: counting from
  below is a bijection), `RemainingElements` (what remains are the kept items, once
  each and in their order) and `CleanupType`.
* `ServerSlots_proofs!BatchRefersToLiveSlots`. `BatchAlive` alone says nothing of
  the steps where the batch is not looked at, nor of the slot that is about to
  be released. `BatchInv` adds where `pending` and `chunk` are empty and that
  the releasing slot is in neither; `IInv` is its conjunction with `Inv`.
* `ServerSlots_proofs!NoDuplicate`, `OneAnswer`. That a launch makes no
  second copy needs to know that a task still waiting in a queue was never
  launched: `Apart` says that it is in its queue once (`Single`), that it is a
  parent or has none and that nobody of its family was launched or answered yet
  (`WaitingRoots`), that a request not posted has no trace (`NotPosted`), that two
  slots never hold one task and idle slots none (`OneSlotEach`), and that an
  answered task is only in the slot about to be released (`Ended`).
* `ServerSlots_proofs!NoneForgotten`. Whatever takes a task away has a
  reason, and `Reasons` carries it to the step that does: a CANCEL in a queue or in
  hand belongs to a client that stopped, a family is rolled back after its error
  was sent, a slot is released after its task was answered, its request failed or
  its client stopped. Cleaning up for one request keeps the items of others.
* `ServerSlots_proofs!SteadyCancelled`, `CancelsWork`. `CancelEffective` does not hold
  for every instance (section 6): a CANCEL posted while its target is in the hands of
  the main thread finds nothing. `Steady(r)` names the requests to which this cannot
  happen: the client stops only after an error (it is not in `Leavers`), and the
  request is one task with its children, so that after an error none is in hand. For these,
  `SteadyCancelled` proves without further assumption that after `stop()`
  nothing waits and that what runs has its CANCEL queued, in hand or taking
  effect (`Followed`); `CancelsWork` is `CancelEffective` where all requests are steady.
  `Moved` is the lemma behind both: in no step does a task begin to wait unless it was
  just posted, begin to run unless it waited, or lose its CANCEL while it runs.
* `ServerSlots_proofs!NobodyStalled`. `NoStall` is not inductive: a deferred task may
  follow one that asks for no slot. `Moving` says that what is deferred needs a slot
  and that, as long as anything is, a slot is in use or a task that needs one is on
  its way. It breaks where the chain of pops does (section 6), so `Flowing` assumes
  steady requests, no refused launch and no slot action; prompts may be empty or
  refused and decoding may fail. That a deferral finds a slot in use needs
  `n_cmpl <= n_parallel`: a family fits when all slots are idle (`DeferredBehind`).
* `ServerSlots_proofs!FamiliesFinish`. `Prompted` asks that requests of families are
  steady and that the prompt of a parent is neither empty nor refused; other
  requests, launches, the context and decoding may fail as they like. `FamilyInv`
  has five parts beside `NoAbort`: the reason why each waiting child will not wait for
  ever (`ChildrenCared`; a slot about to be released is no reason), the children
  activated with the chunk (`ChildrenActive`), the prompts that are done and
  sampled in the same update (`PromptsSampled`), what an empty batch
  says of the slots the loop has passed (`NonePassed`), and that after an update
  without tokens only children with a queued CANCEL are left, so that the counter
  never passes 1 (`OnlyChildren`).
* `ServerQueue_proofs!NothingLeft`, `AllAnswered`. `Closing` says that from the
  first section of `stop()` on nothing can be added for a reader, and that what
  is left is what it still has to erase. `Order` says that the last result of a task
  is also its last in the queue (`LastIsLast`, `LiveIsOpen`), so that a final result
  that was read was the only one (`FinalOnce`); `CountsFinals` that
  `received_count` is the number of tasks answered, so `has_next()` turns false
  when all are.
* `ServerQueue_proofs!SharedQueueIsChannels`: the shared queue implements
  `ResponseChannel`, step by step. A channel holds what of `results` belongs to its
  reader (`Way`), until the reader closes. `Registered` says that a task is in
  `waiting` for as long as its reader may still read, so `send()` drops nothing
  for it; `Counted` that what was sent for a task was received or is in the queue;
  `Purges` that a reader erases only its own. Sending to one reader, or erasing
  for it, then leaves the channels of the others alone: these are the lemmas
  about `Remaining` (an item appended, the first one taken, one taken out that
  does not remain, and what remains of what remains).
* `ServerQueue_proofs!QueueTypes`, `ModelWhenNeeded`: `SleepInv` ties `loaded` and
  `sleeping` to the places of the main thread.
* `ServerQueue_proofs!SleepsOnlyIdle`: `BusyInv` says that from `update_slots` on,
  the `NEXT_RESPONSE` is in the queue while a slot is in use.
* `ServerQueue_proofs!NoWakeupLost`: while the run is calm (`CalmSoFar`), `CalmInv`
  says that while the server sleeps no thread is past `wait_until_no_sleep`, that
  a thread blocks on the condition variable only then, that one which waits
  while Main is blocked has its `req_stop_sleeping` still set, and that Main
  starts to unload with none of them there. So the first request to come finds
  Main alone on the condition variable, and `notify_one` reaches it.
* `RouterLog_proofs!LimitKept`, `NoChildLost`, for any number of models and
  threads and any limit. `Capacity` counts the models that run and
  `AliveIsRunning` looks at processes; what ties them is the managing thread.
  `Registered` says that a model runs exactly as long as its managing thread has
  not reported its end, that this thread reads as long as the child is alive,
  that models outside the mapping are unloaded, and that a model that runs has a
  thread still to be joined, so a reload cannot erase it. `Serving` says that
  what a thread is about to load or evict is a model, and that none is served
  while the threads are joined. TLC checks both parts on the instance of the
  run too. `OneMoreRuns` is where the second look of `load()`, under the lock,
  is needed.
* `Threadpool_proofs!InStep`, `Idle`, `TypeCorrect`, for any number of threads and
  any graphs. `Lockstep` says nothing of the threads in the barrier, where its
  reasons are. `Position` orders the threads by what lies between them: relative
  to the number of barriers passed, each thread is before, at or behind the
  barrier that is being counted, and its node follows from that. `Counting` says
  that `n_barrier` is the number of threads that have arrived and that a thread
  on its way out still holds the old count in `n_passed`; `Scheduling` says which
  threads take part in a graph and that the others cannot enter it. `IInv` is
  their conjunction with `TypeOK`; TLC checks it on the instance of the run as
  well. `ParamsQuiet` follows from it: the main thread leaves its last barrier
  only when all others are in it and it is open.
* `Threadpool_proofs!ComputedOnce`. `EachOnce` looks at the end of a graph; `Results`
  says on the way there whose each chunk is: a chunk below `current_chunk` was
  computed or is in the hands of one thread (`Owned`, `Shared`), rows belong to
  their thread, and a thread that is past a node has left nothing of its own
  there (`AllBehind`). At the barrier all have passed the node, so it is complete.
* `RouterLog_proofs!EveryMessageDelivered`, `LogTypes`. `Line` compares the ring with
  what was accepted: from `head` on it holds the accepted messages behind those
  shown, then the entry of `pause()`, and the room in between is what the check of
  `add()` keeps free. `Control` says which calls and places of the worker go
  together, `Printed` what was printed and is in hand. Growing the ring moves its
  entries; that they keep their order is arithmetic of `%` (`Modulo`). After an
  entry of `pause()` that made a full ring look empty (section 6) nothing is
  taken any more, and `Line` says nothing.
* `BatchSplit_proofs!BatchInductive`, `EachTokenOnceInOrder`, `OutputsFound`, for any
  number of sequences and tokens, any batches and any `n_ubatch`. `Splits` says that
  in the order of the ubatches so far no token comes twice or before one of its
  sequences that precedes it in the batch (`InTheirOrder`), and that what is used
  is closed: what comes before a used token of a common sequence is used
  (`Closed`). Every split keeps this for a reason of its own, proved in `GoodSplit`:
  `split_simple` takes from the front; `split_seq` leaves a token out only if
  its sequences are not among those of the last token taken, and then shares
  none with those that follow (`NarrowingItems`); in `split_equal` a set that
  overlaps a participant is part of it (`ParticipantsItems`), which needs that
  positions of the batch are compatible (`Orderly`). `RoundsItems` is the bound on
  the size. `Progress` says that the rows written are those of the tokens
  computed so far. At the end `SortedItems` says that the selection sort orders the
  ids and that its swaps do to any buffer what they did to the ids; so a deferred
  `output_reorder()` finds each row. Here induction over numbers is proved as a
  lemma about sets of them (`Induction`, `Recursion` of `Subsequences_proofs`), which
  is what loops written as recursive functions need.

* `KVCache_proofs!CellsStayExact`, for any numbers of sequences and cells, unified
  or with a stream per sequence, with or without a window, for any ranges,
  distances and tokens; `decode()` has the model's batches of one or two tokens. One
  cell comes first: each function of `llama_kv_cells` rewrites a cell and adjusts
  `used` and `seq_pos` by what that cell counts (`Rewritten`, `ChangedSound`), and a
  token that stays keeps the difference of its position and its shift (`Carried`).
  That is what makes a key follow its token through any call: the difference is
  what the key is rotated to. `EachCell` and `PutEach` lift both to loops, whose
  k-th round finds the cells from k on as they were; `InOrder` shows that the search
  around the head offers no cell twice; `UndoIs` that `prepare()` can go back from a
  try, and so ends with cells that carry the keys of those before it, although the
  positions it purged are gone. For a failed ubatch it has to be shown that
  what is removed contains all that was placed, keys being written for none of it
  (`FailedRmEmpties`); for a copy between streams that the deferred copy of
  the buffer, which comes after all others, meets cells that carry the source's
  keys (`CopiedOnce`, `CopyOf`). The inductive invariant adds to `CellsExact` that
  the ubatches of a decode in progress have different cells and keys for
  their own positions (`Types`), that nothing is deferred meanwhile (`Updated`),
  and that a saved state has keys that fit its positions (`KeptState`).
  `seq_div()` breaks the rotation (section 6), so `KRotated` leaves out caches whose
  sequences are divided; their counts are covered.

* `RecurrentMemory_proofs!CellsStaySound`, for any numbers of sequences, cells and
  snapshots, and any lengths of states and ubatches. `Kempt` is what the memory
  calls keep of the cells: the tails agree with the sets of sequences, an empty
  cell has no position, and a cell in use takes its state from its own row. It does
  not hold inside `find_slot()`, whose loops are followed round by round: detaching
  (`DetachedFrom`), seating (`SeatedTo`: each first sequence has a cell of its
  own, no two the same, and the next empty cell is there while one is needed;
  `Spare` is the counting argument, there being as many cells as sequences),
  gathering (`GatheredTo`: the swaps are a permutation of the cells that brings the
  k-th sequence to the k-th cell of the window). `Found` says what comes out:
  cells in order again, the states' rows those of before, and no row wanted by two
  cells. That a row can be zeroed for a cell without a state
  (`zero`) is why no assertion fails. `RmDone` and `Leaves` do the same for removals,
  which `decode()` calls in a loop for a ubatch that failed. The inductive
  invariant `CellsInv` adds to `CellsSound` the lengths of the states in all rows,
  that an empty cell which is its own source has an empty state, that sequences
  which share a cell are not rolled back, unless their decoding failed, and
  that what is kept fits the cells (`KeptFits`). The theorem's
  hypothesis is that callers do not remove all sequences at once while there
  are any, and that only ubatches of one cell fail: section 6 shows the failed
  assertion and the lost state without it. A second rollback (`"again"`) is allowed.

* `RecurrentMemory_proofs!RecurrentRefines` (`RefinesStates`: the cells implement
  `RecurrentStates`), for the same values, with a bound on the number of sequences
  (`Bounded`; the code's is `LLAMA_MAX_SEQ`) and with `Careless = {}`: a sequence
  rolled back twice reads a snapshot of other tokens (section 6). `StatesInv` adds to
  `CellsInv` what a rollback relies on: while a sequence is not rolled back, row g of
  its cell is its state without the last g tokens, for as many as may be taken
  back (`Snap`), and that a sequence given up shares its cell with no other
  that is not (`Together`), so that what a failed ubatch destroys nobody sees. There is one lemma
  per operation, each ending in `StatesStep`: a step of `RecurrentStates`, or nothing
  seen. Most rest on `Stays`: the cell of a sequence the call is not about keeps
  its position and rows (`StaysSeen`), and what is left of the others is removed
  (`RemovedSeen`). For a ubatch this is not so, as its window may hold other
  sequences' cells, which are swapped: `OthersSeen` follows their states to the new
  places, `MemberSeen` the new tokens into every snapshot (`TokensBack`).

Only model-checked: liveness, which needs fairness and is beyond the prover; the
refinement `RefinesMemory`; the slots' `InSync`, `ReadsOwn`
and `NoAbort`: `SlotMemory` is built from folds over slots and tokens, of which the
prover unfolds nothing; `KVCache` and `RecurrentMemory` show what it takes to write
it so that it can be proved about. The scheduler's `FamiliesEnd`, `NoStall` and `CancelEffective` are
proved under conditions, which the runs `SlotsFamily` (`Prompted`) and `SlotsOrderly`
(`Flowing`) satisfy. TLC checked every strengthening above on the instances of the
runs.

## 6. What the code does not promise

A run is kept for one of these, `QueueRace`. The others can be seen with the
instance given here, and TLC has found them there. Each shows a place where a comment
of the code is not kept, or where a guard is missing.

Queue and slots:

* `notify_one` of `wait_until_no_sleep` assumes that "only main thread is waiting
  on this"; it may reach another HTTP thread, and the main thread sleeps on
  (`BlocksIdle` under `QueueSpec`, three HTTP threads).
* A handler that passed `wait_until_no_sleep` and posts after the server fell
  asleep has its task in a queue nobody looks at (`TaskProcessed` without `calm`, two
  HTTP threads). The same race lets a handler use the unloaded vocab (run `QueueRace`;
  nothing but the length of the idle time keeps the two apart) and lets a woken waiter
  find the server asleep again without asking a second time (`WaiterReturns` without
  `calm`).
* The signal handler's `terminate()` takes a mutex that the interrupted thread
  may hold (`TerminateStops` with `MayTerminate` and `SignalOnMain`). `EarlySignal`
  shows another way to lose a `terminate()`: `start_loop()` begins by setting
  `running`. A `terminate()` of a sleeping server also leaves threads in
  `wait_until_no_sleep` blocked (`MayTerminate`, and `WaiterReturns`
  without `killed`).
* A release pops one deferred task; if that task is then cancelled in the queue,
  nobody pops the next one (`NoStall`, one slot, three completions, one of whose
  clients leaves). The same with a popped task whose launch is refused, and with
  a slot action deferred behind other tasks, which ends without releasing a slot.
* `cleanup_pending_task` does not see the task that `start_loop` holds. If that
  task is deferred after its CANCEL was posted, it runs later for nobody
  (`CancelEffective`, the same instance). With a family that leaves, the same gap
  breaks `ChildAttended`.
* An empty prompt of a parent ends the parent alone; the children wait for ever,
  no iteration adds a token, and the kill switch aborts (`NoAbort` in
  `SlotsFamily` with `EmptyPrompt = {p}` and no other fault).

Log:

* `pause()` adds its entry without the check for a full ring that `add()` makes
  (`PauseReturns` under `LogFairSpec`, one call). With all entries but one pending
  (255 at the default capacity) the ring looks empty afterwards, the worker never sees the entry,
  and `join()` waits for ever. `PauseEnds` allows for it.

Slots' memory (instances of `MCSlotMemory!Conf`):

* A parent in `DONE_PROMPT` whose last rows are in a later chunk activates its
  children with half of its memory (a family and eight cells: `ReadsOwn`).
* A draft is verified after the first chunk even if its rows are in the next
  one (drafts and eight cells: `ReadsOwn`).
* `common_speculative_process()` fails (`process_fails`): the tokens of the batch
  stay in `prompt.tokens` and the slots keep their `i_batch` (`InSync`, `ReadsOwn`).
* The state of the main context is restored from the prompt cache, that of the
  draft context is not (`drft_fails`): the entry is left without data, and the next
  prompt it matches takes its tokens with nothing in the memory (`InSync`).
* `n_discard` larger than what is left behind `n_keep` moves tokens and cells
  differently (`n_keep = 3`, `n_discard = 5`: `InSync`), and larger than the number of
  tokens resizes a vector to a negative size (`n_discard = 8`: `NoAbort`).

KV cache and batches:

* `pos_div()` accumulates the shift with the opposite sign of `pos_add()`: after
  `seq_div()` keys are rotated away from their position (`DivRotated`
  with `MCKVCache!Division`).
* `prepare()` restores the cells it used, not the positions that `apply_ubatch()`
  purged for them (`PrepareRestores` with `MCKVCache!Clashes`), and it restores the
  heads by the index of the stream in the ubatch.
* A failed ubatch is removed for the first sequence of each token only. `BatchSplit`
  has this, with any order of a token's sequences; `KVCache` decodes tokens of one
  sequence, where it makes no difference.
* A state saved while copies or shifts are pending is not the state of the
  memory (`Quiet` guards `Save`); a state without cells changes nothing when it
  is restored; `seq_keep()` leaves other streams alone.
* The checks of `init()` against decreasing positions and incompatible sets never
  fail; `OnceInOrder` asks for order only in batches that keep to the comments.
* `split_equal()` looks at its limit when it has been passed: up to `n_ubatch + 1`
  sets take part, and `Shape` allows for it.
* With some outputs only, the hidden states kept for all tokens are swapped with
  the outputs' indices: `OutputsMatch` speaks of them when all tokens have outputs.

Recurrent memory (instances of `MCRecurrentMemory`; `Careless` is empty where it
is not named, and in `Recurrent`):

* `seq_rm()` of all sequences clears the cells and leaves the tails, and the next
  decoding fails an assertion (`NoAbort` with `Decoded` and `Careless = {"any"}`).
  `completion.cpp` makes this call when a session shares no prefix with the prompt.
* A second rollback replaces `rs_idx` instead of adding to it, and `seq_rm()`
  returns true (`StateAtPos` with `Rolling` and `Careless = {"again"}`). A rollback
  of more tokens than the last ubatch had is accepted in the same way (the
  comment `TAG_RECURRENT_ROLLBACK_SPLITS` knows of it).
* A ubatch that fails after `find_slot()` has swapped the cell of another
  sequence takes that sequence's state with it (`StateAtPos` with `Swapping` and
  `Careless = {"wide"}`).
* "remove all positions of that ubatch from the memory module" says `decode()` of
  a failed ubatch; `seq_rm()` refuses to remove a part of a sequence, and the
  positions stay (`FailedIsRemoved` with `Failing`).
* `seq_cp()` does not copy `rs_idx` and `seq_keep()` does not reset it; a rollback or
  a `seq_add()` of a sequence that shares its cell moves the other one too;
  `seq_rm()` of a range that ends before the last token returns true and removes
  nothing, and one from 0 to the last token leaves `rs_idx`. `Settled` and `Shared`
  are the guards that keep these apart.

Router:

* `unload()` of a model that is `LOADING` while its process has been waited for
  sends a signal to process id 0, the router's own group (`RouterSurvives` with
  one model and `MCRouterModels!Contended`).
* With `EofGap`, the end of the pipe is seen before the process can be waited
  for: the notification is lost and `join()` waits for a thread that nobody
  wakes (`RouterStops`).
* A stale entry of `stopping_models` stops the next instance; an eviction may pick
  a model that is loading; `unload_lru()` can miss `UNLOADED` if the victim is
  loaded again; `ensure_model_ready()` returns true for a model that ended with
  exit code 0. The model has all of these; the properties allow for them.

## 7. Not modelled

* Context checkpoints (`create_checkpoint`, restored for recurrent and
  sliding-window memory): they need those memories.
* Hybrid memory, which sends each call to a KV cache and to a recurrent memory:
  what one of the two refuses after the other has done it.
* Image chunks, LoRA of idle slots, formats of results, HTTP and JSON.
* The two caches of a model with sliding windows side by side (each is an
  instance of `KVCache`).
* `ggml_barrier` under weaker memory than sequential consistency, the OpenMP
  build, the wrap-around of the 16-bit graph counter, NUMA and affinity.
* The graph allocator: a sequential planner.
* Kernels, backends, model files, quantization, tokenizers, grammars and chat
  templates: numerics and text, where a model adds nothing to a test.
