----------------------------- MODULE ServerSlots -----------------------------
(***************************************************************************)
(* The main thread of llama-server: server_queue::start_loop() and the two *)
(* callbacks server_context_impl registers with it, process_single_task()  *)
(* and update_slots() (tools/server/server-context.cpp), running against   *)
(* the HTTP threads that post and cancel tasks through a                   *)
(* server_response_reader.                                                 *)
(*                                                                         *)
(* A step of the main thread is the code between two acquisitions of       *)
(* mutex_tasks or mutex_results: slots belong to the main thread alone, so *)
(* only those points interleave with the HTTP threads.  Tokens, positions  *)
(* and the KV cache are abstracted: which slots have their logits in the   *)
(* batch is kept, how many tokens precede them is not.                     *)
(***************************************************************************)
EXTENDS TaskQueue

CONSTANTS
    NSlots,        \* params.n_parallel
    Task,          \* ids of the tasks clients post, children included
    Request,       \* requests; each has one server_response_reader
    ReqOf,         \* the request a task belongs to
    ParentOf,      \* server_task::id_parent, NoTask if there is none
    Kind,          \* "completion", "embedding", "slot_action", "metrics", "lora"
    BatchKey,      \* task type and LoRA set: what can_batch_with() compares
    IdSlot,        \* server_task::id_slot, -1 for any slot
    ActionSlot,    \* server_task::slot_action.id_slot
    ContBatching,  \* params.cont_batching
    Leavers,       \* requests whose client may disconnect before the end
    LaunchFails,   \* tasks launch_slot_with_task() may refuse
    PromptFails,   \* tasks whose prompt update_slots() may refuse
    EmptyPrompt,   \* tasks whose prompt has no token
    ContextFills,  \* parents and children that may fill their context
    DecodeFails    \* whether llama_decode() may fail for good

Slot   == 0 .. NSlots - 1
NoSlot == -1

Kids(t)    == {c \in Task : ParentOf[c] = t}
Members(r) == {t \in Task : ReqOf[t] = r}
Roots(r)   == {t \in Members(r) : ParentOf[t] = NoTask}

\* n_empty_consecutive above this value aborts the process.
KillSwitch == 3

ASSUME SlotsAssumption == NSlots \in Nat \ {0}

ASSUME TaskAssumption ==
    /\ IsFiniteSet(Task)
    /\ NoTask \notin Task
    /\ ReqOf \in [Task -> Request]
    /\ Kind \in [Task -> {"completion", "embedding", "slot_action", "metrics", "lora"}]
    /\ IdSlot \in [Task -> Nat \cup {-1}]
    /\ \A t \in Task : Kind[t] = "metrics" => Members(ReqOf[t]) = {t}
    /\ ActionSlot \in [Task -> Nat]
    /\ DOMAIN BatchKey = Task

\* server_task::add_child(): a child has its parent's type and no children of
\* its own; only completions have children, and n_cmpl is at most n_parallel.
ASSUME ParentAssumption ==
    /\ ParentOf \in [Task -> Task \cup {NoTask}]
    /\ \A t \in Task : ParentOf[t] # NoTask =>
          /\ ParentOf[ParentOf[t]] = NoTask
          /\ ReqOf[ParentOf[t]] = ReqOf[t]
          /\ Kind[ParentOf[t]] = "completion"
          /\ Kind[t] = "completion"
          /\ IdSlot[t] = -1
    /\ \A t \in Task : Cardinality(Kids(t)) < NSlots

ASSUME FlagAssumption ==
    /\ ContBatching \in BOOLEAN
    /\ DecodeFails \in BOOLEAN
    /\ Leavers \subseteq Request
    /\ LaunchFails \subseteq Task
    /\ PromptFails \subseteq Task
    /\ EmptyPrompt \subseteq Task
    /\ ContextFills \subseteq {t \in Task : ParentOf[t] # NoTask \/ Kids(t) # {}}

----------------------------------------------------------------------------
VARIABLES
    queue,       \* queue_tasks
    deferred,    \* queue_tasks_deferred
    client,      \* per request: its HTTP thread and server_response_reader
    answer,      \* per task: the final and error results the server sent
    pc,          \* where the main thread is
    cur,         \* the task start_loop() moved out of the queue
    slot_state,  \* server_slot::state
    slot_task,   \* server_slot::task
    releasing,   \* the slot about to run release(), after its result was sent
    at,          \* loop index of a for (auto & slot : slots)
    batched,     \* slot_batched
    has_tokens,  \* batch.n_tokens > 0
    pending,     \* slots whose i_batch points into the undecoded batch
    chunk,       \* slots whose i_batch points into the chunk just decoded
    n_empty      \* n_empty_consecutive

qvars     == <<queue, deferred>>
hvars     == <<client, answer>>
slotvars  == <<slot_state, slot_task>>
batchvars == <<batched, has_tokens, pending, chunk>>
vars == <<queue, deferred, client, answer, pc, cur, slot_state, slot_task,
          releasing, at, batched, has_tokens, pending, chunk, n_empty>>

SlotState == {"idle", "wait_other", "started", "prompt", "done_prompt",
              "generating"}
MainPC    == {"pop", "handle", "rollback", "next", "shift", "batch", "decode",
              "sample", "fail", "wait", "aborted"}
NoItem    == [kind |-> "none", id |-> NoTask]

TypeOK ==
    /\ queue \in Seq(Items(Task))
    /\ deferred \in Seq({TaskItem(t) : t \in Task})
    /\ client \in [Request -> {"new", "waiting", "stopped", "done"}]
    /\ answer \in [Task -> Seq({"final", "error"})]
    /\ pc \in MainPC
    /\ cur \in Items(Task) \cup {NoItem}
    /\ slot_state \in [Slot -> SlotState]
    /\ slot_task \in [Slot -> Task \cup {NoTask}]
    /\ releasing \in Slot \cup {NoSlot}
    /\ at \in 0 .. NSlots
    /\ batched \in Slot \cup {NoSlot}
    /\ has_tokens \in BOOLEAN
    /\ pending \subseteq Slot
    /\ chunk \subseteq Slot
    /\ n_empty \in 0 .. KillSwitch + 1

Init ==
    /\ queue = <<>> /\ deferred = <<>>
    /\ client = [r \in Request |-> "new"]
    /\ answer = [t \in Task |-> <<>>]
    /\ pc = "pop" /\ cur = NoItem
    /\ slot_state = [s \in Slot |-> "idle"]
    /\ slot_task = [s \in Slot |-> NoTask]
    /\ releasing = NoSlot /\ at = 0
    /\ batched = NoSlot /\ has_tokens = FALSE
    /\ pending = {} /\ chunk = {} /\ n_empty = 0

----------------------------------------------------------------------------
(* HTTP threads: server_response_reader *)

\* post_tasks(): the ids start waiting, then the tasks join the queue in the
\* order of the request; children travel inside their parent.  METRICS has
\* high priority and goes to the front.
Post(r) ==
    /\ client[r] = "new"
    /\ client' = [client EXCEPT ![r] = "waiting"]
    /\ \E q \in SetToSeqs(Roots(r)) : LET new == [i \in DOMAIN q |-> TaskItem(q[i])]
          IN queue' = IF \E t \in Members(r) : Kind[t] = "metrics"
                      THEN new \o queue ELSE queue \o new
    /\ UNCHANGED <<deferred, answer, pc, cur, slotvars, releasing, at, batchvars, n_empty>>

\* stop() with results outstanding: forget the ids, then post one CANCEL per
\* id to the front of the queue, in the order of an unordered_set; post()
\* first cleans the targets out of both queues.
Stop(r) ==
    /\ client[r] = "waiting"
    /\ client' = [client EXCEPT ![r] = "stopped"]
    /\ \E c \in SetToSeqs(Members(r)) :
          queue' = [i \in DOMAIN c |-> CancelItem(c[i])] \o Cleanup(queue, Members(r))
    /\ deferred' = Cleanup(deferred, Members(r))
    /\ UNCHANGED <<answer, pc, cur, slotvars, releasing, at, batchvars, n_empty>>

Failed(r)   == \E t \in Members(r) : "error" \in Range(answer[t])
Complete(r) == \A t \in Members(r) : answer[t] = <<"final">>

\* should_stop() answered true at a polling timeout, or the handler returned.
ClientLeaves(r) == r \in Leavers /\ Stop(r)

\* next() received an error result.
ClientFails(r) == Failed(r) /\ Stop(r)

\* Every task answered: has_next() is false, stop() posts nothing.
ClientDone(r) ==
    /\ client[r] = "waiting"
    /\ Complete(r)
    /\ client' = [client EXCEPT ![r] = "done"]
    /\ UNCHANGED <<qvars, answer, pc, cur, slotvars, releasing, at, batchvars, n_empty>>

----------------------------------------------------------------------------
(* Slots *)

InState(st)   == {s \in Slot : slot_state[s] \in st}
Idle          == InState({"idle"})
Processing    == Slot \ Idle
Holding(T)    == {s \in Slot : slot_task[s] \in T}

\* The next slot of S that a loop over the slots reaches.
Reaches(S, s) == s \in S /\ s >= at /\ \A o \in S : o >= at => s <= o
Passed(S)     == \A s \in S : s < at

CanBatch(a, b) == BatchKey[slot_task[a]] = BatchKey[slot_task[b]]

Main(p) == pc = p /\ releasing = NoSlot

\* queue_results.send() of a result after which the task sends no other.
Send(t, res) == answer' = [answer EXCEPT ![t] = Append(@, res)]

\* Mutant: the callback on release is not called.
ReleaseKeep ==
    /\ releasing # NoSlot
    /\ slot_state' = [slot_state EXCEPT ![releasing] = "idle"]
    /\ slot_task' = [slot_task EXCEPT ![releasing] = NoTask]
    /\ releasing' = NoSlot
    /\ UNCHANGED <<qvars, hvars, pc, cur, at, batchvars, n_empty>>

\* Mutant: pop_deferred_task() copies the task and does not erase it.
ReleaseCopy ==
    /\ releasing # NoSlot
    /\ slot_state' = [slot_state EXCEPT ![releasing] = "idle"]
    /\ slot_task' = [slot_task EXCEPT ![releasing] = NoTask]
    /\ releasing' = NoSlot
    /\ IF deferred = <<>>
       THEN UNCHANGED queue
       ELSE \E i \in DOMAIN deferred :
              /\ TakesDeferred(deferred, releasing, IdSlot, i)
              /\ queue' = <<deferred[i]>> \o queue
    /\ UNCHANGED <<deferred, hvars, pc, cur, at, batchvars, n_empty>>

\* server_slot::release(): forget the task, then callback_on_release, which is
\* pop_deferred_task(); the popped task jumps the queue.
Release ==
    /\ releasing # NoSlot
    /\ slot_state' = [slot_state EXCEPT ![releasing] = "idle"]
    /\ slot_task' = [slot_task EXCEPT ![releasing] = NoTask]
    /\ releasing' = NoSlot
    /\ IF deferred = <<>>
       THEN UNCHANGED qvars
       ELSE \E i \in DOMAIN deferred :
              /\ TakesDeferred(deferred, releasing, IdSlot, i)
              /\ queue' = <<deferred[i]>> \o queue
              /\ deferred' = RemoveAt(deferred, i)
    /\ UNCHANGED <<hvars, pc, cur, at, batchvars, n_empty>>

----------------------------------------------------------------------------
(* start_loop() *)

Pop ==
    /\ Main("pop")
    /\ queue # <<>>
    /\ cur' = Head(queue)
    /\ queue' = Tail(queue)
    /\ pc' = "handle"
    /\ UNCHANGED <<deferred, hvars, slotvars, releasing, at, batchvars, n_empty>>

\* The queue is drained: update_slots() is called, and returns at once when
\* every slot is idle.
Drained ==
    /\ Main("pop")
    /\ queue = <<>>
    /\ pc' = IF Processing = {} THEN "wait" ELSE "next"
    /\ UNCHANGED <<qvars, hvars, cur, slotvars, releasing, at, batchvars, n_empty>>

\* condition_tasks.wait_for() saw a task; without one it times out and waits
\* again, which is Idling.
Wake ==
    /\ Main("wait")
    /\ queue # <<>>
    /\ pc' = "pop"
    /\ UNCHANGED <<qvars, hvars, cur, slotvars, releasing, at, batchvars, n_empty>>

Idling == Main("wait") /\ queue = <<>> /\ UNCHANGED vars

----------------------------------------------------------------------------
(* process_single_task() *)

Inference(t) == Kind[t] \in {"completion", "embedding"}

\* Mutant: a slot that is processing is taken.
EligibleBusy(t) == IF IdSlot[t] = -1 THEN Slot ELSE {IdSlot[t] % NSlots}

\* Where a task may run: get_slot_by_id() wraps the number the client sent
\* around; get_available_slot() takes an idle slot by prompt similarity or age.
Eligible(t) == IF IdSlot[t] = -1 THEN Idle ELSE {IdSlot[t] % NSlots} \cap Idle

Family(t) == Kids(t) \cup {t}

\* A slot for every member of t's family: s for t itself and, for its
\* children, what get_free_slots() finds, the first idle slots apart from s.
Placements(s, t) ==
    {g \in UNION {Bijection(D \cup {s}, Family(t)) : D \in SUBSET (Idle \ {s})} :
        /\ g[s] = t
        /\ \A d \in DOMAIN g \ {s}, o \in Idle \ DOMAIN g : d < o}

\* launch_slot_with_task() succeeded for the tasks of g, a function from slots.
Launched(g) ==
    /\ slot_task' = [s \in Slot |-> IF s \in DOMAIN g THEN g[s] ELSE slot_task[s]]
    /\ slot_state' = [s \in Slot |->
          IF s \notin DOMAIN g THEN slot_state[s]
          ELSE IF ParentOf[g[s]] # NoTask THEN "wait_other" ELSE "started"]
    /\ n_empty' = IF DOMAIN g = {} THEN n_empty ELSE 0

Handling(t) == Main("handle") /\ cur = TaskItem(t)

Defer ==
    /\ deferred' = Append(deferred, cur)
    /\ pc' = "pop" /\ cur' = NoItem
    /\ UNCHANGED <<queue, hvars, slotvars, releasing, at, batchvars, n_empty>>

\* No slot, the requested slot busy, or too few slots for the children.
DeferInference(t) ==
    /\ Handling(t)
    /\ Inference(t)
    /\ \/ Eligible(t) = {}
       \/ Cardinality(Idle) - 1 < Cardinality(Kids(t))
    /\ Defer

\* launch_slots_with_parent_task(), or launch_slot_with_task() without children.
Launch(t, s) ==
    /\ Handling(t)
    /\ Inference(t)
    /\ s \in Eligible(t)
    /\ \E g \in Placements(s, t) : Launched(g)
    /\ pc' = "pop" /\ cur' = NoItem
    /\ UNCHANGED <<qvars, hvars, releasing, at, batchvars>>

\* launch_slot_with_task() sends an error instead, for the task meant for slot
\* b.  Children are launched in the order of their slots and the parent last;
\* those before b are released one by one (release_slots).
LaunchFail(t, s) ==
    /\ Handling(t)
    /\ Inference(t)
    /\ s \in Eligible(t)
    /\ \E g \in Placements(s, t) : \E b \in DOMAIN g :
         LET before == {d \in DOMAIN g \ {s} : b = s \/ d < b}
         IN /\ g[b] \in LaunchFails
            /\ Launched([d \in before |-> g[d]])
            /\ Send(g[b], "error")
    /\ pc' = "rollback"
    /\ UNCHANGED <<qvars, client, cur, releasing, at, batchvars>>

RollbackSlot(s) ==
    /\ Main("rollback")
    /\ s \in Holding(Family(cur.id))
    /\ \A o \in Holding(Family(cur.id)) : s <= o
    /\ releasing' = s
    /\ UNCHANGED <<qvars, hvars, pc, cur, slotvars, at, batchvars, n_empty>>

\* Mutant: the task is deferred, to be tried again later.
RollbackRetry ==
    /\ Main("rollback")
    /\ Holding(Family(cur.id)) = {}
    /\ deferred' = Append(deferred, cur)
    /\ pc' = "pop" /\ cur' = NoItem
    /\ UNCHANGED <<queue, hvars, slotvars, releasing, at, batchvars, n_empty>>

\* The task is dropped.
RollbackEnd ==
    /\ Main("rollback")
    /\ Holding(Family(cur.id)) = {}
    /\ pc' = "pop" /\ cur' = NoItem
    /\ UNCHANGED <<qvars, hvars, slotvars, releasing, at, batchvars, n_empty>>

\* Mutant: only tasks that were posted themselves are looked for.
HandleCancelRoots(t) ==
    /\ Main("handle") /\ cur = CancelItem(t)
    /\ IF Holding({t}) = {} \/ ParentOf[t] # NoTask
       THEN releasing' = releasing
       ELSE releasing' \in Holding({t})
    /\ pc' = "pop" /\ cur' = NoItem
    /\ UNCHANGED <<qvars, hvars, slotvars, at, batchvars, n_empty>>

\* SERVER_TASK_TYPE_CANCEL: release the slot that runs the target, if any.
HandleCancel(t) ==
    /\ Main("handle") /\ cur = CancelItem(t)
    /\ IF Holding({t}) = {}
       THEN releasing' = releasing
       ELSE releasing' \in Holding({t})
    /\ pc' = "pop" /\ cur' = NoItem
    /\ UNCHANGED <<qvars, hvars, slotvars, at, batchvars, n_empty>>

HandleNext ==
    /\ Main("handle") /\ cur = NextItem
    /\ pc' = "pop" /\ cur' = NoItem
    /\ UNCHANGED <<qvars, hvars, slotvars, releasing, at, batchvars, n_empty>>

\* SLOT_SAVE, SLOT_RESTORE and SLOT_ERASE wait for the slot they name, then
\* run at once without occupying it.
DeferAction(t) ==
    /\ Handling(t)
    /\ Kind[t] = "slot_action"
    /\ ActionSlot[t] % NSlots \in Processing
    /\ Defer

\* The same with nothing to wait for, and METRICS, GET_LORA and SET_LORA.
HandleAction(t) ==
    /\ Handling(t)
    /\ \/ Kind[t] = "slot_action" /\ ActionSlot[t] % NSlots \in Idle
       \/ Kind[t] \in {"metrics", "lora"}
    /\ \/ Send(t, "final")
       \/ Kind[t] = "slot_action" /\ t \in LaunchFails /\ Send(t, "error")
    /\ pc' = "pop" /\ cur' = NoItem
    /\ UNCHANGED <<qvars, client, slotvars, releasing, at, batchvars, n_empty>>

----------------------------------------------------------------------------
(* update_slots(): context shift and the generating slots *)

\* Mutant: update_slots() does not post NEXT_RESPONSE.
PostNextNever ==
    /\ Main("next")
    /\ pc' = "shift" /\ at' = 0
    /\ UNCHANGED <<qvars, hvars, cur, slotvars, releasing, batchvars, n_empty>>

PostNext ==
    /\ Main("next")
    /\ queue' = Append(queue, NextItem)
    /\ pc' = "shift" /\ at' = 0
    /\ UNCHANGED <<deferred, hvars, cur, slotvars, releasing, batchvars, n_empty>>

\* A parent or child that is generating with a full context cannot be shifted.
\* (Of the two other branches, one only moves tokens and the other is dead:
\* without ctx_shift, process_token() stops the slot before its context fills.)
ShiftFail(s) ==
    /\ Main("shift")
    /\ s \in InState({"generating"}) /\ s >= at
    /\ slot_task[s] \in ContextFills
    /\ Send(slot_task[s], "error")
    /\ releasing' = s /\ at' = s + 1
    /\ UNCHANGED <<qvars, client, pc, cur, slotvars, batchvars, n_empty>>

\* The first generating slot and those it can be batched with enter the batch.
\* Prompts follow if batching is continuous or the batch is empty.
Collect ==
    /\ Main("shift")
    /\ LET G == InState({"generating"})
       IN \/ /\ G = {}
             /\ batched' = NoSlot /\ pending' = {} /\ has_tokens' = FALSE
             /\ at' = 0
          \/ \E b \in G :
             /\ \A g \in G : b <= g
             /\ batched' = b /\ has_tokens' = TRUE
             /\ pending' = {g \in G : CanBatch(b, g)}
             /\ at' = IF ContBatching THEN 0 ELSE NSlots
    /\ pc' = "batch"
    /\ UNCHANGED <<qvars, hvars, cur, slotvars, releasing, chunk, n_empty>>

----------------------------------------------------------------------------
(* update_slots(): prompts *)

\* Slots with prompt left that may join the batch.  A child in "wait_other" is
\* skipped until its parent is done.
Promptable ==
    {s \in InState({"started", "prompt"}) :
        batched # NoSlot => CanBatch(batched, s)}

AtPrompt(s) == Main("batch") /\ Reaches(Promptable, s)

\* The prompt is empty: final response, release(), next slot.
PromptEmpty(s) ==
    /\ AtPrompt(s)
    /\ slot_state[s] = "started" /\ slot_task[s] \in EmptyPrompt
    /\ Send(slot_task[s], "final")
    /\ releasing' = s /\ at' = s + 1
    /\ UNCHANGED <<qvars, client, pc, cur, slotvars, batchvars, n_empty>>

\* Mutant: slot_batched is set before the prompt is checked.
PromptErrorBatched(s) ==
    /\ AtPrompt(s)
    /\ slot_state[s] = "started" /\ slot_task[s] \in PromptFails \ EmptyPrompt
    /\ Send(slot_task[s], "error")
    /\ batched' = IF batched = NoSlot THEN s ELSE batched
    /\ releasing' = s /\ at' = s + 1
    /\ UNCHANGED <<qvars, client, pc, cur, slotvars, has_tokens, pending, chunk, n_empty>>

\* The prompt exceeds the context or the physical batch, or the context cannot
\* compute logits: error, release(), next slot.
PromptError(s) ==
    /\ AtPrompt(s)
    /\ slot_state[s] = "started" /\ slot_task[s] \in PromptFails \ EmptyPrompt
    /\ Send(slot_task[s], "error")
    /\ releasing' = s /\ at' = s + 1
    /\ UNCHANGED <<qvars, client, pc, cur, slotvars, batchvars, n_empty>>

\* A prompt that cannot be split does not fit behind what is in the batch.
PromptNoFit(s) ==
    /\ AtPrompt(s)
    /\ slot_state[s] = "prompt" \/ slot_task[s] \notin EmptyPrompt
    /\ Kind[slot_task[s]] = "embedding" /\ has_tokens
    /\ slot_state' = [slot_state EXCEPT ![s] = "prompt"]
    /\ at' = s + 1
    /\ UNCHANGED <<qvars, hvars, pc, cur, slot_task, releasing, batchvars, n_empty>>

\* Tokens are added up to the end of the prompt, or to a full batch, the place
\* of a checkpoint or an image.
PromptAdd(s, st) ==
    /\ AtPrompt(s)
    /\ slot_state[s] = "prompt" \/ slot_task[s] \notin EmptyPrompt
    /\ slot_state' = [slot_state EXCEPT ![s] = st]
    /\ has_tokens' = TRUE
    /\ batched' = IF batched = NoSlot THEN s ELSE batched
    /\ at' = s + 1
    /\ UNCHANGED <<qvars, hvars, pc, cur, slot_task, releasing, chunk, n_empty>>

PromptPart(s) == PromptAdd(s, "prompt") /\ pending' = pending

PromptAll(s) == PromptAdd(s, "done_prompt") /\ pending' = pending \cup {s}

\* No slot is left, or the batch is full.  The kill switch counts the
\* iterations that decode nothing.
PromptEnd ==
    /\ Main("batch")
    /\ Passed(Promptable) \/ has_tokens
    /\ n_empty' = IF has_tokens THEN 0 ELSE n_empty + 1
    /\ pc' = IF has_tokens THEN "decode"
             ELSE IF n_empty + 1 > KillSwitch THEN "aborted" ELSE "wait"
    /\ batched' = NoSlot /\ has_tokens' = FALSE /\ at' = 0
    /\ UNCHANGED <<qvars, hvars, cur, slotvars, releasing, pending, chunk>>

----------------------------------------------------------------------------
(* update_slots(): decoding *)

\* Mutant: nobody activates the children.
ActivatedNever == {}

\* Children waiting for a parent whose prompt tokens are all in the batch.
Activated ==
    {c \in InState({"wait_other"}) :
        \E p \in InState({"done_prompt"}) : slot_task[p] = ParentOf[slot_task[c]]}

\* A chunk of the batch is decoded.  Children are activated with a copy of the
\* parent's state, i_batch included: a parent and the children that share its
\* i_batch are sampled from the same chunk.
DecodeChunk(C) ==
    /\ Main("decode")
    /\ \A c \in pending \cup Activated, p \in pending :
          slot_task[p] = ParentOf[slot_task[c]] => (c \in C <=> p \in C)
    /\ slot_state' = [s \in Slot |-> IF s \in Activated THEN "done_prompt"
                                     ELSE slot_state[s]]
    /\ pending' = (pending \cup Activated) \ C
    /\ chunk' = C
    /\ pc' = "sample"
    /\ UNCHANGED <<qvars, hvars, cur, slot_task, releasing, at, batched, has_tokens, n_empty>>

Decode == \E C \in SUBSET (pending \cup Activated) : DecodeChunk(C)

Sampled(s) ==
    /\ Main("sample")
    /\ s \in chunk /\ \A o \in chunk : s <= o
    /\ chunk' = chunk \ {s}

\* A token is sampled and process_token() wants more.
SampleMore(s) ==
    /\ Sampled(s)
    /\ Kind[slot_task[s]] = "completion"
    /\ slot_state' = [slot_state EXCEPT ![s] = "generating"]
    /\ UNCHANGED <<qvars, hvars, pc, cur, slot_task, releasing, at, batched, has_tokens, pending, n_empty>>

\* The embedding or rank is sent, or process_token() found a stop condition.
SampleLast(s) ==
    /\ Sampled(s)
    /\ Send(slot_task[s], "final")
    /\ releasing' = s
    /\ UNCHANGED <<qvars, client, pc, cur, slotvars, at, batched, has_tokens, pending, n_empty>>

\* Next chunk, or the end of update_slots().
SampleEnd ==
    /\ Main("sample")
    /\ chunk = {}
    /\ \/ pc' = "decode" /\ (pending # {} \/ InState({"prompt"}) # {})
       \/ pc' = "wait" /\ pending = {}
    /\ UNCHANGED <<qvars, hvars, cur, slotvars, releasing, at, batchvars, n_empty>>

\* llama_decode() failed and a retry with a smaller batch is pointless: every
\* slot that is processing gets an error and is released.
DecodeFatal ==
    /\ Main("decode")
    /\ DecodeFails
    /\ pc' = "fail"
    /\ pending' = {}
    /\ UNCHANGED <<qvars, hvars, cur, slotvars, releasing, at, batched, has_tokens, chunk, n_empty>>

FailSlot(s) ==
    /\ Main("fail")
    /\ s \in Processing /\ \A o \in Processing : s <= o
    /\ Send(slot_task[s], "error")
    /\ releasing' = s
    /\ UNCHANGED <<qvars, client, pc, cur, slotvars, at, batchvars, n_empty>>

FailEnd ==
    /\ Main("fail")
    /\ Processing = {}
    /\ pc' = "wait"
    /\ UNCHANGED <<qvars, hvars, cur, slotvars, releasing, at, batchvars, n_empty>>

----------------------------------------------------------------------------
Client(r) == Post(r) \/ ClientLeaves(r) \/ ClientFails(r) \/ ClientDone(r)

Loop == Pop \/ Drained \/ Wake \/ Idling \/ Release

Process(t) == \/ DeferInference(t)
              \/ \E s \in Slot : Launch(t, s) \/ LaunchFail(t, s)
              \/ HandleCancel(t)
              \/ DeferAction(t)
              \/ HandleAction(t)

UpdateSlot(s) == \/ RollbackSlot(s) \/ ShiftFail(s)
                 \/ PromptEmpty(s) \/ PromptError(s) \/ PromptNoFit(s)
                 \/ PromptPart(s) \/ PromptAll(s)
                 \/ SampleMore(s) \/ SampleLast(s) \/ FailSlot(s)

Update == \/ RollbackEnd \/ HandleNext \/ PostNext \/ Collect \/ PromptEnd
          \/ Decode \/ SampleEnd \/ DecodeFatal \/ FailEnd

Next == \/ \E r \in Request : Client(r)
        \/ Loop
        \/ \E t \in Task : Process(t)
        \/ \E s \in Slot : UpdateSlot(s)
        \/ Update

Spec == Init /\ [][Next]_vars

\* The main thread keeps running, and what it does over and over comes to an
\* end: prompts and batches are finite, n_predict or the context bounds every
\* generation.  An HTTP thread that waits in next() reads the results sent to
\* it.  No client is obliged to post or to leave.
MainThread == \/ Loop \/ Update
              \/ \E t \in Task : Process(t)
              \/ \E s \in Slot : UpdateSlot(s)

FairSpec ==
    /\ Spec
    /\ WF_vars(MainThread)
    /\ \A s \in Slot : SF_vars(PromptAll(s)) /\ SF_vars(SampleLast(s))
    /\ SF_vars(DecodeChunk(pending \cup Activated))
    /\ SF_vars(SampleEnd /\ pc' = "wait")
    /\ \A r \in Request : WF_vars(ClientFails(r)) /\ WF_vars(ClientDone(r))

----------------------------------------------------------------------------
(* Where a task is *)

Root(t)      == IF ParentOf[t] = NoTask THEN t ELSE ParentOf[t]
Queued(t)    == \E i \in DOMAIN queue : queue[i] = TaskItem(t)
Parked(t)    == \E i \in DOMAIN deferred : deferred[i] = TaskItem(t)
InHand(t)    == pc = "handle" /\ cur = TaskItem(t)
Running(t)   == Holding({t}) # {}
InSystem(t)  == Queued(Root(t)) \/ Parked(Root(t)) \/ InHand(Root(t)) \/ Running(t)

\* The CANCEL of t has not taken effect yet.
CancelOnWay(t) ==
    \/ \E i \in DOMAIN queue : queue[i] = CancelItem(t)
    \/ pc = "handle" /\ cur = CancelItem(t)
    \/ releasing \in Holding({t})

Places(t) ==
    {<<"queue", i>> : i \in {j \in DOMAIN queue : queue[j] = TaskItem(t)}} \cup
    {<<"deferred", i>> : i \in {j \in DOMAIN deferred : deferred[j] = TaskItem(t)}} \cup
    {<<"hand", 0>> : i \in {j \in {0} : InHand(t)}} \cup
    {<<"slot", s>> : s \in Holding({t})}

----------------------------------------------------------------------------
(* Properties *)

\* A task is never duplicated: whatever mix of deferring, popping out of turn,
\* launching and cancelling happens, it is in one queue, in the hands of the
\* main thread or in one slot.
OnePlace == \A t \in Task : Cardinality(Places(t)) <= 1

\* No task gets two results that end it (wait_for_all() asserts "duplicate
\* result received"), and an answered task is gone from the queues: only its
\* slot, about to be released, may still name it.
AnsweredOnce ==
    \A t \in Task : answer[t] # <<>> =>
        /\ Len(answer[t]) = 1
        /\ ~Queued(t) /\ ~Parked(t) /\ ~InHand(t)
        /\ Holding({t}) \subseteq {releasing}

\* A client that waits is never forgotten: each of its tasks is in the system
\* or answered, or one of them got the error that ends the whole request.  A
\* launch that fails half-way drops tasks without a result and relies on this.
NotForgotten ==
    \A t \in Task : client[ReqOf[t]] = "waiting" =>
        InSystem(t) \/ answer[t] # <<>> \/ Failed(ReqOf[t])

\* A child that waits for its parent's prompt is not left behind: the parent is
\* still on its way there, or the child's end is certain (the request failed
\* and its client will cancel it, the CANCEL is queued, the launch is undone).
ChildAttended ==
    \A s \in InState({"wait_other"}) : LET kid == slot_task[s] IN
        \/ \E p \in InState({"started", "prompt", "done_prompt"}) :
              slot_task[p] = ParentOf[kid]
        \/ client[ReqOf[kid]] = "waiting" /\ Failed(ReqOf[kid])
        \/ CancelOnWay(kid)
        \/ pc = "rollback" /\ cur = TaskItem(ParentOf[kid])

\* The batch never refers to a released slot: update_slots() dereferences
\* slot.task of slot_batched, of the slots in the batch and of those it samples.
BatchAlive ==
    /\ pc = "batch" /\ batched # NoSlot =>
          slot_state[batched] \in {"generating", "prompt", "done_prompt"}
    /\ pc \in {"batch", "decode", "sample"} =>
          \A s \in pending \cup chunk : slot_state[s] \in {"generating", "done_prompt"}

\* Deferred tasks are not left to wait for a slot when every slot is idle and
\* no task is on its way to one (server-queue.h: "defer until one slot is
\* available").
NoStall ==
    deferred # <<>> =>
        \/ Processing # {}
        \/ \E t \in Task : Queued(t) \/ InHand(t)

\* The kill switch of update_slots() is for bugs: the server never aborts.
NoAbort == pc # "aborted"

\* Both: a child whose parent is gone is what makes the loop turn without adding a
\* token, until the kill switch ends the process.
FamiliesEnd == ChildAttended /\ NoAbort

\* A CANCEL is final: once the CANCELs of a stopped request are consumed, none
\* of its tasks is left in a queue or a slot (server-queue.cpp, post(): "if
\* this is cancel task make sure to clean up pending tasks").
CancelEffective ==
    \A t \in Task :
        /\ client[ReqOf[t]] = "stopped"
        /\ \A u \in Members(ReqOf[t]) : ~CancelOnWay(u)
        => ~InSystem(t)

\* Every client that keeps waiting is served or told that its request failed.
EveryClientServed ==
    \A r \in Request : client[r] = "waiting" ~> client[r] \in {"stopped", "done"}
=============================================================================
