-------------------------- MODULE ServerSlots_proofs --------------------------
(***************************************************************************)
(* What is proved about ServerSlots, for every set of tasks and requests   *)
(* and any number of slots: the batch refers to slots in use, a task is in *)
(* one place, it gets at most one result that ends it, and no client that  *)
(* waits is forgotten.  Under conditions that are stated with them: a      *)
(* CANCEL is final, no deferred task waits while all slots are idle, and   *)
(* no child waits for a parent that is gone.                               *)
(***************************************************************************)
EXTENDS ServerSlots, Subsequences_proofs

\* Cleaning up a queue leaves a queue of the same kind of items.
LEMMA CleanupType ==
  ASSUME NEW S, NEW q \in Seq(S), NEW T
  PROVE  Cleanup(q, T) \in Seq(S)
  <1>1. Kept(q, T) \in SUBSET (1 .. Len(q))
    BY DEF Kept
  <1> QED BY <1>1, RemainingElements DEF Cleanup

\* The abort of update_slots() ends the run: only then is the counter past its
\* limit.
KillInv == n_empty > KillSwitch => pc = "aborted"

Inv == TypeOK /\ KillInv

----------------------------------------------------------------------------
(* Operators *)

LEMMA SlotType ==
  /\ NSlots \in Nat \ {0}
  /\ Slot \subseteq Nat
  /\ \A s \in Slot : s + 1 \in 0 .. NSlots /\ s # NoSlot
  BY SlotsAssumption DEF SlotsAssumption, Slot, NoSlot

LEMMA KidsType == \A t \in Task : Family(t) \subseteq Task
  BY DEF Family, Kids

LEMMA TaskItemType == \A t \in Task :
  /\ TaskItem(t) \in Items(Task) /\ CancelItem(t) \in Items(Task)
  /\ TaskItem(t).id = t /\ CancelItem(t).id = t
  BY DEF TaskItem, CancelItem, Items

LEMMA NextItemType == NextItem \in Items(Task)
  BY DEF NextItem, Items

\* An ordering of a set of tasks lists tasks.
LEMMA OrderingType ==
  ASSUME NEW S \in SUBSET Task, NEW q \in SetToSeqs(S)
  PROVE  q \in Seq(Task)
  <1> DEFINE n == Cardinality(S)
  <1>1. n \in Nat
    <2>1. IsFiniteSet(S)
      BY TaskAssumption, FS_Subset DEF TaskAssumption
    <2> QED BY <2>1, FS_CardinalityType
  <1>2. q \in [1 .. n -> S]
    BY DEF SetToSeqs
  <1> HIDE DEF n
  <1> QED BY <1>1, <1>2

LEMMA ItemsOf ==
  ASSUME NEW q \in Seq(Task)
  PROVE  /\ [i \in DOMAIN q |-> TaskItem(q[i])] \in Seq(Items(Task))
         /\ [i \in DOMAIN q |-> CancelItem(q[i])] \in Seq(Items(Task))
  BY TaskItemType

LEMMA SendType ==
  ASSUME answer \in [Task -> Seq({"final", "error"})],
         NEW t, NEW res \in {"final", "error"}, Send(t, res)
  PROVE  answer' \in [Task -> Seq({"final", "error"})]
  <1>1. t \in Task => Append(answer[t], res) \in Seq({"final", "error"})
    OBVIOUS
  <1> QED BY <1>1 DEF Send

LEMMA LaunchedType ==
  ASSUME TypeOK, NEW D \in SUBSET Slot, NEW g \in [D -> Task], Launched(g)
  PROVE  /\ slot_task' \in [Slot -> Task \cup {NoTask}]
         /\ slot_state' \in [Slot -> SlotState]
         /\ n_empty' \in {0, n_empty}
  <1>1. DOMAIN g = D /\ \A s \in D : g[s] \in Task
    OBVIOUS
  <1> QED BY <1>1 DEF Launched, TypeOK, SlotState

\* What a placement is: slots of its own for the tasks of a family.
LEMMA PlacementType ==
  ASSUME NEW t \in Task, NEW s \in Slot, NEW g \in Placements(s, t)
  PROVE  DOMAIN g \in SUBSET Slot /\ g \in [DOMAIN g -> Task]
  <1>1. PICK D \in SUBSET (Idle \ {s}) : g \in Bijection(D \cup {s}, Family(t))
    BY DEF Placements
  <1>2. g \in [D \cup {s} -> Family(t)]
    BY <1>1 DEF Bijection, Injection
  <1>3. Idle \subseteq Slot
    BY DEF Idle, InState
  <1> QED BY <1>2, <1>3, KidsType

----------------------------------------------------------------------------
(* The type invariant *)

LEMMA InitInv == Init => Inv
  <1> SUFFICES ASSUME Init PROVE Inv
    OBVIOUS
  <1>1. queue \in Seq(Items(Task)) /\ deferred \in Seq({TaskItem(t) : t \in Task})
    BY DEF Init
  <1>2. answer \in [Task -> Seq({"final", "error"})]
    BY DEF Init
  <1>3. /\ client \in [Request -> {"new", "waiting", "stopped", "done"}]
        /\ slot_state \in [Slot -> SlotState]
        /\ slot_task \in [Slot -> Task \cup {NoTask}]
    BY DEF Init, SlotState
  <1>4. TypeOK
    <2>1. at \in 0 .. NSlots /\ n_empty \in 0 .. KillSwitch + 1
      BY SlotType DEF Init, KillSwitch
    <2> QED BY <1>1, <1>2, <1>3, <2>1 DEF Init, TypeOK, MainPC
  <1>5. KillInv
    BY DEF Init, KillInv, KillSwitch
  <1> QED BY <1>4, <1>5 DEF Inv

LEMMA DeferType ==
  ASSUME TypeOK, NEW t \in Task, cur = TaskItem(t), Defer
  PROVE  deferred' \in Seq({TaskItem(u) : u \in Task})
  <1>1. deferred \in Seq({TaskItem(u) : u \in Task}) /\ cur \in {TaskItem(u) : u \in Task}
    BY DEF TypeOK
  <1> QED BY <1>1 DEF Defer

\* Steps of the HTTP threads.
LEMMA ClientInv ==
  ASSUME Inv, NEW r \in Request, Client(r)
  PROVE  Inv'
  <1>1. ASSUME Post(r) PROVE Inv'
    <2>1. PICK q \in SetToSeqs(Roots(r)) : LET new == [i \in DOMAIN q |-> TaskItem(q[i])]
            IN queue' = IF \E t \in Members(r) : Kind[t] = "metrics"
                        THEN new \o queue ELSE queue \o new
      BY <1>1 DEF Post
    <2>2. q \in Seq(Task)
      BY OrderingType DEF Roots, Members
    <2>3. queue' \in Seq(Items(Task))
      <3> DEFINE new == [i \in DOMAIN q |-> TaskItem(q[i])]
      <3>1. new \in Seq(Items(Task)) /\ queue \in Seq(Items(Task))
        BY <2>2, ItemsOf DEF Inv, TypeOK
      <3>2. queue' \in {new \o queue, queue \o new}
        BY <2>1
      <3> HIDE DEF new
      <3>3. new \o queue \in Seq(Items(Task)) /\ queue \o new \in Seq(Items(Task))
        BY <3>1
      <3> QED BY <3>2, <3>3
    <2>4. client' \in [Request -> {"new", "waiting", "stopped", "done"}]
      BY <1>1 DEF Post, Inv, TypeOK
    <2> QED BY <1>1, <2>3, <2>4 DEF Post, slotvars, batchvars, Inv, TypeOK, KillInv
  <1>2. ASSUME Stop(r) PROVE Inv'
    <2>1. PICK c \in SetToSeqs(Members(r)) :
            queue' = [i \in DOMAIN c |-> CancelItem(c[i])] \o Cleanup(queue, Members(r))
      BY <1>2 DEF Stop
    <2>2. c \in Seq(Task)
      BY OrderingType DEF Members
    <2>3. queue' \in Seq(Items(Task)) /\ deferred' \in Seq({TaskItem(t) : t \in Task})
      <3> DEFINE new == [i \in DOMAIN c |-> CancelItem(c[i])]
      <3>1. new \in Seq(Items(Task))
        BY <2>2, ItemsOf
      <3>2. /\ Cleanup(queue, Members(r)) \in Seq(Items(Task))
            /\ Cleanup(deferred, Members(r)) \in Seq({TaskItem(t) : t \in Task})
        BY CleanupType DEF Inv, TypeOK
      <3>3. /\ queue' = new \o Cleanup(queue, Members(r))
            /\ deferred' = Cleanup(deferred, Members(r))
        BY <1>2, <2>1 DEF Stop
      <3> HIDE DEF new
      <3> QED BY <3>1, <3>2, <3>3
    <2>4. client' \in [Request -> {"new", "waiting", "stopped", "done"}]
      BY <1>2 DEF Stop, Inv, TypeOK
    <2> QED BY <1>2, <2>3, <2>4 DEF Stop, slotvars, batchvars, Inv, TypeOK, KillInv
  <1>3. ASSUME ClientDone(r) PROVE Inv'
    BY <1>3 DEF ClientDone, qvars, slotvars, batchvars, Inv, TypeOK, KillInv
  <1> QED BY <1>1, <1>2, <1>3 DEF Client, ClientLeaves, ClientFails

\* Steps of start_loop().
LEMMA LoopInv ==
  ASSUME Inv, Loop
  PROVE  Inv'
  <1>1. CASE Pop
    <2>1. queue' \in Seq(Items(Task)) /\ cur' \in Items(Task)
      BY <1>1 DEF Pop, Inv, TypeOK
    <2> QED BY <1>1, <2>1 DEF Pop, Main, hvars, slotvars, batchvars, Inv, TypeOK, KillInv, MainPC
  <1>2. CASE Drained
    BY <1>2 DEF Drained, Main, qvars, hvars, slotvars, batchvars, Inv, TypeOK, KillInv, MainPC
  <1>3. CASE Wake
    BY <1>3 DEF Wake, Main, qvars, hvars, slotvars, batchvars, Inv, TypeOK, KillInv, MainPC
  <1>4. CASE Idling
    BY <1>4 DEF Idling, vars, Inv, TypeOK, KillInv
  <1>5. CASE Release
    <2>1. queue' \in Seq(Items(Task)) /\ deferred' \in Seq({TaskItem(t) : t \in Task})
      <3>1. CASE deferred = <<>>
        BY <1>5, <3>1 DEF Release, qvars, Inv, TypeOK
      <3>2. CASE deferred # <<>>
        <4>1. PICK i \in DOMAIN deferred : queue' = <<deferred[i]>> \o queue
                                           /\ deferred' = RemoveAt(deferred, i)
          BY <1>5, <3>2 DEF Release
        <4>2. deferred \in Seq({TaskItem(t) : t \in Task}) /\ i \in 1 .. Len(deferred)
          BY <4>1 DEF Inv, TypeOK
        <4>3. deferred[i] \in Items(Task)
          BY <4>2, TaskItemType
        <4> QED BY <4>1, <4>2, <4>3, RemoveAtType DEF Inv, TypeOK
      <3> QED BY <3>1, <3>2
    <2>2. /\ slot_state' \in [Slot -> SlotState]
          /\ slot_task' \in [Slot -> Task \cup {NoTask}]
      BY <1>5 DEF Release, Inv, TypeOK, SlotState
    <2> QED BY <1>5, <2>1, <2>2 DEF Release, hvars, batchvars, Inv, TypeOK, KillInv
  <1> QED BY <1>1, <1>2, <1>3, <1>4, <1>5 DEF Loop

\* Steps of process_single_task().
LEMMA ProcessInv ==
  ASSUME Inv, NEW t \in Task, Process(t)
  PROVE  Inv'
  <1> USE DEF NoItem
  <1>1. ASSUME Defer, cur = TaskItem(t), pc = "handle" PROVE Inv'
    <2>1. deferred' \in Seq({TaskItem(u) : u \in Task})
      BY <1>1, DeferType DEF Inv
    <2> QED BY <1>1, <2>1 DEF Defer, hvars, slotvars, batchvars, Inv, TypeOK, KillInv, MainPC
  <1>2. ASSUME NEW s \in Slot, Launch(t, s) PROVE Inv'
    <2>1. PICK g \in Placements(s, t) : Launched(g)
      BY <1>2 DEF Launch
    <2>2. /\ slot_task' \in [Slot -> Task \cup {NoTask}]
          /\ slot_state' \in [Slot -> SlotState]
          /\ n_empty' \in {0, n_empty}
      BY <2>1, PlacementType, LaunchedType DEF Inv
    <2> QED BY <1>2, <2>2 DEF Launch, Handling, Main, qvars, hvars, batchvars, Inv, TypeOK, KillInv, KillSwitch, MainPC
  <1>3. ASSUME NEW s \in Slot, LaunchFail(t, s) PROVE Inv'
    <2>0. PICK g \in Placements(s, t) : \E b \in DOMAIN g :
            LET before == {d \in DOMAIN g \ {s} : b = s \/ d < b}
            IN Launched([d \in before |-> g[d]]) /\ Send(g[b], "error")
      BY <1>3 DEF LaunchFail
    <2>1. PICK b \in DOMAIN g :
            LET before == {d \in DOMAIN g \ {s} : b = s \/ d < b}
            IN Launched([d \in before |-> g[d]]) /\ Send(g[b], "error")
      BY <2>0
    <2> DEFINE before == {d \in DOMAIN g \ {s} : b = s \/ d < b}
    <2>2. before \in SUBSET Slot /\ [d \in before |-> g[d]] \in [before -> Task]
      BY PlacementType
    <2>3. /\ slot_task' \in [Slot -> Task \cup {NoTask}]
          /\ slot_state' \in [Slot -> SlotState]
          /\ n_empty' \in {0, n_empty}
      BY <2>1, <2>2, LaunchedType DEF Inv
    <2>4. answer' \in [Task -> Seq({"final", "error"})]
      BY <2>1, SendType DEF Inv, TypeOK
    <2> QED BY <1>3, <2>3, <2>4 DEF LaunchFail, Handling, Main, qvars, batchvars, Inv, TypeOK, KillInv, KillSwitch, MainPC
  <1>4. CASE HandleCancel(t)
    <2>1. releasing' \in Slot \cup {NoSlot}
      BY <1>4 DEF HandleCancel, Holding, Inv, TypeOK
    <2> QED BY <1>4, <2>1 DEF HandleCancel, Main, qvars, hvars, slotvars, batchvars, Inv, TypeOK, KillInv, MainPC
  <1>5. CASE HandleAction(t)
    <2>1. answer' \in [Task -> Seq({"final", "error"})]
      BY <1>5, SendType DEF HandleAction, Inv, TypeOK
    <2> QED BY <1>5, <2>1 DEF HandleAction, Handling, Main, qvars, slotvars, batchvars, Inv, TypeOK, KillInv, MainPC
  <1> QED
    BY <1>1, <1>2, <1>3, <1>4, <1>5
    DEF Process, DeferInference, DeferAction, Handling, Main

\* A loop over the slots that sends a result to one and is about to release it.
LEMMA SendReleaseInv ==
  ASSUME Inv, NEW s \in Slot, NEW res \in {"final", "error"}, Send(slot_task[s], res),
         releasing' = s, at' \in {at, s + 1}, chunk' \subseteq chunk,
         UNCHANGED <<queue, deferred, client, pc, cur, slot_state, slot_task,
                     batched, has_tokens, pending, n_empty>>
  PROVE  Inv'
  <1>1. answer' \in [Task -> Seq({"final", "error"})]
    BY SendType DEF Inv, TypeOK
  <1>2. at' \in 0 .. NSlots
    BY SlotType DEF Inv, TypeOK
  <1> QED BY <1>1, <1>2 DEF Inv, TypeOK, KillInv

\* Steps of update_slots() for one slot.
LEMMA UpdateSlotInv ==
  ASSUME Inv, NEW s \in Slot, UpdateSlot(s)
  PROVE  Inv'
  <1>1. CASE RollbackSlot(s)
    BY <1>1 DEF RollbackSlot, Main, qvars, hvars, slotvars, batchvars, Inv, TypeOK, KillInv
  <1>2. CASE ShiftFail(s)
    BY <1>2, SendReleaseInv DEF ShiftFail, qvars, slotvars, batchvars
  <1>3. CASE PromptEmpty(s)
    BY <1>3, SendReleaseInv DEF PromptEmpty, qvars, slotvars, batchvars
  <1>4. CASE PromptError(s)
    BY <1>4, SendReleaseInv DEF PromptError, qvars, slotvars, batchvars
  <1>5. CASE PromptNoFit(s)
    <2>1. slot_state' \in [Slot -> SlotState] /\ at' \in 0 .. NSlots
      BY <1>5, SlotType DEF PromptNoFit, Inv, TypeOK, SlotState
    <2> QED BY <1>5, <2>1 DEF PromptNoFit, qvars, hvars, batchvars, Inv, TypeOK, KillInv
  <1>6. CASE PromptPart(s) \/ PromptAll(s)
    <2>1. PICK st \in {"prompt", "done_prompt"} : PromptAdd(s, st)
      BY <1>6 DEF PromptPart, PromptAll
    <2>2. slot_state' \in [Slot -> SlotState] /\ at' \in 0 .. NSlots
      BY <2>1, SlotType DEF PromptAdd, Inv, TypeOK, SlotState
    <2>3. pending' \subseteq Slot
      BY <1>6 DEF PromptPart, PromptAll, Inv, TypeOK
    <2> QED BY <2>1, <2>2, <2>3 DEF PromptAdd, qvars, hvars, Inv, TypeOK, KillInv
  <1>7. CASE SampleMore(s)
    <2>1. slot_state' \in [Slot -> SlotState]
      BY <1>7 DEF SampleMore, Inv, TypeOK, SlotState
    <2> QED BY <1>7, <2>1 DEF SampleMore, Sampled, qvars, hvars, Inv, TypeOK, KillInv
  <1>8. CASE SampleLast(s)
    BY <1>8, SendReleaseInv DEF SampleLast, Sampled, qvars, slotvars
  <1>9. CASE FailSlot(s)
    BY <1>9, SendReleaseInv DEF FailSlot, qvars, slotvars, batchvars
  <1> QED BY <1>1, <1>2, <1>3, <1>4, <1>5, <1>6, <1>7, <1>8, <1>9 DEF UpdateSlot

\* The other steps of the main thread.
LEMMA UpdateInv ==
  ASSUME Inv, Update
  PROVE  Inv'
  <1> USE DEF Main, MainPC
  <1>1. CASE RollbackEnd
    BY <1>1 DEF RollbackEnd, NoItem, qvars, hvars, slotvars, batchvars, Inv, TypeOK, KillInv
  <1>2. CASE HandleNext
    BY <1>2 DEF HandleNext, NoItem, qvars, hvars, slotvars, batchvars, Inv, TypeOK, KillInv
  <1>3. CASE PostNext
    <2>1. queue' \in Seq(Items(Task)) /\ at' \in 0 .. NSlots
      BY <1>3, NextItemType, SlotType DEF PostNext, Inv, TypeOK
    <2> QED BY <1>3, <2>1 DEF PostNext, hvars, slotvars, batchvars, Inv, TypeOK, KillInv
  <1>4. CASE Collect
    <2>1. /\ batched' \in Slot \cup {NoSlot} /\ pending' \subseteq Slot
          /\ has_tokens' \in BOOLEAN /\ at' \in 0 .. NSlots
      <3>0. 0 \in 0 .. NSlots /\ NSlots \in 0 .. NSlots
        BY SlotType
      <3>1. CASE InState({"generating"}) = {}
        <4>1. batched' = NoSlot /\ pending' = {} /\ has_tokens' = FALSE /\ at' = 0
          BY <1>4, <3>1 DEF Collect
        <4> QED BY <3>0, <4>1
      <3>2. CASE InState({"generating"}) # {}
        <4>1. PICK b \in InState({"generating"}) :
             /\ batched' = b /\ has_tokens' = TRUE
             /\ pending' = {g \in InState({"generating"}) : CanBatch(b, g)}
             /\ at' = IF ContBatching THEN 0 ELSE NSlots
          BY <1>4, <3>2 DEF Collect
        <4> QED BY <3>0, <4>1 DEF InState
      <3> QED BY <3>1, <3>2
    <2> QED BY <1>4, <2>1 DEF Collect, qvars, hvars, slotvars, Inv, TypeOK, KillInv
  <1>5. CASE PromptEnd
    <2>1. n_empty' \in 0 .. KillSwitch + 1 /\ (n_empty' > KillSwitch => pc' = "aborted")
      BY <1>5 DEF PromptEnd, KillSwitch, Inv, TypeOK, KillInv
    <2>2. at' \in 0 .. NSlots
      BY <1>5, SlotType DEF PromptEnd
    <2> QED BY <1>5, <2>1, <2>2 DEF PromptEnd, qvars, hvars, slotvars, Inv, TypeOK, KillInv
  <1>6. CASE Decode
    <2>1. PICK C \in SUBSET (pending \cup Activated) : DecodeChunk(C)
      BY <1>6 DEF Decode
    <2>2. /\ slot_state' \in [Slot -> SlotState]
          /\ pending' \subseteq Slot /\ chunk' \subseteq Slot
      BY <2>1 DEF DecodeChunk, Activated, InState, Inv, TypeOK, SlotState
    <2> QED BY <2>1, <2>2 DEF DecodeChunk, qvars, hvars, Inv, TypeOK, KillInv
  <1>7. CASE SampleEnd
    BY <1>7 DEF SampleEnd, qvars, hvars, slotvars, batchvars, Inv, TypeOK, KillInv
  <1>8. CASE DecodeFatal
    BY <1>8 DEF DecodeFatal, qvars, hvars, slotvars, Inv, TypeOK, KillInv
  <1>9. CASE FailEnd
    BY <1>9 DEF FailEnd, qvars, hvars, slotvars, batchvars, Inv, TypeOK, KillInv
  <1> QED BY <1>1, <1>2, <1>3, <1>4, <1>5, <1>6, <1>7, <1>8, <1>9 DEF Update

LEMMA StepInv == Inv /\ [Next]_vars => Inv'
  <1> SUFFICES ASSUME Inv, [Next]_vars PROVE Inv'
    OBVIOUS
  <1>1. CASE UNCHANGED vars
    BY <1>1 DEF vars, Inv, TypeOK, KillInv
  <1> QED
    BY <1>1, ClientInv, LoopInv, ProcessInv, UpdateSlotInv, UpdateInv DEF Next

\* Every variable keeps its type, and the counter of empty batches its bound.
THEOREM TypeCorrect == Spec => []TypeOK
  <1>1. Inv => TypeOK
    BY DEF Inv
  <1> QED BY <1>1, InitInv, StepInv, PTL DEF Spec

----------------------------------------------------------------------------
(* The batch never refers to a released slot *)

\* Slots in the batch are not being released, and no slot is both sampled now
\* and waiting for a later chunk; between updates nothing is left to sample.
BatchInv ==
    /\ BatchAlive
    /\ pc = "batch" /\ batched # NoSlot => releasing # batched
    /\ pc \in {"batch", "decode", "sample"} => releasing \notin pending \cup chunk
    /\ pc = "sample" => pending \cap chunk = {}
    /\ pc # "sample" => chunk = {}

IInv == Inv /\ BatchInv

LEMMA InitIInv == Init => IInv
  BY InitInv DEF Init, IInv, BatchInv, BatchAlive

\* What a prompt slot is: not in the batch yet.
LEMMA PromptSlot ==
  ASSUME IInv, NEW s \in Slot, AtPrompt(s)
  PROVE  /\ pc = "batch" /\ releasing = NoSlot
         /\ slot_state[s] \in {"started", "prompt"} /\ s \notin pending
         /\ batched # NoSlot => s # batched \/ slot_state[s] = "prompt"
         /\ chunk = {} /\ s # NoSlot
  BY SlotType DEF AtPrompt, Main, Reaches, Promptable, InState, IInv, BatchInv, BatchAlive

\* Steps outside a batch.
LEMMA QuietBatch ==
  ASSUME IInv, chunk' = chunk, pc # "sample", pc' \notin {"batch", "decode", "sample"}
  PROVE  BatchInv'
  BY DEF IInv, BatchInv, BatchAlive

\* Steps that leave the slots and the batch alone.
LEMMA SameBatch ==
  ASSUME IInv, UNCHANGED <<slot_state, releasing, batched, pending, chunk, pc>>
  PROVE  BatchInv'
  BY DEF IInv, BatchInv, BatchAlive

LEMMA StepIInv == IInv /\ [Next]_vars => IInv'
  <1> SUFFICES ASSUME IInv, [Next]_vars PROVE BatchInv'
    BY StepInv DEF IInv
  <1>1. ASSUME NEW r \in Request, Client(r) PROVE BatchInv'
    BY <1>1, SameBatch
    DEF Client, ClientLeaves, ClientFails, Post, Stop, ClientDone, slotvars, batchvars
  <1>2. CASE Release
    <2>1. releasing \in Slot /\ releasing' = NoSlot
          /\ slot_state' = [slot_state EXCEPT ![releasing] = "idle"]
          /\ UNCHANGED <<pc, batched, pending, chunk>>
      BY <1>2 DEF Release, batchvars, IInv, Inv, TypeOK
    <2>2. NoSlot \notin pending \cup chunk
      BY SlotType DEF IInv, Inv, TypeOK
    <2> QED BY <2>1, <2>2 DEF IInv, Inv, TypeOK, BatchInv, BatchAlive
  <1>3. CASE Loop /\ ~Release
    <2>1. CASE Idling
      BY <2>1, SameBatch DEF Idling, vars
    <2>2. CASE Pop \/ Drained \/ Wake
      BY <2>2, QuietBatch DEF Pop, Drained, Wake, Main, batchvars
    <2> QED BY <1>3, <2>1, <2>2 DEF Loop
  <1>4. ASSUME NEW t \in Task, Process(t) PROVE BatchInv'
    BY <1>4, QuietBatch
    DEF Process, DeferInference, DeferAction, Defer, Launch, LaunchFail,
        HandleCancel, HandleAction, Handling, Main, batchvars
  <1>5. ASSUME NEW s \in Slot, UpdateSlot(s) PROVE BatchInv'
    <2>1. CASE RollbackSlot(s) \/ ShiftFail(s) \/ FailSlot(s)
      BY <2>1, QuietBatch DEF RollbackSlot, ShiftFail, FailSlot, Main, batchvars
    <2>2. CASE PromptEmpty(s) \/ PromptError(s)
      BY <2>2, PromptSlot
      DEF PromptEmpty, PromptError, slotvars, batchvars, IInv, BatchInv, BatchAlive
    <2>3. CASE PromptNoFit(s)
      BY <2>3, PromptSlot
      DEF PromptNoFit, batchvars, IInv, Inv, TypeOK, BatchInv, BatchAlive
    <2>4. CASE PromptPart(s)
      BY <2>4, PromptSlot
      DEF PromptPart, PromptAdd, IInv, Inv, TypeOK, BatchInv, BatchAlive
    <2>5. CASE PromptAll(s)
      BY <2>5, PromptSlot
      DEF PromptAll, PromptAdd, IInv, Inv, TypeOK, BatchInv, BatchAlive
    <2>6. CASE SampleMore(s)
      BY <2>6 DEF SampleMore, Sampled, Main, IInv, Inv, TypeOK, BatchInv, BatchAlive
    <2>7. CASE SampleLast(s)
      BY <2>7 DEF SampleLast, Sampled, Main, slotvars, IInv, Inv, TypeOK, BatchInv, BatchAlive
    <2> QED BY <1>5, <2>1, <2>2, <2>3, <2>4, <2>5, <2>6, <2>7 DEF UpdateSlot
  <1>6. CASE Update
    <2>1. CASE RollbackEnd \/ HandleNext \/ PostNext \/ FailEnd
      BY <2>1, QuietBatch DEF RollbackEnd, HandleNext, PostNext, FailEnd, Main, batchvars
    <2>2. CASE DecodeFatal
      BY <2>2, QuietBatch DEF DecodeFatal, Main
    <2>3. CASE Collect
      <3>0. /\ releasing' = NoSlot /\ chunk' = {} /\ pc' = "batch"
            /\ slot_state' = slot_state
        BY <2>3 DEF Collect, Main, slotvars, IInv, BatchInv
      <3>1. pending' \subseteq InState({"generating"})
            /\ (batched' # NoSlot => batched' \in InState({"generating"}))
        BY <2>3 DEF Collect
      <3> QED BY <3>0, <3>1, SlotType DEF InState, BatchInv, BatchAlive
    <2>4. CASE PromptEnd
      <3>1. /\ pc' \in {"decode", "aborted", "wait"} /\ chunk' = {} /\ pc = "batch"
            /\ UNCHANGED <<slot_state, pending, releasing>>
        BY <2>4 DEF PromptEnd, Main, slotvars, IInv, BatchInv
      <3> QED BY <3>1 DEF IInv, BatchInv, BatchAlive
    <2>5. CASE Decode
      <3>1. PICK C \in SUBSET (pending \cup Activated) : DecodeChunk(C)
        BY <2>5 DEF Decode
      <3>2. pending' \cup chunk' \subseteq pending \cup Activated /\ pending' \cap chunk' = {}
        BY <3>1 DEF DecodeChunk
      <3>3. \A s \in pending \cup Activated : slot_state'[s] \in {"generating", "done_prompt"} /\ s # NoSlot
        BY <3>1, SlotType
        DEF DecodeChunk, Main, Activated, InState, IInv, Inv, TypeOK, BatchInv, BatchAlive
      <3> QED BY <3>1, <3>2, <3>3 DEF DecodeChunk, Main, BatchInv, BatchAlive
    <2>6. CASE SampleEnd
      <3>1. /\ pc = "sample" /\ pc' \in {"decode", "wait"} /\ chunk' = {}
            /\ UNCHANGED <<slot_state, pending, releasing>>
        BY <2>6 DEF SampleEnd, Main, slotvars, batchvars
      <3> QED BY <3>1 DEF IInv, BatchInv, BatchAlive
    <2> QED BY <1>6, <2>1, <2>2, <2>3, <2>4, <2>5, <2>6 DEF Update
  <1>7. CASE UNCHANGED vars
    BY <1>7, SameBatch DEF vars
  <1> QED BY <1>1, <1>2, <1>3, <1>4, <1>5, <1>6, <1>7 DEF Next

\* update_slots() never dereferences the task of a slot that was released: the
\* slot that decides the batch and the slots whose logits are in it are alive.
THEOREM BatchRefersToLiveSlots == Spec => []BatchAlive
  <1>1. IInv => BatchAlive
    BY DEF IInv, BatchInv
  <1> QED BY <1>1, InitIInv, StepIInv, PTL DEF Spec

----------------------------------------------------------------------------
(* The tasks: where they are, and what became of them *)

Within(q, t) == \E i \in DOMAIN q : q[i] = TaskItem(t)
Once(q)      == \A t \in Task : \A i, j \in DOMAIN q :
                    q[i] = TaskItem(t) /\ q[j] = TaskItem(t) => i = j

\* The task is in a queue or in the hands of the main thread.
Waits(t) == Queued(t) \/ Parked(t) \/ InHand(t)

Single ==
    /\ Once(queue) /\ Once(deferred)
    /\ \A t \in Task : ~(Queued(t) /\ Parked(t)) /\ (InHand(t) => ~Queued(t) /\ ~Parked(t))

\* No task of T was launched or answered.
Untouched(T) == \A u \in T : Holding({u}) = {} /\ answer[u] = <<>>

\* What waits is a parent, or has none, and its family waits with it.
WaitingRoots == \A t \in Task : Waits(t) => ParentOf[t] = NoTask /\ Untouched(Family(t))

NotPosted == \A t \in Task : client[ReqOf[t]] = "new" => ~Waits(t) /\ Untouched({t})

OneSlotEach ==
    /\ \A s, o \in Slot : slot_task[s] = slot_task[o] /\ slot_task[s] # NoTask => s = o
    /\ \A s \in Slot : slot_state[s] = "idle" => slot_task[s] = NoTask

\* A task that was answered is in no slot but the one about to be released.
Ended == \A t \in Task : answer[t] # <<>> =>
             Len(answer[t]) = 1 /\ Holding({t}) \subseteq {releasing}

Apart == Single /\ WaitingRoots /\ NotPosted /\ OneSlotEach /\ Ended

AInv == Inv /\ Apart

----------------------------------------------------------------------------
(* Tasks in a queue *)

LEMMA ItemsDiffer ==
    \A t, u \in Task : (TaskItem(t) = TaskItem(u) => t = u) /\ TaskItem(t) # CancelItem(u)
                       /\ TaskItem(t) # NextItem
BY DEF TaskItem, CancelItem, NextItem

LEMMA OnceConcat ==
    ASSUME NEW S, NEW p \in Seq(S), NEW q \in Seq(S)
    PROVE  /\ \A t \in Task : Within(p \o q, t) <=> Within(p, t) \/ Within(q, t)
           /\ Once(p) /\ Once(q) /\ (\A t \in Task : ~(Within(p, t) /\ Within(q, t))) => Once(p \o q)
<1>1. /\ DOMAIN (p \o q) = 1 .. Len(p) + Len(q) /\ Len(p) \in Nat /\ Len(q) \in Nat
      /\ DOMAIN p = 1 .. Len(p) /\ DOMAIN q = 1 .. Len(q)
      /\ \A i \in 1 .. Len(p) : (p \o q)[i] = p[i]
      /\ \A i \in 1 .. Len(p) + Len(q) : i > Len(p) => (p \o q)[i] = q[i - Len(p)]
  OBVIOUS
<1>2. \A i \in 1 .. Len(p) + Len(q) : i > Len(p) => i - Len(p) \in 1 .. Len(q)
  BY <1>1
<1>3. \A i \in 1 .. Len(q) : i + Len(p) \in 1 .. Len(p) + Len(q) /\ (p \o q)[i + Len(p)] = q[i]
  BY <1>1
<1>4. ASSUME NEW t \in Task PROVE Within(p \o q, t) <=> Within(p, t) \/ Within(q, t)
  <2>1. ASSUME NEW i \in DOMAIN (p \o q), (p \o q)[i] = TaskItem(t)
        PROVE  Within(p, t) \/ Within(q, t)
    BY <1>1, <1>2, <2>1 DEF Within
  <2>2. ASSUME NEW i \in DOMAIN p, p[i] = TaskItem(t)
        PROVE  Within(p \o q, t)
    BY <1>1, <2>2 DEF Within
  <2>3. ASSUME NEW i \in DOMAIN q, q[i] = TaskItem(t)
        PROVE  Within(p \o q, t)
    BY <1>1, <1>3, <2>3 DEF Within
  <2> QED
    BY <2>1, <2>2, <2>3 DEF Within
<1>5. ASSUME Once(p), Once(q), \A t \in Task : ~(Within(p, t) /\ Within(q, t))
      PROVE  Once(p \o q)
  <2>1. ASSUME NEW t \in Task, NEW i \in DOMAIN (p \o q), NEW j \in DOMAIN (p \o q),
               (p \o q)[i] = TaskItem(t), (p \o q)[j] = TaskItem(t)
        PROVE  i = j
    <3>1. CASE i <= Len(p) /\ j <= Len(p)
      BY <1>1, <1>5, <2>1, <3>1 DEF Once
    <3>2. CASE i > Len(p) /\ j > Len(p)
      BY <1>1, <1>2, <1>5, <2>1, <3>2 DEF Once
    <3>3. CASE (i <= Len(p) /\ j > Len(p)) \/ (j <= Len(p) /\ i > Len(p))
      BY <1>1, <1>2, <1>5, <2>1, <3>3 DEF Within
    <3>4. i \in Nat /\ j \in Nat /\ Len(p) \in Nat
      BY <1>1
    <3>5. (i <= Len(p) \/ i > Len(p)) /\ (j <= Len(p) \/ j > Len(p))
      BY <3>4
    <3> QED
      BY <3>1, <3>2, <3>3, <3>5
  <2> QED
    BY <2>1 DEF Once
<1> QED
  BY <1>4, <1>5

LEMMA OnceSingle ==
    ASSUME NEW S, NEW x \in S
    PROVE  <<x>> \in Seq(S) /\ Once(<<x>>) /\ \A t \in Task : Within(<<x>>, t) <=> x = TaskItem(t)
<1>1. <<x>> \in Seq(S) /\ DOMAIN <<x>> = {1} /\ <<x>>[1] = x
  OBVIOUS
<1> QED
  BY <1>1 DEF Once, Within

LEMMA OnceAppend ==
    ASSUME NEW S, NEW q \in Seq(S), NEW x \in S
    PROVE  /\ \A t \in Task : Within(Append(q, x), t) <=> Within(q, t) \/ x = TaskItem(t)
           /\ Once(q) /\ (\A t \in Task : x = TaskItem(t) => ~Within(q, t)) => Once(Append(q, x))
<1>1. Append(q, x) = q \o <<x>>
  OBVIOUS
<1>2. <<x>> \in Seq(S) /\ Once(<<x>>) /\ \A t \in Task : Within(<<x>>, t) <=> x = TaskItem(t)
  BY OnceSingle
<1> DEFINE p == <<x>>
           c == q \o p
<1>3. \A t \in Task : Within(c, t) <=> Within(q, t) \/ Within(p, t)
  BY <1>2, OnceConcat
<1>4. Once(q) /\ Once(p) /\ (\A t \in Task : ~(Within(q, t) /\ Within(p, t))) => Once(c)
  BY <1>2, OnceConcat
<1>5. c = Append(q, x)
  BY <1>1
<1>6. Once(p) /\ \A t \in Task : Within(p, t) <=> x = TaskItem(t)
  BY <1>2
<1> HIDE DEF c, p
<1> QED
  BY <1>3, <1>4, <1>5, <1>6

LEMMA OnceTail ==
    ASSUME NEW S, NEW q \in Seq(S), q # <<>>
    PROVE  /\ \A t \in Task : Within(q, t) <=> Head(q) = TaskItem(t) \/ Within(Tail(q), t)
           /\ Once(q) => Once(Tail(q)) /\ \A t \in Task : Head(q) = TaskItem(t) => ~Within(Tail(q), t)
<1>1. /\ Len(q) \in Nat \ {0} /\ DOMAIN q = 1 .. Len(q) /\ Head(q) = q[1]
      /\ DOMAIN Tail(q) = 1 .. Len(q) - 1
      /\ \A i \in 1 .. Len(q) - 1 : Tail(q)[i] = q[i + 1]
  OBVIOUS
<1>2. \A i \in 1 .. Len(q) - 1 : i + 1 \in 1 .. Len(q) /\ i + 1 # 1
  BY <1>1
<1>3. \A i \in 1 .. Len(q) : i = 1 \/ (i - 1 \in 1 .. Len(q) - 1 /\ Tail(q)[i - 1] = q[i])
  BY <1>1
<1>4. 1 \in 1 .. Len(q)
  BY <1>1
<1>5. \A t \in Task : Within(q, t) <=> Head(q) = TaskItem(t) \/ Within(Tail(q), t)
  BY <1>1, <1>2, <1>3, <1>4 DEF Within
<1>6. ASSUME Once(q) PROVE Once(Tail(q))
  BY <1>1, <1>2, <1>6 DEF Once
<1>7. ASSUME Once(q), NEW t \in Task, Head(q) = TaskItem(t) PROVE ~Within(Tail(q), t)
  BY <1>1, <1>2, <1>4, <1>7 DEF Once, Within
<1> QED
  BY <1>5, <1>6, <1>7

LEMMA OnceRemoveAt ==
    ASSUME NEW S, NEW d \in Seq(S), NEW i \in 1 .. Len(d)
    PROVE  /\ \A t \in Task : Within(RemoveAt(d, i), t) => Within(d, t)
           /\ Once(d) => /\ Once(RemoveAt(d, i))
                         /\ \A t \in Task : d[i] = TaskItem(t) => ~Within(RemoveAt(d, i), t)
<1> DEFINE r == RemoveAt(d, i)
<1>1. /\ Len(d) \in Nat /\ i \in Nat /\ DOMAIN d = 1 .. Len(d)
      /\ DOMAIN r = 1 .. Len(d) - 1
      /\ \A k \in 1 .. Len(d) - 1 : r[k] = IF k < i THEN d[k] ELSE d[k + 1]
  BY RemoveAtElements
<1> HIDE DEF r
<1>2. \A k \in 1 .. Len(d) - 1 : k \in 1 .. Len(d) /\ k + 1 \in 1 .. Len(d)
  BY <1>1
<1>3. \A t \in Task : Within(r, t) => Within(d, t)
  BY <1>1, <1>2 DEF Within
<1>4. ASSUME Once(d) PROVE Once(r)
  <2>1. ASSUME NEW t \in Task, NEW k \in 1 .. Len(d) - 1, NEW l \in 1 .. Len(d) - 1,
               r[k] = TaskItem(t), r[l] = TaskItem(t)
        PROVE  k = l
    <3> DEFINE from(n) == IF n < i THEN n ELSE n + 1
    <3>1. d[from(k)] = TaskItem(t) /\ d[from(l)] = TaskItem(t)
      BY <1>1, <2>1
    <3>2. from(k) \in DOMAIN d /\ from(l) \in DOMAIN d
      BY <1>1, <1>2
    <3>3. from(k) = from(l)
      BY <1>4, <3>1, <3>2 DEF Once
    <3> QED
      BY <1>1, <3>3
  <2> QED
    BY <1>1, <2>1 DEF Once
<1>5. ASSUME Once(d), NEW t \in Task, d[i] = TaskItem(t) PROVE ~Within(r, t)
  <2>1. ASSUME NEW k \in 1 .. Len(d) - 1, r[k] = TaskItem(t) PROVE FALSE
    <3>1. CASE k < i
      <4>1. d[k] = TaskItem(t) /\ k # i
        BY <1>1, <2>1, <3>1
      <4> QED
        BY <1>1, <1>2, <1>5, <4>1 DEF Once
    <3>2. CASE ~(k < i)
      <4>1. d[k + 1] = TaskItem(t) /\ k + 1 # i
        BY <1>1, <2>1, <3>2
      <4> QED
        BY <1>1, <1>2, <1>5, <4>1 DEF Once
    <3> QED
      BY <3>1, <3>2
  <2> QED
    BY <1>1, <2>1 DEF Within
<1> QED
  BY <1>3, <1>4, <1>5 DEF r

\* Cleaning up a queue duplicates nothing.
LEMMA OnceCleanup ==
    ASSUME NEW S, NEW q \in Seq(S), NEW T
    PROVE  /\ \A t \in Task : Within(Cleanup(q, T), t) => Within(q, t)
           /\ Once(q) => Once(Cleanup(q, T))
<1> DEFINE K == Kept(q, T)
           c == Cleanup(q, T)
<1>1. K \in SUBSET (1 .. Len(q)) /\ DOMAIN q = 1 .. Len(q)
  BY DEF Kept
<1>2. /\ DOMAIN c = 1 .. Cardinality(K)
      /\ \A k \in 1 .. Cardinality(K) : Nth(K, k) \in K /\ c[k] = q[Nth(K, k)]
      /\ \A k, l \in 1 .. Cardinality(K) : Nth(K, k) = Nth(K, l) => k = l
  BY <1>1, RemainingElements DEF Cleanup
<1> HIDE DEF K, c
<1>3. \A t \in Task : Within(c, t) => Within(q, t)
  BY <1>1, <1>2 DEF Within
<1>4. ASSUME Once(q) PROVE Once(c)
  BY <1>1, <1>2, <1>4 DEF Once
<1> QED
  BY <1>3, <1>4 DEF c

\* The items a request posts.
LEMMA OncePosted ==
    ASSUME NEW S \in SUBSET Task, NEW q \in SetToSeqs(S)
    PROVE  LET new == [i \in DOMAIN q |-> TaskItem(q[i])]
           IN Once(new) /\ \A t \in Task : Within(new, t) => t \in S
<1> DEFINE D == 1 .. Cardinality(S)
<1>1. q \in [D -> S] /\ \A i, j \in D : i # j => q[i] # q[j]
  BY DEF SetToSeqs
<1> HIDE DEF D
<1> QED
  BY <1>1, ItemsDiffer DEF Once, Within

LEMMA NoneCancelled ==
    ASSUME NEW q \in Seq(Task)
    PROVE  LET new == [i \in DOMAIN q |-> CancelItem(q[i])]
           IN Once(new) /\ \A t \in Task : ~Within(new, t)
<1>1. \A i \in DOMAIN q : q[i] \in Task
  OBVIOUS
<1> QED
  BY <1>1, ItemsDiffer DEF Once, Within

----------------------------------------------------------------------------
(* Steps that start nothing and answer nothing *)

LEMMA Releasing ==
    ASSUME AInv, NEW t \in Task, releasing = NoSlot, answer[t] # <<>>
    PROVE  Holding({t}) = {}
BY SlotType DEF AInv, Apart, Ended, Holding

LEMMA Shuffle ==
    ASSUME AInv, Single', UNCHANGED <<answer, slot_task>>,
           \A t \in Task : Waits(t)' => Waits(t),
           \A t \in Task : client'[ReqOf[t]] = "new" => client[ReqOf[t]] = "new",
           \A s \in Slot : slot_state'[s] = "idle" => slot_state[s] = "idle",
           releasing' = releasing \/ releasing = NoSlot
    PROVE  Apart'
<1>1. \A T : Holding(T)' = Holding(T)
  BY DEF Holding
<1>2. \A T : Untouched(T) => Untouched(T)'
  BY <1>1 DEF Untouched
<1>3. WaitingRoots'
  BY <1>2 DEF AInv, Apart, WaitingRoots, Family, Kids
<1>4. NotPosted'
  BY <1>2 DEF AInv, Apart, NotPosted
<1>5. OneSlotEach'
  BY DEF AInv, Apart, OneSlotEach
<1>6. Ended'
  BY <1>1, Releasing DEF AInv, Apart, Ended
<1> QED
  BY <1>3, <1>4, <1>5, <1>6 DEF Apart

\* The queues and the main thread's hands stay as they are, or are emptied.
LEMMA Quiet ==
    ASSUME AInv, UNCHANGED <<queue, deferred, client, answer, slot_task>>,
           (pc' = pc /\ cur' = cur) \/ pc' # "handle",
           \A s \in Slot : slot_state'[s] = "idle" => slot_state[s] = "idle",
           releasing' = releasing \/ releasing = NoSlot
    PROVE  Apart'
<1>1. \A t \in Task : /\ InHand(t)' => InHand(t)
                      /\ Queued(t)' <=> Queued(t)
                      /\ Parked(t)' <=> Parked(t)
  BY DEF InHand, Queued, Parked
<1>2. Single'
  BY <1>1 DEF AInv, Apart, Single, Once
<1> QED
  BY <1>1, <1>2, Shuffle DEF Waits

LEMMA PopApart ==
    ASSUME AInv, Pop
    PROVE  Apart'
<1>1. /\ queue \in Seq(Items(Task)) /\ queue # <<>> /\ queue' = Tail(queue) /\ cur' = Head(queue)
      /\ pc = "pop" /\ pc' = "handle"
      /\ UNCHANGED <<deferred, client, answer, slot_task, slot_state, releasing>>
  BY DEF Pop, Main, hvars, slotvars, AInv, Inv, TypeOK
<1>2. /\ \A t \in Task : Within(queue, t) <=> cur' = TaskItem(t) \/ Within(queue', t)
      /\ Once(queue) => /\ Once(queue')
                        /\ \A t \in Task : cur' = TaskItem(t) => ~Within(queue', t)
  BY <1>1, OnceTail
<1>3. \A t \in Task : /\ Queued(t) <=> Within(queue, t)
                      /\ Queued(t)' <=> Within(queue', t)
                      /\ Parked(t)' <=> Parked(t)
                      /\ ~InHand(t)
                      /\ InHand(t)' <=> cur' = TaskItem(t)
  BY <1>1 DEF Queued, Parked, InHand, Within
<1>4. Single'
  BY <1>1, <1>2, <1>3 DEF AInv, Apart, Single, Once
<1>5. \A t \in Task : Waits(t)' => Waits(t)
  BY <1>2, <1>3 DEF Waits
<1> QED
  BY <1>1, <1>4, <1>5, Shuffle

LEMMA DeferApart ==
    ASSUME AInv, NEW t \in Task, Handling(t), Defer
    PROVE  Apart'
<1>1. /\ deferred \in Seq({TaskItem(u) : u \in Task}) /\ TaskItem(t) \in {TaskItem(u) : u \in Task}
      /\ deferred' = Append(deferred, TaskItem(t))
      /\ pc = "handle" /\ cur = TaskItem(t) /\ pc' = "pop"
      /\ UNCHANGED <<queue, client, answer, slot_task, slot_state, releasing>>
  BY DEF Handling, Main, Defer, hvars, slotvars, AInv, Inv, TypeOK
<1>2. /\ \A u \in Task : Within(deferred', u) <=> Within(deferred, u) \/ TaskItem(t) = TaskItem(u)
      /\ Once(deferred) /\ (\A u \in Task : TaskItem(t) = TaskItem(u) => ~Within(deferred, u))
            => Once(deferred')
  BY <1>1, OnceAppend
<1>3. \A u \in Task : /\ Parked(u) <=> Within(deferred, u)
                      /\ Parked(u)' <=> Within(deferred', u)
                      /\ Queued(u)' <=> Queued(u)
                      /\ ~InHand(u)'
                      /\ InHand(u) <=> u = t
  BY <1>1, ItemsDiffer DEF Queued, Parked, InHand, Within
<1>4. Single'
  BY <1>1, <1>2, <1>3, ItemsDiffer DEF AInv, Apart, Single, Once
<1>5. \A u \in Task : Waits(u)' => Waits(u)
  BY <1>2, <1>3, ItemsDiffer DEF Waits
<1> QED
  BY <1>1, <1>4, <1>5, Shuffle

LEMMA StopApart ==
    ASSUME AInv, NEW r \in Request, Stop(r)
    PROVE  Apart'
<1> DEFINE M == Members(r)
<1>1. PICK c \in SetToSeqs(M) : queue' = [i \in DOMAIN c |-> CancelItem(c[i])] \o Cleanup(queue, M)
  BY DEF Stop
<1> DEFINE new == [i \in DOMAIN c |-> CancelItem(c[i])]
           old == Cleanup(queue, M)
<1>2. c \in Seq(Task)
  BY OrderingType DEF Members
<1>3. new \in Seq(Items(Task)) /\ Once(new) /\ \A t \in Task : ~Within(new, t)
  BY <1>2, ItemsOf, NoneCancelled
<1>4. queue \in Seq(Items(Task)) /\ deferred \in Seq({TaskItem(t) : t \in Task})
  BY DEF AInv, Inv, TypeOK
<1>5. /\ old \in Seq(Items(Task)) /\ (Once(queue) => Once(old))
      /\ \A t \in Task : Within(old, t) => Within(queue, t)
  BY <1>4, CleanupType, OnceCleanup
<1>6. /\ Once(deferred) => Once(Cleanup(deferred, M))
      /\ \A t \in Task : Within(Cleanup(deferred, M), t) => Within(deferred, t)
  BY <1>4, OnceCleanup
<1>7. /\ queue' = new \o old /\ deferred' = Cleanup(deferred, M)
      /\ UNCHANGED <<answer, pc, cur, slot_state, slot_task, releasing>>
      /\ client' = [client EXCEPT ![r] = "stopped"]
  BY <1>1 DEF Stop, slotvars
<1> HIDE DEF new, old, M
<1>8. /\ \A t \in Task : Within(new \o old, t) <=> Within(new, t) \/ Within(old, t)
      /\ Once(new) /\ Once(old) /\ (\A t \in Task : ~(Within(new, t) /\ Within(old, t)))
            => Once(new \o old)
  BY <1>3, <1>5, OnceConcat
<1>9. \A t \in Task : /\ Queued(t) <=> Within(queue, t)
                      /\ Queued(t)' <=> Within(queue', t)
                      /\ Parked(t) <=> Within(deferred, t)
                      /\ Parked(t)' <=> Within(deferred', t)
                      /\ InHand(t)' <=> InHand(t)
  BY <1>7 DEF Queued, Parked, InHand, Within
<1>10. \A t \in Task : (Queued(t)' => Queued(t)) /\ (Parked(t)' => Parked(t))
  BY <1>3, <1>5, <1>6, <1>7, <1>8, <1>9
<1>11. Once(queue') /\ Once(deferred')
  BY <1>3, <1>5, <1>6, <1>7, <1>8 DEF AInv, Apart, Single
<1>12. Single'
  BY <1>9, <1>10, <1>11 DEF AInv, Apart, Single, Once
<1>13. \A t \in Task : client'[ReqOf[t]] = "new" => client[ReqOf[t]] = "new"
  BY <1>7, TaskAssumption DEF TaskAssumption, AInv, Inv, TypeOK
<1> QED
  BY <1>7, <1>9, <1>10, <1>12, <1>13, Shuffle DEF Waits

----------------------------------------------------------------------------
(* Steps that start or answer something *)

\* The family of a task belongs to its request; families of two roots have
\* nothing in common.
LEMMA Families ==
    \A t \in Task :
        /\ Family(t) \subseteq Task /\ t \in Family(t)
        /\ \A u \in Family(t) : ReqOf[u] = ReqOf[t]
        /\ \A u \in Task : ParentOf[t] = NoTask /\ ParentOf[u] = NoTask /\ u # t =>
              Family(t) \cap Family(u) = {}
BY TaskAssumption, ParentAssumption DEF TaskAssumption, ParentAssumption, Family, Kids

LEMMA PostApart ==
    ASSUME AInv, NEW r \in Request, Post(r)
    PROVE  Apart'
<1> DEFINE R == Roots(r)
<1>1. PICK q \in SetToSeqs(R) : LET new == [i \in DOMAIN q |-> TaskItem(q[i])]
            IN queue' = IF \E t \in Members(r) : Kind[t] = "metrics"
                        THEN new \o queue ELSE queue \o new
  BY DEF Post
<1> DEFINE new == [i \in DOMAIN q |-> TaskItem(q[i])]
<1>2. R \in SUBSET Task /\ q \in Seq(Task)
  BY OrderingType DEF Roots, Members
<1>3. new \in Seq(Items(Task)) /\ Once(new) /\ \A t \in Task : Within(new, t) => t \in R
  BY <1>2, ItemsOf, OncePosted
<1>4. queue \in Seq(Items(Task))
  BY DEF AInv, Inv, TypeOK
<1>5. queue' \in {new \o queue, queue \o new}
  BY <1>1
<1>6. /\ client[r] = "new" /\ client' = [client EXCEPT ![r] = "waiting"]
      /\ UNCHANGED <<deferred, answer, pc, cur, slot_state, slot_task, releasing>>
  BY DEF Post, slotvars
<1>7. \A t \in R : t \in Members(r) /\ ParentOf[t] = NoTask
  BY DEF Roots
<1> HIDE DEF new, R
<1>8. \A t \in R : client[ReqOf[t]] = "new" /\ ~Waits(t)
  BY <1>2, <1>6, <1>7 DEF Members, AInv, Apart, NotPosted
<1>9. \A t \in Task : ~(Within(new, t) /\ Within(queue, t))
  BY <1>3, <1>8 DEF Waits, Queued, Within
<1>10. /\ \A t \in Task : Within(queue', t) <=> Within(new, t) \/ Within(queue, t)
       /\ Once(queue')
  <2>1. Once(queue)
    BY DEF AInv, Apart, Single
  <2>2. CASE queue' = new \o queue
    BY <1>3, <1>4, <1>9, <2>1, <2>2, OnceConcat
  <2>3. CASE queue' = queue \o new
    BY <1>3, <1>4, <1>9, <2>1, <2>3, OnceConcat
  <2> QED
    BY <1>5, <2>2, <2>3
<1>11. \A t \in Task : /\ Queued(t) <=> Within(queue, t)
                       /\ Queued(t)' <=> Within(queue', t)
                       /\ Parked(t)' <=> Parked(t)
                       /\ InHand(t)' <=> InHand(t)
  BY <1>6 DEF Queued, Parked, InHand, Within
<1>12. \A t \in Task : Waits(t)' => Waits(t) \/ t \in R
  BY <1>3, <1>10, <1>11 DEF Waits
<1>13. Single'
  BY <1>3, <1>6, <1>8, <1>10, <1>11 DEF AInv, Apart, Single, Once, Waits
<1>14. /\ \A T : Holding(T)' = Holding(T)
       /\ \A T : Untouched(T)' <=> Untouched(T)
  BY <1>6 DEF Holding, Untouched
<1>15. \A t \in R : Untouched(Family(t))
  <2>1. ASSUME NEW t \in R, NEW u \in Family(t) PROVE Untouched({u})
    <3>1. u \in Task /\ ReqOf[u] = ReqOf[t]
      BY <1>2, Families
    <3> QED
      BY <1>8, <3>1 DEF AInv, Apart, NotPosted
  <2> QED
    BY <2>1 DEF Untouched
<1>16. WaitingRoots'
  BY <1>7, <1>12, <1>14, <1>15 DEF AInv, Apart, WaitingRoots, Family, Kids
<1>17. \A t \in Task : client'[ReqOf[t]] = "new" => client[ReqOf[t]] = "new" /\ t \notin R
  BY <1>6, <1>7, TaskAssumption DEF TaskAssumption, Members, AInv, Inv, TypeOK
<1>18. NotPosted'
  BY <1>12, <1>14, <1>17 DEF AInv, Apart, NotPosted
<1>19. OneSlotEach' /\ Ended'
  BY <1>6, <1>14 DEF AInv, Apart, OneSlotEach, Ended
<1> QED
  BY <1>13, <1>16, <1>18, <1>19 DEF Apart

LEMMA ReleaseApart ==
    ASSUME AInv, Release
    PROVE  Apart'
<1>1. /\ releasing \in Slot /\ releasing' = NoSlot
      /\ slot_state' = [slot_state EXCEPT ![releasing] = "idle"]
      /\ slot_task' = [slot_task EXCEPT ![releasing] = NoTask]
      /\ UNCHANGED <<client, answer, pc, cur>>
  BY DEF Release, hvars, AInv, Inv, TypeOK
<1>2. Single' /\ \A t \in Task : Waits(t)' => Waits(t)
  <2>1. CASE deferred = <<>>
    <3>1. UNCHANGED <<queue, deferred, pc, cur>>
      BY <1>1, <2>1 DEF Release, qvars
    <3>2. \A t \in Task : /\ InHand(t)' <=> InHand(t)
                          /\ Queued(t)' <=> Queued(t)
                          /\ Parked(t)' <=> Parked(t)
      BY <3>1 DEF InHand, Queued, Parked
    <3> QED
      BY <3>1, <3>2 DEF AInv, Apart, Single, Once, Waits
  <2>2. CASE deferred # <<>>
    <3>1. PICK i \in DOMAIN deferred : queue' = <<deferred[i]>> \o queue
                                       /\ deferred' = RemoveAt(deferred, i)
      BY <2>2 DEF Release
    <3>2. /\ deferred \in Seq({TaskItem(t) : t \in Task}) /\ queue \in Seq(Items(Task))
          /\ i \in 1 .. Len(deferred) /\ DOMAIN deferred = 1 .. Len(deferred)
      BY <3>1 DEF AInv, Inv, TypeOK
    <3>3. PICK u \in Task : deferred[i] = TaskItem(u)
      BY <3>2
    <3> DEFINE one == <<TaskItem(u)>>
    <3>4. /\ one \in Seq(Items(Task)) /\ Once(one)
          /\ \A t \in Task : Within(one, t) <=> TaskItem(u) = TaskItem(t)
      BY TaskItemType, OnceSingle
    <3>5. queue' = one \o queue
      BY <3>1, <3>3
    <3> HIDE DEF one
    <3>6. /\ \A t \in Task : Within(deferred', t) => Within(deferred, t)
          /\ Once(deferred) => /\ Once(deferred')
                               /\ \A t \in Task : deferred[i] = TaskItem(t) => ~Within(deferred', t)
      BY <3>1, <3>2, OnceRemoveAt
    <3>7. /\ \A t \in Task : Within(queue', t) <=> Within(one, t) \/ Within(queue, t)
          /\ Once(one) /\ Once(queue) /\ (\A t \in Task : ~(Within(one, t) /\ Within(queue, t)))
                => Once(queue')
      BY <3>2, <3>4, <3>5, OnceConcat
    <3>8. \A t \in Task : /\ Queued(t) <=> Within(queue, t)
                          /\ Queued(t)' <=> Within(queue', t)
                          /\ Parked(t) <=> Within(deferred, t)
                          /\ Parked(t)' <=> Within(deferred', t)
                          /\ InHand(t)' <=> InHand(t)
      BY <1>1 DEF Queued, Parked, InHand, Within
    <3>9. \A t \in Task : Within(one, t) <=> t = u
      BY <3>4, ItemsDiffer
    <3>10. Within(deferred, u) /\ Once(deferred) /\ Once(queue)
      BY <3>2, <3>3 DEF Within, AInv, Apart, Single
    <3>11. Once(queue') /\ Once(deferred') /\ ~Within(deferred', u)
      BY <3>3, <3>4, <3>6, <3>7, <3>8, <3>9, <3>10 DEF AInv, Apart, Single
    <3>12. Single'
      BY <3>6, <3>7, <3>8, <3>9, <3>10, <3>11 DEF AInv, Apart, Single, Once
    <3> QED
      BY <3>6, <3>7, <3>8, <3>9, <3>10, <3>12 DEF Waits
  <2> QED
    BY <2>1, <2>2
<1>3. \A s \in Slot : slot_task'[s] = IF s = releasing THEN NoTask ELSE slot_task[s]
  BY <1>1 DEF AInv, Inv, TypeOK
<1>4. \A t \in Task : Holding({t})' = Holding({t}) \ {releasing}
  BY <1>3, TaskAssumption DEF Holding, TaskAssumption
<1>5. \A t \in Task : Untouched({t}) => Untouched({t})'
  BY <1>1, <1>4 DEF Untouched
<1>6. \A t \in Task : Untouched(Family(t)) => Untouched(Family(t))'
  BY <1>1, <1>4, Families DEF Untouched, Family, Kids
<1>7. WaitingRoots' /\ NotPosted'
  BY <1>1, <1>2, <1>5, <1>6 DEF AInv, Apart, WaitingRoots, NotPosted
<1>8. OneSlotEach'
  BY <1>1, <1>3 DEF AInv, Apart, OneSlotEach, Inv, TypeOK
<1>9. Ended'
  BY <1>1, <1>4 DEF AInv, Apart, Ended
<1> QED
  BY <1>2, <1>7, <1>8, <1>9 DEF Apart

\* A family in the main thread's hands is launched or answered, wholly or in
\* part, and what is not is dropped.
LEMMA Served ==
    ASSUME AInv, NEW t \in Task, InHand(t), pc' # "handle", UNCHANGED <<queue, deferred, client>>,
           releasing = NoSlot, releasing' = NoSlot,
           \A s \in Slot : \/ /\ slot_task'[s] = slot_task[s]
                              /\ slot_state'[s] = "idle" => slot_state[s] = "idle"
                           \/ slot_task'[s] \in Family(t) /\ slot_state'[s] # "idle",
           \A s, o \in Slot : slot_task'[s] = slot_task'[o] /\ slot_task'[s] \in Family(t) => s = o,
           \A u \in Task : \/ answer'[u] = answer[u]
                           \/ u \in Family(t) /\ Len(answer'[u]) = 1 /\ Holding({u})' = {}
    PROVE  Apart'
<1> DEFINE F == Family(t)
<1>1. F \subseteq Task /\ NoTask \notin F /\ ParentOf[t] = NoTask /\ Untouched(F)
  BY Families, TaskAssumption DEF TaskAssumption, AInv, Apart, WaitingRoots, Waits
<1>2. \A u \in Task : /\ ~InHand(u)'
                      /\ Queued(u)' <=> Queued(u)
                      /\ Parked(u)' <=> Parked(u)
  BY DEF InHand, Queued, Parked
<1>3. Single' /\ ~Waits(t)' /\ \A u \in Task : Waits(u)' => Waits(u)
  BY <1>2 DEF AInv, Apart, Single, Once, Waits
<1>4. \A u \in Task \ F : answer'[u] = answer[u] /\ Holding({u})' \subseteq Holding({u})
  BY DEF Holding
<1>5. WaitingRoots'
  <2>1. ASSUME NEW u \in Task, Waits(u)' PROVE ParentOf[u] = NoTask /\ Untouched(Family(u))'
    <3>1. u # t /\ ParentOf[u] = NoTask /\ Untouched(Family(u))
      BY <1>3, <2>1 DEF AInv, Apart, WaitingRoots
    <3>2. F \cap Family(u) = {} /\ Family(u) \subseteq Task
      BY <1>1, <3>1, Families
    <3>3. Untouched(Family(u))'
      BY <1>4, <3>1, <3>2 DEF Untouched, Family, Kids
    <3> QED
      BY <3>1, <3>3
  <2> QED
    BY <2>1 DEF WaitingRoots
<1>6. NotPosted'
  <2>1. ASSUME NEW u \in Task, client'[ReqOf[u]] = "new" PROVE ~Waits(u)' /\ Untouched({u})'
    <3>1. ~Waits(u) /\ Untouched({u})
      BY <2>1 DEF AInv, Apart, NotPosted
    <3>2. u \notin F
      <4>1. client[ReqOf[t]] # "new"
        BY DEF AInv, Apart, NotPosted, Waits
      <4> QED
        BY <2>1, <4>1, Families
    <3> QED
      BY <1>3, <1>4, <3>1, <3>2 DEF Untouched
  <2> QED
    BY <2>1 DEF NotPosted
<1>7. \A s \in Slot : slot_task[s] \notin F
  BY <1>1 DEF Untouched, Holding
<1>8. OneSlotEach'
  <2>1. ASSUME NEW s \in Slot, NEW o \in Slot, slot_task'[s] = slot_task'[o], slot_task'[s] # NoTask
        PROVE  s = o
    <3>1. CASE slot_task'[s] \in F
      BY <2>1, <3>1
    <3>2. CASE slot_task'[s] \notin F
      <4>1. slot_task'[s] = slot_task[s] /\ slot_task'[o] = slot_task[o]
        BY <2>1, <3>2
      <4> QED
        BY <2>1, <4>1 DEF AInv, Apart, OneSlotEach
    <3> QED
      BY <3>1, <3>2
  <2>2. \A s \in Slot : slot_state'[s] = "idle" => slot_task'[s] = NoTask
    BY DEF AInv, Apart, OneSlotEach
  <2> QED
    BY <2>1, <2>2 DEF OneSlotEach
<1>9. Ended'
  <2>1. ASSUME NEW u \in Task, answer'[u] # <<>>
        PROVE  Len(answer'[u]) = 1 /\ Holding({u})' = {}
    <3>1. CASE u \notin F
      BY <1>4, <2>1, <3>1, Releasing DEF AInv, Apart, Ended
    <3>2. CASE u \in F
      BY <1>1, <2>1, <3>2 DEF Untouched
    <3> QED
      BY <3>1, <3>2
  <2> QED
    BY <2>1 DEF Ended
<1> QED
  BY <1>3, <1>5, <1>6, <1>8, <1>9 DEF Apart

\* What a placement is: idle slots, a different member of the family for each.
LEMMA PlacementOnce ==
    ASSUME NEW t \in Task, NEW s \in Eligible(t), NEW g \in Placements(s, t)
    PROVE  /\ DOMAIN g \subseteq Idle /\ \A d \in DOMAIN g : g[d] \in Family(t)
           /\ \A d, o \in DOMAIN g : g[d] = g[o] => d = o
<1>1. PICK D \in SUBSET (Idle \ {s}) : g \in Bijection(D \cup {s}, Family(t))
  BY DEF Placements
<1>2. s \in Idle
  BY DEF Eligible
<1> QED
  BY <1>1, <1>2 DEF Bijection, Injection, IsInjective

LEMMA LaunchApart ==
    ASSUME AInv, NEW t \in Task, NEW s \in Slot, Launch(t, s)
    PROVE  Apart'
<1>1. PICK g \in Placements(s, t) : Launched(g)
  BY DEF Launch
<1>2. /\ DOMAIN g \subseteq Idle /\ \A d \in DOMAIN g : g[d] \in Family(t)
      /\ \A d, o \in DOMAIN g : g[d] = g[o] => d = o
  BY PlacementOnce DEF Launch
<1>3. /\ InHand(t) /\ pc' # "handle" /\ releasing = NoSlot /\ releasing' = NoSlot
      /\ UNCHANGED <<queue, deferred, client, answer>>
  BY DEF Launch, Handling, Main, InHand, qvars, hvars
<1>4. \A d \in Slot : \/ d \in DOMAIN g /\ slot_task'[d] = g[d] /\ slot_state'[d] # "idle"
                      \/ /\ d \notin DOMAIN g /\ slot_task'[d] = slot_task[d]
                         /\ slot_state'[d] = slot_state[d]
  BY <1>1 DEF Launched
<1>5. \A d \in Slot : slot_task[d] \notin Family(t)
  BY <1>3 DEF AInv, Apart, WaitingRoots, Waits, Untouched, Holding
<1> QED
  BY <1>2, <1>3, <1>4, <1>5, Served

LEMMA LaunchFailApart ==
    ASSUME AInv, NEW t \in Task, NEW s \in Slot, LaunchFail(t, s)
    PROVE  Apart'
<1>1. PICK g \in Placements(s, t) : \E b \in DOMAIN g :
         LET before == {d \in DOMAIN g \ {s} : b = s \/ d < b}
         IN /\ Launched([d \in before |-> g[d]])
            /\ Send(g[b], "error")
  BY DEF LaunchFail
<1>2. PICK b \in DOMAIN g :
         LET before == {d \in DOMAIN g \ {s} : b = s \/ d < b}
         IN /\ Launched([d \in before |-> g[d]])
            /\ Send(g[b], "error")
  BY <1>1
<1> DEFINE before == {d \in DOMAIN g \ {s} : b = s \/ d < b}
           h == [d \in before |-> g[d]]
<1>3. /\ DOMAIN g \subseteq Idle /\ \A d \in DOMAIN g : g[d] \in Family(t)
      /\ \A d, o \in DOMAIN g : g[d] = g[o] => d = o
      /\ Idle \subseteq Slot
  BY PlacementOnce DEF LaunchFail, Idle, InState
<1>4. b \notin before /\ before \subseteq DOMAIN g
  <2>1. b \in Nat
    BY <1>3, SlotType
  <2>2. ~(b < b)
    BY <2>1
  <2> QED
    BY <2>2
<1>5. Launched(h) /\ Send(g[b], "error")
  BY <1>2
<1>6. DOMAIN h = before /\ \A d \in before : h[d] = g[d]
  OBVIOUS
<1> HIDE DEF before, h
<1>7. /\ InHand(t) /\ pc' # "handle" /\ releasing = NoSlot /\ releasing' = NoSlot
      /\ UNCHANGED <<queue, deferred, client>>
  BY DEF LaunchFail, Handling, Main, InHand, qvars
<1>8. \A d \in Slot : \/ d \in before /\ slot_task'[d] = g[d] /\ slot_state'[d] # "idle"
                      \/ /\ d \notin before /\ slot_task'[d] = slot_task[d]
                         /\ slot_state'[d] = slot_state[d]
  BY <1>5, <1>6 DEF Launched
<1>9. \A d \in Slot : slot_task[d] \notin Family(t)
  BY <1>7 DEF AInv, Apart, WaitingRoots, Waits, Untouched, Holding
<1>10. g[b] \in Family(t) /\ g[b] \in Task
  BY <1>3, Families
<1>11. Holding({g[b]})' = {}
  BY <1>3, <1>4, <1>8, <1>9, <1>10 DEF Holding
<1>12. \A u \in Task : answer'[u] = answer[u] \/ (u = g[b] /\ Len(answer'[u]) = 1)
  <2>1. answer[g[b]] = <<>> /\ answer \in [Task -> Seq({"final", "error"})]
    BY <1>7, <1>10 DEF AInv, Apart, WaitingRoots, Waits, Untouched, Inv, TypeOK
  <2>2. answer' = [answer EXCEPT ![g[b]] = <<"error">>]
    BY <1>5, <2>1 DEF Send
  <2> QED
    BY <2>1, <2>2
<1>13. \A d \in Slot : \/ /\ slot_task'[d] = slot_task[d]
                          /\ slot_state'[d] = "idle" => slot_state[d] = "idle"
                       \/ slot_task'[d] \in Family(t) /\ slot_state'[d] # "idle"
  BY <1>3, <1>4, <1>8
<1>14. \A d, o \in Slot : slot_task'[d] = slot_task'[o] /\ slot_task'[d] \in Family(t) => d = o
  BY <1>3, <1>4, <1>8, <1>9
<1> QED
  BY <1>7, <1>10, <1>11, <1>12, <1>13, <1>14, Served

LEMMA HandleActionApart ==
    ASSUME AInv, NEW t \in Task, HandleAction(t)
    PROVE  Apart'
<1>1. /\ InHand(t) /\ pc' # "handle" /\ releasing = NoSlot /\ releasing' = NoSlot
      /\ UNCHANGED <<queue, deferred, client, slot_state, slot_task>>
  BY DEF HandleAction, Handling, Main, InHand, qvars, slotvars
<1>2. t \in Family(t) /\ Untouched(Family(t))
  BY <1>1, Families DEF AInv, Apart, WaitingRoots, Waits
<1>3. answer[t] = <<>> /\ answer \in [Task -> Seq({"final", "error"})] /\ Holding({t})' = {}
  BY <1>1, <1>2 DEF Untouched, Holding, AInv, Inv, TypeOK
<1>4. PICK res \in {"final", "error"} : Send(t, res)
  BY DEF HandleAction
<1>5. answer' = [answer EXCEPT ![t] = <<res>>]
  BY <1>3, <1>4 DEF Send
<1>6. \A u \in Task : answer'[u] = answer[u] \/ (u = t /\ Len(answer'[u]) = 1)
  BY <1>3, <1>5
<1>7. \A s \in Slot : slot_task[s] \notin Family(t)
  BY <1>2 DEF Untouched, Holding
<1> QED
  BY <1>1, <1>2, <1>3, <1>6, <1>7, Served

\* The task of a slot is answered and the slot is about to be released.
LEMMA SendReleaseApart ==
    ASSUME AInv, NEW s \in Slot, NEW res \in {"final", "error"}, Send(slot_task[s], res),
           releasing = NoSlot, releasing' = s,
           UNCHANGED <<queue, deferred, client, pc, cur, slot_task>>,
           \A o \in Slot : slot_state'[o] = "idle" => slot_state[o] = "idle"
    PROVE  Apart'
<1> DEFINE u == slot_task[s]
<1>1. answer \in [Task -> Seq({"final", "error"})] /\ answer' = [answer EXCEPT ![u] = Append(@, res)]
  BY DEF Send, AInv, Inv, TypeOK
<1>2. CASE u \notin Task
  <2>1. answer' = answer
    BY <1>1, <1>2
  <2> QED
    BY <2>1, Quiet
<1>3. CASE u \in Task
  <2>1. s \in Holding({u})
    BY DEF Holding
  <2>2. answer[u] = <<>>
    BY <1>3, <2>1, Releasing
  <2>3. answer' = [answer EXCEPT ![u] = <<res>>]
    BY <1>1, <2>2
  <2>4. Len(answer'[u]) = 1 /\ \A t \in Task : t # u => answer'[t] = answer[t]
    BY <1>1, <1>3, <2>3
  <2>5. \A T : Holding(T)' = Holding(T)
    BY DEF Holding
  <2>6. \A T \in SUBSET Task : Untouched(T) => Untouched(T)'
    <3>1. \A T : Untouched(T) => u \notin T
      BY <2>1 DEF Untouched
    <3> HIDE DEF u
    <3> QED
      BY <2>4, <2>5, <3>1 DEF Untouched
  <2>7. \A t \in Task : /\ InHand(t)' <=> InHand(t)
                        /\ Queued(t)' <=> Queued(t)
                        /\ Parked(t)' <=> Parked(t)
    BY DEF InHand, Queued, Parked
  <2>8. Single' /\ \A t \in Task : Waits(t)' <=> Waits(t)
    BY <2>7 DEF AInv, Apart, Single, Once, Waits
  <2>9. WaitingRoots'
    BY <2>6, <2>8, Families DEF AInv, Apart, WaitingRoots, Family, Kids
  <2>10. NotPosted'
    BY <2>6, <2>8 DEF AInv, Apart, NotPosted
  <2>11. OneSlotEach'
    BY DEF AInv, Apart, OneSlotEach
  <2>12. Holding({u}) \subseteq {s}
    BY <1>3, TaskAssumption DEF TaskAssumption, Holding, AInv, Apart, OneSlotEach
  <2>13. Ended'
    <3>1. ASSUME NEW t \in Task, answer'[t] # <<>>
          PROVE  Len(answer'[t]) = 1 /\ Holding({t})' \subseteq {s}
      <4>1. CASE t = u
        BY <2>4, <2>5, <2>12, <4>1
      <4>2. CASE t # u
        BY <2>4, <2>5, <3>1, <4>2, Releasing DEF AInv, Apart, Ended
      <4> QED
        BY <4>1, <4>2
    <3> QED
      BY <3>1 DEF Ended
  <2> QED
    BY <2>8, <2>9, <2>10, <2>11, <2>13 DEF Apart
<1> QED
  BY <1>2, <1>3

----------------------------------------------------------------------------
(* The invariant *)

LEMMA InitAInv == Init => AInv
<1> SUFFICES ASSUME Init PROVE AInv
  OBVIOUS
<1>1. /\ queue = <<>> /\ deferred = <<>> /\ pc = "pop"
      /\ answer = [t \in Task |-> <<>>] /\ slot_task = [s \in Slot |-> NoTask]
  BY DEF Init
<1>2. DOMAIN queue = {} /\ DOMAIN deferred = {}
  BY <1>1
<1>3. \A t \in Task : ~Queued(t) /\ ~Parked(t) /\ ~InHand(t)
  BY <1>1, <1>2 DEF Queued, Parked, InHand
<1>4. Single /\ WaitingRoots
  BY <1>2, <1>3 DEF Single, Once, WaitingRoots, Waits
<1>5. \A t \in Task : Holding({t}) = {} /\ answer[t] = <<>>
  BY <1>1, TaskAssumption DEF TaskAssumption, Holding
<1>6. NotPosted /\ OneSlotEach /\ Ended
  BY <1>1, <1>3, <1>5 DEF NotPosted, OneSlotEach, Ended, Waits, Untouched
<1> QED
  BY <1>4, <1>6, InitInv DEF AInv, Apart

\* A slot that is set to a state other than idle.
LEMMA StateSet ==
    ASSUME AInv, NEW s \in Slot, NEW st, st # "idle", slot_state' = [slot_state EXCEPT ![s] = st]
    PROVE  \A o \in Slot : slot_state'[o] = "idle" => slot_state[o] = "idle"
BY DEF AInv, Inv, TypeOK

LEMMA UpdateSlotApart ==
    ASSUME AInv, NEW s \in Slot, UpdateSlot(s)
    PROVE  Apart'
<1>1. CASE RollbackSlot(s)
  BY <1>1, Quiet DEF RollbackSlot, Main, qvars, hvars, slotvars
<1>2. CASE ShiftFail(s)
  BY <1>2, SendReleaseApart DEF ShiftFail, Main, qvars, slotvars
<1>3. CASE PromptEmpty(s)
  BY <1>3, SendReleaseApart DEF PromptEmpty, AtPrompt, Main, qvars, slotvars
<1>4. CASE PromptError(s)
  BY <1>4, SendReleaseApart DEF PromptError, AtPrompt, Main, qvars, slotvars
<1>5. CASE PromptNoFit(s)
  BY <1>5, StateSet, Quiet DEF PromptNoFit, qvars, hvars
<1>6. CASE PromptPart(s)
  BY <1>6, StateSet, Quiet DEF PromptPart, PromptAdd, qvars, hvars
<1>7. CASE PromptAll(s)
  BY <1>7, StateSet, Quiet DEF PromptAll, PromptAdd, qvars, hvars
<1>8. CASE SampleMore(s)
  BY <1>8, StateSet, Quiet DEF SampleMore, qvars, hvars
<1>9. CASE SampleLast(s)
  BY <1>9, SendReleaseApart DEF SampleLast, Sampled, Main, qvars, slotvars
<1>10. CASE FailSlot(s)
  BY <1>10, SendReleaseApart DEF FailSlot, Main, qvars, slotvars
<1> QED
  BY <1>1, <1>2, <1>3, <1>4, <1>5, <1>6, <1>7, <1>8, <1>9, <1>10 DEF UpdateSlot

LEMMA PostNextApart ==
    ASSUME AInv, PostNext
    PROVE  Apart'
<1>1. /\ queue \in Seq(Items(Task)) /\ queue' = Append(queue, NextItem) /\ pc' = "shift"
      /\ pc # "handle" /\ UNCHANGED <<deferred, client, answer, slot_task, slot_state, releasing>>
  BY DEF PostNext, Main, hvars, slotvars, AInv, Inv, TypeOK
<1>2. /\ \A t \in Task : Within(queue', t) <=> Within(queue, t) \/ NextItem = TaskItem(t)
      /\ Once(queue) /\ (\A t \in Task : NextItem = TaskItem(t) => ~Within(queue, t))
            => Once(queue')
  BY <1>1, NextItemType, OnceAppend
<1>3. \A t \in Task : /\ Queued(t) <=> Within(queue, t)
                      /\ Queued(t)' <=> Within(queue', t)
                      /\ Parked(t)' <=> Parked(t)
                      /\ ~InHand(t)'
  BY <1>1 DEF Queued, Parked, InHand, Within
<1>4. Single'
  BY <1>1, <1>2, <1>3, ItemsDiffer DEF AInv, Apart, Single, Once
<1>5. \A t \in Task : Waits(t)' => Waits(t)
  BY <1>2, <1>3, ItemsDiffer DEF Waits
<1> QED
  BY <1>1, <1>4, <1>5, Shuffle

LEMMA UpdateApart ==
    ASSUME AInv, Update
    PROVE  Apart'
<1>1. CASE RollbackEnd
  BY <1>1, Quiet DEF RollbackEnd, qvars, hvars, slotvars
<1>2. CASE HandleNext
  BY <1>2, Quiet DEF HandleNext, qvars, hvars, slotvars
<1>3. CASE PostNext
  BY <1>3, PostNextApart
<1>4. CASE Collect
  BY <1>4, Quiet DEF Collect, qvars, hvars, slotvars
<1>5. CASE PromptEnd
  <2>1. pc' # "handle"
    BY <1>5 DEF PromptEnd
  <2> QED
    BY <1>5, <2>1, Quiet DEF PromptEnd, qvars, hvars, slotvars
<1>6. CASE Decode
  <2>1. PICK C \in SUBSET (pending \cup Activated) : DecodeChunk(C)
    BY <1>6 DEF Decode
  <2>2. \A o \in Slot : slot_state'[o] = "idle" => slot_state[o] = "idle"
    BY <2>1 DEF DecodeChunk
  <2> QED
    BY <2>1, <2>2, Quiet DEF DecodeChunk, qvars, hvars
<1>7. CASE SampleEnd
  BY <1>7, Quiet DEF SampleEnd, qvars, hvars, slotvars
<1>8. CASE DecodeFatal
  BY <1>8, Quiet DEF DecodeFatal, qvars, hvars, slotvars
<1>9. CASE FailEnd
  BY <1>9, Quiet DEF FailEnd, qvars, hvars, slotvars
<1> QED
  BY <1>1, <1>2, <1>3, <1>4, <1>5, <1>6, <1>7, <1>8, <1>9 DEF Update

LEMMA StepAInv == AInv /\ [Next]_vars => AInv'
<1> SUFFICES ASSUME AInv, [Next]_vars PROVE Apart'
  BY StepInv DEF AInv
<1>1. ASSUME NEW r \in Request, Client(r) PROVE Apart'
  <2>1. CASE ClientDone(r)
    <3>1. \A t \in Task : client'[ReqOf[t]] = "new" => client[ReqOf[t]] = "new"
      BY <2>1, TaskAssumption DEF ClientDone, TaskAssumption, AInv, Inv, TypeOK
    <3>2. UNCHANGED <<queue, deferred, answer, pc, cur, slot_state, slot_task, releasing>>
      BY <2>1 DEF ClientDone, qvars, slotvars
    <3>3. \A t \in Task : /\ InHand(t)' <=> InHand(t)
                          /\ Queued(t)' <=> Queued(t)
                          /\ Parked(t)' <=> Parked(t)
      BY <3>2 DEF InHand, Queued, Parked
    <3>4. Single' /\ \A t \in Task : Waits(t)' => Waits(t)
      BY <3>2, <3>3 DEF AInv, Apart, Single, Once, Waits
    <3> QED
      BY <3>1, <3>2, <3>4, Shuffle
  <2> QED
    BY <1>1, <2>1, PostApart, StopApart DEF Client, ClientLeaves, ClientFails
<1>2. CASE Loop
  <2>1. CASE Drained
    <3>1. pc' # "handle"
      BY <2>1 DEF Drained
    <3> QED
      BY <2>1, <3>1, Quiet DEF Drained, qvars, hvars, slotvars
  <2>2. CASE Wake
    BY <2>2, Quiet DEF Wake, qvars, hvars, slotvars
  <2>3. CASE Idling
    BY <2>3, Quiet DEF Idling, vars
  <2> QED
    BY <1>2, <2>1, <2>2, <2>3, PopApart, ReleaseApart DEF Loop
<1>3. ASSUME NEW t \in Task, Process(t) PROVE Apart'
  <2>1. CASE HandleCancel(t)
    BY <2>1, Quiet DEF HandleCancel, Main, qvars, hvars, slotvars
  <2>2. CASE DeferInference(t) \/ DeferAction(t)
    BY <2>2, DeferApart DEF DeferInference, DeferAction
  <2> QED
    BY <1>3, <2>1, <2>2, LaunchApart, LaunchFailApart, HandleActionApart DEF Process
<1>4. ASSUME NEW s \in Slot, UpdateSlot(s) PROVE Apart'
  BY <1>4, UpdateSlotApart
<1>5. CASE Update
  BY <1>5, UpdateApart
<1>6. CASE UNCHANGED vars
  BY <1>6, Quiet DEF vars
<1> QED
  BY <1>1, <1>2, <1>3, <1>4, <1>5, <1>6 DEF Next

LEMMA Inductive == Spec => []AInv
<1> QED
  BY InitAInv, StepAInv, PTL DEF Spec

----------------------------------------------------------------------------
(* Theorems *)

\* A set whose elements are all the same.
LEMMA AtMostOne ==
    ASSUME NEW S, \A x, y \in S : x = y
    PROVE  Cardinality(S) <= 1
<1>1. CASE S = {}
  BY <1>1, FS_EmptySet
<1>2. CASE S # {}
  <2>1. PICK x \in S : TRUE
    BY <1>2
  <2>2. S = {x}
    BY <2>1
  <2>3. Cardinality({x}) = 1
    BY FS_Singleton
  <2> QED
    BY <2>2, <2>3
<1> QED
  BY <1>1, <1>2

\* A task is never duplicated, for any number of slots, tasks and requests: it
\* is in one queue, in the hands of the main thread or in one slot (OnePlace).
THEOREM NoDuplicate == Spec => []OnePlace
<1>1. AInv => OnePlace
  <2> SUFFICES ASSUME AInv, NEW t \in Task PROVE Cardinality(Places(t)) <= 1
    BY DEF OnePlace
  <2> DEFINE Q == {<<"queue", i>> : i \in {j \in DOMAIN queue : queue[j] = TaskItem(t)}}
             D == {<<"deferred", i>> : i \in {j \in DOMAIN deferred : deferred[j] = TaskItem(t)}}
             H == {<<"hand", 0>> : i \in {j \in {0} : InHand(t)}}
             S == {<<"slot", s>> : s \in Holding({t})}
  <2>1. Places(t) = Q \cup D \cup H \cup S
    BY DEF Places
  <2>2. /\ Q # {} => Queued(t)
        /\ D # {} => Parked(t)
        /\ H # {} => InHand(t)
        /\ S # {} => Holding({t}) # {}
    BY DEF Queued, Parked
  <2>3. /\ \A x, y \in Q : x = y
        /\ \A x, y \in D : x = y
        /\ \A x, y \in H : x = y
    BY DEF AInv, Apart, Single, Once
  <2>4. \A x, y \in S : x = y
    BY TaskAssumption DEF TaskAssumption, Holding, AInv, Apart, OneSlotEach
  <2>5. Waits(t) => Holding({t}) = {}
    BY Families DEF AInv, Apart, WaitingRoots, Untouched
  <2>6. ~(Queued(t) /\ Parked(t)) /\ (InHand(t) => ~Queued(t) /\ ~Parked(t))
    BY DEF AInv, Apart, Single
  <2> HIDE DEF Q, D, H, S
  <2>7. \A x, y \in Places(t) : x = y
    BY <2>1, <2>2, <2>3, <2>4, <2>5, <2>6 DEF Waits
  <2> QED
    BY <2>7, AtMostOne
<1> QED
  BY <1>1, Inductive, PTL

\* A task gets at most one result that ends it, and once it has it no queue
\* holds it any more, for any number of slots, tasks and requests
\* (AnsweredOnce).
THEOREM OneAnswer == Spec => []AnsweredOnce
<1>1. AInv => AnsweredOnce
  BY Families DEF AInv, Apart, WaitingRoots, Untouched, Ended, Waits, AnsweredOnce
<1> QED
  BY <1>1, Inductive, PTL

----------------------------------------------------------------------------
(* Clients that wait: whatever takes a task away from one has a reason *)

Has(q, x) == \E i \in DOMAIN q : q[i] = x

\* Only the tasks of a client that stopped are cancelled.
CancelsStopped ==
    \A t \in Task : Has(queue, CancelItem(t)) \/ (pc = "handle" /\ cur = CancelItem(t)) =>
        client[ReqOf[t]] = "stopped"

\* A launch is undone only after an error was sent for the family.
RollbackFailed ==
    pc = "rollback" => \E t \in Task : cur = TaskItem(t) /\ Failed(ReqOf[t])

\* Nobody waits for the task of a slot that is about to be released, or the
\* client has its result or will be told that its request failed.
ReleasedEnded ==
    \A t \in Task : releasing \in Holding({t}) =>
        answer[t] # <<>> \/ Failed(ReqOf[t]) \/ client[ReqOf[t]] = "stopped"

Reasons == CancelsStopped /\ RollbackFailed /\ ReleasedEnded

WInv == AInv /\ Reasons /\ NotForgotten

----------------------------------------------------------------------------
(* What queues hold *)

LEMMA HasConcat ==
    ASSUME NEW S, NEW p \in Seq(S), NEW q \in Seq(S), NEW x
    PROVE  Has(p \o q, x) <=> Has(p, x) \/ Has(q, x)
<1>1. /\ DOMAIN (p \o q) = 1 .. Len(p) + Len(q) /\ Len(p) \in Nat /\ Len(q) \in Nat
      /\ DOMAIN p = 1 .. Len(p) /\ DOMAIN q = 1 .. Len(q)
      /\ \A i \in 1 .. Len(p) : (p \o q)[i] = p[i]
      /\ \A i \in 1 .. Len(p) + Len(q) : i > Len(p) => (p \o q)[i] = q[i - Len(p)]
  OBVIOUS
<1>2. \A i \in 1 .. Len(p) + Len(q) : i > Len(p) => i - Len(p) \in 1 .. Len(q)
  BY <1>1
<1>3. \A i \in 1 .. Len(q) :
          i + Len(p) \in 1 .. Len(p) + Len(q) /\ (p \o q)[i + Len(p)] = q[i]
  BY <1>1
<1>4. ASSUME NEW i \in DOMAIN (p \o q), (p \o q)[i] = x
      PROVE  Has(p, x) \/ Has(q, x)
  BY <1>1, <1>2, <1>4 DEF Has
<1>5. ASSUME NEW i \in DOMAIN p, p[i] = x
      PROVE  Has(p \o q, x)
  BY <1>1, <1>5 DEF Has
<1>6. ASSUME NEW i \in DOMAIN q, q[i] = x
      PROVE  Has(p \o q, x)
  BY <1>1, <1>3, <1>6 DEF Has
<1> QED
  BY <1>4, <1>5, <1>6 DEF Has

LEMMA HasSingle ==
    ASSUME NEW S, NEW y \in S, NEW x
    PROVE  <<y>> \in Seq(S) /\ (Has(<<y>>, x) <=> y = x)
<1>1. <<y>> \in Seq(S) /\ DOMAIN <<y>> = {1} /\ <<y>>[1] = y
  OBVIOUS
<1> QED
  BY <1>1 DEF Has

LEMMA HasAppend ==
    ASSUME NEW S, NEW q \in Seq(S), NEW y \in S, NEW x
    PROVE  Has(Append(q, y), x) <=> Has(q, x) \/ y = x
<1> DEFINE p == <<y>>
<1>1. Append(q, y) = q \o p /\ p \in Seq(S) /\ (Has(p, x) <=> y = x)
  BY HasSingle
<1> HIDE DEF p
<1>2. Has(q \o p, x) <=> Has(q, x) \/ Has(p, x)
  BY <1>1, HasConcat
<1> QED
  BY <1>1, <1>2

LEMMA HasTail ==
    ASSUME NEW S, NEW q \in Seq(S), q # <<>>, NEW x
    PROVE  Has(q, x) <=> Head(q) = x \/ Has(Tail(q), x)
<1>1. /\ Len(q) \in Nat \ {0} /\ DOMAIN q = 1 .. Len(q) /\ Head(q) = q[1]
      /\ DOMAIN Tail(q) = 1 .. Len(q) - 1
      /\ \A i \in 1 .. Len(q) - 1 : Tail(q)[i] = q[i + 1]
  OBVIOUS
<1>2. \A i \in 1 .. Len(q) - 1 : i + 1 \in 1 .. Len(q)
  BY <1>1
<1>3. \A i \in 1 .. Len(q) : i = 1 \/ (i - 1 \in 1 .. Len(q) - 1 /\ Tail(q)[i - 1] = q[i])
  BY <1>1
<1>4. 1 \in 1 .. Len(q)
  BY <1>1
<1> QED
  BY <1>1, <1>2, <1>3, <1>4 DEF Has

\* Removing an item keeps the others.
LEMMA HasRemoveAt ==
    ASSUME NEW S, NEW d \in Seq(S), NEW i \in 1 .. Len(d), NEW x, Has(d, x)
    PROVE  x = d[i] \/ Has(RemoveAt(d, i), x)
<1> DEFINE r == RemoveAt(d, i)
<1>1. /\ Len(d) \in Nat /\ i \in Nat /\ DOMAIN d = 1 .. Len(d) /\ 1 <= i /\ i <= Len(d)
      /\ DOMAIN r = 1 .. Len(d) - 1
      /\ \A k \in 1 .. Len(d) - 1 : r[k] = IF k < i THEN d[k] ELSE d[k + 1]
  BY RemoveAtElements
<1> HIDE DEF r
<1>2. PICK k \in 1 .. Len(d) : d[k] = x
  BY <1>1 DEF Has
<1>3. CASE k < i
  <2>1. k \in 1 .. Len(d) - 1 /\ r[k] = x
    BY <1>1, <1>2, <1>3
  <2> QED
    BY <1>1, <2>1 DEF Has, r
<1>4. CASE k > i
  <2>1. k - 1 \in 1 .. Len(d) - 1 /\ ~(k - 1 < i) /\ (k - 1) + 1 = k
    BY <1>1, <1>2, <1>4
  <2>2. r[k - 1] = x
    BY <1>1, <1>2, <2>1
  <2> QED
    BY <1>1, <2>1, <2>2 DEF Has, r
<1> QED
  BY <1>1, <1>2, <1>3, <1>4

\* Cleaning up keeps what is not a task of T, and adds nothing.
LEMMA HasCleanup ==
    ASSUME NEW S, NEW q \in Seq(S), NEW T, NEW x
    PROVE  /\ Has(Cleanup(q, T), x) => Has(q, x)
           /\ Has(q, x) /\ ~(x.kind = "task" /\ x.id \in T) => Has(Cleanup(q, T), x)
<1> DEFINE K == Kept(q, T)
           c == Cleanup(q, T)
<1>1. K \in SUBSET (1 .. Len(q)) /\ DOMAIN q = 1 .. Len(q)
  BY DEF Kept
<1>2. /\ DOMAIN c = 1 .. Cardinality(K)
      /\ \A k \in 1 .. Cardinality(K) : Nth(K, k) \in K /\ c[k] = q[Nth(K, k)]
      /\ \A i \in K : \E k \in 1 .. Cardinality(K) : Nth(K, k) = i
  BY <1>1, RemainingElements DEF Cleanup
<1>3. \A i \in DOMAIN q : ~(q[i].kind = "task" /\ q[i].id \in T) => i \in K
  BY DEF Kept
<1> HIDE DEF K, c
<1>4. Has(c, x) => Has(q, x)
  BY <1>1, <1>2 DEF Has
<1>5. ASSUME Has(q, x), ~(x.kind = "task" /\ x.id \in T) PROVE Has(c, x)
  <2>1. PICK i \in DOMAIN q : q[i] = x
    BY <1>5 DEF Has
  <2>2. PICK k \in 1 .. Cardinality(K) : Nth(K, k) = i
    BY <1>2, <1>3, <1>5, <2>1
  <2> QED
    BY <1>2, <2>1, <2>2 DEF Has
<1> QED
  BY <1>4, <1>5 DEF c

\* A request posts all its tasks.
LEMMA OrderingCovers ==
    ASSUME NEW S \in SUBSET Task, NEW q \in SetToSeqs(S), NEW t \in S
    PROVE  \E i \in DOMAIN q : q[i] = t
<1> DEFINE n == Cardinality(S)
           D == 1 .. n
<1>1. IsFiniteSet(S) /\ n \in Nat
  BY TaskAssumption, FS_Subset, FS_CardinalityType DEF TaskAssumption
<1>2. q \in [D -> S] /\ \A i, j \in D : i # j => q[i] # q[j]
  BY DEF SetToSeqs
<1>3. IsFiniteSet(D) /\ Cardinality(D) = n
  <2> HIDE DEF n
  <2>1. 1 \in Int /\ n \in Int
    BY <1>1
  <2> QED
    BY <1>1, <2>1, FS_Interval
<1> HIDE DEF D
<1>4. q \in Injection(D, S)
  BY <1>2 DEF Injection, IsInjective
<1>5. q \in Surjection(D, S)
  BY <1>1, <1>3, <1>4, FS_Injection
<1> QED
  BY <1>5 DEF Surjection

----------------------------------------------------------------------------
(* Results and clients *)

\* Results are not taken back.
Grows ==
    /\ \A t \in Task : answer[t] # <<>> => answer'[t] # <<>>
    /\ \A r \in Request : Failed(r) => Failed(r)'

Attended(t) == InSystem(t) \/ answer[t] # <<>> \/ Failed(ReqOf[t])

LEMMA Requests ==
    \A t \in Task :
        /\ ReqOf[t] \in Request /\ t \in Members(ReqOf[t])
        /\ Root(t) \in Roots(ReqOf[t]) /\ Root(t) \in Task /\ ParentOf[Root(t)] = NoTask
        /\ ReqOf[Root(t)] = ReqOf[t] /\ t \in Family(Root(t))
        /\ \A u \in Task : ParentOf[u] = NoTask /\ t \in Family(u) => Root(t) = u
BY TaskAssumption, ParentAssumption
DEF TaskAssumption, ParentAssumption, Members, Roots, Root, Family, Kids

LEMMA SameGrows == UNCHANGED answer => Grows
BY DEF Grows, Failed

LEMMA SendGrows ==
    ASSUME TypeOK, NEW t, NEW res \in {"final", "error"}, Send(t, res)
    PROVE  /\ Grows
           /\ t \in Task => answer'[t] # <<>> /\ (res = "error" => Failed(ReqOf[t])')
<1>1. answer \in [Task -> Seq({"final", "error"})] /\ answer' = [answer EXCEPT ![t] = Append(@, res)]
  BY DEF TypeOK, Send
<1>2. CASE t \notin Task
  <2>1. answer' = answer
    BY <1>1, <1>2
  <2> QED
    BY <1>2, <2>1, SameGrows
<1>3. CASE t \in Task
  <2>1. answer'[t] = Append(answer[t], res) /\ \A u \in Task : u # t => answer'[u] = answer[u]
    BY <1>1, <1>3
  <2>2. /\ answer'[t] # <<>> /\ res \in Range(answer'[t])
        /\ Range(answer[t]) \subseteq Range(answer'[t])
    <3> DEFINE q == answer[t]
               n == Append(q, res)
    <3>1. q \in Seq({"final", "error"})
      BY <1>1, <1>3
    <3> HIDE DEF q
    <3>2. /\ DOMAIN n = 1 .. Len(q) + 1 /\ n[Len(q) + 1] = res /\ Len(q) \in Nat
          /\ DOMAIN q = 1 .. Len(q) /\ \A i \in 1 .. Len(q) : n[i] = q[i]
          /\ n # <<>>
      BY <3>1
    <3>3. Len(q) + 1 \in DOMAIN n /\ \A i \in DOMAIN q : i \in DOMAIN n
      BY <3>2
    <3> HIDE DEF n
    <3>4. res \in Range(n) /\ Range(q) \subseteq Range(n)
      BY <3>2, <3>3 DEF Range
    <3> QED
      BY <2>1, <3>2, <3>4 DEF n, q
  <2>3. \A u \in Task : Range(answer[u]) \subseteq Range(answer'[u])
    BY <2>1, <2>2
  <2>4. \A r \in Request : Failed(r) => Failed(r)'
    BY <2>3 DEF Failed, Members
  <2>5. res = "error" => Failed(ReqOf[t])'
    BY <1>3, <2>2, Requests DEF Failed, Members
  <2> QED
    BY <2>1, <2>2, <2>4, <2>5 DEF Grows
<1> QED
  BY <1>2, <1>3

\* What a step must show: cancelled clients have stopped, launches are undone
\* and slots released for a reason, and whoever waits is attended.
LEMMA Onward ==
    ASSUME WInv, Grows,
           \A r \in Request : client[r] = "stopped" => client'[r] = "stopped",
           \A t \in Task : Has(queue', CancelItem(t)) \/ (pc' = "handle" /\ cur' = CancelItem(t)) =>
               \/ Has(queue, CancelItem(t)) \/ (pc = "handle" /\ cur = CancelItem(t))
               \/ client'[ReqOf[t]] = "stopped",
           pc' = "rollback" =>
               \/ pc = "rollback" /\ cur' = cur
               \/ \E t \in Task : cur' = TaskItem(t) /\ Failed(ReqOf[t])',
           \A t \in Task : releasing' \in Holding({t})' =>
               \/ releasing \in Holding({t}) \/ answer'[t] # <<>>
               \/ Failed(ReqOf[t])' \/ client'[ReqOf[t]] = "stopped",
           \A t \in Task : client'[ReqOf[t]] = "waiting" =>
               Attended(t)' \/ (client[ReqOf[t]] = "waiting" /\ ~InSystem(t))
    PROVE  Reasons' /\ NotForgotten'
<1>1. \A t \in Task : ReqOf[t] \in Request
  BY Requests
<1>2. CancelsStopped'
  BY <1>1 DEF WInv, Reasons, CancelsStopped
<1>3. RollbackFailed'
  BY <1>1 DEF WInv, Reasons, RollbackFailed, Grows
<1>4. ReleasedEnded'
  BY <1>1 DEF WInv, Reasons, ReleasedEnded, Grows
<1>5. NotForgotten'
  BY <1>1 DEF WInv, NotForgotten, Attended, Grows
<1> QED
  BY <1>2, <1>3, <1>4, <1>5 DEF Reasons

\* Steps that move no task.
LEMMA Still ==
    ASSUME WInv, Grows, UNCHANGED <<queue, deferred, client, slot_task>>,
           \/ pc' = pc /\ cur' = cur
           \/ pc' \notin {"handle", "rollback"} /\ \A t \in Task : ~InHand(t),
           \A t \in Task : releasing' \in Holding({t}) =>
               \/ releasing \in Holding({t}) \/ answer'[t] # <<>>
               \/ Failed(ReqOf[t])' \/ client[ReqOf[t]] = "stopped"
    PROVE  Reasons' /\ NotForgotten'
<1>1. \A t \in Task : /\ Queued(t)' <=> Queued(t)
                      /\ Parked(t)' <=> Parked(t)
                      /\ Running(t)' <=> Running(t)
                      /\ InHand(t) => InHand(t)'
  BY DEF Queued, Parked, Running, Holding, InHand
<1>2. \A t \in Task : InSystem(t) => InSystem(t)'
  BY <1>1, Requests DEF InSystem, Root
<1>3. \A t \in Task : Holding({t})' = Holding({t})
  BY DEF Holding
<1>4. \A t \in Task : client'[ReqOf[t]] = "waiting" =>
          Attended(t)' \/ (client[ReqOf[t]] = "waiting" /\ ~InSystem(t))
  BY <1>2 DEF Attended
<1>5. \A t \in Task : Has(queue', CancelItem(t)) \/ (pc' = "handle" /\ cur' = CancelItem(t)) =>
          Has(queue, CancelItem(t)) \/ (pc = "handle" /\ cur = CancelItem(t))
  OBVIOUS
<1>6. pc' = "rollback" => pc = "rollback" /\ cur' = cur
  OBVIOUS
<1> QED
  BY <1>3, <1>4, <1>5, <1>6, Onward

----------------------------------------------------------------------------
(* Steps *)

LEMMA KindsDiffer ==
    \A t \in Task : /\ TaskItem(t) # NextItem /\ CancelItem(t) # NextItem
                    /\ TaskItem(t).kind = "task" /\ TaskItem(t).id = t
                    /\ CancelItem(t).kind = "cancel"
                    /\ \A u \in Task : TaskItem(t) # CancelItem(u)
                                       /\ (TaskItem(t) = TaskItem(u) => t = u)
                                       /\ (CancelItem(t) = CancelItem(u) => t = u)
BY DEF TaskItem, CancelItem, NextItem

LEMMA QueueType ==
    ASSUME WInv
    PROVE  /\ TypeOK /\ queue \in Seq(Items(Task)) /\ deferred \in Seq({TaskItem(t) : t \in Task})
           /\ \A t \in Task : /\ Queued(t) <=> Has(queue, TaskItem(t))
                              /\ Queued(t)' <=> Has(queue', TaskItem(t))
                              /\ Parked(t) <=> Has(deferred, TaskItem(t))
                              /\ Parked(t)' <=> Has(deferred', TaskItem(t))
BY DEF WInv, AInv, Inv, TypeOK, Queued, Parked, Has

LEMMA PopKeeps ==
    ASSUME WInv, Pop
    PROVE  Reasons' /\ NotForgotten'
<1>1. /\ queue # <<>> /\ queue' = Tail(queue) /\ cur' = Head(queue)
      /\ pc = "pop" /\ pc' = "handle" /\ releasing = releasing'
      /\ UNCHANGED <<deferred, client, answer, slot_task>>
  BY DEF Pop, Main, hvars, slotvars
<1>2. \A x : Has(queue, x) <=> cur' = x \/ Has(queue', x)
  BY <1>1, QueueType, HasTail
<1>3. \A t \in Task : /\ Queued(t) => Queued(t)' \/ InHand(t)'
                      /\ Parked(t) => Parked(t)'
                      /\ ~InHand(t)
                      /\ Running(t) => Running(t)'
                      /\ Holding({t})' = Holding({t})
  BY <1>1, <1>2, QueueType DEF InHand, Running, Holding
<1>4. \A t \in Task : InSystem(t) => InSystem(t)'
  BY <1>3, Requests DEF InSystem, Root
<1>5. \A t \in Task : client'[ReqOf[t]] = "waiting" =>
          Attended(t)' \/ (client[ReqOf[t]] = "waiting" /\ ~InSystem(t))
  BY <1>1, <1>4 DEF Attended
<1>6. \A t \in Task : Has(queue', CancelItem(t)) \/ (pc' = "handle" /\ cur' = CancelItem(t)) =>
          Has(queue, CancelItem(t))
  BY <1>1, <1>2
<1>7. Grows /\ pc' # "rollback"
  BY <1>1, SameGrows
<1> QED
  BY <1>1, <1>3, <1>5, <1>6, <1>7, Onward

LEMMA DeferKeeps ==
    ASSUME WInv, NEW t \in Task, Handling(t), Defer
    PROVE  Reasons' /\ NotForgotten'
<1>1. /\ TaskItem(t) \in {TaskItem(u) : u \in Task} /\ deferred' = Append(deferred, TaskItem(t))
      /\ pc = "handle" /\ cur = TaskItem(t) /\ pc' = "pop" /\ releasing' = releasing
      /\ UNCHANGED <<queue, client, answer, slot_task>>
  BY DEF Handling, Main, Defer, hvars, slotvars
<1>2. \A x : Has(deferred', x) <=> Has(deferred, x) \/ TaskItem(t) = x
  BY <1>1, QueueType, HasAppend
<1>3. \A u \in Task : /\ Queued(u) => Queued(u)'
                      /\ Parked(u) \/ InHand(u) => Parked(u)'
                      /\ Running(u) => Running(u)'
                      /\ Holding({u})' = Holding({u})
  BY <1>1, <1>2, QueueType DEF InHand, Running, Holding
<1>4. \A u \in Task : InSystem(u) => InSystem(u)'
  BY <1>3, Requests DEF InSystem, Root
<1>5. \A u \in Task : client'[ReqOf[u]] = "waiting" =>
          Attended(u)' \/ (client[ReqOf[u]] = "waiting" /\ ~InSystem(u))
  BY <1>1, <1>4 DEF Attended
<1>6. \A u \in Task : Has(queue', CancelItem(u)) \/ (pc' = "handle" /\ cur' = CancelItem(u)) =>
          Has(queue, CancelItem(u))
  BY <1>1
<1>7. Grows /\ pc' # "rollback"
  BY <1>1, SameGrows
<1> QED
  BY <1>1, <1>3, <1>5, <1>6, <1>7, Onward

LEMMA PostNextKeeps ==
    ASSUME WInv, PostNext
    PROVE  Reasons' /\ NotForgotten'
<1>1. /\ queue' = Append(queue, NextItem) /\ pc = "next" /\ pc' = "shift" /\ releasing' = releasing
      /\ UNCHANGED <<deferred, client, answer, slot_task>>
  BY DEF PostNext, Main, hvars, slotvars
<1>2. \A x : Has(queue', x) <=> Has(queue, x) \/ NextItem = x
  BY <1>1, QueueType, NextItemType, HasAppend
<1>3. \A u \in Task : /\ Queued(u) => Queued(u)'
                      /\ Parked(u) => Parked(u)'
                      /\ ~InHand(u)
                      /\ Running(u) => Running(u)'
                      /\ Holding({u})' = Holding({u})
  BY <1>1, <1>2, QueueType DEF InHand, Running, Holding
<1>4. \A u \in Task : InSystem(u) => InSystem(u)'
  BY <1>3, Requests DEF InSystem, Root
<1>5. \A u \in Task : client'[ReqOf[u]] = "waiting" =>
          Attended(u)' \/ (client[ReqOf[u]] = "waiting" /\ ~InSystem(u))
  BY <1>1, <1>4 DEF Attended
<1>6. \A u \in Task : Has(queue', CancelItem(u)) \/ (pc' = "handle" /\ cur' = CancelItem(u)) =>
          Has(queue, CancelItem(u))
  BY <1>1, <1>2, KindsDiffer
<1>7. Grows /\ pc' # "rollback"
  BY <1>1, SameGrows
<1> QED
  BY <1>1, <1>3, <1>5, <1>6, <1>7, Onward

\* The items of other requests survive the clean-up of a client that leaves.
LEMMA StopKeeps ==
    ASSUME WInv, NEW r \in Request, Stop(r)
    PROVE  Reasons' /\ NotForgotten'
<1> DEFINE M == Members(r)
<1>1. PICK c \in SetToSeqs(M) : queue' = [i \in DOMAIN c |-> CancelItem(c[i])] \o Cleanup(queue, M)
  BY DEF Stop
<1> DEFINE new == [i \in DOMAIN c |-> CancelItem(c[i])]
           old == Cleanup(queue, M)
<1>2. M \in SUBSET Task /\ c \in Seq(Task) /\ \A i \in DOMAIN c : c[i] \in M
  <2>1. M \in SUBSET Task
    BY DEF Members
  <2> QED
    BY <2>1, OrderingType DEF SetToSeqs
<1>3. new \in Seq(Items(Task)) /\ \A t \in Task : Has(new, CancelItem(t)) => t \in M
  <2>1. new \in Seq(Items(Task)) /\ DOMAIN new = DOMAIN c /\ \A i \in DOMAIN c : new[i] = CancelItem(c[i])
    BY <1>2, ItemsOf
  <2> HIDE DEF new
  <2> QED
    BY <1>2, <2>1, KindsDiffer DEF Has
<1>4. old \in Seq(Items(Task))
  BY QueueType, CleanupType
<1>5. /\ queue' = new \o old /\ deferred' = Cleanup(deferred, M)
      /\ UNCHANGED <<answer, pc, cur, slot_task, releasing>>
      /\ client' = [client EXCEPT ![r] = "stopped"] /\ client[r] = "waiting"
  BY <1>1 DEF Stop, slotvars
<1> HIDE DEF new, old
<1>6. \A x : Has(queue', x) <=> Has(new, x) \/ Has(old, x)
  BY <1>3, <1>4, <1>5, HasConcat
<1>7. \A x : /\ Has(old, x) => Has(queue, x)
             /\ Has(queue, x) /\ ~(x.kind = "task" /\ x.id \in M) => Has(old, x)
  BY QueueType, HasCleanup DEF old
<1>8. \A x : Has(deferred, x) /\ ~(x.kind = "task" /\ x.id \in M) => Has(deferred', x)
  BY <1>5, QueueType, HasCleanup
<1>9. client \in [Request -> {"new", "waiting", "stopped", "done"}]
  BY QueueType DEF TypeOK
<1>10. \A t \in Task : /\ t \notin M => (Queued(t) => Queued(t)') /\ (Parked(t) => Parked(t)')
                       /\ InHand(t)' <=> InHand(t)
                       /\ Running(t) => Running(t)'
                       /\ Holding({t})' = Holding({t})
  BY <1>5, <1>6, <1>7, <1>8, QueueType, KindsDiffer DEF InHand, Running, Holding
<1>11. \A t \in Task : client'[ReqOf[t]] = "waiting" =>
           Attended(t)' \/ (client[ReqOf[t]] = "waiting" /\ ~InSystem(t))
  <2>1. ASSUME NEW t \in Task, client'[ReqOf[t]] = "waiting"
        PROVE  client[ReqOf[t]] = "waiting" /\ (InSystem(t) => InSystem(t)')
    <3>1. ReqOf[t] # r /\ client[ReqOf[t]] = "waiting"
      BY <1>5, <1>9, <2>1, Requests
    <3>2. Root(t) \in Task /\ Root(t) \notin M
      BY <3>1, Requests DEF Members
    <3> QED
      BY <1>10, <3>1, <3>2 DEF InSystem, Root
  <2> QED
    BY <2>1 DEF Attended
<1>12. \A t \in Task : Has(queue', CancelItem(t)) \/ (pc' = "handle" /\ cur' = CancelItem(t)) =>
           \/ Has(queue, CancelItem(t)) \/ (pc = "handle" /\ cur = CancelItem(t))
           \/ client'[ReqOf[t]] = "stopped"
  <2>1. \A t \in M : client'[ReqOf[t]] = "stopped"
    BY <1>5, <1>9 DEF Members
  <2> QED
    BY <1>3, <1>5, <1>6, <1>7, <2>1
<1>13. Grows /\ \A q \in Request : client[q] = "stopped" => client'[q] = "stopped"
  BY <1>5, <1>9, SameGrows
<1> QED
  BY <1>5, <1>10, <1>11, <1>12, <1>13, Onward

LEMMA PostKeeps ==
    ASSUME WInv, NEW r \in Request, Post(r)
    PROVE  Reasons' /\ NotForgotten'
<1> DEFINE R == Roots(r)
<1>1. PICK q \in SetToSeqs(R) : LET new == [i \in DOMAIN q |-> TaskItem(q[i])]
            IN queue' = IF \E t \in Members(r) : Kind[t] = "metrics"
                        THEN new \o queue ELSE queue \o new
  BY DEF Post
<1> DEFINE new == [i \in DOMAIN q |-> TaskItem(q[i])]
<1>2. R \in SUBSET Task /\ q \in Seq(Task) /\ \A t \in R : \E i \in DOMAIN q : q[i] = t
  <2>1. R \in SUBSET Task
    BY DEF Roots, Members
  <2> QED
    BY <2>1, OrderingType, OrderingCovers
<1>3. /\ new \in Seq(Items(Task)) /\ \A t \in R : Has(new, TaskItem(t))
      /\ \A t \in Task : ~Has(new, CancelItem(t))
  <2>1. /\ new \in Seq(Items(Task)) /\ DOMAIN new = DOMAIN q
        /\ \A i \in DOMAIN q : new[i] = TaskItem(q[i])
    BY <1>2, ItemsOf
  <2>2. \A i \in DOMAIN q : q[i] \in Task
    BY <1>2
  <2> HIDE DEF new
  <2> QED
    BY <1>2, <2>1, <2>2, KindsDiffer DEF Has
<1>4. queue' \in {new \o queue, queue \o new}
  BY <1>1
<1>5. /\ client[r] = "new" /\ client' = [client EXCEPT ![r] = "waiting"]
      /\ UNCHANGED <<deferred, answer, pc, cur, slot_task, releasing>>
  BY DEF Post, slotvars
<1> HIDE DEF new
<1>6. \A x : Has(queue', x) <=> Has(new, x) \/ Has(queue, x)
  <2>1. queue \in Seq(Items(Task))
    BY QueueType
  <2>2. CASE queue' = new \o queue
    BY <1>3, <2>1, <2>2, HasConcat
  <2>3. CASE queue' = queue \o new
    BY <1>3, <2>1, <2>3, HasConcat
  <2> QED
    BY <1>4, <2>2, <2>3
<1>7. client \in [Request -> {"new", "waiting", "stopped", "done"}]
  BY QueueType DEF TypeOK
<1>8. \A t \in Task : /\ Queued(t) \/ t \in R => Queued(t)'
                      /\ Parked(t) => Parked(t)'
                      /\ InHand(t)' <=> InHand(t)
                      /\ Running(t) => Running(t)'
                      /\ Holding({t})' = Holding({t})
  BY <1>3, <1>5, <1>6, QueueType DEF InHand, Running, Holding
<1>9. \A t \in Task : client'[ReqOf[t]] = "waiting" =>
          Attended(t)' \/ (client[ReqOf[t]] = "waiting" /\ ~InSystem(t))
  <2>1. ASSUME NEW t \in Task, client'[ReqOf[t]] = "waiting", ReqOf[t] = r
        PROVE  InSystem(t)'
    BY <1>8, <2>1, Requests DEF InSystem, Root
  <2>2. ASSUME NEW t \in Task, client'[ReqOf[t]] = "waiting", ReqOf[t] # r
        PROVE  client[ReqOf[t]] = "waiting" /\ (InSystem(t) => InSystem(t)')
    BY <1>5, <1>7, <1>8, <2>2, Requests DEF InSystem, Root
  <2> QED
    BY <2>1, <2>2 DEF Attended
<1>10. \A t \in Task : Has(queue', CancelItem(t)) \/ (pc' = "handle" /\ cur' = CancelItem(t)) =>
           Has(queue, CancelItem(t)) \/ (pc = "handle" /\ cur = CancelItem(t))
  BY <1>3, <1>5, <1>6
<1>11. Grows /\ \A p \in Request : client[p] = "stopped" => client'[p] = "stopped"
  BY <1>5, <1>7, SameGrows
<1> QED
  BY <1>5, <1>8, <1>9, <1>10, <1>11, Onward

LEMMA ReleaseKeeps ==
    ASSUME WInv, Release
    PROVE  Reasons' /\ NotForgotten'
<1>1. /\ releasing \in Slot /\ releasing' = NoSlot
      /\ slot_task' = [slot_task EXCEPT ![releasing] = NoTask]
      /\ UNCHANGED <<client, answer, pc, cur>>
  BY QueueType DEF Release, hvars, TypeOK
<1>2. \A t \in Task : /\ Queued(t) \/ Parked(t) => Queued(t)' \/ Parked(t)'
                      /\ Has(queue', CancelItem(t)) => Has(queue, CancelItem(t))
  <2>1. CASE deferred = <<>>
    <3>1. UNCHANGED <<queue, deferred>>
      BY <2>1 DEF Release, qvars
    <3> QED
      BY <3>1, QueueType
  <2>2. CASE deferred # <<>>
    <3>1. PICK i \in DOMAIN deferred : queue' = <<deferred[i]>> \o queue
                                       /\ deferred' = RemoveAt(deferred, i)
      BY <2>2 DEF Release
    <3>2. /\ deferred \in Seq({TaskItem(t) : t \in Task}) /\ queue \in Seq(Items(Task))
          /\ i \in 1 .. Len(deferred)
      BY <3>1, QueueType
    <3>3. PICK u \in Task : deferred[i] = TaskItem(u)
      BY <3>2
    <3> DEFINE one == <<TaskItem(u)>>
    <3>4. one \in Seq(Items(Task)) /\ \A x : Has(one, x) <=> TaskItem(u) = x
      BY TaskItemType, HasSingle
    <3>5. queue' = one \o queue
      BY <3>1, <3>3
    <3> HIDE DEF one
    <3>6. \A x : Has(deferred, x) => x = TaskItem(u) \/ Has(deferred', x)
      BY <3>1, <3>2, <3>3, HasRemoveAt
    <3>7. \A x : Has(queue', x) <=> TaskItem(u) = x \/ Has(queue, x)
      BY <3>2, <3>4, <3>5, HasConcat
    <3> QED
      BY <3>6, <3>7, QueueType, KindsDiffer
  <2> QED
    BY <2>1, <2>2
<1>3. \A s \in Slot : slot_task'[s] = IF s = releasing THEN NoTask ELSE slot_task[s]
  BY <1>1, QueueType DEF TypeOK
<1>4. \A t \in Task : /\ Running(t) => Running(t)' \/ releasing \in Holding({t})
                      /\ NoSlot \notin Holding({t})'
  <2>1. NoSlot \notin Slot
    BY SlotType
  <2> QED
    BY <1>3, <2>1 DEF Running, Holding
<1>5. \A t \in Task : InHand(t) => InHand(t)'
  BY <1>1 DEF InHand
<1>6. \A t \in Task : client'[ReqOf[t]] = "waiting" =>
          Attended(t)' \/ (client[ReqOf[t]] = "waiting" /\ ~InSystem(t))
  <2>1. ASSUME NEW t \in Task, client'[ReqOf[t]] = "waiting", InSystem(t) PROVE Attended(t)'
    <3>1. CASE releasing \in Holding({t})
      BY <1>1, <2>1, <3>1 DEF WInv, Reasons, ReleasedEnded, Attended, Failed
    <3>2. CASE releasing \notin Holding({t})
      <4>1. InSystem(t)'
        BY <1>2, <1>4, <1>5, <2>1, <3>2, Requests DEF InSystem, Root
      <4> QED
        BY <4>1 DEF Attended
    <3> QED
      BY <3>1, <3>2
  <2> QED
    BY <1>1, <2>1
<1>7. Grows
  BY <1>1, SameGrows
<1> QED
  BY <1>1, <1>2, <1>4, <1>6, <1>7, Onward

\* A placement covers the family.
LEMMA PlacementCovers ==
    ASSUME NEW t \in Task, NEW s \in Slot, NEW g \in Placements(s, t), NEW u \in Family(t)
    PROVE  \E d \in DOMAIN g : g[d] = u
<1>1. PICK D \in SUBSET (Idle \ {s}) : g \in Bijection(D \cup {s}, Family(t))
  BY DEF Placements
<1> QED
  BY <1>1 DEF Bijection, Surjection

LEMMA LaunchKeeps ==
    ASSUME WInv, NEW t \in Task, NEW s \in Slot, Launch(t, s)
    PROVE  Reasons' /\ NotForgotten'
<1>1. PICK g \in Placements(s, t) : Launched(g)
  BY DEF Launch
<1>2. /\ DOMAIN g \subseteq Idle /\ Idle \subseteq Slot
      /\ \A u \in Family(t) : \E d \in DOMAIN g : g[d] = u
  BY PlacementOnce, PlacementCovers DEF Launch, Idle, InState
<1>3. /\ pc = "handle" /\ cur = TaskItem(t) /\ pc' = "pop" /\ releasing = NoSlot /\ releasing' = NoSlot
      /\ UNCHANGED <<queue, deferred, client, answer>>
  BY DEF Launch, Handling, Main, qvars, hvars
<1>4. \A d \in Slot : slot_task'[d] = IF d \in DOMAIN g THEN g[d] ELSE slot_task[d]
  BY <1>1 DEF Launched
<1>5. \A d \in DOMAIN g : slot_task[d] = NoTask
  BY <1>2 DEF Idle, InState, WInv, AInv, Apart, OneSlotEach
<1>6. \A u \in Task : /\ Running(u) \/ u \in Family(t) => Running(u)'
                      /\ Queued(u)' <=> Queued(u)
                      /\ Parked(u)' <=> Parked(u)
                      /\ InHand(u) => u = t
                      /\ NoSlot \notin Holding({u})'
  <2>1. NoSlot \notin Slot
    BY SlotType
  <2> QED
    BY <1>2, <1>3, <1>4, <1>5, <2>1, TaskAssumption, KindsDiffer
    DEF TaskAssumption, Running, Holding, Queued, Parked, InHand
<1>7. \A u \in Task : InSystem(u) => InSystem(u)'
  BY <1>6, Requests DEF InSystem, Root
<1>8. \A u \in Task : client'[ReqOf[u]] = "waiting" =>
          Attended(u)' \/ (client[ReqOf[u]] = "waiting" /\ ~InSystem(u))
  BY <1>3, <1>7 DEF Attended
<1>9. Grows
  BY <1>3, SameGrows
<1> QED
  BY <1>3, <1>6, <1>8, <1>9, Onward

LEMMA LaunchFailKeeps ==
    ASSUME WInv, NEW t \in Task, NEW s \in Slot, LaunchFail(t, s)
    PROVE  Reasons' /\ NotForgotten'
<1>1. PICK g \in Placements(s, t) : \E b \in DOMAIN g :
         LET before == {d \in DOMAIN g \ {s} : b = s \/ d < b}
         IN /\ Launched([d \in before |-> g[d]])
            /\ Send(g[b], "error")
  BY DEF LaunchFail
<1>2. PICK b \in DOMAIN g :
         LET before == {d \in DOMAIN g \ {s} : b = s \/ d < b}
         IN /\ Launched([d \in before |-> g[d]])
            /\ Send(g[b], "error")
  BY <1>1
<1> DEFINE before == {d \in DOMAIN g \ {s} : b = s \/ d < b}
           h == [d \in before |-> g[d]]
<1>3. /\ DOMAIN g \subseteq Idle /\ Idle \subseteq Slot /\ before \subseteq DOMAIN g
      /\ g[b] \in Family(t)
  BY PlacementOnce DEF LaunchFail, Idle, InState
<1>4. Launched(h) /\ Send(g[b], "error") /\ DOMAIN h = before
  BY <1>2
<1> HIDE DEF before, h
<1>5. /\ pc = "handle" /\ cur = TaskItem(t) /\ pc' = "rollback" /\ cur' = cur
      /\ releasing = NoSlot /\ releasing' = NoSlot
      /\ UNCHANGED <<queue, deferred, client>>
  BY DEF LaunchFail, Handling, Main, qvars
<1>6. g[b] \in Task /\ ReqOf[g[b]] = ReqOf[t]
  BY <1>3, Families
<1>7. Grows /\ Failed(ReqOf[t])'
  BY <1>4, <1>6, QueueType, SendGrows
<1>8. \A d \in Slot : d \notin before => slot_task'[d] = slot_task[d]
  BY <1>4 DEF Launched
<1>9. \A d \in before : slot_task[d] = NoTask
  BY <1>3 DEF Idle, InState, WInv, AInv, Apart, OneSlotEach
<1>10. \A u \in Task : /\ Running(u) => Running(u)'
                       /\ Queued(u)' <=> Queued(u)
                       /\ Parked(u)' <=> Parked(u)
                       /\ InHand(u) => u = t
                       /\ NoSlot \notin Holding({u})'
  <2>1. NoSlot \notin Slot
    BY SlotType
  <2> QED
    BY <1>3, <1>5, <1>8, <1>9, <2>1, TaskAssumption, KindsDiffer
    DEF TaskAssumption, Running, Holding, Queued, Parked, InHand
<1>11. \A u \in Task : InSystem(u) => InSystem(u)' \/ Failed(ReqOf[u])'
  <2>1. \A u \in Task : Root(u) = t => ReqOf[u] = ReqOf[t]
    BY Requests
  <2> QED
    BY <1>7, <1>10, <2>1, Requests DEF InSystem, Root
<1>12. \A u \in Task : client'[ReqOf[u]] = "waiting" =>
           Attended(u)' \/ (client[ReqOf[u]] = "waiting" /\ ~InSystem(u))
  <2>1. \A u \in Task : Failed(ReqOf[u])' => Attended(u)'
    BY DEF Attended
  <2>2. \A u \in Task : InSystem(u)' => Attended(u)'
    BY DEF Attended
  <2> QED
    BY <1>5, <1>11, <2>1, <2>2
<1> QED
  BY <1>5, <1>7, <1>10, <1>12, Onward

LEMMA HandleActionKeeps ==
    ASSUME WInv, NEW t \in Task, HandleAction(t)
    PROVE  Reasons' /\ NotForgotten'
<1>1. /\ pc = "handle" /\ cur = TaskItem(t) /\ pc' = "pop" /\ releasing = NoSlot /\ releasing' = NoSlot
      /\ UNCHANGED <<queue, deferred, client, slot_task>> /\ Kind[t] # "completion"
  BY DEF HandleAction, Handling, Main, qvars, slotvars
<1>2. Grows /\ answer'[t] # <<>>
  BY QueueType, SendGrows DEF HandleAction
<1>3. \A u \in Task : /\ Running(u)' <=> Running(u)
                      /\ Queued(u)' <=> Queued(u)
                      /\ Parked(u)' <=> Parked(u)
                      /\ InHand(u) => u = t
                      /\ NoSlot \notin Holding({u})'
  <2>1. NoSlot \notin Slot
    BY SlotType
  <2> QED
    BY <1>1, <2>1, KindsDiffer DEF Running, Holding, Queued, Parked, InHand
<1>4. \A u \in Task : Root(u) = t => u = t
  BY <1>1, ParentAssumption DEF ParentAssumption, Root
<1>5. \A u \in Task : InSystem(u) => InSystem(u)' \/ u = t
  BY <1>3, <1>4, Requests DEF InSystem, Root
<1>6. \A u \in Task : client'[ReqOf[u]] = "waiting" =>
          Attended(u)' \/ (client[ReqOf[u]] = "waiting" /\ ~InSystem(u))
  BY <1>1, <1>2, <1>5 DEF Attended
<1> QED
  BY <1>1, <1>2, <1>3, <1>6, Onward

LEMMA SendReleaseKeeps ==
    ASSUME WInv, NEW s \in Slot, NEW res \in {"final", "error"}, Send(slot_task[s], res),
           releasing' = s, UNCHANGED <<queue, deferred, client, pc, cur, slot_task>>
    PROVE  Reasons' /\ NotForgotten'
<1>1. Grows /\ (slot_task[s] \in Task => answer'[slot_task[s]] # <<>>)
  BY QueueType, SendGrows
<1>2. \A t \in Task : releasing' \in Holding({t}) => answer'[t] # <<>>
  BY <1>1 DEF Holding
<1> QED
  BY <1>1, <1>2, Still

LEMMA UpdateSlotKeeps ==
    ASSUME WInv, NEW s \in Slot, UpdateSlot(s)
    PROVE  Reasons' /\ NotForgotten'
<1>1. CASE RollbackSlot(s)
  <2>1. /\ pc = "rollback" /\ s \in Holding(Family(cur.id)) /\ releasing' = s
        /\ UNCHANGED <<queue, deferred, client, answer, slot_task, pc, cur>>
    BY <1>1 DEF RollbackSlot, Main, qvars, hvars, slotvars
  <2>2. PICK t \in Task : cur = TaskItem(t) /\ Failed(ReqOf[t])
    BY <2>1 DEF WInv, Reasons, RollbackFailed
  <2>3. slot_task[s] \in Family(t)
    BY <2>1, <2>2, KindsDiffer DEF Holding
  <2>4. Grows /\ Failed(ReqOf[t])'
    BY <2>1, <2>2, SameGrows DEF Failed
  <2>5. \A u \in Task : releasing' \in Holding({u}) => Failed(ReqOf[u])'
    BY <2>1, <2>3, <2>4, Families DEF Holding
  <2> QED
    BY <2>1, <2>4, <2>5, Still
<1>2. CASE ShiftFail(s) \/ PromptEmpty(s) \/ PromptError(s) \/ SampleLast(s) \/ FailSlot(s)
  BY <1>2, SendReleaseKeeps
  DEF ShiftFail, PromptEmpty, PromptError, SampleLast, FailSlot, qvars, slotvars
<1>3. CASE PromptNoFit(s) \/ PromptPart(s) \/ PromptAll(s) \/ SampleMore(s)
  BY <1>3, SameGrows, Still
  DEF PromptNoFit, PromptPart, PromptAll, PromptAdd, SampleMore, qvars, hvars
<1> QED
  BY <1>1, <1>2, <1>3 DEF UpdateSlot

LEMMA UpdateKeeps ==
    ASSUME WInv, Update
    PROVE  Reasons' /\ NotForgotten'
<1>1. CASE RollbackEnd \/ FailEnd \/ SampleEnd \/ Collect \/ DecodeFatal \/ PromptEnd
  <2>1. \A t \in Task : ~InHand(t)
    BY <1>1
    DEF RollbackEnd, FailEnd, SampleEnd, Collect, DecodeFatal, PromptEnd, Main, InHand
  <2>2. pc' \notin {"handle", "rollback"}
    BY <1>1
    DEF RollbackEnd, FailEnd, SampleEnd, Collect, DecodeFatal, PromptEnd
  <2>3. UNCHANGED <<queue, deferred, client, answer, slot_task, releasing>>
    BY <1>1
    DEF RollbackEnd, FailEnd, SampleEnd, Collect, DecodeFatal, PromptEnd, qvars, hvars, slotvars
  <2> QED
    BY <2>1, <2>2, <2>3, SameGrows, Still
<1>2. CASE HandleNext
  <2>1. \A t \in Task : ~InHand(t)
    BY <1>2, KindsDiffer DEF HandleNext, InHand
  <2> QED
    BY <1>2, <2>1, SameGrows, Still DEF HandleNext, qvars, hvars, slotvars
<1>3. CASE PostNext
  BY <1>3, PostNextKeeps
<1>4. CASE Decode
  <2>1. PICK C \in SUBSET (pending \cup Activated) : DecodeChunk(C)
    BY <1>4 DEF Decode
  <2>2. \A t \in Task : ~InHand(t)
    BY <2>1 DEF DecodeChunk, Main, InHand
  <2> QED
    BY <2>1, <2>2, SameGrows, Still DEF DecodeChunk, qvars, hvars
<1> QED
  BY <1>1, <1>2, <1>3, <1>4 DEF Update

LEMMA CancelKeeps ==
    ASSUME WInv, NEW t \in Task, HandleCancel(t)
    PROVE  Reasons' /\ NotForgotten'
<1>1. /\ pc = "handle" /\ cur = CancelItem(t) /\ pc' = "pop"
      /\ releasing' = releasing \/ releasing' \in Holding({t})
      /\ UNCHANGED <<queue, deferred, client, answer, slot_task>>
  BY DEF HandleCancel, Main, qvars, hvars, slotvars
<1>2. client[ReqOf[t]] = "stopped"
  BY <1>1 DEF WInv, Reasons, CancelsStopped
<1>3. \A u \in Task : releasing' \in Holding({u}) => releasing \in Holding({u}) \/ u = t
  BY <1>1 DEF Holding
<1>4. \A u \in Task : ~InHand(u)
  BY <1>1, KindsDiffer DEF InHand
<1> QED
  BY <1>1, <1>2, <1>3, <1>4, SameGrows, Still

LEMMA StepWInv == WInv /\ [Next]_vars => WInv'
<1> SUFFICES ASSUME WInv, [Next]_vars PROVE Reasons' /\ NotForgotten'
  BY StepAInv DEF WInv
<1>1. ASSUME NEW r \in Request, Client(r) PROVE Reasons' /\ NotForgotten'
  <2>1. CASE ClientDone(r)
    <3>1. /\ client' = [client EXCEPT ![r] = "done"] /\ client[r] = "waiting"
          /\ client \in [Request -> {"new", "waiting", "stopped", "done"}]
          /\ UNCHANGED <<queue, deferred, answer, pc, cur, slot_task, releasing>>
      BY <2>1, QueueType DEF ClientDone, qvars, slotvars, TypeOK
    <3>2. \A t \in Task : client'[ReqOf[t]] = "waiting" => client[ReqOf[t]] = "waiting"
      BY <3>1, Requests
    <3>3. \A q \in Request : client[q] = "stopped" => client'[q] = "stopped"
      BY <3>1
    <3>4. \A t \in Task : /\ Queued(t)' <=> Queued(t)
                          /\ Parked(t)' <=> Parked(t)
                          /\ Running(t)' <=> Running(t)
                          /\ InHand(t)' <=> InHand(t)
                          /\ Holding({t})' = Holding({t})
      BY <3>1 DEF Queued, Parked, Running, Holding, InHand
    <3>5. \A t \in Task : InSystem(t) => InSystem(t)'
      BY <3>4, Requests DEF InSystem, Root
    <3>6. \A t \in Task : client'[ReqOf[t]] = "waiting" =>
              Attended(t)' \/ (client[ReqOf[t]] = "waiting" /\ ~InSystem(t))
      BY <3>2, <3>5 DEF Attended
    <3> QED
      BY <3>1, <3>3, <3>4, <3>6, SameGrows, Onward
  <2> QED
    BY <1>1, <2>1, PostKeeps, StopKeeps DEF Client, ClientLeaves, ClientFails
<1>2. CASE Loop
  <2>1. CASE Drained \/ Wake
    <3>1. /\ \A t \in Task : ~InHand(t)
          /\ pc' \notin {"handle", "rollback"}
          /\ UNCHANGED <<queue, deferred, client, answer, slot_task, releasing>>
      BY <2>1 DEF Drained, Wake, Main, InHand, qvars, hvars, slotvars
    <3> QED
      BY <3>1, SameGrows, Still
  <2>2. CASE Idling
    BY <2>2, SameGrows, Still DEF Idling, vars
  <2> QED
    BY <1>2, <2>1, <2>2, PopKeeps, ReleaseKeeps DEF Loop
<1>3. ASSUME NEW t \in Task, Process(t) PROVE Reasons' /\ NotForgotten'
  <2>1. CASE DeferInference(t) \/ DeferAction(t)
    BY <2>1, DeferKeeps DEF DeferInference, DeferAction
  <2> QED
    BY <1>3, <2>1, LaunchKeeps, LaunchFailKeeps, CancelKeeps, HandleActionKeeps DEF Process
<1>4. ASSUME NEW s \in Slot, UpdateSlot(s) PROVE Reasons' /\ NotForgotten'
  BY <1>4, UpdateSlotKeeps
<1>5. CASE Update
  BY <1>5, UpdateKeeps
<1>6. CASE UNCHANGED vars
  BY <1>6, SameGrows, Still DEF vars
<1> QED
  BY <1>1, <1>2, <1>3, <1>4, <1>5, <1>6 DEF Next

LEMMA InitWInv == Init => WInv
<1> SUFFICES ASSUME Init PROVE Reasons /\ NotForgotten
  BY InitAInv DEF WInv
<1>1. /\ DOMAIN queue = {} /\ pc = "pop" /\ releasing = NoSlot
      /\ client = [r \in Request |-> "new"]
  BY DEF Init
<1>2. \A t \in Task : NoSlot \notin Holding({t})
  BY SlotType DEF Holding
<1> QED
  BY <1>1, <1>2, Requests
  DEF Reasons, CancelsStopped, RollbackFailed, ReleasedEnded, NotForgotten, Has

\* A client that waits is never forgotten, for any number of slots, tasks and
\* requests: each of its tasks is in the system or answered, or its request
\* has failed (NotForgotten).
THEOREM NoneForgotten == Spec => []NotForgotten
<1>1. WInv => NotForgotten
  BY DEF WInv
<1> QED
  BY <1>1, InitWInv, StepWInv, PTL DEF Spec

----------------------------------------------------------------------------
(* What a step does to the queues *)

\* Stopping takes a client's tasks out of the queues and puts the CANCELs in.
LEMMA StopHas ==
    ASSUME WInv, NEW r \in Request, Stop(r), NEW t \in Task
    PROVE  /\ Has(queue', CancelItem(t)) <=> Has(queue, CancelItem(t)) \/ t \in Members(r)
           /\ Has(queue', TaskItem(t)) => Has(queue, TaskItem(t))
           /\ Has(queue, TaskItem(t)) => Has(queue', TaskItem(t)) \/ t \in Members(r)
           /\ Has(deferred', TaskItem(t)) => Has(deferred, TaskItem(t))
<1> DEFINE M == Members(r)
<1>1. PICK c \in SetToSeqs(M) : queue' = [i \in DOMAIN c |-> CancelItem(c[i])] \o Cleanup(queue, M)
  BY DEF Stop
<1> DEFINE new == [i \in DOMAIN c |-> CancelItem(c[i])]
           old == Cleanup(queue, M)
<1>2. M \in SUBSET Task
  BY DEF Members
<1>3. /\ c \in Seq(Task) /\ \A i \in DOMAIN c : c[i] \in M
      /\ \A u \in M : \E i \in DOMAIN c : c[i] = u
  BY <1>2, OrderingType, OrderingCovers DEF SetToSeqs
<1>4. /\ new \in Seq(Items(Task)) /\ ~Has(new, TaskItem(t))
      /\ Has(new, CancelItem(t)) <=> t \in M
  <2>1. new \in Seq(Items(Task)) /\ DOMAIN new = DOMAIN c /\ \A i \in DOMAIN c : new[i] = CancelItem(c[i])
    BY <1>3, ItemsOf
  <2> HIDE DEF new
  <2> QED
    BY <1>2, <1>3, <2>1, KindsDiffer DEF Has
<1>5. old \in Seq(Items(Task))
  BY QueueType, CleanupType
<1>6. queue' = new \o old /\ deferred' = Cleanup(deferred, M)
  BY <1>1 DEF Stop
<1>7. CancelItem(t).kind = "cancel" /\ TaskItem(t).id = t
  BY KindsDiffer
<1> HIDE DEF new, old, M
<1>8. \A x : Has(queue', x) <=> Has(new, x) \/ Has(old, x)
  BY <1>4, <1>5, <1>6, HasConcat
<1>9. \A x : /\ Has(old, x) => Has(queue, x)
             /\ Has(queue, x) /\ ~(x.kind = "task" /\ x.id \in M) => Has(old, x)
             /\ Has(deferred', x) => Has(deferred, x)
  BY <1>6, QueueType, HasCleanup DEF old
<1> QED
  BY <1>4, <1>7, <1>8, <1>9 DEF M

\* Posting adds the tasks of a request to the queue.
LEMMA PostHas ==
    ASSUME WInv, NEW r \in Request, Post(r), NEW t \in Task
    PROVE  /\ Has(queue', CancelItem(t)) <=> Has(queue, CancelItem(t))
           /\ Has(queue', TaskItem(t)) => Has(queue, TaskItem(t)) \/ ReqOf[t] = r
           /\ Has(queue, TaskItem(t)) => Has(queue', TaskItem(t))
<1> DEFINE R == Roots(r)
<1>1. PICK q \in SetToSeqs(R) : LET new == [i \in DOMAIN q |-> TaskItem(q[i])]
            IN queue' = IF \E u \in Members(r) : Kind[u] = "metrics"
                        THEN new \o queue ELSE queue \o new
  BY DEF Post
<1> DEFINE new == [i \in DOMAIN q |-> TaskItem(q[i])]
<1>2. R \in SUBSET Task /\ \A u \in R : ReqOf[u] = r
  BY DEF Roots, Members
<1>3. q \in Seq(Task) /\ \A i \in DOMAIN q : q[i] \in R
  BY <1>2, OrderingType DEF SetToSeqs
<1>4. /\ new \in Seq(Items(Task)) /\ ~Has(new, CancelItem(t))
      /\ Has(new, TaskItem(t)) => t \in R
  <2>1. /\ new \in Seq(Items(Task)) /\ DOMAIN new = DOMAIN q
        /\ \A i \in DOMAIN q : new[i] = TaskItem(q[i])
    BY <1>3, ItemsOf
  <2> HIDE DEF new
  <2> QED
    BY <1>2, <1>3, <2>1, KindsDiffer DEF Has
<1>5. queue' \in {new \o queue, queue \o new}
  BY <1>1
<1> HIDE DEF new
<1>6. \A x : Has(queue', x) <=> Has(new, x) \/ Has(queue, x)
  <2>1. queue \in Seq(Items(Task))
    BY QueueType
  <2>2. CASE queue' = new \o queue
    BY <1>4, <2>1, <2>2, HasConcat
  <2>3. CASE queue' = queue \o new
    BY <1>4, <2>1, <2>3, HasConcat
  <2> QED
    BY <1>5, <2>2, <2>3
<1> QED
  BY <1>2, <1>4, <1>6

\* A release takes a deferred task, if there is any, to the queue.
LEMMA ReleaseHas ==
    ASSUME WInv, Release
    PROVE  \/ deferred = <<>> /\ UNCHANGED <<queue, deferred>>
           \/ \E u \in Task : /\ Has(deferred, TaskItem(u))
                              /\ \A x : Has(queue', x) <=> x = TaskItem(u) \/ Has(queue, x)
                              /\ \A t \in Task : Has(deferred', TaskItem(t)) => Has(deferred, TaskItem(t))
<1>1. CASE deferred = <<>>
  BY <1>1 DEF Release, qvars
<1>2. CASE deferred # <<>>
  <2>1. PICK i \in DOMAIN deferred : queue' = <<deferred[i]>> \o queue
                                     /\ deferred' = RemoveAt(deferred, i)
    BY <1>2 DEF Release
  <2>2. /\ deferred \in Seq({TaskItem(t) : t \in Task}) /\ queue \in Seq(Items(Task))
        /\ i \in 1 .. Len(deferred)
    BY <2>1, QueueType
  <2>3. PICK u \in Task : deferred[i] = TaskItem(u)
    BY <2>2
  <2> DEFINE one == <<TaskItem(u)>>
  <2>4. one \in Seq(Items(Task)) /\ \A x : Has(one, x) <=> TaskItem(u) = x
    BY TaskItemType, HasSingle
  <2>5. queue' = one \o queue
    BY <2>1, <2>3
  <2> HIDE DEF one
  <2>6. \A x : Has(queue', x) <=> TaskItem(u) = x \/ Has(queue, x)
    BY <2>2, <2>4, <2>5, HasConcat
  <2>7. \A t \in Task : Has(deferred', TaskItem(t)) => Has(deferred, TaskItem(t))
    <3>1. \A t \in Task : Within(deferred', t) => Within(deferred, t)
      BY <2>1, <2>2, OnceRemoveAt
    <3> QED
      BY <3>1 DEF Within, Has
  <2>8. Has(deferred, TaskItem(u))
    BY <2>1, <2>3 DEF Has
  <2> QED
    BY <2>6, <2>7, <2>8
<1> QED
  BY <1>1, <1>2

----------------------------------------------------------------------------
(* Where the tasks are before and after a step *)

\* A task waits only if it did or was just posted, runs only if it did or was
\* launched, and its CANCEL comes through until it runs no more.
Moved(t) ==
    /\ Waits(t)' => Waits(t) \/ client[ReqOf[t]] = "new"
    /\ Running(t)' => Running(t) \/ Waits(Root(t))
    /\ CancelOnWay(t) => CancelOnWay(t)' \/ ~Running(t)'

CancelInHand(t) == pc = "handle" /\ cur = CancelItem(t)

LEMMA Ways ==
    ASSUME WInv, NEW t \in Task
    PROVE  /\ Waits(t) <=> Has(queue, TaskItem(t)) \/ Has(deferred, TaskItem(t)) \/ InHand(t)
           /\ Waits(t)' <=> Has(queue', TaskItem(t)) \/ Has(deferred', TaskItem(t)) \/ InHand(t)'
           /\ CancelOnWay(t) <=> \/ Has(queue, CancelItem(t)) \/ CancelInHand(t)
                                 \/ releasing \in Holding({t})
           /\ CancelOnWay(t)' <=> \/ Has(queue', CancelItem(t)) \/ CancelInHand(t)'
                                  \/ releasing' \in Holding({t})'
           /\ NoSlot \notin Holding({t})
BY QueueType, SlotType DEF Waits, CancelOnWay, CancelInHand, Has, Holding

\* Steps that leave the queues and the slots' tasks alone.
LEMMA StillMoved ==
    ASSUME WInv, NEW t \in Task, UNCHANGED <<queue, deferred, slot_task>>,
           \/ pc' = pc /\ cur' = cur
           \/ pc' # "handle" /\ ~CancelInHand(t),
           releasing' = releasing \/ releasing = NoSlot
    PROVE  Moved(t)
<1>1. Holding({t})' = Holding({t}) /\ (Running(t)' <=> Running(t))
  BY DEF Holding, Running
<1>2. InHand(t)' => InHand(t)
  BY DEF InHand
<1>3. CancelInHand(t) => CancelInHand(t)'
  BY DEF CancelInHand
<1> QED
  BY <1>1, <1>2, <1>3, Ways DEF Moved

LEMMA ClientMoved ==
    ASSUME WInv, NEW r \in Request, Client(r), NEW t \in Task
    PROVE  Moved(t)
<1>1. CASE ClientDone(r)
  BY <1>1, StillMoved DEF ClientDone, qvars, slotvars
<1>2. ASSUME Post(r) PROVE Moved(t)
  <2>1. UNCHANGED <<deferred, pc, cur, slot_task, releasing>> /\ client[r] = "new"
    BY <1>2 DEF Post, slotvars
  <2>2. /\ Holding({t})' = Holding({t}) /\ (Running(t)' <=> Running(t))
        /\ (InHand(t)' <=> InHand(t)) /\ (CancelInHand(t)' <=> CancelInHand(t))
    BY <2>1 DEF Holding, Running, InHand, CancelInHand
  <2> QED
    BY <1>2, <2>1, <2>2, PostHas, Ways DEF Moved
<1>3. ASSUME Stop(r) PROVE Moved(t)
  <2>1. UNCHANGED <<pc, cur, slot_task, releasing>>
    BY <1>3 DEF Stop, slotvars
  <2>2. /\ Holding({t})' = Holding({t}) /\ (Running(t)' <=> Running(t))
        /\ (InHand(t)' <=> InHand(t)) /\ (CancelInHand(t)' <=> CancelInHand(t))
    BY <2>1 DEF Holding, Running, InHand, CancelInHand
  <2> QED
    BY <1>3, <2>1, <2>2, StopHas, Ways DEF Moved
<1> QED
  BY <1>1, <1>2, <1>3 DEF Client, ClientLeaves, ClientFails

LEMMA LoopMoved ==
    ASSUME WInv, Loop, NEW t \in Task
    PROVE  Moved(t)
<1>1. CASE Drained \/ Wake
  BY <1>1, StillMoved DEF Drained, Wake, Main, CancelInHand, qvars, slotvars
<1>2. CASE Idling
  BY <1>2, StillMoved DEF Idling, vars
<1>3. CASE Pop
  <2>1. /\ queue # <<>> /\ queue' = Tail(queue) /\ cur' = Head(queue)
        /\ pc = "pop" /\ pc' = "handle"
        /\ UNCHANGED <<deferred, slot_task, releasing>>
    BY <1>3 DEF Pop, Main, slotvars
  <2>2. \A x : Has(queue, x) <=> cur' = x \/ Has(queue', x)
    BY <2>1, QueueType, HasTail
  <2>3. Holding({t})' = Holding({t}) /\ (Running(t)' <=> Running(t))
    BY <2>1 DEF Holding, Running
  <2>4. /\ InHand(t)' <=> cur' = TaskItem(t)
        /\ CancelInHand(t)' <=> cur' = CancelItem(t)
        /\ ~CancelInHand(t)
    BY <2>1 DEF InHand, CancelInHand
  <2> QED
    BY <2>1, <2>2, <2>3, <2>4, Ways DEF Moved
<1>4. CASE Release
  <2>1. /\ releasing \in Slot /\ slot_task' = [slot_task EXCEPT ![releasing] = NoTask]
        /\ UNCHANGED <<pc, cur>>
    BY <1>4, QueueType DEF Release, TypeOK
  <2>2. Holding({t})' = Holding({t}) \ {releasing}
    BY <2>1, QueueType, TaskAssumption DEF TypeOK, TaskAssumption, Holding
  <2>3. (InHand(t)' <=> InHand(t)) /\ (CancelInHand(t)' <=> CancelInHand(t))
    BY <2>1 DEF InHand, CancelInHand
  <2>4. releasing \in Holding({t}) => ~Running(t)'
    <3>1. Holding({t}) \subseteq Slot /\ \A s, o \in Holding({t}) : s = o
      BY TaskAssumption DEF TaskAssumption, Holding, WInv, AInv, Apart, OneSlotEach
    <3> QED
      BY <2>2, <3>1 DEF Running
  <2>5. Running(t)' => Running(t)
    BY <2>2 DEF Running
  <2>6. /\ Has(queue', TaskItem(t)) => Has(queue, TaskItem(t)) \/ Has(deferred, TaskItem(t))
        /\ Has(deferred', TaskItem(t)) => Has(deferred, TaskItem(t))
        /\ Has(queue, CancelItem(t)) => Has(queue', CancelItem(t))
    BY <1>4, ReleaseHas, KindsDiffer
  <2> QED
    BY <2>3, <2>4, <2>5, <2>6, Ways DEF Moved
<1> QED
  BY <1>1, <1>2, <1>3, <1>4 DEF Loop

\* The slots of a launch are idle, those of LaunchFail too.
LEMMA LaunchedMoved ==
    ASSUME WInv, NEW u \in Task, InHand(u), NEW t \in Task, pc' # "handle", NEW g,
           \A d \in DOMAIN g : g[d] \in Family(u), Launched(g),
           UNCHANGED <<queue, deferred>>, releasing = NoSlot
    PROVE  Moved(t)
<1>1. \A d \in Slot : slot_task'[d] = IF d \in DOMAIN g THEN g[d] ELSE slot_task[d]
  BY DEF Launched
<1>2. Running(t)' => Running(t) \/ t \in Family(u)
  BY <1>1 DEF Running, Holding
<1>3. t \in Family(u) => Root(t) = u
  BY Requests DEF WInv, AInv, Apart, WaitingRoots, Waits
<1>4. ~InHand(t)' /\ ~CancelInHand(t) /\ Waits(u)
  BY KindsDiffer DEF InHand, CancelInHand, Waits
<1> QED
  BY <1>2, <1>3, <1>4, Ways DEF Moved

LEMMA ProcessMoved ==
    ASSUME WInv, NEW u \in Task, Process(u), NEW t \in Task
    PROVE  Moved(t)
<1>1. ASSUME Handling(u), Defer PROVE Moved(t)
  <2>1. /\ TaskItem(u) \in {TaskItem(v) : v \in Task} /\ deferred' = Append(deferred, TaskItem(u))
        /\ pc = "handle" /\ cur = TaskItem(u) /\ pc' = "pop" /\ releasing' = releasing
        /\ UNCHANGED <<queue, slot_task>>
    BY <1>1 DEF Handling, Main, Defer, slotvars
  <2>2. \A x : Has(deferred', x) <=> Has(deferred, x) \/ TaskItem(u) = x
    BY <2>1, QueueType, HasAppend
  <2>3. /\ Holding({t})' = Holding({t}) /\ (Running(t)' <=> Running(t))
        /\ ~InHand(t)' /\ (InHand(t) <=> TaskItem(u) = TaskItem(t)) /\ ~CancelInHand(t)
    BY <2>1, KindsDiffer DEF Holding, Running, InHand, CancelInHand
  <2> QED
    BY <2>1, <2>2, <2>3, Ways DEF Moved
<1>2. ASSUME NEW s \in Slot, Launch(u, s) PROVE Moved(t)
  <2>1. PICK g \in Placements(s, u) : Launched(g)
    BY <1>2 DEF Launch
  <2>2. \A d \in DOMAIN g : g[d] \in Family(u)
    BY <1>2, PlacementOnce DEF Launch
  <2>3. InHand(u) /\ pc' # "handle" /\ releasing = NoSlot /\ UNCHANGED <<queue, deferred>>
    BY <1>2 DEF Launch, Handling, Main, InHand, qvars
  <2> QED
    BY <2>1, <2>2, <2>3, LaunchedMoved
<1>3. ASSUME NEW s \in Slot, LaunchFail(u, s) PROVE Moved(t)
  <2>1. PICK g \in Placements(s, u) : \E b \in DOMAIN g :
           LET before == {d \in DOMAIN g \ {s} : b = s \/ d < b}
           IN Launched([d \in before |-> g[d]])
    BY <1>3 DEF LaunchFail
  <2>2. PICK before \in SUBSET DOMAIN g : Launched([d \in before |-> g[d]])
    BY <2>1
  <2>3. \A d \in before : g[d] \in Family(u)
    BY <1>3, PlacementOnce DEF LaunchFail
  <2>4. InHand(u) /\ pc' # "handle" /\ releasing = NoSlot /\ UNCHANGED <<queue, deferred>>
    BY <1>3 DEF LaunchFail, Handling, Main, InHand, qvars
  <2> DEFINE h == [d \in before |-> g[d]]
  <2>5. (\A d \in DOMAIN h : h[d] \in Family(u)) /\ Launched(h)
    BY <2>2, <2>3
  <2> HIDE DEF h
  <2> QED
    BY <2>4, <2>5, LaunchedMoved
<1>4. CASE HandleCancel(u)
  <2>1. /\ pc = "handle" /\ cur = CancelItem(u) /\ pc' = "pop" /\ releasing = NoSlot
        /\ Holding({u}) = {} \/ releasing' \in Holding({u})
        /\ UNCHANGED <<queue, deferred, slot_task>>
    BY <1>4 DEF HandleCancel, Main, qvars, slotvars
  <2>2. /\ Holding({t})' = Holding({t}) /\ (Running(t)' <=> Running(t))
        /\ ~InHand(t)' /\ (CancelInHand(t) => t = u)
    BY <2>1, KindsDiffer DEF Holding, Running, InHand, CancelInHand
  <2>3. CancelInHand(t) => releasing' \in Holding({t})' \/ ~Running(t)'
    BY <2>1, <2>2 DEF Running
  <2> QED
    BY <2>1, <2>2, <2>3, Ways DEF Moved
<1>5. CASE HandleAction(u)
  BY <1>5, StillMoved, KindsDiffer DEF HandleAction, Handling, Main, CancelInHand, qvars, slotvars
<1> QED
  BY <1>1, <1>2, <1>3, <1>4, <1>5 DEF Process, DeferInference, DeferAction

LEMMA UpdateMoved ==
    ASSUME WInv, NEW t \in Task, (\E s \in Slot : UpdateSlot(s)) \/ Update
    PROVE  Moved(t)
<1>1. ASSUME NEW s \in Slot, UpdateSlot(s) PROVE Moved(t)
  BY <1>1, StillMoved
  DEF UpdateSlot, RollbackSlot, ShiftFail, PromptEmpty, PromptError, PromptNoFit, PromptPart,
      PromptAll, PromptAdd, SampleMore, SampleLast, FailSlot, AtPrompt, Sampled, Main, qvars, slotvars
<1>2. CASE PostNext
  <2>1. /\ queue' = Append(queue, NextItem) /\ pc = "next" /\ pc' = "shift" /\ releasing' = releasing
        /\ UNCHANGED <<deferred, slot_task>>
    BY <1>2 DEF PostNext, Main, slotvars
  <2>2. \A x : Has(queue', x) <=> Has(queue, x) \/ NextItem = x
    BY <2>1, QueueType, NextItemType, HasAppend
  <2>3. /\ Holding({t})' = Holding({t}) /\ (Running(t)' <=> Running(t))
        /\ ~InHand(t)' /\ ~CancelInHand(t)
    BY <2>1 DEF Holding, Running, InHand, CancelInHand
  <2> QED
    BY <2>1, <2>2, <2>3, KindsDiffer, Ways DEF Moved
<1>3. CASE HandleNext
  BY <1>3, StillMoved, KindsDiffer DEF HandleNext, Main, CancelInHand, qvars, slotvars
<1>4. CASE RollbackEnd \/ Collect \/ PromptEnd \/ SampleEnd \/ DecodeFatal \/ FailEnd
  BY <1>4, StillMoved
  DEF RollbackEnd, Collect, PromptEnd, SampleEnd, DecodeFatal, FailEnd, Main, CancelInHand,
      qvars, slotvars
<1>5. CASE Decode
  BY <1>5, StillMoved DEF Decode, DecodeChunk, Main, CancelInHand, qvars
<1> QED
  BY <1>1, <1>2, <1>3, <1>4, <1>5 DEF Update

LEMMA StepMoved ==
    ASSUME WInv, [Next]_vars, NEW t \in Task
    PROVE  Moved(t)
<1>1. CASE UNCHANGED vars
  BY <1>1, StillMoved DEF vars
<1> QED
  BY <1>1, ClientMoved, LoopMoved, ProcessMoved, UpdateMoved DEF Next

----------------------------------------------------------------------------
(* Requests whose end can be relied on *)

\* The client stays until it has its results or an error, and has posted one
\* task, with its children or without any.
Steady(r) == r \notin Leavers /\ \A t, u \in Roots(r) : t = u

\* No task of a client that stopped waits any more, and what runs is cancelled.
Followed ==
    \A t \in Task : Steady(ReqOf[t]) /\ client[ReqOf[t]] = "stopped" =>
        ~Waits(Root(t)) /\ (Running(t) => CancelOnWay(t))

\* What becomes of a client in a step.
LEMMA ClientSteps ==
    ASSUME WInv, [Next]_vars, NEW r \in Request
    PROVE  \/ client'[r] = client[r]
           \/ client[r] = "new" /\ client'[r] = "waiting"
           \/ client[r] = "waiting" /\ client'[r] = "done" /\ Complete(r)
           \/ (ClientLeaves(r) \/ ClientFails(r)) /\ client'[r] = "stopped"
<1>1. client \in [Request -> {"new", "waiting", "stopped", "done"}]
  BY QueueType DEF TypeOK
<1>2. ASSUME NEW q \in Request, Client(q)
      PROVE  \/ client'[r] = client[r]
             \/ q = r /\ client[r] = "new" /\ client'[r] = "waiting"
             \/ q = r /\ client[r] = "waiting" /\ client'[r] = "done" /\ Complete(r)
             \/ q = r /\ (ClientLeaves(r) \/ ClientFails(r)) /\ client'[r] = "stopped"
  <2>1. CASE Post(q)
    <3>1. client[q] = "new" /\ client' = [client EXCEPT ![q] = "waiting"]
      BY <2>1 DEF Post
    <3> QED
      BY <1>1, <3>1
  <2>2. CASE ClientDone(q)
    <3>1. client[q] = "waiting" /\ client' = [client EXCEPT ![q] = "done"] /\ Complete(q)
      BY <2>2 DEF ClientDone
    <3> QED
      BY <1>1, <3>1
  <2>3. CASE ClientLeaves(q) \/ ClientFails(q)
    <3>1. client' = [client EXCEPT ![q] = "stopped"]
      BY <2>3 DEF ClientLeaves, ClientFails, Stop
    <3> QED
      BY <1>1, <2>3, <3>1
  <2> QED
    BY <1>2, <2>1, <2>2, <2>3 DEF Client
<1>3. CASE Loop
  BY <1>3 DEF Loop, Pop, Drained, Wake, Idling, Release, hvars, vars
<1>4. ASSUME NEW t \in Task, Process(t) PROVE client' = client
  BY <1>4
  DEF Process, DeferInference, DeferAction, Defer, Launch, LaunchFail, HandleCancel, HandleAction,
      hvars
<1>5. ASSUME NEW s \in Slot, UpdateSlot(s) PROVE client' = client
  BY <1>5
  DEF UpdateSlot, RollbackSlot, ShiftFail, PromptEmpty, PromptError, PromptNoFit, PromptPart,
      PromptAll, PromptAdd, SampleMore, SampleLast, FailSlot, hvars
<1>6. CASE Update
  BY <1>6
  DEF Update, RollbackEnd, HandleNext, PostNext, Collect, PromptEnd, Decode, DecodeChunk,
      SampleEnd, DecodeFatal, FailEnd, hvars
<1>7. CASE UNCHANGED vars
  BY <1>7 DEF vars
<1> QED
  BY <1>2, <1>3, <1>4, <1>5, <1>6, <1>7 DEF Next

\* The one task of a steady request that failed waits no more.
LEMMA FailedSettled ==
    ASSUME WInv, NEW t \in Task, Steady(ReqOf[t]), Failed(ReqOf[t])
    PROVE  ~Waits(Root(t))
<1>1. PICK u \in Members(ReqOf[t]) : "error" \in Range(answer[u])
  BY DEF Failed
<1>2. u \in Task /\ Root(u) = Root(t)
  BY Requests DEF Members, Steady
<1>3. u \in Family(Root(t)) /\ Root(t) \in Task
  BY <1>2, Requests
<1>4. answer[u] # <<>>
  BY <1>1 DEF Range
<1> QED
  BY <1>3, <1>4 DEF WInv, AInv, Apart, WaitingRoots, Untouched

LEMMA StepFollowed ==
    ASSUME WInv, [Next]_vars, Followed
    PROVE  Followed'
<1> SUFFICES ASSUME NEW t \in Task, Steady(ReqOf[t]), client'[ReqOf[t]] = "stopped"
             PROVE  ~Waits(Root(t))' /\ (Running(t)' => CancelOnWay(t)')
  BY DEF Followed, Root
<1>1. Root(t) \in Task /\ ReqOf[t] \in Request /\ ReqOf[Root(t)] = ReqOf[t]
  BY Requests
<1>2. Moved(t) /\ Moved(Root(t))
  BY <1>1, StepMoved
<1>3. CASE client[ReqOf[t]] = "stopped"
  BY <1>1, <1>2, <1>3 DEF Followed, Moved
<1>4. CASE client[ReqOf[t]] # "stopped"
  <2>1. ClientFails(ReqOf[t])
    BY <1>1, <1>4, ClientSteps DEF Steady, ClientLeaves
  <2>2. Failed(ReqOf[t]) /\ Stop(ReqOf[t]) /\ client[ReqOf[t]] = "waiting"
    BY <2>1 DEF ClientFails, Stop
  <2>3. ~Waits(Root(t))'
    BY <1>1, <1>2, <2>2, FailedSettled DEF Moved
  <2>4. Has(queue', CancelItem(t))
    BY <1>1, <2>2, StopHas, Requests
  <2> QED
    BY <2>3, <2>4, Ways
<1> QED
  BY <1>3, <1>4

SInv == WInv /\ Followed

LEMMA InitSInv == Init => SInv
<1> SUFFICES ASSUME Init PROVE Followed
  BY InitWInv DEF SInv
<1>1. \A r \in Request : client[r] # "stopped"
  BY DEF Init
<1> QED
  BY <1>1, Requests DEF Followed

LEMMA StepSInv == SInv /\ [Next]_vars => SInv'
BY StepWInv, StepFollowed DEF SInv

\* Once the client of a steady request has stopped, no task of the request waits
\* in a queue or in the hands of the main thread, and one that runs has its CANCEL
\* on the way, whatever the clients of other requests do.
THEOREM SteadyCancelled == Spec => []Followed
<1>1. SInv => Followed
  BY DEF SInv
<1> QED
  BY <1>1, InitSInv, StepSInv, PTL DEF Spec

\* A CANCEL is final, for any number of slots, tasks and requests, provided that
\* no client leaves while its task may be in the hands of the main thread:
\* clients stop when their request failed, and a request is one task with its
\* children (CancelEffective).
THEOREM CancelsWork ==
    ASSUME \A r \in Request : Steady(r)
    PROVE  Spec => []CancelEffective
<1>1. SInv => CancelEffective
  <2> SUFFICES ASSUME SInv, NEW t \in Task, client[ReqOf[t]] = "stopped",
                      \A u \in Members(ReqOf[t]) : ~CancelOnWay(u)
               PROVE  ~InSystem(t)
    BY DEF CancelEffective
  <2>1. Steady(ReqOf[t]) /\ ~CancelOnWay(t)
    BY Requests
  <2> QED
    BY <2>1 DEF SInv, Followed, InSystem, Waits
<1> QED
  BY <1>1, InitSInv, StepSInv, PTL DEF Spec

----------------------------------------------------------------------------
(* Deferred tasks get their slot *)

\* All clients stay and post one task each; no launch is refused, and no
\* deferred task ends without a slot.
Flowing ==
    /\ \A r \in Request : Steady(r)
    /\ LaunchFails = {} /\ \A t \in Task : Kind[t] # "slot_action"

\* What is deferred needs a slot, and so does one of the tasks that are on their
\* way when all slots are idle.
Moving ==
    /\ \A t \in Task : Parked(t) => Inference(t)
    /\ (\E t \in Task : Parked(t)) =>
           Processing # {} \/ \E t \in Task : Inference(t) /\ (Queued(t) \/ InHand(t))

\* Too few slots are idle for a task only if one is in use.
LEMMA DeferredBehind ==
    ASSUME WInv, NEW t \in Task, DeferInference(t)
    PROVE  Processing # {}
<1> SUFFICES ASSUME Processing = {} PROVE FALSE
  OBVIOUS
<1>1. Idle = Slot
  BY DEF Processing, Idle, InState
<1>2. Slot # {} /\ Cardinality(Slot) = NSlots /\ NSlots \in Nat \ {0}
  <2>1. 0 \in Int /\ NSlots - 1 \in Int /\ NSlots \in Nat \ {0}
    BY SlotsAssumption DEF SlotsAssumption
  <2>2. Cardinality(0 .. NSlots - 1) = IF 0 > NSlots - 1 THEN 0 ELSE NSlots - 1 - 0 + 1
    BY <2>1, FS_Interval
  <2>3. Cardinality(Slot) = NSlots
    BY <2>1, <2>2 DEF Slot
  <2>4. 0 \in Slot
    BY <2>1 DEF Slot
  <2> QED
    BY <2>1, <2>3, <2>4
<1>3. Eligible(t) # {}
  <2>1. IdSlot[t] \in Nat \cup {-1}
    BY TaskAssumption DEF TaskAssumption
  <2>2. IdSlot[t] \in Nat => IdSlot[t] % NSlots \in Slot
    BY <1>2 DEF Slot
  <2> QED
    BY <1>1, <1>2, <2>1, <2>2 DEF Eligible
<1>4. ~(Cardinality(Idle) - 1 < Cardinality(Kids(t)))
  <2>1. Cardinality(Kids(t)) < NSlots
    BY ParentAssumption DEF ParentAssumption
  <2>2. Cardinality(Kids(t)) \in Nat
    BY TaskAssumption, FS_Subset, FS_CardinalityType DEF TaskAssumption, Kids
  <2> QED
    BY <1>1, <1>2, <2>1, <2>2
<1> QED
  BY <1>3, <1>4 DEF DeferInference

\* Steps that leave the queues alone, take no inference task from the main
\* thread's hands and release no slot.
LEMMA StillMoving ==
    ASSUME WInv, Moving, UNCHANGED <<queue, deferred>>,
           \/ pc' = pc /\ cur' = cur
           \/ \A t \in Task : Inference(t) => ~InHand(t),
           \A s \in Slot : slot_state'[s] = "idle" => slot_state[s] = "idle"
    PROVE  Moving'
<1>1. \A t \in Task : /\ Queued(t)' <=> Queued(t)
                      /\ Parked(t)' <=> Parked(t)
                      /\ Inference(t) /\ InHand(t) => InHand(t)'
  BY DEF Queued, Parked, InHand
<1>2. Processing # {} => Processing' # {}
  BY DEF Processing, Idle, InState
<1> QED
  BY <1>1, <1>2 DEF Moving, Inference

LEMMA ClientMoving ==
    ASSUME WInv, Moving, Flowing, NEW r \in Request, Client(r)
    PROVE  Moving'
<1>1. CASE ClientDone(r)
  BY <1>1, StillMoving DEF ClientDone, qvars, slotvars
<1>2. CASE Post(r)
  <2>1. UNCHANGED <<deferred, pc, cur, slot_state>>
    BY <1>2 DEF Post, slotvars
  <2>2. \A t \in Task : /\ Queued(t) => Queued(t)'
                        /\ Parked(t)' <=> Parked(t)
                        /\ InHand(t)' <=> InHand(t)
    BY <1>2, <2>1, PostHas, QueueType DEF InHand
  <2>3. Processing' = Processing
    BY <2>1 DEF Processing, Idle, InState
  <2> QED
    BY <2>2, <2>3 DEF Moving, Inference
<1>3. CASE ClientFails(r)
  <2>1. Stop(r) /\ Failed(r) /\ UNCHANGED <<pc, cur, slot_state>>
    BY <1>3 DEF ClientFails, Stop, slotvars
  <2>2. \A t \in Task : Queued(t) => t \notin Members(r)
    <3>1. ASSUME NEW t \in Task, Queued(t), t \in Members(r) PROVE FALSE
      <4>1. ReqOf[t] = r /\ Root(t) = t /\ Waits(t)
        BY <3>1 DEF Members, Waits, Root, WInv, AInv, Apart, WaitingRoots
      <4> QED
        BY <2>1, <4>1, FailedSettled DEF Flowing
    <3> QED
      BY <3>1
  <2>3. \A t \in Task : /\ Queued(t) => Queued(t)'
                        /\ Parked(t)' => Parked(t)
                        /\ InHand(t)' <=> InHand(t)
    BY <2>1, <2>2, StopHas, QueueType DEF InHand
  <2>4. Processing' = Processing
    BY <2>1 DEF Processing, Idle, InState
  <2> QED
    BY <2>3, <2>4 DEF Moving, Inference
<1> QED
  BY <1>1, <1>2, <1>3 DEF Client, ClientLeaves, Flowing, Steady

LEMMA LoopMoving ==
    ASSUME WInv, Moving, Loop
    PROVE  Moving'
<1>1. CASE Drained \/ Wake
  BY <1>1, StillMoving DEF Drained, Wake, Main, InHand, qvars, slotvars
<1>2. CASE Idling
  BY <1>2, StillMoving DEF Idling, vars
<1>3. CASE Pop
  <2>1. /\ queue # <<>> /\ queue' = Tail(queue) /\ cur' = Head(queue)
        /\ pc = "pop" /\ pc' = "handle" /\ UNCHANGED <<deferred, slot_state>>
    BY <1>3 DEF Pop, Main, slotvars
  <2>2. \A x : Has(queue, x) <=> cur' = x \/ Has(queue', x)
    BY <2>1, QueueType, HasTail
  <2>3. \A t \in Task : /\ Queued(t) => Queued(t)' \/ InHand(t)'
                        /\ Parked(t)' <=> Parked(t)
                        /\ ~InHand(t)
    BY <2>1, <2>2, QueueType DEF InHand
  <2>4. Processing' = Processing
    BY <2>1 DEF Processing, Idle, InState
  <2> QED
    BY <2>3, <2>4 DEF Moving, Inference
<1>4. CASE Release
  <2>1. CASE deferred = <<>> /\ UNCHANGED <<queue, deferred>>
    <3>1. \A t \in Task : ~Parked(t)'
      BY <2>1 DEF Parked
    <3> QED
      BY <3>1 DEF Moving
  <2>2. CASE \E u \in Task : /\ Has(deferred, TaskItem(u))
                             /\ \A x : Has(queue', x) <=> x = TaskItem(u) \/ Has(queue, x)
                             /\ \A t \in Task : Has(deferred', TaskItem(t)) => Has(deferred, TaskItem(t))
    <3>1. PICK u \in Task : Parked(u) /\ Queued(u)' /\ \A t \in Task : Parked(t)' => Parked(t)
      BY <2>2, QueueType
    <3>2. Inference(u) /\ \A t \in Task : Parked(t)' => Inference(t)
      BY <3>1 DEF Moving
    <3>3. \A t \in Task : Inference(t)' <=> Inference(t)
      BY DEF Inference
    <3> QED
      BY <3>1, <3>2, <3>3 DEF Moving
  <2> QED
    BY <1>4, <2>1, <2>2, ReleaseHas
<1> QED
  BY <1>1, <1>2, <1>3, <1>4 DEF Loop

LEMMA ProcessMoving ==
    ASSUME WInv, Moving, Flowing, NEW t \in Task, Process(t)
    PROVE  Moving'
<1>1. CASE DeferInference(t)
  <2>1. /\ TaskItem(t) \in {TaskItem(u) : u \in Task} /\ deferred' = Append(deferred, TaskItem(t))
        /\ slot_state' = slot_state /\ Inference(t)
    BY <1>1 DEF DeferInference, Handling, Main, Defer, slotvars
  <2>2. \A x : Has(deferred', x) <=> Has(deferred, x) \/ TaskItem(t) = x
    BY <2>1, QueueType, HasAppend
  <2>3. \A u \in Task : Parked(u)' => Inference(u)
    BY <2>1, <2>2, QueueType, KindsDiffer DEF Moving
  <2>4. Processing' # {}
    BY <1>1, <2>1, DeferredBehind DEF Processing, Idle, InState
  <2>5. \A u \in Task : Inference(u)' <=> Inference(u)
    BY DEF Inference
  <2> QED
    BY <2>3, <2>4, <2>5 DEF Moving
<1>2. ASSUME NEW s \in Slot, Launch(t, s) PROVE Moving'
  <2>1. PICK g \in Placements(s, t) : Launched(g)
    BY <1>2 DEF Launch
  <2>2. s \in DOMAIN g
    BY DEF Placements, Bijection, Injection
  <2>3. slot_state'[s] # "idle"
    BY <2>1, <2>2 DEF Launched
  <2>4. Processing' # {}
    BY <2>3 DEF Processing, Idle, InState
  <2>5. UNCHANGED deferred
    BY <1>2 DEF Launch, qvars
  <2> QED
    BY <2>4, <2>5 DEF Moving, Parked, Inference
<1>3. ASSUME NEW s \in Slot, LaunchFail(t, s) PROVE FALSE
  <2>1. \E g \in Placements(s, t) : \E b \in DOMAIN g : g[b] \in LaunchFails
    BY <1>3 DEF LaunchFail
  <2> QED
    BY <2>1 DEF Flowing
<1>4. CASE HandleCancel(t)
  <2>1. \A u \in Task : ~InHand(u)
    BY <1>4, KindsDiffer DEF HandleCancel, InHand
  <2> QED
    BY <1>4, <2>1, StillMoving DEF HandleCancel, qvars, slotvars
<1>5. CASE HandleAction(t)
  <2>1. \A u \in Task : Inference(u) => ~InHand(u)
    BY <1>5, KindsDiffer DEF HandleAction, Handling, InHand, Inference
  <2> QED
    BY <1>5, <2>1, StillMoving DEF HandleAction, qvars, slotvars
<1> QED
  BY <1>1, <1>2, <1>3, <1>4, <1>5 DEF Process, DeferAction, Flowing

\* update_slots() releases slots only through Release.
LEMMA UpdateBusy ==
    ASSUME AInv, (\E s \in Slot : UpdateSlot(s)) \/ Update, NEW o \in Slot, slot_state'[o] = "idle"
    PROVE  slot_state[o] = "idle"
<1>1. ASSUME NEW s \in Slot, UpdateSlot(s) PROVE slot_state[o] = "idle"
  <2>1. CASE \/ RollbackSlot(s) \/ ShiftFail(s) \/ PromptEmpty(s) \/ PromptError(s)
             \/ SampleLast(s) \/ FailSlot(s)
    BY <2>1 DEF RollbackSlot, ShiftFail, PromptEmpty, PromptError, SampleLast, FailSlot, slotvars
  <2>2. CASE PromptNoFit(s) \/ PromptPart(s) \/ PromptAll(s) \/ SampleMore(s)
    <3>1. PICK st : st # "idle" /\ slot_state' = [slot_state EXCEPT ![s] = st]
      BY <2>2 DEF PromptNoFit, PromptPart, PromptAll, PromptAdd, SampleMore
    <3> QED
      BY <3>1, StateSet
  <2> QED
    BY <1>1, <2>1, <2>2 DEF UpdateSlot
<1>2. CASE Decode
  BY <1>2 DEF Decode, DecodeChunk
<1>3. CASE Update /\ ~Decode
  BY <1>3
  DEF Update, RollbackEnd, HandleNext, PostNext, Collect, PromptEnd, SampleEnd, DecodeFatal,
      FailEnd, slotvars
<1> QED
  BY <1>1, <1>2, <1>3

LEMMA UpdateMoving ==
    ASSUME WInv, Moving, (\E s \in Slot : UpdateSlot(s)) \/ Update
    PROVE  Moving'
<1>0. \A o \in Slot : slot_state'[o] = "idle" => slot_state[o] = "idle"
  BY UpdateBusy DEF WInv
<1>1. ASSUME NEW s \in Slot, UpdateSlot(s) PROVE Moving'
  BY <1>0, <1>1, StillMoving
  DEF UpdateSlot, RollbackSlot, ShiftFail, PromptEmpty, PromptError, PromptNoFit, PromptPart,
      PromptAll, PromptAdd, SampleMore, SampleLast, FailSlot, qvars
<1>2. CASE PostNext
  <2>1. /\ queue' = Append(queue, NextItem) /\ pc = "next" /\ UNCHANGED <<deferred, slot_state>>
    BY <1>2 DEF PostNext, Main, slotvars
  <2>2. \A x : Has(queue', x) <=> Has(queue, x) \/ NextItem = x
    BY <2>1, QueueType, NextItemType, HasAppend
  <2>3. \A t \in Task : /\ Queued(t) => Queued(t)'
                        /\ Parked(t)' <=> Parked(t)
                        /\ ~InHand(t)
    BY <2>1, <2>2, QueueType DEF InHand
  <2>4. Processing' = Processing
    BY <2>1 DEF Processing, Idle, InState
  <2> QED
    BY <2>3, <2>4 DEF Moving, Inference
<1>3. CASE HandleNext
  <2>1. \A t \in Task : ~InHand(t)
    BY <1>3, KindsDiffer DEF HandleNext, InHand
  <2> QED
    BY <1>3, <2>1, StillMoving DEF HandleNext, qvars, slotvars
<1>4. CASE RollbackEnd \/ Collect \/ PromptEnd \/ SampleEnd \/ DecodeFatal \/ FailEnd
  BY <1>0, <1>4, StillMoving
  DEF RollbackEnd, Collect, PromptEnd, SampleEnd, DecodeFatal, FailEnd, Main, InHand, qvars
<1>5. CASE Decode
  BY <1>0, <1>5, StillMoving DEF Decode, DecodeChunk, Main, InHand, qvars
<1> QED
  BY <1>1, <1>2, <1>3, <1>4, <1>5 DEF Update

LEMMA StepMoving ==
    ASSUME Flowing, WInv, Moving, [Next]_vars
    PROVE  Moving'
<1>1. CASE UNCHANGED vars
  BY <1>1, StillMoving DEF vars
<1> QED
  BY <1>1, ClientMoving, LoopMoving, ProcessMoving, UpdateMoving DEF Next

\* Deferred tasks never wait for a slot while every slot is idle, for any number
\* of slots, tasks and requests, provided that no task that a release takes out
\* of the deferred ones is cancelled, refused or done without a slot (NoStall).
THEOREM NobodyStalled ==
    ASSUME Flowing
    PROVE  Spec => []NoStall
<1>1. Init => WInv /\ Moving
  <2> SUFFICES ASSUME Init PROVE Moving
    BY InitWInv
  <2>1. DOMAIN deferred = {}
    BY DEF Init
  <2> QED
    BY <2>1 DEF Moving, Parked
<1>2. WInv /\ Moving /\ [Next]_vars => (WInv /\ Moving)'
  BY StepWInv, StepMoving
<1>3. WInv /\ Moving => NoStall
  <2> SUFFICES ASSUME WInv, Moving, deferred # <<>>
               PROVE  Processing # {} \/ \E t \in Task : Queued(t) \/ InHand(t)
    BY DEF NoStall
  <2>1. deferred \in Seq({TaskItem(t) : t \in Task})
    BY QueueType
  <2>2. 1 \in DOMAIN deferred /\ deferred[1] \in {TaskItem(t) : t \in Task}
    BY <2>1
  <2>3. \E t \in Task : Parked(t)
    BY <2>2 DEF Parked
  <2> QED
    BY <2>3 DEF Moving
<1> QED
  BY <1>1, <1>2, <1>3, PTL DEF Spec

----------------------------------------------------------------------------
(* Families come to an end *)

\* Families are steady, and the prompt of a parent can be evaluated.
Prompted == \A t \in Task : Kids(t) # {} => Steady(ReqOf[t]) /\ t \notin EmptyPrompt \cup PromptFails

DoneAnswered == \A t \in Task : client[ReqOf[t]] = "done" => answer[t] # <<>>

\* The slot is on the way to the end of its prompt, and not given up.
Prompting(o) == o # releasing /\ slot_state[o] \in {"started", "prompt", "done_prompt"}

\* The parent of the child in slot s is on its way to the end of its prompt, or
\* the child's end is certain.
Cared(s) ==
    LET kid == slot_task[s] IN
    \/ \E o \in Slot : Prompting(o) /\ slot_task[o] = ParentOf[kid]
    \/ pc = "fail" /\ client[ReqOf[kid]] = "waiting" /\ Failed(ReqOf[kid])
    \/ CancelOnWay(kid)
    \/ pc = "rollback" /\ cur = TaskItem(ParentOf[kid])

Child(s) == slot_task[s] \in Task /\ ParentOf[slot_task[s]] \in Task

ChildrenCared == \A s \in Slot : slot_state[s] = "wait_other" => Child(s) /\ Cared(s)

\* Once a chunk is decoded no child waits for a parent whose prompt is done.
ChildrenActive ==
    pc = "sample" => \A s, o \in Slot : slot_state[s] = "wait_other" /\ slot_state[o] = "done_prompt" =>
                         slot_task[o] # ParentOf[slot_task[s]]

\* A slot whose prompt is done is sampled in the same update, or fails with it.
PromptsSampled ==
    \A s \in Slot : slot_state[s] = "done_prompt" =>
        \/ pc = "fail"
        \/ pc \in {"batch", "decode", "sample"} /\ (s \in pending \cup chunk \/ s = releasing)

\* While the batch is empty no slot but those that got their result was passed.
NonePassed ==
    pc = "batch" /\ ~has_tokens =>
        /\ batched = NoSlot
        /\ \A s \in Slot : /\ slot_state[s] \notin {"generating", "done_prompt"}
                           /\ slot_state[s] \in {"started", "prompt"} /\ s < at => s = releasing

\* After an update without a token only children are left, whose end is near.
OnlyChildren ==
    n_empty > 0 => /\ n_empty = 1 /\ pc \in {"pop", "handle", "rollback", "wait"}
                   /\ \A s \in Slot : slot_state[s] \in {"idle", "wait_other"}

FamilyInv == /\ ChildrenCared /\ ChildrenActive /\ PromptsSampled
             /\ NonePassed /\ OnlyChildren /\ NoAbort

FInv == SInv /\ BatchInv /\ DoneAnswered /\ FamilyInv

\* Results grow with every step.
LEMMA StepGrows ==
    ASSUME WInv, [Next]_vars
    PROVE  Grows
<1>1. ASSUME NEW t, NEW res \in {"final", "error"}, Send(t, res) PROVE Grows
  BY <1>1, QueueType, SendGrows
<1>2. CASE UNCHANGED answer
  BY <1>2, SameGrows
<1>3. ASSUME NEW r \in Request, Client(r) PROVE UNCHANGED answer
  BY <1>3 DEF Client, ClientLeaves, ClientFails, Post, Stop, ClientDone
<1>4. CASE Loop
  BY <1>2, <1>4 DEF Loop, Pop, Drained, Wake, Idling, Release, hvars, vars
<1>5. ASSUME NEW t \in Task, Process(t) PROVE Grows
  <2>1. CASE \E s \in Slot : LaunchFail(t, s)
    <3>1. PICK s \in Slot : LaunchFail(t, s)
      BY <2>1
    <3>2. \E g \in Placements(s, t) : \E b \in DOMAIN g : Send(g[b], "error")
      BY <3>1 DEF LaunchFail
    <3> QED
      BY <1>1, <3>2
  <2>2. CASE HandleAction(t)
    BY <1>1, <2>2 DEF HandleAction
  <2> QED
    BY <1>2, <1>5, <2>1, <2>2
    DEF Process, DeferInference, DeferAction, Defer, Launch, HandleCancel, hvars
<1>6. ASSUME NEW s \in Slot, UpdateSlot(s) PROVE Grows
  <2>1. CASE ShiftFail(s) \/ PromptEmpty(s) \/ PromptError(s) \/ SampleLast(s) \/ FailSlot(s)
    BY <1>1, <2>1 DEF ShiftFail, PromptEmpty, PromptError, SampleLast, FailSlot
  <2> QED
    BY <1>2, <1>6, <2>1
    DEF UpdateSlot, RollbackSlot, PromptNoFit, PromptPart, PromptAll, PromptAdd, SampleMore, hvars
<1>7. CASE Update
  BY <1>2, <1>7
  DEF Update, RollbackEnd, HandleNext, PostNext, Collect, PromptEnd, Decode, DecodeChunk,
      SampleEnd, DecodeFatal, FailEnd, hvars
<1>8. CASE UNCHANGED vars
  BY <1>2, <1>8 DEF vars
<1> QED
  BY <1>2, <1>3, <1>4, <1>5, <1>6, <1>7, <1>8 DEF Next

LEMMA StepDone ==
    ASSUME WInv, [Next]_vars, DoneAnswered
    PROVE  DoneAnswered'
<1> SUFFICES ASSUME NEW t \in Task, client'[ReqOf[t]] = "done" PROVE answer'[t] # <<>>
  BY DEF DoneAnswered
<1>1. ReqOf[t] \in Request /\ t \in Members(ReqOf[t])
  BY Requests
<1>2. client[ReqOf[t]] = "done" \/ Complete(ReqOf[t])
  BY <1>1, ClientSteps
<1>3. answer[t] # <<>>
  BY <1>1, <1>2 DEF DoneAnswered, Complete
<1> QED
  BY <1>3, StepGrows DEF Grows

\* The family of a child.
LEMMA Parents ==
    ASSUME Prompted, NEW kid \in Task, ParentOf[kid] \in Task
    PROVE  /\ Steady(ReqOf[kid]) /\ ReqOf[ParentOf[kid]] = ReqOf[kid] /\ ReqOf[kid] \in Request
           /\ ParentOf[kid] \notin EmptyPrompt \cup PromptFails /\ ParentOf[ParentOf[kid]] = NoTask
           /\ kid \in Family(ParentOf[kid])
<1>1. ParentOf[kid] # NoTask /\ kid \in Kids(ParentOf[kid])
  BY TaskAssumption DEF TaskAssumption, Kids
<1> QED
  BY <1>1, ParentAssumption, Requests DEF ParentAssumption, Prompted, Family

\* A child stays cared for, when its parent's slot does or the child has its end.
LEMMA CareKept ==
    ASSUME Prompted, FInv, [Next]_vars,
           \A s \in Slot : slot_state'[s] = "wait_other" =>
               \/ slot_state[s] = "wait_other" /\ slot_task'[s] = slot_task[s]
               \/ Child(s)' /\ Cared(s)',
           \A s, o \in Slot :
               /\ slot_state[s] = "wait_other" /\ slot_state'[s] = "wait_other"
               /\ slot_task'[s] = slot_task[s] /\ Child(s)
               /\ Prompting(o) /\ slot_task[o] = ParentOf[slot_task[s]]
               => (Prompting(o)' /\ slot_task'[o] = slot_task[o]) \/ Cared(s)',
           pc = "fail" => pc' = "fail" \/ \A s \in Slot : slot_state'[s] # "wait_other",
           pc = "rollback" =>
               \/ pc' = "rollback" /\ cur' = cur
               \/ \A s \in Slot : slot_state[s] = "wait_other" /\ Child(s) =>
                      cur # TaskItem(ParentOf[slot_task[s]])
    PROVE  ChildrenCared'
<1> SUFFICES ASSUME NEW s \in Slot, slot_state'[s] = "wait_other",
                    slot_state[s] = "wait_other", slot_task'[s] = slot_task[s]
             PROVE  Child(s)' /\ Cared(s)'
  BY DEF ChildrenCared
<1> DEFINE kid == slot_task[s]
<1>1. Child(s) /\ Cared(s)
  BY DEF FInv, FamilyInv, ChildrenCared
<1>2. Child(s)' /\ kid \in Task /\ ParentOf[kid] \in Task
  BY <1>1 DEF Child
<1>3. WInv /\ Followed
  BY DEF FInv, SInv
<1>4. CASE \E o \in Slot : Prompting(o) /\ slot_task[o] = ParentOf[kid]
  BY <1>1, <1>2, <1>4 DEF Cared
<1>5. CASE CancelOnWay(kid)
  <2>1. CancelOnWay(kid)' \/ ~Running(kid)'
    BY <1>2, <1>3, <1>5, StepMoved DEF Moved
  <2>2. Running(kid)'
    BY DEF Running, Holding
  <2>3. slot_task'[s] = kid /\ CancelOnWay(kid)'
    BY <2>1, <2>2
  <2> QED
    BY <1>2, <2>3 DEF Cared
<1>6. CASE pc = "fail" /\ client[ReqOf[kid]] = "waiting" /\ Failed(ReqOf[kid])
  <2>1. pc' = "fail" /\ Failed(ReqOf[kid])' /\ ReqOf[kid] \in Request
    BY <1>2, <1>3, <1>6, StepGrows, Requests DEF Grows
  <2>2. ~Complete(ReqOf[kid])
    <3>1. PICK u \in Members(ReqOf[kid]) : "error" \in Range(answer[u])
      BY <1>6 DEF Failed
    <3>2. Range(<<"final">>) = {"final"}
      BY DEF Range
    <3> QED
      BY <3>1, <3>2 DEF Complete
  <2>3. CASE client'[ReqOf[kid]] = "waiting"
    BY <1>2, <2>1, <2>3 DEF Cared
  <2>4. CASE client'[ReqOf[kid]] # "waiting"
    <3>1. Stop(ReqOf[kid])
      BY <1>3, <1>6, <2>1, <2>2, <2>4, ClientSteps DEF ClientLeaves, ClientFails
    <3>2. Has(queue', CancelItem(kid))
      BY <1>2, <1>3, <2>1, <3>1, StopHas, Requests
    <3>3. CancelOnWay(kid)'
      BY <1>2, <1>3, <3>2, Ways
    <3> QED
      BY <1>2, <3>3 DEF Cared
  <2> QED
    BY <2>3, <2>4
<1>7. CASE pc = "rollback" /\ cur = TaskItem(ParentOf[kid])
  <2>1. pc' = "rollback" /\ cur' = TaskItem(ParentOf[kid])
    BY <1>1, <1>7
  <2> QED
    BY <1>2, <2>1 DEF Cared
<1> QED
  BY <1>1, <1>4, <1>5, <1>6, <1>7 DEF Cared

\* Steps that leave the slots and the batch alone, outside of it or everywhere.
LEMMA QuietFamilies ==
    ASSUME Prompted, FInv, [Next]_vars,
           UNCHANGED <<slot_state, slot_task, releasing, n_empty, at, batched, has_tokens, pending, chunk>>,
           \/ pc' = pc /\ cur' = cur
           \/ pc \in {"pop", "handle", "wait"} /\ pc' \in {"pop", "handle", "rollback", "wait"}
    PROVE  FamilyInv'
<1>1. ChildrenCared'
  BY CareKept DEF Prompting
<1>2. ChildrenActive' /\ PromptsSampled' /\ NonePassed' /\ OnlyChildren' /\ NoAbort'
  BY DEF FInv, FamilyInv, ChildrenActive, PromptsSampled, NonePassed, OnlyChildren, NoAbort
<1> QED
  BY <1>1, <1>2 DEF FamilyInv

\* A child whose client stopped is cancelled.
LEMMA StoppedCared ==
    ASSUME Prompted, FInv, [Next]_vars, NEW s \in Slot, Child(s), slot_task'[s] = slot_task[s],
           client'[ReqOf[slot_task[s]]] = "stopped"
    PROVE  Cared(s)'
<1> DEFINE kid == slot_task[s]
<1>1. kid \in Task /\ ParentOf[kid] \in Task /\ Steady(ReqOf[kid])
  BY Parents DEF Child
<1>2. Followed'
  BY StepFollowed DEF FInv, SInv
<1>3. Running(kid)'
  BY DEF Running, Holding
<1>4. CancelOnWay(kid)'
  BY <1>1, <1>2, <1>3 DEF Followed
<1> QED
  BY <1>4 DEF Cared

\* Steps that give up a slot, about to be released: no child waits for it, or
\* the child's end is certain.
LEMMA GivenUp ==
    ASSUME Prompted, FInv, [Next]_vars, NEW o \in Slot, releasing = NoSlot, releasing' = o,
           UNCHANGED <<slot_state, slot_task, n_empty, pending>>,
           chunk' = chunk \/ chunk' = chunk \ {o},
           (pc' = pc /\ cur' = cur) \/ (pc = "handle" /\ pc' = "pop"),
           \A s \in Slot :
               /\ slot_state[s] = "wait_other" /\ Child(s)
               /\ Prompting(o) /\ slot_task[o] = ParentOf[slot_task[s]]
               => Cared(s)',
           NonePassed'
    PROVE  FamilyInv'
<1>1. ChildrenCared'
  BY CareKept DEF Prompting
<1>2. PromptsSampled'
  BY SlotType DEF FInv, FamilyInv, PromptsSampled
<1>3. ChildrenActive' /\ OnlyChildren' /\ NoAbort'
  BY DEF FInv, FamilyInv, ChildrenActive, OnlyChildren, NoAbort
<1> QED
  BY <1>1, <1>2, <1>3 DEF FamilyInv

LEMMA DrainedFamilies ==
    ASSUME Prompted, FInv, [Next]_vars, Drained
    PROVE  FamilyInv'
<1>1. /\ pc = "pop" /\ queue = <<>> /\ releasing = NoSlot
      /\ pc' = IF Processing = {} THEN "wait" ELSE "next"
      /\ UNCHANGED <<slot_state, slot_task, releasing, n_empty>>
  BY DEF Drained, Main, slotvars
<1>2. WInv
  BY DEF FInv, SInv
<1>3. n_empty > 0 => Processing = {}
  <2> SUFFICES ASSUME n_empty > 0, NEW s \in Slot, slot_state[s] # "idle" PROVE FALSE
    BY DEF Processing, Idle, InState
  <2>1. \A o \in Slot : slot_state[o] \in {"idle", "wait_other"}
    BY DEF FInv, FamilyInv, OnlyChildren
  <2>2. Child(s) /\ Cared(s)
    BY <2>1 DEF FInv, FamilyInv, ChildrenCared
  <2>3. CancelOnWay(slot_task[s])
    BY <1>1, <2>1, <2>2 DEF Cared, Prompting
  <2>4. DOMAIN queue = {}
    BY <1>1
  <2> QED
    BY <1>1, <1>2, <2>2, <2>3, <2>4, Ways DEF Child, Has, CancelInHand
<1>4. ChildrenCared'
  BY <1>1, CareKept DEF Prompting
<1>5. ChildrenActive' /\ PromptsSampled' /\ NonePassed' /\ OnlyChildren' /\ NoAbort'
  BY <1>1, <1>3
  DEF FInv, FamilyInv, ChildrenActive, PromptsSampled, NonePassed, OnlyChildren, NoAbort
<1> QED
  BY <1>4, <1>5 DEF FamilyInv

LEMMA ReleaseFamilies ==
    ASSUME Prompted, FInv, [Next]_vars, Release
    PROVE  FamilyInv'
<1>1. TypeOK
  BY QueueType DEF FInv, SInv
<1>2. /\ releasing \in Slot /\ releasing' = NoSlot /\ NoSlot \notin Slot
      /\ \A s \in Slot : /\ slot_state'[s] = IF s = releasing THEN "idle" ELSE slot_state[s]
                         /\ s # releasing => slot_task'[s] = slot_task[s]
      /\ UNCHANGED <<pc, cur, at, batched, has_tokens, pending, chunk, n_empty>>
  BY <1>1, SlotType DEF Release, batchvars, TypeOK
<1>3. ChildrenCared'
  BY <1>2, CareKept DEF Prompting
<1>4. ChildrenActive'
  BY <1>2 DEF FInv, FamilyInv, ChildrenActive
<1>5. PromptsSampled' /\ NonePassed'
  BY <1>2 DEF FInv, FamilyInv, PromptsSampled, NonePassed
<1>6. OnlyChildren' /\ NoAbort'
  BY <1>2 DEF FInv, FamilyInv, OnlyChildren, NoAbort
<1> QED
  BY <1>3, <1>4, <1>5, <1>6 DEF FamilyInv

\* The tasks of a family that were launched into idle slots.
LEMMA LaunchedFamilies ==
    ASSUME Prompted, FInv, [Next]_vars, NEW t \in Task, InHand(t), releasing = NoSlot, releasing' = NoSlot,
           pc' \in {"pop", "rollback"}, NEW g, DOMAIN g \subseteq Idle,
           \A d \in DOMAIN g : g[d] \in Family(t), Launched(g),
           \/ \E s \in DOMAIN g : g[s] = t
           \/ pc' = "rollback" /\ cur' = TaskItem(t)
    PROVE  FamilyInv'
<1>1. \A d \in Slot : \/ /\ d \in DOMAIN g /\ slot_task'[d] = g[d] /\ slot_state[d] = "idle"
                         /\ slot_state'[d] = IF ParentOf[g[d]] # NoTask THEN "wait_other" ELSE "started"
                      \/ /\ d \notin DOMAIN g /\ slot_task'[d] = slot_task[d]
                         /\ slot_state'[d] = slot_state[d]
  BY DEF Launched, Idle, InState
<1>2. /\ ParentOf[t] = NoTask /\ t # NoTask /\ t \in Task /\ pc = "handle"
      /\ \A u \in Family(t) : ParentOf[u] # NoTask => u \in Task /\ ParentOf[u] = t
  BY TaskAssumption
  DEF TaskAssumption, FInv, SInv, WInv, AInv, Apart, WaitingRoots, Waits, InHand, Family, Kids
<1>3. ASSUME NEW d \in DOMAIN g, slot_state'[d] = "wait_other" PROVE Child(d)' /\ Cared(d)'
  <2>1. d \in Slot /\ slot_task'[d] = g[d] /\ g[d] \in Task /\ ParentOf[g[d]] = t
    BY <1>1, <1>2, <1>3 DEF Idle, InState
  <2>2. Child(d)'
    BY <1>2, <2>1 DEF Child
  <2>3. CASE \E s \in DOMAIN g : g[s] = t
    <3>1. PICK s \in DOMAIN g : g[s] = t
      BY <2>3
    <3>2. s \in Slot /\ s # releasing' /\ slot_state'[s] = "started" /\ slot_task'[s] = t
      BY <1>1, <1>2, <3>1, SlotType DEF Idle, InState
    <3> QED
      BY <2>1, <2>2, <3>2 DEF Cared, Prompting
  <2>4. CASE pc' = "rollback" /\ cur' = TaskItem(t)
    BY <2>1, <2>2, <2>4 DEF Cared
  <2> QED
    BY <2>2, <2>3, <2>4
<1>4. ChildrenCared'
  BY <1>1, <1>2, <1>3, CareKept DEF Prompting
<1>5. \A s \in Slot : slot_state'[s] # "done_prompt"
  BY <1>1, <1>2 DEF FInv, FamilyInv, PromptsSampled
<1>6. OnlyChildren'
  <2>1. CASE DOMAIN g = {}
    BY <1>1, <1>2, <2>1 DEF Launched, FInv, FamilyInv, OnlyChildren
  <2>2. CASE DOMAIN g # {}
    BY <2>2 DEF Launched, OnlyChildren
  <2> QED
    BY <2>1, <2>2
<1>7. ChildrenActive' /\ PromptsSampled' /\ NonePassed' /\ NoAbort'
  BY <1>5 DEF ChildrenActive, PromptsSampled, NonePassed, NoAbort
<1> QED
  BY <1>4, <1>6, <1>7 DEF FamilyInv

LEMMA ProcessFamilies ==
    ASSUME Prompted, FInv, [Next]_vars, NEW t \in Task, Process(t)
    PROVE  FamilyInv'
<1>1. CASE DeferInference(t) \/ DeferAction(t)
  BY <1>1, QuietFamilies DEF DeferInference, DeferAction, Handling, Main, Defer, slotvars, batchvars
<1>2. CASE HandleAction(t)
  BY <1>2, QuietFamilies DEF HandleAction, Handling, Main, slotvars, batchvars
<1>3. ASSUME NEW s \in Slot, Launch(t, s) PROVE FamilyInv'
  <2>1. PICK g \in Placements(s, t) : Launched(g)
    BY <1>3 DEF Launch
  <2>2. s \in DOMAIN g /\ g[s] = t
    BY DEF Placements, Bijection, Injection
  <2>3. DOMAIN g \subseteq Idle /\ \A d \in DOMAIN g : g[d] \in Family(t)
    BY <1>3, PlacementOnce DEF Launch
  <2>4. InHand(t) /\ pc' = "pop" /\ releasing = NoSlot /\ releasing' = NoSlot
    BY <1>3 DEF Launch, Handling, Main, InHand
  <2> QED
    BY <2>1, <2>2, <2>3, <2>4, LaunchedFamilies
<1>4. ASSUME NEW s \in Slot, LaunchFail(t, s) PROVE FamilyInv'
  <2>1. PICK g \in Placements(s, t) : \E b \in DOMAIN g :
           LET before == {d \in DOMAIN g \ {s} : b = s \/ d < b}
           IN Launched([d \in before |-> g[d]])
    BY <1>4 DEF LaunchFail
  <2>2. PICK before \in SUBSET DOMAIN g : Launched([d \in before |-> g[d]])
    BY <2>1
  <2>3. DOMAIN g \subseteq Idle /\ \A d \in DOMAIN g : g[d] \in Family(t)
    BY <1>4, PlacementOnce DEF LaunchFail
  <2>4. /\ InHand(t) /\ pc' = "rollback" /\ cur' = TaskItem(t)
        /\ releasing = NoSlot /\ releasing' = NoSlot
    BY <1>4 DEF LaunchFail, Handling, Main, InHand
  <2> DEFINE h == [d \in before |-> g[d]]
  <2>5. DOMAIN h \subseteq Idle /\ (\A d \in DOMAIN h : h[d] \in Family(t)) /\ Launched(h)
    BY <2>2, <2>3
  <2> HIDE DEF h
  <2> QED
    BY <2>4, <2>5, LaunchedFamilies
<1>5. CASE HandleCancel(t)
  <2>1. /\ pc = "handle" /\ cur = CancelItem(t) /\ pc' = "pop" /\ releasing = NoSlot
        /\ releasing' = releasing \/ releasing' \in Holding({t})
        /\ UNCHANGED <<client, slot_state, slot_task, at, batched, has_tokens, pending, chunk, n_empty>>
    BY <1>5 DEF HandleCancel, Main, hvars, slotvars, batchvars
  <2>2. CASE releasing' = releasing
    BY <2>1, <2>2, QuietFamilies
  <2>3. CASE releasing' \in Holding({t})
    <3>1. PICK o \in Slot : releasing' = o /\ slot_task[o] = t
      BY <2>3 DEF Holding
    <3>2. client[ReqOf[t]] = "stopped"
      BY <2>1 DEF FInv, SInv, WInv, Reasons, CancelsStopped
    <3>3. \A s \in Slot : Child(s) /\ slot_task[o] = ParentOf[slot_task[s]] => Cared(s)'
      <4>1. ASSUME NEW s \in Slot, Child(s), t = ParentOf[slot_task[s]]
            PROVE  client'[ReqOf[slot_task[s]]] = "stopped"
        BY <2>1, <3>2, <4>1, Parents DEF Child
      <4> QED
        BY <2>1, <3>1, <4>1, StoppedCared
    <3>4. NonePassed'
      BY <2>1 DEF NonePassed
    <3> QED
      BY <2>1, <3>1, <3>3, <3>4, GivenUp
  <2> QED
    BY <2>1, <2>2, <2>3
<1> QED
  BY <1>1, <1>2, <1>3, <1>4, <1>5 DEF Process

\* A slot reached by the loop over prompts, and refused, while the batch is empty.
LEMMA PassedOver ==
    ASSUME FInv, NEW x \in Slot, AtPrompt(x), releasing' = x, at' = x + 1,
           UNCHANGED <<pc, slot_state, batched, has_tokens>>
    PROVE  NonePassed'
<1> SUFFICES ASSUME ~has_tokens
             PROVE  /\ batched = NoSlot
                    /\ \A s \in Slot : /\ slot_state[s] \notin {"generating", "done_prompt"}
                                       /\ slot_state[s] \in {"started", "prompt"} /\ s < x + 1 => s = x
  BY DEF NonePassed
<1>1. /\ pc = "batch" /\ releasing = NoSlot /\ x >= at
      /\ \A o \in Promptable : o >= at => x <= o
  BY DEF AtPrompt, Main, Reaches
<1>2. /\ batched = NoSlot
      /\ \A s \in Slot : /\ slot_state[s] \notin {"generating", "done_prompt"}
                         /\ slot_state[s] \in {"started", "prompt"} /\ s < at => s = releasing
  BY <1>1 DEF FInv, FamilyInv, NonePassed
<1>3. ASSUME NEW s \in Slot, slot_state[s] \in {"started", "prompt"}, s < x + 1
      PROVE  s = x
  <2>1. s \in Promptable
    BY <1>2, <1>3 DEF Promptable, InState
  <2>2. s \in Nat /\ x \in Nat /\ at \in Nat
    BY SlotType, QueueType DEF FInv, SInv, TypeOK
  <2>3. ~(s < at)
    BY <1>1, <1>2, <1>3, SlotType
  <2>4. s >= at
    BY <2>2, <2>3
  <2>5. x <= s
    BY <1>1, <2>1, <2>4
  <2> QED
    BY <1>3, <2>2, <2>5
<1> QED
  BY <1>2, <1>3

\* A prompt goes on.
LEMMA PromptFamilies ==
    ASSUME Prompted, FInv, [Next]_vars, NEW x \in Slot, AtPrompt(x), NEW st \in {"prompt", "done_prompt"},
           slot_state' = [slot_state EXCEPT ![x] = st], has_tokens' = TRUE,
           pending \subseteq pending', st = "done_prompt" => x \in pending',
           UNCHANGED <<slot_task, releasing, pc, cur, chunk, n_empty>>
    PROVE  FamilyInv'
<1>1. /\ pc = "batch" /\ slot_state[x] \in {"started", "prompt"}
      /\ \A s \in Slot : slot_state'[s] = IF s = x THEN st ELSE slot_state[s]
  BY QueueType DEF AtPrompt, Main, Reaches, Promptable, InState, FInv, SInv, TypeOK
<1>2. ChildrenCared'
  BY <1>1, CareKept DEF Prompting
<1>3. PromptsSampled'
  BY <1>1 DEF FInv, FamilyInv, PromptsSampled
<1>4. ChildrenActive' /\ NonePassed' /\ OnlyChildren' /\ NoAbort'
  BY <1>1 DEF FInv, FamilyInv, ChildrenActive, NonePassed, OnlyChildren, NoAbort
<1> QED
  BY <1>2, <1>3, <1>4 DEF FamilyInv

\* The parent of a child that waits is sampled only after the child was activated.
LEMMA SampledApart ==
    ASSUME FInv, NEW x \in Slot, Sampled(x), NEW s \in Slot, slot_state[s] = "wait_other",
           slot_task[x] = ParentOf[slot_task[s]]
    PROVE  ~Prompting(x)
<1>1. slot_state[x] \in {"generating", "done_prompt"} /\ pc = "sample"
  BY DEF Sampled, Main, FInv, BatchInv, BatchAlive
<1> QED
  BY <1>1 DEF Prompting, FInv, FamilyInv, ChildrenActive

LEMMA UpdateSlotFamilies ==
    ASSUME Prompted, FInv, [Next]_vars, NEW x \in Slot, UpdateSlot(x)
    PROVE  FamilyInv'
<1>1. CASE RollbackSlot(x)
  <2>1. /\ pc = "rollback" /\ releasing = NoSlot /\ releasing' = x /\ slot_task[x] \in Family(cur.id)
        /\ UNCHANGED <<pc, cur, slot_state, slot_task, n_empty, pending, chunk>>
    BY <1>1 DEF RollbackSlot, Main, Holding, slotvars, batchvars
  <2>2. PICK t \in Task : cur = TaskItem(t)
    BY <2>1 DEF FInv, SInv, WInv, Reasons, RollbackFailed
  <2>3. cur.id = t
    BY <2>2, KindsDiffer
  <2>4. ASSUME NEW s \in Slot, Child(s), slot_task[x] = ParentOf[slot_task[s]] PROVE Cared(s)'
    <3>1. ParentOf[slot_task[x]] = NoTask
      BY <2>4, Parents DEF Child
    <3>2. slot_task[x] = t
      BY <2>1, <2>2, <2>3, <3>1, TaskAssumption DEF TaskAssumption, Family, Kids
    <3> QED
      BY <2>1, <2>2, <2>4, <3>2 DEF Cared
  <2>5. NonePassed'
    BY <2>1 DEF NonePassed
  <2> QED
    BY <2>1, <2>4, <2>5, GivenUp
<1>2. CASE ShiftFail(x)
  <2>1. /\ pc = "shift" /\ releasing = NoSlot /\ releasing' = x /\ slot_state[x] = "generating"
        /\ UNCHANGED <<pc, cur, slot_state, slot_task, n_empty, pending, chunk>>
    BY <1>2 DEF ShiftFail, Main, InState, slotvars, batchvars
  <2>2. NonePassed' /\ ~Prompting(x)
    BY <2>1 DEF NonePassed, Prompting
  <2> QED
    BY <2>1, <2>2, GivenUp
<1>3. CASE PromptEmpty(x) \/ PromptError(x)
  <2>1. /\ AtPrompt(x) /\ releasing = NoSlot /\ releasing' = x /\ at' = x + 1
        /\ slot_task[x] \in EmptyPrompt \cup PromptFails
        /\ UNCHANGED <<pc, cur, slot_state, slot_task, n_empty, batched, has_tokens, pending, chunk>>
    BY <1>3 DEF PromptEmpty, PromptError, AtPrompt, Main, slotvars, batchvars
  <2>2. \A s \in Slot : Child(s) => slot_task[x] # ParentOf[slot_task[s]]
    BY <2>1, Parents DEF Child
  <2>3. NonePassed'
    BY <2>1, PassedOver
  <2> QED
    BY <2>1, <2>2, <2>3, GivenUp
<1>4. CASE PromptNoFit(x)
  BY <1>4, PromptFamilies DEF PromptNoFit, batchvars
<1>5. CASE PromptPart(x)
  BY <1>5, PromptFamilies DEF PromptPart, PromptAdd
<1>6. CASE PromptAll(x)
  BY <1>6, PromptFamilies DEF PromptAll, PromptAdd
<1>7. CASE SampleMore(x)
  <2>1. /\ pc = "sample" /\ releasing = NoSlot /\ chunk' = chunk \ {x}
        /\ \A s \in Slot : slot_state'[s] = IF s = x THEN "generating" ELSE slot_state[s]
        /\ UNCHANGED <<pc, cur, slot_task, releasing, pending, n_empty>>
    BY <1>7, QueueType DEF SampleMore, Sampled, Main, FInv, SInv, TypeOK
  <2>2. \A s \in Slot : slot_state[s] = "wait_other" /\ slot_task[x] = ParentOf[slot_task[s]] => ~Prompting(x)
    BY <1>7, SampledApart DEF SampleMore
  <2>3. ChildrenCared'
    BY <2>1, <2>2, CareKept DEF Prompting
  <2>4. ChildrenActive'
    BY <2>1 DEF FInv, FamilyInv, ChildrenActive
  <2>5. PromptsSampled'
    BY <2>1 DEF FInv, FamilyInv, PromptsSampled
  <2>6. NonePassed' /\ OnlyChildren' /\ NoAbort'
    BY <2>1 DEF FInv, FamilyInv, NonePassed, OnlyChildren, NoAbort
  <2> QED
    BY <2>3, <2>4, <2>5, <2>6 DEF FamilyInv
<1>8. CASE SampleLast(x)
  <2>1. /\ pc = "sample" /\ releasing = NoSlot /\ releasing' = x /\ chunk' = chunk \ {x}
        /\ UNCHANGED <<pc, cur, slot_state, slot_task, n_empty, pending>>
    BY <1>8 DEF SampleLast, Sampled, Main, slotvars
  <2>2. \A s \in Slot : slot_state[s] = "wait_other" /\ slot_task[x] = ParentOf[slot_task[s]] => ~Prompting(x)
    BY <1>8, SampledApart DEF SampleLast
  <2>3. NonePassed'
    BY <2>1 DEF NonePassed
  <2> QED
    BY <2>1, <2>2, <2>3, GivenUp
<1>9. CASE FailSlot(x)
  <2>1. /\ pc = "fail" /\ releasing = NoSlot /\ releasing' = x /\ Send(slot_task[x], "error")
        /\ UNCHANGED <<client, pc, cur, slot_state, slot_task, n_empty, pending, chunk>>
    BY <1>9 DEF FailSlot, Main, slotvars, batchvars
  <2>2. WInv /\ TypeOK
    BY QueueType DEF FInv, SInv
  <2>3. ASSUME NEW s \in Slot, Child(s), slot_task[x] = ParentOf[slot_task[s]] PROVE Cared(s)'
    <3> DEFINE kid == slot_task[s]
               r == ReqOf[kid]
    <3>1. kid \in Task /\ ParentOf[kid] \in Task /\ ReqOf[ParentOf[kid]] = r /\ r \in Request
      BY <2>3, Parents DEF Child
    <3>2. Failed(r)'
      BY <2>1, <2>2, <2>3, <3>1, SendGrows
    <3>3. s \in Holding({kid})
      BY DEF Holding
    <3>4. client[r] # "new"
      BY <2>2, <3>1, <3>3 DEF WInv, AInv, Apart, NotPosted, Untouched
    <3>5. client[r] # "done"
      BY <2>1, <2>2, <3>1, <3>3, Releasing DEF WInv, FInv, DoneAnswered
    <3>6. client[r] \in {"waiting", "stopped"}
      BY <2>2, <3>1, <3>4, <3>5 DEF TypeOK
    <3>7. CASE client[r] = "waiting"
      BY <2>1, <3>2, <3>7 DEF Cared
    <3>8. CASE client[r] = "stopped"
      BY <2>1, <2>3, <3>8, StoppedCared
    <3> QED
      BY <3>6, <3>7, <3>8
  <2>4. NonePassed'
    BY <2>1 DEF NonePassed
  <2> QED
    BY <2>1, <2>3, <2>4, GivenUp
<1> QED
  BY <1>1, <1>2, <1>3, <1>4, <1>5, <1>6, <1>7, <1>8, <1>9 DEF UpdateSlot

LEMMA PromptEndFamilies ==
    ASSUME Prompted, FInv, [Next]_vars, PromptEnd
    PROVE  FamilyInv'
<1>1. /\ pc = "batch" /\ releasing = NoSlot /\ pc' \in {"decode", "aborted", "wait"}
      /\ UNCHANGED <<slot_state, slot_task, releasing, cur, pending, chunk>>
  BY DEF PromptEnd, Main, slotvars
<1>2. n_empty = 0
  BY <1>1, QueueType DEF FInv, SInv, TypeOK, FamilyInv, OnlyChildren
<1>3. ChildrenCared'
  BY <1>1, CareKept DEF Prompting
<1>4. CASE has_tokens
  <2>1. pc' = "decode" /\ n_empty' = 0
    BY <1>4 DEF PromptEnd
  <2>2. PromptsSampled'
    BY <1>1, <2>1 DEF FInv, FamilyInv, PromptsSampled
  <2> QED
    BY <1>3, <2>1, <2>2 DEF FamilyInv, ChildrenActive, NonePassed, OnlyChildren, NoAbort
<1>5. CASE ~has_tokens
  <2>1. pc' = "wait" /\ n_empty' = 1 /\ Passed(Promptable)
    BY <1>2, <1>5 DEF PromptEnd, KillSwitch
  <2>2. /\ batched = NoSlot
        /\ \A s \in Slot : /\ slot_state[s] \notin {"generating", "done_prompt"}
                           /\ slot_state[s] \in {"started", "prompt"} /\ s < at => s = releasing
    BY <1>1, <1>5 DEF FInv, FamilyInv, NonePassed
  <2>3. \A s \in Slot : slot_state[s] \notin {"started", "prompt"}
    <3>1. ASSUME NEW s \in Slot, slot_state[s] \in {"started", "prompt"} PROVE FALSE
      <4>1. s \in Promptable
        BY <2>2, <3>1 DEF Promptable, InState
      <4>2. s < at
        BY <2>1, <4>1 DEF Passed
      <4> QED
        BY <1>1, <2>2, <3>1, <4>2, SlotType
    <3> QED
      BY <3>1
  <2>4. \A s \in Slot : slot_state[s] \in {"idle", "wait_other"}
    BY <2>2, <2>3, QueueType DEF FInv, SInv, TypeOK, SlotState
  <2>5. OnlyChildren' /\ PromptsSampled'
    BY <1>1, <2>1, <2>4 DEF OnlyChildren, PromptsSampled
  <2> QED
    BY <1>3, <2>1, <2>5 DEF FamilyInv, ChildrenActive, NonePassed, NoAbort
<1> QED
  BY <1>4, <1>5

LEMMA DecodeFamilies ==
    ASSUME Prompted, FInv, [Next]_vars, NEW C \in SUBSET (pending \cup Activated), DecodeChunk(C)
    PROVE  FamilyInv'
<1>1. /\ pc = "decode" /\ pc' = "sample" /\ releasing = NoSlot
      /\ \A s \in Slot : slot_state'[s] = IF s \in Activated THEN "done_prompt" ELSE slot_state[s]
      /\ pending' \cup chunk' = pending \cup Activated
      /\ UNCHANGED <<slot_task, releasing, cur, n_empty>>
  BY DEF DecodeChunk, Main
<1>2. \A s \in Slot : s \in Activated <=>
          /\ slot_state[s] = "wait_other"
          /\ \E p \in Slot : slot_state[p] = "done_prompt" /\ slot_task[p] = ParentOf[slot_task[s]]
  BY DEF Activated, InState
<1>3. ChildrenCared'
  BY <1>1, <1>2, CareKept DEF Prompting
<1>4. ChildrenActive'
  <2> SUFFICES ASSUME NEW s \in Slot, NEW o \in Slot, slot_state'[s] = "wait_other",
                      slot_state'[o] = "done_prompt", slot_task[o] = ParentOf[slot_task[s]]
               PROVE  FALSE
    BY <1>1 DEF ChildrenActive
  <2>1. slot_state[s] = "wait_other" /\ s \notin Activated
    BY <1>1
  <2>2. o \in Activated
    BY <1>1, <1>2, <2>1
  <2>3. Child(s) /\ Child(o)
    BY <1>2, <2>1, <2>2 DEF FInv, FamilyInv, ChildrenCared
  <2>4. ParentOf[slot_task[o]] = NoTask /\ NoTask \notin Task
    BY <2>3, Parents, TaskAssumption DEF Child, TaskAssumption
  <2> QED
    BY <2>3, <2>4 DEF Child
<1>5. PromptsSampled'
  <2>1. chunk = {}
    BY <1>1 DEF FInv, BatchInv
  <2> QED
    BY <1>1, <2>1, SlotType DEF FInv, FamilyInv, PromptsSampled
<1>6. NonePassed' /\ OnlyChildren' /\ NoAbort'
  BY <1>1 DEF FInv, FamilyInv, NonePassed, OnlyChildren, NoAbort
<1> QED
  BY <1>3, <1>4, <1>5, <1>6 DEF FamilyInv

LEMMA UpdateFamilies ==
    ASSUME Prompted, FInv, [Next]_vars, Update
    PROVE  FamilyInv'
<1>1. CASE RollbackEnd
  <2>1. /\ pc = "rollback" /\ pc' = "pop" /\ releasing' = releasing /\ Holding(Family(cur.id)) = {}
        /\ UNCHANGED <<slot_state, slot_task, n_empty>>
    BY <1>1 DEF RollbackEnd, Main, slotvars
  <2>2. \A s \in Slot : Child(s) => cur # TaskItem(ParentOf[slot_task[s]])
    <3>1. ASSUME NEW s \in Slot, Child(s), cur = TaskItem(ParentOf[slot_task[s]]) PROVE FALSE
      <4>1. cur.id = ParentOf[slot_task[s]]
        BY <3>1, KindsDiffer DEF Child
      <4>2. s \in Holding(Family(cur.id))
        BY <3>1, <4>1, Parents DEF Child, Holding
      <4> QED
        BY <2>1, <4>2
    <3> QED
      BY <3>1
  <2>3. ChildrenCared'
    BY <2>1, <2>2, CareKept DEF Prompting
  <2>4. ChildrenActive' /\ PromptsSampled' /\ NonePassed' /\ OnlyChildren' /\ NoAbort'
    BY <2>1 DEF FInv, FamilyInv, ChildrenActive, PromptsSampled, NonePassed, OnlyChildren, NoAbort
  <2> QED
    BY <2>3, <2>4 DEF FamilyInv
<1>2. CASE HandleNext
  BY <1>2, QuietFamilies DEF HandleNext, Main, slotvars, batchvars
<1>3. CASE PostNext \/ DecodeFatal
  <2>1. /\ pc \in {"next", "decode"} /\ pc' = IF pc = "next" THEN "shift" ELSE "fail"
        /\ UNCHANGED <<slot_state, slot_task, releasing, n_empty>>
    BY <1>3 DEF PostNext, DecodeFatal, Main, slotvars
  <2>2. ChildrenCared'
    BY <2>1, CareKept DEF Prompting
  <2>3. ChildrenActive' /\ PromptsSampled' /\ NonePassed' /\ OnlyChildren' /\ NoAbort'
    BY <2>1 DEF FInv, FamilyInv, ChildrenActive, PromptsSampled, NonePassed, OnlyChildren, NoAbort
  <2> QED
    BY <2>2, <2>3 DEF FamilyInv
<1>4. CASE Collect
  <2>1. /\ pc = "shift" /\ pc' = "batch"
        /\ ~has_tokens' => InState({"generating"}) = {} /\ batched' = NoSlot /\ at' = 0
        /\ UNCHANGED <<slot_state, slot_task, releasing, n_empty>>
    BY <1>4 DEF Collect, Main, slotvars
  <2>2. \A s \in Slot : slot_state[s] # "done_prompt"
    BY <2>1 DEF FInv, FamilyInv, PromptsSampled
  <2>3. ChildrenCared'
    BY <2>1, CareKept DEF Prompting
  <2>4. NonePassed'
    <3>1. \A s \in Slot : ~(s < 0)
      BY SlotType
    <3> QED
      BY <2>1, <2>2, <3>1 DEF NonePassed, InState
  <2>5. ChildrenActive' /\ PromptsSampled' /\ OnlyChildren' /\ NoAbort'
    BY <2>1, <2>2 DEF FInv, FamilyInv, ChildrenActive, PromptsSampled, OnlyChildren, NoAbort
  <2> QED
    BY <2>3, <2>4, <2>5 DEF FamilyInv
<1>5. CASE Decode
  BY <1>5, DecodeFamilies DEF Decode
<1>6. CASE SampleEnd
  <2>1. /\ pc = "sample" /\ releasing = NoSlot /\ chunk = {}
        /\ pc' = "decode" \/ (pc' = "wait" /\ pending = {})
        /\ UNCHANGED <<slot_state, slot_task, releasing, n_empty, pending, chunk>>
    BY <1>6 DEF SampleEnd, Main, slotvars, batchvars
  <2>2. ChildrenCared'
    BY <2>1, CareKept DEF Prompting
  <2>3. PromptsSampled'
    BY <2>1, SlotType DEF FInv, FamilyInv, PromptsSampled
  <2>4. ChildrenActive' /\ NonePassed' /\ OnlyChildren' /\ NoAbort'
    BY <2>1 DEF FInv, FamilyInv, ChildrenActive, NonePassed, OnlyChildren, NoAbort
  <2> QED
    BY <2>2, <2>3, <2>4 DEF FamilyInv
<1>7. CASE FailEnd
  <2>1. pc = "fail" /\ pc' = "wait" /\ UNCHANGED <<slot_state, slot_task, releasing, n_empty>>
    BY <1>7 DEF FailEnd, Main, slotvars
  <2>2. \A s \in Slot : slot_state[s] = "idle"
    BY <1>7 DEF FailEnd, Processing, Idle, InState
  <2>3. ChildrenCared' /\ PromptsSampled'
    BY <2>1, <2>2 DEF ChildrenCared, PromptsSampled
  <2>4. ChildrenActive' /\ NonePassed' /\ OnlyChildren' /\ NoAbort'
    BY <2>1 DEF FInv, FamilyInv, ChildrenActive, NonePassed, OnlyChildren, NoAbort
  <2> QED
    BY <2>3, <2>4 DEF FamilyInv
<1> QED
  BY <1>1, <1>2, <1>3, <1>4, <1>5, <1>6, <1>7, PromptEndFamilies DEF Update

LEMMA StepFInv ==
    ASSUME Prompted
    PROVE  FInv /\ [Next]_vars => FInv'
<1> SUFFICES ASSUME FInv, [Next]_vars PROVE FInv'
  OBVIOUS
<1>1. SInv' /\ DoneAnswered'
  BY StepSInv, StepDone DEF FInv, SInv
<1>2. BatchInv'
  BY StepIInv DEF FInv, SInv, WInv, AInv, IInv
<1>3. FamilyInv'
  <2>1. ASSUME NEW r \in Request, Client(r) PROVE FamilyInv'
    BY <2>1, QuietFamilies
    DEF Client, ClientLeaves, ClientFails, Post, Stop, ClientDone, slotvars, batchvars
  <2>2. CASE Pop \/ Wake
    BY <2>2, QuietFamilies DEF Pop, Wake, Main, slotvars, batchvars
  <2>3. CASE UNCHANGED vars
    BY <2>3, QuietFamilies DEF vars
  <2> QED
    BY <2>1, <2>2, <2>3, DrainedFamilies, ReleaseFamilies, ProcessFamilies, UpdateSlotFamilies,
       UpdateFamilies DEF Next, Loop, Idling
<1> QED
  BY <1>1, <1>2, <1>3 DEF FInv

LEMMA InitFInv == Init => FInv
<1> SUFFICES ASSUME Init PROVE FInv
  OBVIOUS
<1>1. SInv /\ BatchInv
  BY InitSInv, InitIInv DEF IInv
<1>2. /\ pc = "pop" /\ n_empty = 0
      /\ \A s \in Slot : slot_state[s] = "idle"
      /\ \A r \in Request : client[r] = "new"
  BY DEF Init
<1>3. DoneAnswered
  BY <1>2, Requests DEF DoneAnswered
<1>4. FamilyInv
  BY <1>2
  DEF FamilyInv, ChildrenCared, ChildrenActive, PromptsSampled, NonePassed, OnlyChildren, NoAbort
<1> QED
  BY <1>1, <1>3, <1>4 DEF FInv

\* No child waits for a parent that does not come to the end of its prompt, and
\* the kill switch never ends the process, for any number of slots, tasks and
\* requests, provided that the clients of families stay and that the prompt of
\* a parent is neither empty nor refused (FamiliesEnd).
THEOREM FamiliesFinish ==
    ASSUME Prompted
    PROVE  Spec => []FamiliesEnd
<1>1. FInv => FamiliesEnd
  <2> SUFFICES ASSUME FInv, NEW s \in Slot, slot_state[s] = "wait_other"
               PROVE  LET kid == slot_task[s] IN
                      \/ \E p \in InState({"started", "prompt", "done_prompt"}) :
                            slot_task[p] = ParentOf[kid]
                      \/ client[ReqOf[kid]] = "waiting" /\ Failed(ReqOf[kid])
                      \/ CancelOnWay(kid)
                      \/ pc = "rollback" /\ cur = TaskItem(ParentOf[kid])
    BY DEF FamiliesEnd, ChildAttended, InState, FInv, FamilyInv
  <2>1. Cared(s)
    BY DEF FInv, FamilyInv, ChildrenCared
  <2> QED
    BY <2>1 DEF Cared, Prompting, InState
<1> QED
  BY <1>1, InitFInv, StepFInv, PTL DEF Spec
=============================================================================
