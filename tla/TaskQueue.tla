------------------------------ MODULE TaskQueue ------------------------------
(***************************************************************************)
(* The two deques of struct server_queue (tools/server/server-queue.h):    *)
(* queue_tasks and queue_tasks_deferred, with the operations that move     *)
(* server_task objects between them.  A queue is a sequence of items; the  *)
(* payload of a task is abstracted to its id.                              *)
(***************************************************************************)
EXTENDS Subsequences

CONSTANT NoTask     \* the id -1 of a server_task that was given none

\* server_task::type, as far as the queues tell types apart: a task a client
\* posted, SERVER_TASK_TYPE_CANCEL and SERVER_TASK_TYPE_NEXT_RESPONSE.
TaskItem(t)   == [kind |-> "task", id |-> t]
CancelItem(t) == [kind |-> "cancel", id |-> t]
NextItem      == [kind |-> "next", id |-> NoTask]

Items(T) == [kind : {"task", "cancel", "next"}, id : T \cup {NoTask}]

----------------------------------------------------------------------------
(* cleanup_pending_task() *)

\* Positions that std::remove_if keeps when every id of T is cleaned up.  A
\* CANCEL task has an id of its own, so an id_target never matches one.
Kept(q, T) == {i \in DOMAIN q : ~(q[i].kind = "task" /\ q[i].id \in T)}

Cleanup(q, T) == Remaining(q, Kept(q, T))

----------------------------------------------------------------------------
(* pop_deferred_task() *)

\* i is the position that pop_deferred_task(s) takes from d: the first task
\* that asked for slot s, else the head.  The id_slot of the task is compared
\* as the client sent it.
TakesDeferred(d, s, idSlot, i) ==
    /\ i \in DOMAIN d
    /\ \/ /\ idSlot[d[i].id] = s
          /\ \A j \in 1 .. i - 1 : idSlot[d[j].id] # s
       \/ /\ i = 1
          /\ \A j \in DOMAIN d : idSlot[d[j].id] # s

=============================================================================
