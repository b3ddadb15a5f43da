--------------------------- MODULE ServerResponse ---------------------------
(***************************************************************************)
(* struct server_response and struct server_response_reader (tools/server/ *)
(* server-queue.cpp): the one queue of results that all HTTP threads share, *)
(* the set of task ids somebody waits for, and the life of a reader from   *)
(* post_tasks() to the stop() of its destructor.                           *)
(*                                                                         *)
(* A section under mutex_results is one step.  The main thread is reduced  *)
(* to what it sends: partial results, then one final or error result per   *)
(* task (ServerSlots checks that), unless a CANCEL reaches the task first. *)
(* Results are erased the way TaskQueue erases tasks.                      *)
(***************************************************************************)
EXTENDS TaskQueue

CONSTANTS
    Reader,        \* requests: each has one server_response_reader
    Task,
    ReaderOf,      \* the reader a task belongs to
    MaxPartial,    \* bound on the partial results of a task
    Leavers        \* readers whose connection may be closed by the client

ASSUME ResponseAssumption ==
    /\ IsFiniteSet(Task)
    /\ ReaderOf \in [Task -> Reader]
    /\ \A r \in Reader : \E t \in Task : ReaderOf[t] = r
    /\ MaxPartial \in Nat
    /\ Leavers \subseteq Reader

VARIABLES
    waiting,     \* waiting_task_ids
    results,     \* queue_results
    blocked,     \* readers blocked on condition_results
    rpc,         \* per reader: where its HTTP thread is
    received,    \* per reader: received_count
    cancelled,   \* per reader
    purge,       \* per reader: ids that stop() still has to clean up
    got,         \* per reader: the results recv_with_timeout() returned
    live,        \* tasks the main thread works on
    sent,        \* per task: partial results sent
    cancels      \* targets of the CANCEL tasks posted and not handled

vars == <<waiting, results, blocked, rpc, received, cancelled, purge, got,
          live, sent, cancels>>
response == <<waiting, results>>
reader   == <<received, cancelled, purge, got>>
server   == <<live, sent, cancels>>

Ids(r) == {t \in Task : ReaderOf[t] = r}
Result == [id : Task, kind : {"partial", "final", "error"}, n : 0 .. MaxPartial]

TypeOK ==
    /\ waiting \subseteq Task
    /\ results \in Seq(Result)
    /\ blocked \subseteq Reader
    /\ rpc \in [Reader -> {"new", "post", "next", "wait", "stop", "purge", "ended"}]
    /\ received \in [Reader -> 0 .. Cardinality(Task)]
    /\ cancelled \in [Reader -> BOOLEAN]
    /\ purge \in [Reader -> SUBSET Task]
    /\ got \in [Reader -> Seq(Result)]
    /\ live \subseteq Task
    /\ sent \in [Task -> 0 .. MaxPartial]
    /\ cancels \subseteq Task

Init ==
    /\ waiting = {} /\ results = <<>> /\ blocked = {}
    /\ rpc = [r \in Reader |-> "new"]
    /\ received = [r \in Reader |-> 0]
    /\ cancelled = [r \in Reader |-> FALSE]
    /\ purge = [r \in Reader |-> {}]
    /\ got = [r \in Reader |-> <<>>]
    /\ live = {} /\ sent = [t \in Task |-> 0] /\ cancels = {}

Goto(r, p) == rpc' = [rpc EXCEPT ![r] = p]

----------------------------------------------------------------------------
(* server_response_reader *)

\* post_tasks(): the ids are registered first ...
Register(r) ==
    /\ rpc[r] = "new"
    /\ waiting' = waiting \cup Ids(r)
    /\ Goto(r, "post")
    /\ UNCHANGED <<results, blocked, reader, server>>

\* ... and the tasks posted after that.
PostTasks(r) ==
    /\ rpc[r] = "post"
    /\ live' = live \cup Ids(r)
    /\ Goto(r, "next")
    /\ UNCHANGED <<response, blocked, reader, sent, cancels>>

HasNext(r) == ~cancelled[r] /\ received[r] < Cardinality(Ids(r))

Own(r) == {i \in DOMAIN results : results[i].id \in Ids(r)}

\* Mutant: the newest result is taken.
ReceiveNewest(r) ==
    /\ rpc[r] = "next" /\ HasNext(r)
    /\ \E i \in Own(r) :
         /\ \A j \in Own(r) : j <= i
         /\ results' = RemoveAt(results, i)
         /\ got' = [got EXCEPT ![r] = Append(@, results[i])]
         /\ received' = IF results[i].kind = "final"
                        THEN [received EXCEPT ![r] = @ + 1] ELSE received
         /\ Goto(r, IF results[i].kind = "error" THEN "stop" ELSE "next")
    /\ UNCHANGED <<waiting, blocked, cancelled, purge, server>>

\* Mutant: received_count counts partial results too.
ReceiveCountsAll(r) ==
    /\ rpc[r] = "next" /\ HasNext(r)
    /\ \E i \in Own(r) :
         /\ \A j \in Own(r) : i <= j
         /\ results' = RemoveAt(results, i)
         /\ got' = [got EXCEPT ![r] = Append(@, results[i])]
         /\ received' = [received EXCEPT ![r] = @ + 1]
         /\ Goto(r, IF results[i].kind = "error" THEN "stop" ELSE "next")
    /\ UNCHANGED <<waiting, blocked, cancelled, purge, server>>

\* recv_with_timeout() finds the oldest result for the reader.  An error ends
\* the request; next() is called again while has_next().
Receive(r) ==
    /\ rpc[r] = "next" /\ HasNext(r)
    /\ \E i \in Own(r) :
         /\ \A j \in Own(r) : i <= j
         /\ results' = RemoveAt(results, i)
         /\ got' = [got EXCEPT ![r] = Append(@, results[i])]
         /\ received' = IF results[i].kind = "final"
                        THEN [received EXCEPT ![r] = @ + 1] ELSE received
         /\ Goto(r, IF results[i].kind = "error" THEN "stop" ELSE "next")
    /\ UNCHANGED <<waiting, blocked, cancelled, purge, server>>

\* It finds none and blocks.
Block(r) ==
    /\ rpc[r] = "next" /\ HasNext(r)
    /\ Own(r) = {}
    /\ blocked' = blocked \cup {r}
    /\ Goto(r, "wait")
    /\ UNCHANGED <<response, reader, server>>

Notified(r) ==
    /\ rpc[r] = "wait" /\ r \notin blocked
    /\ Goto(r, "next")
    /\ UNCHANGED <<response, blocked, reader, server>>

\* wait_for() reports a timeout, also when a notification came with it: the
\* queue is not looked at again before should_stop() is asked.
Timeout(r) ==
    /\ rpc[r] = "wait"
    /\ blocked' = blocked \ {r}
    /\ \/ Goto(r, "next")
       \/ r \in Leavers /\ Goto(r, "stop")
    /\ UNCHANGED <<response, reader, server>>

\* Every task is answered, or the handler returns early because its client is
\* gone: the destructor calls stop().
Leave(r) ==
    /\ rpc[r] = "next"
    /\ ~HasNext(r) \/ r \in Leavers
    /\ Goto(r, "stop")
    /\ UNCHANGED <<response, blocked, reader, server>>

\* stop(): remove_waiting_task_ids().
Stop(r) ==
    /\ rpc[r] = "stop"
    /\ waiting' = waiting \ Ids(r)
    /\ IF HasNext(r)
       THEN /\ cancelled' = [cancelled EXCEPT ![r] = TRUE]
            /\ purge' = [purge EXCEPT ![r] = Ids(r)]
            /\ Goto(r, "purge")
       ELSE /\ UNCHANGED <<cancelled, purge>>
            /\ Goto(r, "ended")
    /\ UNCHANGED <<results, blocked, received, got, server>>

\* Mutant: remove_waiting_task_id() leaves the results in the queue.
PurgeKeeps(r) ==
    /\ rpc[r] = "purge"
    /\ \E t \in purge[r] :
         /\ purge' = [purge EXCEPT ![r] = @ \ {t}]
         /\ waiting' = waiting \ {t}
    /\ UNCHANGED <<results, blocked, rpc, received, cancelled, got, server>>

\* remove_waiting_task_id(): the results of one task are erased.
Purge(r) ==
    /\ rpc[r] = "purge"
    /\ \E t \in purge[r] :
         /\ purge' = [purge EXCEPT ![r] = @ \ {t}]
         /\ waiting' = waiting \ {t}
         /\ results' = Remaining(results, {i \in DOMAIN results : results[i].id # t})
    /\ UNCHANGED <<blocked, rpc, received, cancelled, got, server>>

\* The CANCEL tasks are posted.
PostCancels(r) ==
    /\ rpc[r] = "purge" /\ purge[r] = {}
    /\ cancels' = cancels \cup Ids(r)
    /\ Goto(r, "ended")
    /\ UNCHANGED <<response, blocked, reader, live, sent>>

----------------------------------------------------------------------------
(* The main thread *)

\* Mutant: condition_results is not notified.
SendSilent(t, kind, n) ==
    /\ results' = IF t \in waiting
                  THEN Append(results, [id |-> t, kind |-> kind, n |-> n])
                  ELSE results
    /\ UNCHANGED <<waiting, blocked, rpc, reader>>

\* send(): a result nobody waits for is dropped.
Send(t, kind, n) ==
    /\ IF t \in waiting
       THEN /\ results' = Append(results, [id |-> t, kind |-> kind, n |-> n])
            /\ blocked' = {}
       ELSE UNCHANGED <<results, blocked>>
    /\ UNCHANGED <<waiting, rpc, reader>>

SendPartial(t) ==
    /\ t \in live /\ sent[t] < MaxPartial
    /\ Send(t, "partial", sent[t])
    /\ sent' = [sent EXCEPT ![t] = @ + 1]
    /\ UNCHANGED <<live, cancels>>

SendLast(t) ==
    /\ t \in live
    /\ \E kind \in {"final", "error"} : Send(t, kind, sent[t])
    /\ live' = live \ {t}
    /\ UNCHANGED <<sent, cancels>>

\* A CANCEL is handled; the task may be finished already.
Cancel(t) ==
    /\ t \in cancels
    /\ cancels' = cancels \ {t}
    /\ live' = live \ {t}
    /\ UNCHANGED <<response, blocked, rpc, reader, sent>>

\* Every request is over.
Finished ==
    /\ \A r \in Reader : rpc[r] = "ended"
    /\ live = {} /\ cancels = {}
    /\ UNCHANGED vars

HttpThread(r) ==
    \/ Register(r) \/ PostTasks(r)
    \/ Receive(r) \/ Block(r) \/ Notified(r) \/ Timeout(r) \/ Leave(r)
    \/ Stop(r) \/ Purge(r) \/ PostCancels(r)

MainThread(t) == SendPartial(t) \/ SendLast(t) \/ Cancel(t)

Next == \/ \E r \in Reader : HttpThread(r)
        \/ \E t \in Task : MainThread(t)
        \/ Finished

Spec == Init /\ [][Next]_vars

\* A reader that has posted runs on.  Nothing is assumed of the clock: a reader
\* that is blocked is woken by a notification alone.
RunsOn(r) ==
    \/ PostTasks(r) \/ Receive(r) \/ Block(r) \/ Notified(r)
    \/ Leave(r) \/ Stop(r) \/ Purge(r) \/ PostCancels(r)

FairSpec ==
    /\ Spec
    /\ \A r \in Reader : WF_vars(RunsOn(r))
    /\ \A t \in Task : WF_vars(SendLast(t) \/ Cancel(t))

----------------------------------------------------------------------------
(* Properties *)

\* No result stays behind in the shared queue when its reader is gone: it would
\* be kept, and scanned by everyone, for as long as the server lives.
NoOrphan ==
    /\ TypeOK
    /\ \A i \in DOMAIN results : rpc[ReaderOf[results[i].id]] # "ended"

\* A reader that ends without having been cancelled got the final result of
\* each of its tasks once.
EndsComplete ==
    \A r \in Reader : rpc[r] = "ended" /\ ~cancelled[r] =>
        \A t \in Ids(r) :
            Cardinality({i \in DOMAIN got[r] : got[r][i].id = t /\ got[r][i].kind = "final"}) = 1

\* Whatever happens to the other requests, a reader that posted its tasks ends,
\* even if no wait ever times out.
ReaderEnds == \A r \in Reader : rpc[r] = "post" ~> rpc[r] = "ended"

\* The shared queue serves each reader like a channel of its own.
Channel == INSTANCE ResponseChannel WITH
    state   <- [r \in Reader |->
                  IF rpc[r] = "new" THEN "new"
                  ELSE IF rpc[r] \in {"purge", "ended"} THEN "closed" ELSE "open"],
    transit <- [r \in Reader |->
                  IF rpc[r] \in {"purge", "ended"} THEN <<>>
                  ELSE Remaining(results, Own(r))]

\* The refinement: none of a reader's results is lost, repeated or overtaken
\* while it waits, none is delivered after stop().
RefinesChannel == Channel!Spec
=============================================================================
