------------------------- MODULE ServerQueue_proofs -------------------------
(***************************************************************************)
(* What is proved about the two classes of tools/server/server-queue.cpp.   *)
(*                                                                         *)
(* server_queue (ServerQueue), for any number of HTTP threads: the model is *)
(* there when a task needs it, the server sleeps only without work, and     *)
(* with no race against the idle time no wakeup is lost.                   *)
(*                                                                         *)
(* server_response (ServerResponse), for any number of readers and tasks:   *)
(* no result stays behind in the shared queue, a reader that was not        *)
(* cancelled has got every final result once, and the shared queue          *)
(* implements a channel per reader (ResponseChannel).                      *)
(***************************************************************************)
EXTENDS ServerQueue, ServerResponse, Subsequences_proofs

----------------------------------------------------------------------------
(* server_queue *)

\* Sleeping is confined to the part of start_loop() that leads to it, and to a
\* loop that ends; the model is missing only while the server sleeps.
SleepInv ==
    /\ sleeping => \/ main \in {"unload", "asleep", "reload", "deadlocked"}
                   \/ main \in {"pop", "stopped"} /\ ~running
    /\ sleeping => IdleSleep
    /\ ~loaded => sleeping
    /\ main \in {"unload", "asleep", "reload"} => sleeping
    /\ main = "unload" => loaded

QueueInv == QueueTypeOK /\ SleepInv

LEMMA QueueInitInv == QueueInit => QueueInv
  <1> SUFFICES ASSUME QueueInit PROVE QueueInv
    OBVIOUS
  <1>1. QueueTypeOK
    <2>1. queue \in Seq(Http \cup {Main})
      BY DEF QueueInit
    <2>2. http \in [Http -> {"start", "waiting", "use", "post", "posted"}]
      BY DEF QueueInit
    <2> QED BY <2>1, <2>2 DEF QueueInit, QueueTypeOK
  <1>2. SleepInv
    BY DEF QueueInit, SleepInv
  <1> QED BY <1>1, <1>2 DEF QueueInv

\* What notify_one() may do to a set of threads.
LEMMA NotifyOneSubset ==
  ASSUME NEW W, NEW V \in NotifyOne(W)
  PROVE  V \subseteq W /\ \A x \in W : W \subseteq {x} => V = {}
  BY DEF NotifyOne

LEMMA EnterType ==
  ASSUME QueueInv, NEW w \in Http, Enter(w)
  PROVE  QueueInv'
  <1>1. waiters' \subseteq Http \cup {Main} /\ req_stop' \in BOOLEAN
    <2>1. CASE ~IdleSleep \/ ~sleeping
      BY <2>1 DEF Enter, QueueInv, QueueTypeOK
    <2>2. CASE ~(~IdleSleep \/ ~sleeping)
      <3>1. PICK W \in (IF req_stop THEN {waiters} ELSE NotifyOne(waiters)) :
               waiters' = W \cup {w}
        BY <2>2 DEF Enter
      <3>2. W \subseteq waiters
        BY <3>1, NotifyOneSubset
      <3> QED BY <2>2, <3>1, <3>2 DEF Enter, QueueInv, QueueTypeOK
    <2> QED BY <2>1, <2>2
  <1>2. http' \in [Http -> {"start", "waiting", "use", "post", "posted"}]
    BY DEF Enter, HttpAt, QueueInv, QueueTypeOK
  <1> QED BY <1>1, <1>2 DEF Enter, QueueInv, QueueTypeOK, SleepInv

LEMMA QueueStepInv == QueueInv /\ [QueueNext]_queue_vars => QueueInv'
  <1> SUFFICES ASSUME QueueInv, [QueueNext]_queue_vars PROVE QueueInv'
    OBVIOUS
  <1>1. ASSUME NEW w \in Http, Enter(w) PROVE QueueInv'
    BY <1>1, EnterType
  <1>2. ASSUME NEW w \in Http, Woken(w) PROVE QueueInv'
    BY <1>2 DEF Woken, HttpAt, QueueInv, QueueTypeOK, SleepInv
  <1>3. ASSUME NEW w \in Http, Tokenize(w) PROVE QueueInv'
    BY <1>3 DEF Tokenize, HttpAt, monitor, QueueInv, QueueTypeOK, SleepInv
  <1>4. ASSUME NEW w \in Http, PostTask(w) PROVE QueueInv'
    <2>1. waiters' \subseteq waiters
      BY <1>4, NotifyOneSubset DEF PostTask
    <2>2. queue' \in Seq(Http \cup {Main})
      BY <1>4 DEF PostTask, QueueInv, QueueTypeOK
    <2>3. QueueTypeOK'
      BY <1>4, <2>1, <2>2 DEF PostTask, HttpAt, QueueInv, QueueTypeOK
    <2>4. SleepInv'
      BY <1>4 DEF PostTask, QueueInv, SleepInv
    <2> QED BY <2>3, <2>4 DEF QueueInv
  <1>5. CASE Start
    BY <1>5 DEF Start, QueueInv, QueueTypeOK, SleepInv
  <1>6. CASE Pop
    BY <1>6 DEF Pop, QueueInv, QueueTypeOK, SleepInv
  <1>7. CASE ProcessTask
    <2>1. processed' \subseteq Http /\ active' \subseteq processed'
      BY <1>7 DEF ProcessTask, QueueInv, QueueTypeOK
    <2>2. UNCHANGED <<queue, running, sleeping, req_stop, idle, waiters>>
      BY <1>7 DEF ProcessTask, monitor
    <2>3. QueueTypeOK'
      BY <1>7, <2>1, <2>2 DEF ProcessTask, QueueInv, QueueTypeOK
    <2>4. SleepInv'
      BY <1>7, <2>2 DEF ProcessTask, QueueInv, SleepInv
    <2> QED BY <2>3, <2>4 DEF QueueInv
  <1>8. CASE UpdateSlots
    <2>1. waiters' \subseteq waiters /\ active' \subseteq active
      BY <1>8, NotifyOneSubset DEF UpdateSlots
    <2>2. queue' \in Seq(Http \cup {Main})
      BY <1>8 DEF UpdateSlots, QueueInv, QueueTypeOK
    <2>3. QueueTypeOK'
      BY <1>8, <2>1, <2>2 DEF UpdateSlots, QueueInv, QueueTypeOK
    <2>4. SleepInv'
      BY <1>8 DEF UpdateSlots, QueueInv, SleepInv
    <2> QED BY <2>3, <2>4 DEF QueueInv
  <1>9. CASE Check
    <2>1. QueueTypeOK'
      BY <1>9 DEF Check, QueueInv, QueueTypeOK
    <2>2. SleepInv'
      BY <1>9 DEF Check, QueueInv, SleepInv
    <2> QED BY <2>1, <2>2 DEF QueueInv
  <1>10. CASE TimedWait
    BY <1>10 DEF TimedWait, QueueInv, QueueTypeOK, SleepInv
  <1>11. CASE Unload
    BY <1>11 DEF Unload, QueueInv, QueueTypeOK, SleepInv
  <1>12. CASE Awake
    BY <1>12 DEF Awake, QueueInv, QueueTypeOK, SleepInv
  <1>13. CASE Reload
    BY <1>13 DEF Reload, QueueInv, QueueTypeOK, SleepInv
  <1>14. CASE IdleTimeOver
    BY <1>14 DEF IdleTimeOver, QueueInv, QueueTypeOK, SleepInv
  <1>15. CASE Terminate
    BY <1>15 DEF Terminate, MutexFree, QueueInv, QueueTypeOK, SleepInv
  <1>16. CASE QueueEnded \/ UNCHANGED queue_vars
    BY <1>16 DEF QueueEnded, queue_vars, QueueInv, QueueTypeOK, SleepInv
  <1> QED
    BY <1>1, <1>2, <1>3, <1>4, <1>5, <1>6, <1>7, <1>8, <1>9, <1>10, <1>11,
       <1>12, <1>13, <1>14, <1>15, <1>16
    DEF QueueNext, HttpSteps, LoopThread

\* The history changes nothing.
LEMMA StepOfQueue == [QueueStep]_all_vars => [QueueNext]_queue_vars
  BY DEF QueueStep, all_vars

\* Every variable keeps its type.
THEOREM QueueTypes == QueueSpec => [](QueueTypeOK /\ calm \in BOOLEAN)
  <1>1. QueueInv => QueueTypeOK
    BY DEF QueueInv
  <1>2. QueueInit => calm \in BOOLEAN
    BY DEF QueueInit
  <1>3. calm \in BOOLEAN /\ [QueueStep]_all_vars => (calm \in BOOLEAN)'
    BY DEF QueueStep, all_vars
  <1> QED BY <1>1, <1>2, <1>3, QueueInitInv, QueueStepInv, StepOfQueue, PTL DEF QueueSpec

\* Main hands a task to the slots, or updates them, only while there is a model.
THEOREM ModelWhenNeeded == QueueSpec => []ModelForTasks
  <1>1. QueueInv => ModelForTasks
    BY DEF QueueInv, SleepInv, ModelForTasks, QueueTypeOK
  <1> QED BY <1>1, QueueInitInv, QueueStepInv, StepOfQueue, PTL DEF QueueSpec

\* While a slot is in use, the NEXT_RESPONSE of update_slots() is in the queue
\* when the loop decides whether to wait.
BusyInv ==
    /\ main = "check" /\ active # {} => queue # <<>>
    /\ NeverSleepsBusy

LEMMA StepBusy == QueueTypeOK /\ BusyInv /\ [QueueNext]_queue_vars => BusyInv'
  <1> SUFFICES ASSUME QueueTypeOK, BusyInv, [QueueNext]_queue_vars PROVE BusyInv'
    OBVIOUS
  <1> USE DEF BusyInv, NeverSleepsBusy
  <1>1. ASSUME NEW w \in Http, Enter(w) \/ Woken(w) \/ Tokenize(w) PROVE BusyInv'
    BY <1>1 DEF Enter, Woken, Tokenize, monitor
  <1>2. ASSUME NEW w \in Http, PostTask(w) PROVE BusyInv'
    <2>1. queue' # <<>>
      BY <1>2 DEF PostTask, QueueTypeOK
    <2> QED BY <1>2, <2>1 DEF PostTask
  <1>3. CASE UpdateSlots
    <2>1. active # {} => queue' # <<>>
      BY <1>3 DEF UpdateSlots, QueueTypeOK
    <2> QED BY <1>3, <2>1 DEF UpdateSlots
  <1>4. CASE LoopThread /\ ~UpdateSlots
    BY <1>4 DEF LoopThread, Start, Pop, ProcessTask, monitor, Check, TimedWait,
                Unload, Awake, Reload
  <1>5. CASE IdleTimeOver \/ Terminate \/ QueueEnded \/ UNCHANGED queue_vars
    BY <1>5 DEF IdleTimeOver, Terminate, QueueEnded, queue_vars
  <1> QED BY <1>1, <1>2, <1>3, <1>4, <1>5 DEF QueueNext, HttpSteps

\* However the HTTP threads post, the idle timer finds no slot in use.
THEOREM SleepsOnlyIdle == QueueSpec => []NeverSleepsBusy
  <1>1. QueueInit => BusyInv
    BY DEF QueueInit, BusyInv, NeverSleepsBusy
  <1>2. BusyInv => NeverSleepsBusy
    BY DEF BusyInv
  <1>3. QueueInv => QueueTypeOK
    BY DEF QueueInv
  <1> QED BY <1>1, <1>2, <1>3, QueueInitInv, QueueStepInv, StepOfQueue, StepBusy, PTL DEF QueueSpec

----------------------------------------------------------------------------
(* While the run is calm: no idle time has run out under a request's feet. *)

\* Nobody but Main waits before the server sleeps, and the first HTTP thread to
\* wait has asked it to wake up; no HTTP thread is past its wait meanwhile.
CalmInv ==
    /\ \A w \in Http : w \in waiters => sleeping /\ http[w] = "waiting"
    /\ \A w \in Http : sleeping => http[w] \notin {"use", "post"}
    /\ \A w \in Http : http[w] = "waiting" /\ main = "asleep" => req_stop
    /\ main = "unload" => running /\ \A w \in Http : http[w] # "waiting"
    /\ Main \in waiters => main \in {"timed", "asleep"}

CalmIInv == QueueInv /\ CalmInv /\ BlocksIdle

LEMMA CalmInit == QueueInit => CalmIInv
  BY QueueInitInv, QueueAssumption DEF QueueInit, CalmIInv, CalmInv, BlocksIdle

LEMMA CalmStep == CalmIInv /\ [QueueNext /\ Calm]_queue_vars => CalmIInv'
  <1> SUFFICES ASSUME CalmIInv, [QueueNext /\ Calm]_queue_vars PROVE CalmInv' /\ BlocksIdle'
    BY QueueStepInv DEF CalmIInv
  <1> USE QueueAssumption
  <1>1. ASSUME NEW w \in Http, Enter(w) PROVE CalmInv' /\ BlocksIdle'
    <2>0. http' = [v \in Http |-> IF v = w THEN http'[w] ELSE http[v]] /\ http'[w] \in {"use", "waiting"}
      BY <1>1 DEF Enter, HttpAt, CalmIInv, QueueInv, QueueTypeOK
    <2>1. CASE ~IdleSleep \/ ~sleeping
      BY <1>1, <2>0, <2>1 DEF Enter, MutexFree, CalmIInv, QueueInv, SleepInv, CalmInv, BlocksIdle
    <2>2. CASE ~(~IdleSleep \/ ~sleeping)
      <3>1. PICK W \in (IF req_stop THEN {waiters} ELSE NotifyOne(waiters)) :
               waiters' = W \cup {w}
        BY <1>1, <2>2 DEF Enter
      <3>2. W \subseteq waiters
        BY <3>1, NotifyOneSubset
      <3>3. http'[w] = "waiting" /\ req_stop'
        BY <1>1, <2>2 DEF Enter, HttpAt, CalmIInv, QueueInv, QueueTypeOK
      <3>4. Main \notin waiters'
        <4>1. CASE req_stop
          BY <3>1, <3>2, <2>2, <4>1 DEF CalmIInv, QueueInv, SleepInv, CalmInv, BlocksIdle
        <4>2. CASE ~req_stop /\ Main \in waiters
          <5>1. main = "asleep"
            BY <4>2, <2>2 DEF CalmIInv, QueueInv, SleepInv, CalmInv
          <5>2. waiters \subseteq {Main}
            BY <5>1, <4>2 DEF CalmIInv, QueueInv, QueueTypeOK, CalmInv
          <5>3. W = {}
            BY <5>2, <4>2, <3>1, NotifyOneSubset
          <5> QED BY <5>3, <3>1
        <4>3. CASE Main \notin waiters
          BY <4>3, <3>1, <3>2
        <4> QED BY <4>1, <4>2, <4>3
      <3> QED
        BY <1>1, <2>0, <2>2, <3>1, <3>2, <3>3, <3>4
        DEF Enter, MutexFree, CalmIInv, QueueInv, SleepInv, CalmInv, BlocksIdle
    <2> QED BY <2>1, <2>2
  <1>2. ASSUME NEW w \in Http, Woken(w) PROVE CalmInv' /\ BlocksIdle'
    <2>1. CASE sleeping
      <3>1. main # "unload" /\ (main = "asleep" => req_stop)
        BY <1>2 DEF Woken, MutexFree, CalmIInv, CalmInv
      <3> QED BY <1>2, <2>1, <3>1 DEF Woken, MutexFree, CalmIInv, QueueInv, QueueTypeOK, CalmInv, BlocksIdle
    <2>2. CASE ~sleeping
      BY <1>2, <2>2 DEF Woken, HttpAt, MutexFree, CalmIInv, QueueInv, QueueTypeOK, SleepInv, CalmInv, BlocksIdle
    <2> QED BY <2>1, <2>2
  <1>3. ASSUME NEW w \in Http, Tokenize(w) PROVE CalmInv' /\ BlocksIdle'
    BY <1>3 DEF Tokenize, HttpAt, monitor, CalmIInv, QueueInv, QueueTypeOK, SleepInv, CalmInv, BlocksIdle
  <1>4. ASSUME NEW w \in Http, PostTask(w) PROVE CalmInv' /\ BlocksIdle'
    <2>1. waiters' \subseteq waiters /\ \A x \in waiters : waiters \subseteq {x} => waiters' = {}
      BY <1>4, NotifyOneSubset DEF PostTask
    <2>2. ~sleeping
      BY <1>4 DEF PostTask, CalmIInv, CalmInv
    <2>3. waiters' = {}
      BY <2>1, <2>2 DEF CalmIInv, QueueInv, QueueTypeOK, CalmInv
    <2>4. http' = [v \in Http |-> IF v = w THEN "posted" ELSE http[v]]
      BY <1>4 DEF PostTask, HttpAt, CalmIInv, QueueInv, QueueTypeOK
    <2>5. BlocksIdle'
      BY <2>3 DEF BlocksIdle
    <2>6. ~sleeping' /\ main' = main /\ main \notin {"unload", "asleep"}
      BY <1>4, <2>2 DEF PostTask, CalmIInv, QueueInv, SleepInv
    <2>7. CalmInv'
      BY <2>3, <2>6 DEF CalmInv
    <2> QED BY <2>5, <2>7
  <1>5. CASE Start
    BY <1>5 DEF Start, CalmIInv, QueueInv, SleepInv, CalmInv, BlocksIdle
  <1>6. CASE Pop
    BY <1>6 DEF Pop, CalmIInv, QueueInv, SleepInv, CalmInv, BlocksIdle
  <1>7. CASE ProcessTask
    BY <1>7 DEF ProcessTask, monitor, CalmIInv, QueueInv, SleepInv, CalmInv, BlocksIdle
  <1>8. CASE UpdateSlots
    <2>1. waiters' \subseteq waiters
      BY <1>8, NotifyOneSubset DEF UpdateSlots
    <2> QED BY <1>8, <2>1 DEF UpdateSlots, CalmIInv, QueueInv, SleepInv, CalmInv, BlocksIdle
  <1>9. CASE Check /\ Calm
    BY <1>9 DEF Check, Calm, InFlight, CalmIInv, QueueInv, QueueTypeOK, SleepInv, CalmInv, BlocksIdle
  <1>10. CASE TimedWait
    BY <1>10 DEF TimedWait, CalmIInv, QueueInv, SleepInv, CalmInv, BlocksIdle
  <1>11. CASE Unload
    BY <1>11 DEF Unload, CalmIInv, QueueInv, SleepInv, CalmInv, BlocksIdle
  <1>12. CASE Awake
    BY <1>12 DEF Awake, CalmIInv, QueueInv, SleepInv, CalmInv, BlocksIdle
  <1>13. CASE Reload
    BY <1>13 DEF Reload, CalmIInv, QueueInv, SleepInv, CalmInv, BlocksIdle
  <1>14. CASE IdleTimeOver
    BY <1>14 DEF IdleTimeOver, CalmIInv, QueueInv, SleepInv, CalmInv, BlocksIdle
  <1>15. CASE Terminate
    BY <1>15 DEF Terminate, MutexFree, CalmIInv, QueueInv, SleepInv, CalmInv, BlocksIdle
  <1>16. CASE QueueEnded \/ UNCHANGED queue_vars
    BY <1>16 DEF QueueEnded, queue_vars, CalmIInv, CalmInv, BlocksIdle
  <1> QED
    BY <1>1, <1>2, <1>3, <1>4, <1>5, <1>6, <1>7, <1>8, <1>9, <1>10, <1>11,
       <1>12, <1>13, <1>14, <1>15, <1>16
    DEF QueueNext, HttpSteps, LoopThread

CalmSoFar == QueueInv /\ (calm => CalmInv /\ BlocksIdle)

LEMMA CalmSoFarStep == CalmSoFar /\ [QueueStep]_all_vars => CalmSoFar'
  <1> SUFFICES ASSUME CalmSoFar, [QueueStep]_all_vars PROVE CalmSoFar'
    OBVIOUS
  <1>1. QueueInv'
    BY StepOfQueue, QueueStepInv DEF CalmSoFar
  <1>2. ASSUME calm' PROVE CalmInv' /\ BlocksIdle'
    <2>1. calm /\ [QueueNext /\ Calm]_queue_vars
      BY <1>2 DEF QueueStep, all_vars
    <2> QED BY <2>1, CalmStep DEF CalmSoFar, CalmIInv
  <1> QED BY <1>1, <1>2 DEF CalmSoFar

\* When no request has raced the idle timer, no wake-up of the main thread is lost.
THEOREM NoWakeupLost == QueueSpec => []NoLostWakeup
  <1>1. QueueInit => CalmSoFar
    BY CalmInit DEF CalmSoFar, CalmIInv
  <1>2. CalmSoFar => NoLostWakeup
    BY DEF CalmSoFar, NoLostWakeup
  <1> QED BY <1>1, <1>2, CalmSoFarStep, PTL DEF QueueSpec

----------------------------------------------------------------------------
(* server_response *)

InResults(t) == \E i \in DOMAIN results : results[i].id = t
Final(x, t)  == x.id = t /\ x.kind = "final"
GotFinal(t)  == \E i \in DOMAIN got[ReaderOf[t]] : Final(got[ReaderOf[t]][i], t)

\* Nothing happens for a task before it is posted.
Fresh ==
    \A t \in Task : rpc[ReaderOf[t]] \in {"new", "post"} =>
        t \notin live /\ ~InResults(t) /\ ~GotFinal(t)

\* The last result of a task is the last in the queue, too, and the main thread
\* is done with the task then.
LastIsLast ==
    \A i, j \in DOMAIN results : results[i].kind # "partial" /\ i < j =>
        results[j].id # results[i].id

LiveIsOpen ==
    \A t \in live : \A i \in DOMAIN results : results[i].id = t => results[i].kind = "partial"

\* A reader that has the final result of a task has it once, and no other
\* result of the task is or will be on its way.
FinalOnce ==
    \A t \in Task : GotFinal(t) =>
        /\ t \notin live /\ ~InResults(t)
        /\ \A i, j \in DOMAIN got[ReaderOf[t]] :
              Final(got[ReaderOf[t]][i], t) /\ Final(got[ReaderOf[t]][j], t) => i = j

CountsFinals == \A r \in Reader : received[r] = Cardinality({t \in Ids(r) : GotFinal(t)})

\* Once stop() has removed its ids, nothing is added for a reader; what is left
\* in the queue is what stop() still has to clean up.
Closing ==
    \A r \in Reader :
        /\ cancelled[r] => rpc[r] \in {"purge", "ended"}
        /\ rpc[r] = "purge" => cancelled[r]
        /\ rpc[r] \in {"purge", "ended"} => \A t \in Ids(r) :
              t \notin waiting /\ (rpc[r] = "ended" \/ t \notin purge[r] => ~InResults(t))
        /\ rpc[r] = "ended" /\ ~cancelled[r] => \A t \in Ids(r) : GotFinal(t)

Order == Fresh /\ LastIsLast /\ LiveIsOpen /\ FinalOnce

IInv == TypeOK /\ Order /\ CountsFinals /\ Closing

----------------------------------------------------------------------------
(* Counting *)

LEMMA IdsType ==
    /\ \A t \in Task : ReaderOf[t] \in Reader /\ t \in Ids(ReaderOf[t])
    /\ \A r \in Reader : Ids(r) \subseteq Task
    /\ \A r \in Reader : IsFiniteSet(Ids(r)) /\ Cardinality(Ids(r)) \in Nat
<1>1. /\ \A t \in Task : ReaderOf[t] \in Reader /\ t \in Ids(ReaderOf[t])
      /\ \A r \in Reader : Ids(r) \subseteq Task
  BY ResponseAssumption DEF ResponseAssumption, Ids
<1>2. ASSUME NEW r \in Reader PROVE IsFiniteSet(Ids(r)) /\ Cardinality(Ids(r)) \in Nat
  BY <1>1, ResponseAssumption, FS_Subset, FS_CardinalityType DEF ResponseAssumption
<1> QED
  BY <1>1, <1>2

\* received_count says how many tasks are answered, and reaches the number of
\* tasks when all are.
LEMMA AllReceived ==
    ASSUME CountsFinals, NEW r \in Reader
    PROVE  /\ received[r] \in 0 .. Cardinality(Task)
           /\ received[r] <= Cardinality(Ids(r))
           /\ ~(received[r] < Cardinality(Ids(r))) => \A t \in Ids(r) : GotFinal(t)
<1> DEFINE G == {t \in Ids(r) : GotFinal(t)}
<1>1. G \in SUBSET Ids(r) /\ Ids(r) \in SUBSET Task /\ IsFiniteSet(Task) /\ IsFiniteSet(Ids(r))
  BY IdsType, ResponseAssumption DEF ResponseAssumption
<1>2. received[r] = Cardinality(G)
  BY DEF CountsFinals
<1>3. \A t \in Ids(r) : t \in G => GotFinal(t)
  OBVIOUS
<1> HIDE DEF G
<1>4. /\ Cardinality(G) \in Nat /\ Cardinality(Ids(r)) \in Nat /\ Cardinality(Task) \in Nat
      /\ Cardinality(G) <= Cardinality(Ids(r)) /\ Cardinality(Ids(r)) <= Cardinality(Task)
      /\ Cardinality(G) = Cardinality(Ids(r)) => G = Ids(r)
  BY <1>1, FS_Subset, FS_CardinalityType
<1>5. ~(received[r] < Cardinality(Ids(r))) => G = Ids(r)
  BY <1>2, <1>4
<1> QED
  BY <1>2, <1>3, <1>4, <1>5

----------------------------------------------------------------------------
(* Steps that move no result *)

LEMMA Frame ==
    ASSUME IInv, UNCHANGED <<results, got, received>>,
           \A t \in live' : t \in live \/ (t \in Task /\ rpc[ReaderOf[t]] = "post"),
           \A t \in Task : rpc'[ReaderOf[t]] \in {"new", "post"} =>
               rpc[ReaderOf[t]] \in {"new", "post"} /\ (t \in live' => t \in live)
    PROVE  Order' /\ CountsFinals'
<1>1. \A t : (InResults(t)' <=> InResults(t)) /\ (GotFinal(t)' <=> GotFinal(t))
  BY DEF InResults, GotFinal
<1>2. Fresh'
  BY <1>1 DEF IInv, Order, Fresh
<1>3. LastIsLast'
  BY DEF IInv, Order, LastIsLast
<1>4. LiveIsOpen'
  BY <1>1 DEF IInv, Order, LiveIsOpen, Fresh, InResults
<1>5. FinalOnce'
  BY <1>1 DEF IInv, Order, FinalOnce, Fresh
<1>6. CountsFinals'
  BY <1>1 DEF IInv, CountsFinals, Ids
<1> QED
  BY <1>2, <1>3, <1>4, <1>5, <1>6 DEF Order

\* The same for a reader that goes from one place to another before stop().
LEMMA Moves ==
    ASSUME IInv, NEW r \in Reader, NEW p \in {"post", "next", "wait", "stop"}, Goto(r, p),
           rpc[r] \notin {"purge", "ended"}, p = "post" => rpc[r] = "new",
           UNCHANGED <<results, received, cancelled, purge, got, sent, cancels>>,
           blocked' \subseteq Reader,
           waiting' \subseteq waiting \cup Ids(r), waiting' \subseteq Task,
           \/ live' = live
           \/ live' = live \cup Ids(r) /\ rpc[r] = "post" /\ p = "next"
    PROVE  IInv'
<1>1. rpc' \in [Reader -> {"new", "post", "next", "wait", "stop", "purge", "ended"}]
      /\ \A q \in Reader : rpc'[q] = IF q = r THEN p ELSE rpc[q]
  BY DEF Goto, IInv, TypeOK
<1>2. \A t \in live' : t \in live \/ (t \in Task /\ rpc[ReaderOf[t]] = "post")
  BY IdsType DEF Ids
<1>3. \A t \in Task : rpc'[ReaderOf[t]] \in {"new", "post"} =>
          rpc[ReaderOf[t]] \in {"new", "post"} /\ (t \in live' => t \in live)
  BY <1>1, IdsType DEF Ids
<1>4. Order' /\ CountsFinals'
  BY <1>2, <1>3, Frame
<1>5. \A t : (InResults(t)' <=> InResults(t)) /\ (GotFinal(t)' <=> GotFinal(t))
  BY DEF InResults, GotFinal
<1>6. Closing'
  BY <1>1, <1>5 DEF IInv, Closing, Ids
<1>7. TypeOK'
  <2>1. live' \subseteq Task
    BY IdsType DEF IInv, TypeOK
  <2> QED
    BY <1>1, <2>1 DEF IInv, TypeOK, Result
<1> QED
  BY <1>4, <1>6, <1>7 DEF IInv

LEMMA RegisterInv == ASSUME IInv, NEW r \in Reader, Register(r) PROVE IInv'
<1>1. waiting \cup Ids(r) \subseteq Task /\ blocked \subseteq Reader
  BY IdsType DEF IInv, TypeOK
<1> QED
  BY <1>1, Moves DEF Register, reader, server

LEMMA PostTasksInv == ASSUME IInv, NEW r \in Reader, PostTasks(r) PROVE IInv'
<1>1. waiting \subseteq Task /\ blocked \subseteq Reader
  BY DEF IInv, TypeOK
<1> QED
  BY <1>1, Moves DEF PostTasks, reader, response

\* Block(), Notified(), Timeout() and Leave().
LEMMA WaitsInv ==
    ASSUME IInv, NEW r \in Reader, Block(r) \/ Notified(r) \/ Timeout(r) \/ Leave(r)
    PROVE  IInv'
<1>1. waiting \subseteq Task /\ blocked \subseteq Reader
  BY DEF IInv, TypeOK
<1>2. CASE Block(r)
  BY <1>1, <1>2, Moves DEF Block, reader, server, response
<1>3. CASE Notified(r)
  BY <1>1, <1>3, Moves DEF Notified, reader, server, response
<1>4. CASE Timeout(r)
  BY <1>1, <1>4, Moves DEF Timeout, reader, server, response
<1>5. CASE Leave(r)
  BY <1>1, <1>5, Moves DEF Leave, reader, server, response
<1> QED
  BY <1>2, <1>3, <1>4, <1>5

LEMMA StopInv == ASSUME IInv, NEW r \in Reader, Stop(r) PROVE IInv'
<1>1. PICK p \in {"purge", "ended"} :
          /\ rpc' = [rpc EXCEPT ![r] = p]
          /\ HasNext(r) <=> p = "purge"
  BY DEF Stop, Goto
<1>2. rpc[r] = "stop" /\ waiting' = waiting \ Ids(r)
      /\ UNCHANGED <<results, blocked, received, got, live, sent, cancels>>
  BY DEF Stop, server
<1>3. rpc' \in [Reader -> {"new", "post", "next", "wait", "stop", "purge", "ended"}]
      /\ \A q \in Reader : rpc'[q] = IF q = r THEN p ELSE rpc[q]
  BY <1>1 DEF IInv, TypeOK
<1>4. /\ cancelled' \in [Reader -> BOOLEAN]
      /\ purge' \in [Reader -> SUBSET Task]
      /\ \A q \in Reader : q # r => cancelled'[q] = cancelled[q] /\ purge'[q] = purge[q]
      /\ p = "purge" => cancelled'[r] /\ purge'[r] = Ids(r)
      /\ p = "ended" => cancelled' = cancelled
  <2>1. Ids(r) \subseteq Task
    BY IdsType
  <2> QED
    BY <1>1, <2>1 DEF Stop, IInv, TypeOK
<1>5. TypeOK'
  BY <1>2, <1>3, <1>4 DEF IInv, TypeOK, Result
<1>6. Order' /\ CountsFinals'
  <2>1. \A t \in live' : t \in live \/ (t \in Task /\ rpc[ReaderOf[t]] = "post")
    BY <1>2
  <2>2. \A t \in Task : rpc'[ReaderOf[t]] \in {"new", "post"} =>
            rpc[ReaderOf[t]] \in {"new", "post"} /\ (t \in live' => t \in live)
    BY <1>2, <1>3, IdsType
  <2> QED
    BY <1>2, <2>1, <2>2, Frame
<1>7. \A t : (InResults(t)' <=> InResults(t)) /\ (GotFinal(t)' <=> GotFinal(t))
  BY <1>2 DEF InResults, GotFinal
<1>8. p = "ended" => \A t \in Ids(r) : GotFinal(t) /\ ~InResults(t)
  <2>1. p = "ended" => ~cancelled[r] /\ ~(received[r] < Cardinality(Ids(r)))
    BY <1>1, <1>2 DEF IInv, Closing, HasNext
  <2> QED
    BY <2>1, AllReceived, IdsType DEF IInv, Order, FinalOnce
<1>9. Closing'
  <2> SUFFICES ASSUME NEW q \in Reader
               PROVE /\ cancelled'[q] => rpc'[q] \in {"purge", "ended"}
                     /\ rpc'[q] = "purge" => cancelled'[q]
                     /\ rpc'[q] \in {"purge", "ended"} => \A t \in Ids(q) :
                           t \notin waiting'
                           /\ (rpc'[q] = "ended" \/ t \notin purge'[q] => ~InResults(t))
                     /\ rpc'[q] = "ended" /\ ~cancelled'[q] => \A t \in Ids(q) : GotFinal(t)
    BY <1>7 DEF Closing, Ids
  <2>1. CASE q = r
    BY <1>1, <1>2, <1>3, <1>4, <1>8, <2>1
  <2>2. CASE q # r
    BY <1>2, <1>3, <1>4, <2>2 DEF IInv, Closing
  <2> QED
    BY <2>1, <2>2
<1> QED
  BY <1>5, <1>6, <1>9 DEF IInv

LEMMA PostCancelsInv == ASSUME IInv, NEW r \in Reader, PostCancels(r) PROVE IInv'
<1>1. /\ rpc[r] = "purge" /\ purge[r] = {} /\ cancels' = cancels \cup Ids(r)
      /\ rpc' = [rpc EXCEPT ![r] = "ended"]
      /\ UNCHANGED <<waiting, results, blocked, received, cancelled, purge, got, live, sent>>
  BY DEF PostCancels, Goto, response, reader
<1>2. rpc' \in [Reader -> {"new", "post", "next", "wait", "stop", "purge", "ended"}]
      /\ \A q \in Reader : rpc'[q] = IF q = r THEN "ended" ELSE rpc[q]
  BY <1>1 DEF IInv, TypeOK
<1>3. TypeOK'
  BY <1>1, <1>2, IdsType DEF IInv, TypeOK, Result
<1>4. Order' /\ CountsFinals'
  <2>1. \A t \in live' : t \in live \/ (t \in Task /\ rpc[ReaderOf[t]] = "post")
    BY <1>1
  <2>2. \A t \in Task : rpc'[ReaderOf[t]] \in {"new", "post"} =>
            rpc[ReaderOf[t]] \in {"new", "post"} /\ (t \in live' => t \in live)
    BY <1>1, <1>2, IdsType
  <2> QED
    BY <1>1, <2>1, <2>2, Frame
<1>5. \A t : (InResults(t)' <=> InResults(t)) /\ (GotFinal(t)' <=> GotFinal(t))
  BY <1>1 DEF InResults, GotFinal
<1>6. Closing'
  BY <1>1, <1>2, <1>5 DEF IInv, Closing, Ids
<1> QED
  BY <1>3, <1>4, <1>6 DEF IInv

LEMMA CancelInv == ASSUME IInv, NEW t \in Task, Cancel(t) PROVE IInv'
<1>1. live' = live \ {t} /\ cancels' = cancels \ {t}
      /\ UNCHANGED <<waiting, results, blocked, rpc, received, cancelled, purge, got, sent>>
  BY DEF Cancel, response, reader
<1>2. TypeOK'
  BY <1>1 DEF IInv, TypeOK, Result
<1>3. Order' /\ CountsFinals'
  BY <1>1, Frame
<1>4. \A u : (InResults(u)' <=> InResults(u)) /\ (GotFinal(u)' <=> GotFinal(u))
  BY <1>1 DEF InResults, GotFinal
<1>5. Closing'
  BY <1>1, <1>4 DEF IInv, Closing, Ids
<1> QED
  BY <1>2, <1>3, <1>5 DEF IInv

----------------------------------------------------------------------------
(* Steps that move a result *)

\* Some results are taken out of the queue, the others keep their order.
LEMMA Fewer ==
    ASSUME IInv, NEW m \in [DOMAIN results' -> DOMAIN results],
           \A k, l \in DOMAIN results' : k < l => m[k] < m[l],
           \A k \in DOMAIN results' : results'[k] = results[m[k]],
           live' = live
    PROVE  LastIsLast' /\ LiveIsOpen' /\ \A t : InResults(t)' => InResults(t)
<1>1. LastIsLast'
  <2> SUFFICES ASSUME NEW k \in DOMAIN results', NEW l \in DOMAIN results',
                      results'[k].kind # "partial", k < l
               PROVE  results'[l].id # results'[k].id
    BY DEF LastIsLast
  <2>1. m[k] \in DOMAIN results /\ m[l] \in DOMAIN results /\ m[k] < m[l]
    OBVIOUS
  <2>2. results'[k] = results[m[k]] /\ results'[l] = results[m[l]]
    OBVIOUS
  <2> QED
    BY <2>1, <2>2 DEF IInv, Order, LastIsLast
<1>2. LiveIsOpen'
  BY DEF IInv, Order, LiveIsOpen
<1>3. \A t : InResults(t)' => InResults(t)
  BY DEF InResults
<1> QED
  BY <1>1, <1>2, <1>3

LEMMA PurgeInv == ASSUME IInv, NEW r \in Reader, Purge(r) PROVE IInv'
<1>1. PICK t \in purge[r] :
         /\ purge' = [purge EXCEPT ![r] = @ \ {t}]
         /\ waiting' = waiting \ {t}
         /\ results' = Remaining(results, {i \in DOMAIN results : results[i].id # t})
  BY DEF Purge
<1>2. rpc[r] = "purge" /\ UNCHANGED <<blocked, rpc, received, cancelled, got, live, sent, cancels>>
  BY DEF Purge, server
<1> DEFINE K == {i \in DOMAIN results : results[i].id # t}
           n == Cardinality(K)
           m == [k \in 1 .. n |-> Nth(K, k)]
<1>3. results \in Seq(Result) /\ K \in SUBSET (1 .. Len(results))
      /\ DOMAIN results = 1 .. Len(results)
  BY DEF IInv, TypeOK
<1>4. /\ results' \in Seq(Result) /\ DOMAIN results' = 1 .. n
      /\ \A k \in 1 .. n : Nth(K, k) \in K /\ results'[k] = results[Nth(K, k)]
      /\ \A k, l \in 1 .. n : k < l => Nth(K, k) < Nth(K, l)
  <2>1. results' = Remaining(results, K)
    BY <1>1
  <2> HIDE DEF K
  <2>2. /\ Remaining(results, K) \in Seq(Result) /\ DOMAIN Remaining(results, K) = 1 .. n
        /\ \A k \in 1 .. n : Nth(K, k) \in K /\ Remaining(results, K)[k] = results[Nth(K, k)]
        /\ \A k, l \in 1 .. n : k < l => Nth(K, k) < Nth(K, l)
    BY <1>3, RemainingElements
  <2> QED
    BY <2>1, <2>2
<1>5. m \in [DOMAIN results' -> DOMAIN results]
      /\ (\A k, l \in DOMAIN results' : k < l => m[k] < m[l])
      /\ \A k \in DOMAIN results' : results'[k] = results[m[k]]
  BY <1>3, <1>4
<1>6. ~InResults(t)'
  BY <1>4 DEF InResults
<1> HIDE DEF m
<1>7. LastIsLast' /\ LiveIsOpen' /\ \A u : InResults(u)' => InResults(u)
  BY <1>2, <1>5, Fewer
<1>8. \A u : GotFinal(u)' <=> GotFinal(u)
  BY <1>2 DEF GotFinal
<1>9. TypeOK'
  BY <1>1, <1>2, <1>4 DEF IInv, TypeOK, Result
<1>10. Fresh' /\ FinalOnce'
  <2>1. Fresh'
    BY <1>2, <1>7, <1>8 DEF IInv, Order, Fresh
  <2>2. FinalOnce'
    BY <1>2, <1>7, <1>8 DEF IInv, Order, FinalOnce
  <2> QED
    BY <2>1, <2>2
<1>11. CountsFinals'
  BY <1>2, <1>8 DEF IInv, CountsFinals, Ids
<1>12. Closing'
  <2>1. /\ \A q \in Reader : q # r => purge'[q] = purge[q]
        /\ purge'[r] = purge[r] \ {t}
    BY <1>1 DEF IInv, TypeOK
  <2> QED
    BY <1>1, <1>2, <1>6, <1>7, <1>8, <2>1 DEF IInv, Closing, Ids
<1> QED
  BY <1>7, <1>9, <1>10, <1>11, <1>12 DEF IInv, Order

\* The main thread sends a result of a task it works on; a final result or an
\* error is the last one.
LEMMA SendInv ==
    ASSUME IInv, NEW t \in live, NEW kind \in {"partial", "final", "error"},
           NEW n \in 0 .. MaxPartial, Send(t, kind, n),
           live' \subseteq live, kind # "partial" => t \notin live',
           sent' \in [Task -> 0 .. MaxPartial], cancels' = cancels
    PROVE  IInv'
<1> DEFINE x == [id |-> t, kind |-> kind, n |-> n]
           N == Len(results)
<1>1. /\ UNCHANGED <<waiting, rpc, received, cancelled, purge, got>>
      /\ t \in waiting => results' = Append(results, x) /\ blocked' = {}
      /\ t \notin waiting => UNCHANGED <<results, blocked>>
  BY DEF Send, reader
<1>2. t \in Task /\ x \in Result /\ x.id = t /\ x.kind = kind /\ results \in Seq(Result)
  BY DEF IInv, TypeOK, Result
<1> HIDE DEF x
<1>3. \A u : GotFinal(u)' <=> GotFinal(u)
  BY <1>1 DEF GotFinal
<1>4. TypeOK'
  <2>0. blocked \subseteq Reader
    BY DEF IInv, TypeOK
  <2>1. results' \in Seq(Result) /\ blocked' \subseteq Reader
    BY <1>1, <1>2, <2>0
  <2> QED
    BY <1>1, <2>1 DEF IInv, TypeOK, Result
<1>5. CountsFinals'
  BY <1>1, <1>3 DEF IInv, CountsFinals, Ids
<1>6. CASE t \notin waiting
  <2>1. Order' /\ CountsFinals'
    BY <1>1, <1>6, Frame
  <2>2. \A u : InResults(u)' <=> InResults(u)
    BY <1>1, <1>6 DEF InResults
  <2>3. Closing'
    BY <1>1, <1>3, <2>2 DEF IInv, Closing, Ids
  <2> QED
    BY <1>4, <2>1, <2>3 DEF IInv
<1>7. CASE t \in waiting
  <2>1. /\ N \in Nat /\ DOMAIN results = 1 .. N /\ DOMAIN results' = 1 .. N + 1
        /\ \A k \in 1 .. N : results'[k] = results[k]
        /\ results'[N + 1].id = t /\ results'[N + 1].kind = kind
    BY <1>1, <1>2, <1>7
  <2>2. \A u : InResults(u)' => InResults(u) \/ u = t
    <3>1. \A k \in 1 .. N + 1 : k \in 1 .. N \/ k = N + 1
      BY <2>1
    <3> HIDE DEF N
    <3> QED
      BY <2>1, <3>1 DEF InResults
  <2>3. rpc[ReaderOf[t]] \notin {"new", "post", "purge", "ended"} /\ ~GotFinal(t)
    BY <1>2, <1>7, IdsType DEF IInv, Closing, Order, Fresh, FinalOnce
  <2>4. Fresh'
    BY <1>1, <1>3, <2>2, <2>3 DEF IInv, Order, Fresh
  <2>5. LastIsLast'
    <3> SUFFICES ASSUME NEW k \in 1 .. N + 1, NEW l \in 1 .. N + 1,
                        results'[k].kind # "partial", k < l
                 PROVE  results'[l].id # results'[k].id
      BY <2>1 DEF LastIsLast
    <3>1. k \in 1 .. N /\ (l \in 1 .. N \/ l = N + 1)
      BY <2>1
    <3> HIDE DEF N
    <3>2. CASE l \in 1 .. N
      BY <2>1, <3>1, <3>2 DEF IInv, Order, LastIsLast
    <3>3. CASE l = N + 1
      BY <2>1, <3>1, <3>3 DEF IInv, Order, LiveIsOpen
    <3> QED
      BY <3>1, <3>2, <3>3
  <2>6. LiveIsOpen'
    <3> SUFFICES ASSUME NEW u \in live', NEW k \in 1 .. N + 1, results'[k].id = u
                 PROVE  results'[k].kind = "partial"
      BY <2>1 DEF LiveIsOpen
    <3>1. k \in 1 .. N \/ k = N + 1
      BY <2>1
    <3> HIDE DEF N
    <3> QED
      BY <2>1, <3>1 DEF IInv, Order, LiveIsOpen
  <2>7. FinalOnce'
    BY <1>1, <1>3, <2>2, <2>3 DEF IInv, Order, FinalOnce
  <2>8. Closing'
    BY <1>1, <1>2, <1>3, <2>2, <2>3, IdsType DEF IInv, Closing, Ids
  <2> QED
    BY <1>4, <1>5, <2>4, <2>5, <2>6, <2>7, <2>8 DEF IInv, Order
<1> QED
  BY <1>6, <1>7

LEMMA MainThreadInv == ASSUME IInv, NEW t \in Task, MainThread(t) PROVE IInv'
<1>1. CASE SendPartial(t)
  <2>1. t \in live /\ sent[t] \in 0 .. MaxPartial /\ Send(t, "partial", sent[t])
        /\ live' = live /\ cancels' = cancels
    BY <1>1 DEF SendPartial, IInv, TypeOK
  <2>2. sent' \in [Task -> 0 .. MaxPartial]
    <3>1. sent[t] + 1 \in 0 .. MaxPartial
      BY <1>1, ResponseAssumption DEF SendPartial, IInv, TypeOK, ResponseAssumption
    <3> QED
      BY <1>1, <3>1 DEF SendPartial, IInv, TypeOK
  <2> QED
    BY <2>1, <2>2, SendInv
<1>2. CASE SendLast(t)
  <2>1. t \in live /\ sent[t] \in 0 .. MaxPartial /\ live' = live \ {t}
        /\ sent' = sent /\ cancels' = cancels /\ sent \in [Task -> 0 .. MaxPartial]
    BY <1>2 DEF SendLast, IInv, TypeOK
  <2>2. PICK kind \in {"final", "error"} : Send(t, kind, sent[t])
    BY <1>2 DEF SendLast
  <2> QED
    BY <2>1, <2>2, SendInv
<1>3. CASE Cancel(t)
  BY <1>3, CancelInv
<1> QED
  BY <1>1, <1>2, <1>3 DEF MainThread

\* The reader takes its oldest result.
LEMMA ReceiveInv == ASSUME IInv, NEW r \in Reader, Receive(r) PROVE IInv'
<1>1. PICK i \in Own(r) :
         /\ \A j \in Own(r) : i <= j
         /\ results' = RemoveAt(results, i)
         /\ got' = [got EXCEPT ![r] = Append(@, results[i])]
         /\ received' = IF results[i].kind = "final"
                        THEN [received EXCEPT ![r] = @ + 1] ELSE received
         /\ Goto(r, IF results[i].kind = "error" THEN "stop" ELSE "next")
  BY DEF Receive
<1>2. /\ rpc[r] = "next" /\ ~cancelled[r] /\ received[r] < Cardinality(Ids(r))
      /\ UNCHANGED <<waiting, blocked, cancelled, purge, live, sent, cancels>>
  BY DEF Receive, HasNext, server
<1>a. PICK x, t : x = results[i] /\ t = x.id
  OBVIOUS
<1> DEFINE n == Len(results)
           N == Len(got[r])
           m == [k \in 1 .. n - 1 |-> IF k < i THEN k ELSE k + 1]
<1>3. /\ results \in Seq(Result) /\ n \in Nat /\ i \in 1 .. n /\ DOMAIN results = 1 .. n
      /\ x \in Result /\ t \in Task /\ ReaderOf[t] = r /\ InResults(t)
  <2>1. results \in Seq(Result)
    BY DEF IInv, TypeOK
  <2>2. i \in DOMAIN results /\ t \in Ids(r)
    BY <1>a DEF Own
  <2>3. n \in Nat /\ DOMAIN results = 1 .. n /\ results[i] \in Result
    BY <2>1, <2>2
  <2> QED
    BY <1>a, <2>1, <2>2, <2>3 DEF Ids, InResults
<1>4. PICK p \in {"next", "stop"} : rpc' = [rpc EXCEPT ![r] = p]
  BY <1>1 DEF Goto
<1>5. rpc' \in [Reader -> {"new", "post", "next", "wait", "stop", "purge", "ended"}]
      /\ \A q \in Reader : rpc'[q] = IF q = r THEN p ELSE rpc[q]
  BY <1>4 DEF IInv, TypeOK
<1>6. /\ N \in Nat /\ DOMAIN got[r] = 1 .. N /\ got \in [Reader -> Seq(Result)]
      /\ got' \in [Reader -> Seq(Result)] /\ DOMAIN got'[r] = 1 .. N + 1
      /\ \A k \in 1 .. N : got'[r][k] = got[r][k]
      /\ got'[r][N + 1] = x
      /\ \A q \in Reader : q # r => got'[q] = got[q]
  <2>1. got \in [Reader -> Seq(Result)] /\ got[r] \in Seq(Result)
    BY DEF IInv, TypeOK
  <2>2. got' = [got EXCEPT ![r] = Append(got[r], x)]
    BY <1>1, <1>a
  <2>3. /\ Append(got[r], x) \in Seq(Result) /\ DOMAIN Append(got[r], x) = 1 .. N + 1
        /\ \A k \in 1 .. N : Append(got[r], x)[k] = got[r][k]
        /\ Append(got[r], x)[N + 1] = x /\ N \in Nat /\ DOMAIN got[r] = 1 .. N
    BY <1>3, <2>1
  <2>4. /\ got'[r] = Append(got[r], x) /\ got' \in [Reader -> Seq(Result)]
        /\ \A q \in Reader : q # r => got'[q] = got[q]
    BY <2>1, <2>2, <2>3
  <2> QED
    BY <2>1, <2>3, <2>4
<1>7. /\ results' \in Seq(Result) /\ DOMAIN results' = 1 .. n - 1
      /\ \A k \in 1 .. n - 1 : results'[k] = results[IF k < i THEN k ELSE k + 1]
  <2>1. /\ RemoveAt(results, i) \in Seq(Result) /\ DOMAIN RemoveAt(results, i) = 1 .. n - 1
        /\ \A k \in 1 .. n - 1 :
              RemoveAt(results, i)[k] = IF k < i THEN results[k] ELSE results[k + 1]
    BY <1>3, RemoveAtType, RemoveAtElements
  <2> QED
    BY <1>1, <2>1
<1>8. m \in [DOMAIN results' -> DOMAIN results]
      /\ (\A k, l \in DOMAIN results' : k < l => m[k] < m[l])
      /\ (\A k \in DOMAIN results' : results'[k] = results[m[k]])
      /\ \A k \in DOMAIN results' : m[k] # i
  BY <1>3, <1>7
<1> HIDE DEF m
<1>9. LastIsLast' /\ LiveIsOpen' /\ \A u : InResults(u)' => InResults(u)
  BY <1>2, <1>8, Fewer
<1> HIDE DEF N, n
\* What the reader has got now.
<1>10. \A u \in Task : GotFinal(u)' <=> GotFinal(u) \/ Final(x, u)
  <2> TAKE u \in Task
  <2>1. CASE ReaderOf[u] = r
    <3>1. \A k \in 1 .. N + 1 : k \in 1 .. N \/ k = N + 1
      BY <1>6
    <3>2. N + 1 \in 1 .. N + 1 /\ \A k \in 1 .. N : k \in 1 .. N + 1
      BY <1>6
    <3> QED
      BY <1>6, <2>1, <3>1, <3>2 DEF GotFinal
  <2>2. CASE ReaderOf[u] # r
    <3>1. ReaderOf[u] \in Reader /\ x.id # u
      BY <1>3, <1>a, <2>2, IdsType
    <3> QED
      BY <1>6, <2>2, <3>1 DEF GotFinal, Final
  <2> QED
    BY <2>1, <2>2
<1>11. ~GotFinal(t)
  BY <1>3 DEF IInv, Order, FinalOnce
\* It was the last one of its task if it is final.
<1>12. Final(x, t) => t \notin live /\ ~InResults(t)'
  <2> SUFFICES ASSUME Final(x, t) PROVE t \notin live /\ ~InResults(t)'
    OBVIOUS
  <2>1. results[i].kind # "partial" /\ results[i].id = t /\ i \in DOMAIN results
    BY <1>3, <1>a DEF Final
  <2>2. t \notin live
    BY <2>1 DEF IInv, Order, LiveIsOpen
  <2>3. ASSUME NEW k \in DOMAIN results', results'[k].id = t PROVE FALSE
    <3>1. m[k] \in DOMAIN results /\ results[m[k]].id = t /\ m[k] # i
      BY <1>8, <2>3
    <3>2. m[k] \in Own(r)
      BY <1>3, <3>1 DEF Own, Ids
    <3>3. i <= m[k] /\ m[k] \in Int /\ i \in Int
      BY <1>1, <1>3, <3>1, <3>2
    <3>4. i < m[k]
      BY <3>1, <3>3
    <3> QED
      BY <2>1, <3>1, <3>4 DEF IInv, Order, LastIsLast
  <2> QED
    BY <2>2, <2>3 DEF InResults
<1>13. \A u \in Task : u # t => ~Final(x, u)
  BY <1>a DEF Final
<1>14. Fresh'
  <2> SUFFICES ASSUME NEW u \in Task, rpc'[ReaderOf[u]] \in {"new", "post"}
               PROVE  u \notin live' /\ ~InResults(u)' /\ ~GotFinal(u)'
    BY DEF Fresh
  <2>1. ReaderOf[u] \in Reader /\ ReaderOf[u] # r /\ u # t
    BY <1>3, <1>5, IdsType
  <2>2. rpc[ReaderOf[u]] \in {"new", "post"}
    BY <1>5, <2>1
  <2> QED
    BY <1>2, <1>9, <1>10, <1>13, <2>1, <2>2 DEF IInv, Order, Fresh
<1>15. FinalOnce'
  <2> SUFFICES ASSUME NEW u \in Task, GotFinal(u)'
               PROVE  /\ u \notin live' /\ ~InResults(u)'
                      /\ \A k, l \in DOMAIN got'[ReaderOf[u]] :
                            Final(got'[ReaderOf[u]][k], u) /\ Final(got'[ReaderOf[u]][l], u)
                              => k = l
    BY DEF FinalOnce
  <2>1. CASE Final(x, u)
    <3>1. u = t /\ ReaderOf[u] = r
      BY <1>3, <1>13, <2>1
    <3>2. \A k \in 1 .. N : ~Final(got[r][k], t)
      BY <1>3, <1>6, <1>11 DEF GotFinal
    <3>3. \A k \in 1 .. N + 1 : Final(got'[r][k], t) => k = N + 1
      <4>1. \A k \in 1 .. N + 1 : k \in 1 .. N \/ k = N + 1
        BY <1>6
      <4> QED
        BY <1>6, <3>2, <4>1
    <3> QED
      BY <1>2, <1>6, <1>12, <2>1, <3>1, <3>3
  <2>2. CASE ~Final(x, u)
    <3>1. GotFinal(u)
      BY <1>10, <2>2
    <3>2. /\ u \notin live /\ ~InResults(u)
          /\ \A k, l \in DOMAIN got[ReaderOf[u]] :
                Final(got[ReaderOf[u]][k], u) /\ Final(got[ReaderOf[u]][l], u) => k = l
      BY <3>1 DEF IInv, Order, FinalOnce
    <3>3. CASE ReaderOf[u] = r
      <4>1. \A k \in 1 .. N + 1 : k \in 1 .. N \/ k = N + 1
        BY <1>6
      <4>2. \A k \in 1 .. N + 1 : Final(got'[r][k], u) => k \in 1 .. N
        BY <1>6, <2>2, <4>1
      <4> QED
        BY <1>2, <1>6, <1>9, <3>2, <3>3, <4>2
    <3>4. CASE ReaderOf[u] # r
      <4>1. ReaderOf[u] \in Reader
        BY IdsType
      <4> QED
        BY <1>2, <1>6, <1>9, <3>2, <3>4, <4>1
    <3> QED
      BY <3>3, <3>4
  <2> QED
    BY <2>1, <2>2
<1>16. received' \in [Reader -> 0 .. Cardinality(Task)] /\ CountsFinals'
  <2> DEFINE G(q) == {u \in Ids(q) : GotFinal(u)}
             H(q) == {u \in Ids(q) : GotFinal(u)'}
  <2>0. /\ received \in [Reader -> 0 .. Cardinality(Task)]
        /\ \A q \in Reader : received[q] = Cardinality(G(q)) /\ G(q) \in SUBSET Ids(q)
    BY DEF IInv, TypeOK, CountsFinals
  <2>1. received \in [Reader -> Int] /\ received[r] \in Nat
    <3>1. \A q \in Reader : received[q] \in 0 .. Cardinality(Task)
      BY <2>0
    <3>2. Cardinality(Task) \in Nat
      BY ResponseAssumption, FS_CardinalityType DEF ResponseAssumption
    <3> QED
      BY <2>0, <3>1, <3>2
  <2>2. \A q \in Reader : Ids(q) \subseteq Task /\ (q # r => t \notin Ids(q))
    BY <1>3, IdsType DEF Ids
  <2>3. ASSUME NEW q \in Reader, q # r \/ ~Final(x, t) PROVE H(q) = G(q)
    BY <1>10, <1>13, <2>2, <2>3
  <2>4. ASSUME Final(x, t) PROVE H(r) = G(r) \cup {t} /\ t \notin G(r)
    BY <1>3, <1>10, <1>11, <1>13, <2>2, <2>4 DEF Ids
  <2>5. IsFiniteSet(G(r))
    <3>1. IsFiniteSet(Ids(r)) /\ G(r) \in SUBSET Ids(r)
      BY IdsType
    <3> HIDE DEF G
    <3> QED
      BY <3>1, FS_Subset
  <2> HIDE DEF G, H
  <2>6. Final(x, t) => Cardinality(H(r)) = Cardinality(G(r)) + 1
    BY <2>4, <2>5, FS_AddElement
  <2>7. CASE Final(x, t)
    <3>1. received' = [received EXCEPT ![r] = @ + 1]
      BY <1>1, <1>a, <2>7 DEF Final
    <3>2. received[r] + 1 \in 0 .. Cardinality(Task)
      <4>1. Cardinality(Ids(r)) \in Nat /\ Cardinality(Task) \in Nat
            /\ Cardinality(Ids(r)) <= Cardinality(Task)
        BY IdsType, ResponseAssumption, FS_Subset, FS_CardinalityType DEF ResponseAssumption
      <4> QED
        BY <1>2, <2>1, <4>1
    <3>3. received' \in [Reader -> 0 .. Cardinality(Task)]
      BY <2>0, <3>1, <3>2
    <3>4. \A q \in Reader : received'[q] = Cardinality(H(q))
      BY <2>0, <2>1, <2>3, <2>6, <2>7, <3>1
    <3> QED
      BY <3>3, <3>4 DEF CountsFinals, H, Ids
  <2>8. CASE ~Final(x, t)
    <3>1. received' = received
      BY <1>1, <1>a, <2>8 DEF Final
    <3>2. \A q \in Reader : received'[q] = Cardinality(H(q))
      BY <2>0, <2>3, <2>8, <3>1
    <3> QED
      BY <2>0, <3>1, <3>2 DEF CountsFinals, H, Ids
  <2> QED
    BY <2>7, <2>8
<1>17. TypeOK'
  BY <1>2, <1>5, <1>6, <1>7, <1>16 DEF IInv, TypeOK, Result
<1>18. Closing'
  <2> SUFFICES ASSUME NEW q \in Reader
               PROVE /\ cancelled'[q] => rpc'[q] \in {"purge", "ended"}
                     /\ rpc'[q] = "purge" => cancelled'[q]
                     /\ rpc'[q] \in {"purge", "ended"} => \A u \in Ids(q) :
                           u \notin waiting'
                           /\ (rpc'[q] = "ended" \/ u \notin purge'[q] => ~InResults(u)')
                     /\ rpc'[q] = "ended" /\ ~cancelled'[q] => \A u \in Ids(q) : GotFinal(u)'
    BY DEF Closing, Ids
  <2>1. CASE q = r
    BY <1>2, <1>5, <2>1
  <2>2. CASE q # r
    <3>1. rpc'[q] = rpc[q] /\ Ids(q) \subseteq Task
      BY <1>5, <2>2, IdsType
    <3> QED
      BY <1>2, <1>9, <1>10, <3>1 DEF IInv, Closing
  <2> QED
    BY <2>1, <2>2
<1> QED
  BY <1>9, <1>14, <1>15, <1>16, <1>17, <1>18 DEF IInv, Order

----------------------------------------------------------------------------
(* The theorems *)

LEMMA InitInv == Init => IInv
<1> SUFFICES ASSUME Init PROVE IInv
  OBVIOUS
<1>1. Cardinality(Task) \in Nat /\ MaxPartial \in Nat
  BY ResponseAssumption, FS_CardinalityType DEF ResponseAssumption
<1>2. TypeOK
  BY <1>1 DEF Init, TypeOK
<1>3. \A t \in Task : ~InResults(t) /\ ~GotFinal(t)
  BY IdsType DEF Init, InResults, GotFinal
<1>4. Order
  BY <1>3 DEF Init, Order, Fresh, LastIsLast, LiveIsOpen, FinalOnce
<1>5. CountsFinals
  <2>1. \A r \in Reader : {t \in Ids(r) : GotFinal(t)} = {}
    BY <1>3, IdsType
  <2> QED
    BY <2>1, FS_EmptySet DEF Init, CountsFinals
<1>6. Closing
  BY DEF Init, Closing
<1> QED
  BY <1>2, <1>4, <1>5, <1>6 DEF IInv

LEMMA StepInv == IInv /\ [Next]_vars => IInv'
<1> SUFFICES ASSUME IInv, [Next]_vars PROVE IInv'
  OBVIOUS
<1>1. CASE \E r \in Reader : HttpThread(r)
  <2>1. PICK r \in Reader : HttpThread(r)
    BY <1>1
  <2> QED
    BY <2>1, RegisterInv, PostTasksInv, WaitsInv, StopInv, PostCancelsInv, PurgeInv, ReceiveInv
       DEF HttpThread
<1>2. CASE \E t \in Task : MainThread(t)
  BY <1>2, MainThreadInv
<1>3. CASE UNCHANGED vars
  <2>1. UNCHANGED <<waiting, results, blocked, rpc, received, cancelled, purge, got, live, sent,
                    cancels>>
    BY <1>3 DEF vars
  <2>2. TypeOK'
    BY <2>1 DEF IInv, TypeOK, Result
  <2>3. Order' /\ CountsFinals'
    BY <2>1, Frame
  <2>4. \A u : (InResults(u)' <=> InResults(u)) /\ (GotFinal(u)' <=> GotFinal(u))
    BY <2>1 DEF InResults, GotFinal
  <2>5. Closing'
    BY <2>1, <2>4 DEF IInv, Closing, Ids
  <2> QED
    BY <2>2, <2>3, <2>5 DEF IInv
<1> QED
  BY <1>1, <1>2, <1>3 DEF Next, Finished

\* server_response: whatever the order of results, stop() and CANCELs, nothing
\* stays in queue_results for a reader that is gone.
THEOREM NothingLeft == Spec => []NoOrphan
<1>1. IInv => NoOrphan
  <2> SUFFICES ASSUME IInv, NEW i \in DOMAIN results, rpc[ReaderOf[results[i].id]] = "ended"
               PROVE  FALSE
    BY DEF NoOrphan, IInv
  <2>1. results[i] \in Result
    BY DEF IInv, TypeOK
  <2>2. results[i].id \in Task /\ InResults(results[i].id)
    BY <2>1 DEF Result, InResults
  <2> QED
    BY <2>2, IdsType DEF IInv, Closing
<1> QED
  BY <1>1, InitInv, StepInv, PTL DEF Spec

\* server_response_reader::has_next() counts right: a reader that was not
\* cancelled ends with the final result of each of its tasks, once.
THEOREM AllAnswered == Spec => []EndsComplete
<1>1. IInv => EndsComplete
  <2> SUFFICES ASSUME IInv, NEW r \in Reader, rpc[r] = "ended" /\ ~cancelled[r], NEW t \in Ids(r)
               PROVE  Cardinality({i \in DOMAIN got[r] :
                                     got[r][i].id = t /\ got[r][i].kind = "final"}) = 1
    BY DEF EndsComplete
  <2> DEFINE F == {i \in DOMAIN got[r] : got[r][i].id = t /\ got[r][i].kind = "final"}
  <2>1. t \in Task /\ ReaderOf[t] = r /\ GotFinal(t)
    BY IdsType DEF IInv, Closing, Ids
  <2>2. PICK k \in DOMAIN got[r] : Final(got[r][k], t)
    BY <2>1 DEF GotFinal
  <2>3. \A i, j \in DOMAIN got[r] : Final(got[r][i], t) /\ Final(got[r][j], t) => i = j
    BY <2>1 DEF IInv, Order, FinalOnce
  <2>4. F = {k}
    BY <2>2, <2>3 DEF Final
  <2> QED
    BY <2>4, FS_Singleton
<1> QED
  BY <1>1, InitInv, StepInv, PTL DEF Spec

----------------------------------------------------------------------------
(* The shared queue as a channel per reader *)

Closed(r) == rpc[r] \in {"purge", "ended"}

\* The results in the queue that r waits for.
Way(r) == Remaining(results, Own(r))

OfTask(s, t) == Cardinality({i \in DOMAIN s : s[i].id = t})

\* send() drops nothing that somebody still waits for.
Registered ==
    \A t \in Task : rpc[ReaderOf[t]] \in {"post", "next", "wait", "stop"} => t \in waiting

\* What was sent for a task that runs was received or is in the queue.
Counted ==
    \A t \in Task : ~Closed(ReaderOf[t]) /\ (t \in live \/ rpc[ReaderOf[t]] \in {"new", "post"}) =>
        sent[t] = OfTask(got[ReaderOf[t]], t) + OfTask(Way(ReaderOf[t]), t)

\* What stop() still has to clean up is its own.
Purges == \A r \in Reader : purge[r] \subseteq Ids(r)

Books == Registered /\ Counted /\ Purges

CInv == IInv /\ Books

\* The values that stand for the variables of the channels.
Stage == [r \in Reader |-> IF rpc[r] = "new" THEN "new" ELSE IF Closed(r) THEN "closed" ELSE "open"]

Transit == [r \in Reader |-> IF Closed(r) THEN <<>> ELSE Way(r)]

LEMMA OfTaskType ==
  ASSUME NEW s \in Seq(Result), NEW t
  PROVE  /\ IsFiniteSet({i \in DOMAIN s : s[i].id = t})
         /\ OfTask(s, t) \in Nat
  <1>1. DOMAIN s = 1 .. Len(s) /\ {i \in DOMAIN s : s[i].id = t} \in SUBSET (1 .. Len(s))
    OBVIOUS
  <1> QED BY <1>1, SomePositions DEF OfTask

LEMMA OfTaskAppend ==
  ASSUME NEW s \in Seq(Result), NEW x \in Result, NEW t
  PROVE  OfTask(Append(s, x), t) = OfTask(s, t) + IF x.id = t THEN 1 ELSE 0
  <1> DEFINE A == {i \in DOMAIN s : s[i].id = t}
             B == {i \in DOMAIN Append(s, x) : Append(s, x)[i].id = t}
             l == Len(s) + 1
  <1>1. /\ Len(s) \in Nat /\ DOMAIN s = 1 .. Len(s) /\ DOMAIN Append(s, x) = 1 .. l
        /\ Append(s, x)[l] = x /\ \A i \in 1 .. Len(s) : Append(s, x)[i] = s[i]
    BY AppendProperties
  <1>2. /\ \A i : i \in 1 .. l <=> i \in 1 .. Len(s) \/ i = l
        /\ l \notin 1 .. Len(s)
    BY <1>1
  <1>3. IsFiniteSet(A) /\ Cardinality(A) \in Nat /\ l \notin A
    BY <1>1, <1>2, OfTaskType DEF OfTask
  <1> HIDE DEF l
  <1>4. CASE x.id = t
    <2>1. B = A \cup {l}
      BY <1>1, <1>2, <1>4
    <2> HIDE DEF A, B
    <2>2. Cardinality(B) = Cardinality(A) + 1
      BY <1>3, <2>1, FS_AddElement
    <2> QED BY <1>4, <2>2 DEF OfTask, A, B
  <1>5. CASE x.id # t
    <2>1. B = A
      BY <1>1, <1>2, <1>5
    <2> HIDE DEF A, B
    <2>2. Cardinality(B) = Cardinality(A) + 0
      BY <1>3, <2>1
    <2> QED BY <1>5, <2>2 DEF OfTask, A, B
  <1> QED BY <1>4, <1>5

LEMMA OfTaskTail ==
  ASSUME NEW s \in Seq(Result), s # <<>>, NEW t
  PROVE  OfTask(s, t) = OfTask(Tail(s), t) + IF Head(s).id = t THEN 1 ELSE 0
  <1> DEFINE A == {i \in DOMAIN s : s[i].id = t}
             B == {i \in DOMAIN Tail(s) : Tail(s)[i].id = t}
             g == [i \in B |-> i + 1]
  <1>1. /\ Len(s) \in Nat /\ Len(s) >= 1 /\ DOMAIN s = 1 .. Len(s) /\ DOMAIN Tail(s) = 1 .. Len(s) - 1
        /\ Tail(s) \in Seq(Result) /\ Head(s) = s[1] /\ \A i \in 1 .. Len(s) - 1 : Tail(s)[i] = s[i + 1]
    OBVIOUS
  <1>2. IsFiniteSet(A) /\ IsFiniteSet(B) /\ Cardinality(A) \in Nat /\ Cardinality(B) \in Nat
    BY <1>1, OfTaskType DEF OfTask
  <1>3. \A i \in B : i \in Int /\ i + 1 \in A \ {1}
    BY <1>1
  <1>4. g \in [B -> A \ {1}] /\ \A i, j \in B : g[i] = g[j] => i = j
    BY <1>3
  <1>5. ASSUME NEW k \in A \ {1} PROVE \E i \in B : g[i] = k
    <2>1. k - 1 \in 1 .. Len(s) - 1 /\ (k - 1) + 1 = k
      BY <1>1
    <2>2. k - 1 \in B
      BY <1>1, <2>1
    <2> QED BY <2>1, <2>2
  <1>6. Cardinality(B) = Cardinality(A \ {1})
    <2> HIDE DEF A, B, g
    <2>1. \A k \in A \ {1} : \E i \in B : g[i] = k
      BY <1>5
    <2> QED BY <1>2, <1>4, <2>1, SameSize
  <1>7. 1 \in A <=> Head(s).id = t
    BY <1>1
  <1> HIDE DEF A, B
  <1>8. Cardinality(A \ {1}) = IF 1 \in A THEN Cardinality(A) - 1 ELSE Cardinality(A)
    BY <1>2, FS_RemoveElement
  <1>9. Cardinality(A) = Cardinality(B) + IF Head(s).id = t THEN 1 ELSE 0
    BY <1>2, <1>6, <1>7, <1>8
  <1> QED BY <1>9 DEF OfTask, A, B

LEMMA WayType ==
  ASSUME IInv, NEW r \in Reader
  PROVE  /\ results \in Seq(Result) /\ DOMAIN results = 1 .. Len(results) /\ Len(results) \in Nat
         /\ Own(r) \in SUBSET (1 .. Len(results))
         /\ Way(r) \in Seq(Result) /\ got[r] \in Seq(Result)
         /\ \A i \in DOMAIN results : results[i] \in Result /\ results[i].id \in Task
         /\ \A i \in DOMAIN results : i \in Own(r) <=> ReaderOf[results[i].id] = r
  <1>1. results \in Seq(Result) /\ DOMAIN results = 1 .. Len(results) /\ Len(results) \in Nat
    BY DEF IInv, TypeOK
  <1>2. \A i \in DOMAIN results : results[i] \in Result
    BY <1>1, ElementOfSeq
  <1>3. \A i \in DOMAIN results : results[i].id \in Task
    BY <1>2 DEF Result
  <1>4. Own(r) \in SUBSET (1 .. Len(results))
    BY <1>1 DEF Own
  <1>5. Way(r) \in Seq(Result)
    BY <1>1, <1>4, RemainingElements DEF Way
  <1>6. \A i \in DOMAIN results : i \in Own(r) <=> ReaderOf[results[i].id] = r
    BY <1>3 DEF Own, Ids
  <1> QED BY <1>1, <1>2, <1>3, <1>4, <1>5, <1>6 DEF IInv, TypeOK

\* A result that is sent is the last on the way to its reader alone.
LEMMA WayAppend ==
  ASSUME IInv, NEW r \in Reader, NEW x \in Result, results' = Append(results, x)
  PROVE  Way(r)' = IF ReaderOf[x.id] = r THEN Append(Way(r), x) ELSE Way(r)
  <1> DEFINE l == Len(results) + 1
  <1>1. /\ results \in Seq(Result) /\ DOMAIN results = 1 .. Len(results) /\ Len(results) \in Nat
        /\ Own(r) \in SUBSET (1 .. Len(results))
    BY WayType
  <1>2. /\ DOMAIN results' = 1 .. l /\ results'[l] = x /\ \A i \in 1 .. Len(results) : results'[i] = results[i]
    BY <1>1, AppendProperties
  <1>3. \A i : i \in 1 .. l <=> i \in 1 .. Len(results) \/ i = l
    BY <1>1
  <1>4. x.id \in Task /\ (x.id \in Ids(r) <=> ReaderOf[x.id] = r)
    BY DEF Result, Ids
  <1>5. Own(r)' = IF ReaderOf[x.id] = r THEN Own(r) \cup {l} ELSE Own(r)
    <2> HIDE DEF l
    <2>1. Own(r)' = {i \in 1 .. l : results'[i].id \in Ids(r)}
      BY <1>2 DEF Own, Ids
    <2>2. Own(r) = {i \in 1 .. Len(results) : results[i].id \in Ids(r)}
      BY <1>1 DEF Own
    <2>3. CASE ReaderOf[x.id] = r
      BY <1>2, <1>3, <1>4, <2>1, <2>2, <2>3
    <2>4. CASE ReaderOf[x.id] # r
      BY <1>2, <1>3, <1>4, <2>1, <2>2, <2>4
    <2> QED BY <2>3, <2>4
  <1>6. /\ Remaining(Append(results, x), Own(r)) = Remaining(results, Own(r))
        /\ Remaining(Append(results, x), Own(r) \cup {l}) = Append(Remaining(results, Own(r)), x)
    <2>1. results \in Seq(Result) /\ Own(r) \in SUBSET (1 .. Len(results))
      BY <1>1
    <2>2. PICK s \in Seq(Result) : s = results
      BY <2>1
    <2>3. PICK K \in SUBSET (1 .. Len(s)) : K = Own(r)
      BY <2>1, <2>2
    <2>4. PICK M, w : M = K \cup {Len(s) + 1} /\ w = Remaining(s, K)
      OBVIOUS
    <2>5. Remaining(Append(s, x), K) = w
      BY <2>4, RemainingAppend
    <2>6. Remaining(Append(s, x), M) = Append(w, x)
      BY <2>4, RemainingAppendKept
    <2> QED BY <2>2, <2>3, <2>4, <2>5, <2>6
  <1> QED BY <1>5, <1>6 DEF Way

\* A reader takes the first result on its way; those of the others stay.
LEMMA WayReceive ==
  ASSUME IInv, NEW r \in Reader, NEW i \in Own(r), \A j \in Own(r) : i <= j,
         results' = RemoveAt(results, i)
  PROVE  /\ Way(r) # <<>> /\ Head(Way(r)) = results[i] /\ Way(r)' = Tail(Way(r))
         /\ \A q \in Reader : q # r => Way(q)' = Way(q)
  <1>1. /\ results \in Seq(Result) /\ DOMAIN results = 1 .. Len(results) /\ Len(results) \in Nat
        /\ Own(r) \in SUBSET (1 .. Len(results)) /\ i \in 1 .. Len(results)
    BY WayType
  <1>2. /\ i \in Nat /\ 1 <= i /\ i <= Len(results) /\ DOMAIN results' = 1 .. Len(results) - 1
        /\ \A k \in 1 .. Len(results) - 1 : results'[k] = IF k < i THEN results[k] ELSE results[k + 1]
    BY <1>1, RemoveAtElements
  <1>3. ASSUME NEW q \in Reader
        PROVE  Way(q)' = Remaining(results, Own(q) \ {i})
    <2> DEFINE M == {k \in DOMAIN results' : results'[k].id \in Ids(q)}
               K == Own(q) \ {i}
    <2>1. M \in SUBSET (1 .. Len(results) - 1) /\ K \in SUBSET (1 .. Len(results)) /\ i \notin K
      BY <1>2, WayType
    <2>2. ASSUME NEW k \in M PROVE (k < i /\ k \in K) \/ (k >= i /\ k + 1 \in K)
      <3>1. k \in 1 .. Len(results) - 1 /\ k \in 1 .. Len(results) /\ k + 1 \in 1 .. Len(results)
        BY <1>1, <1>2
      <3>2. CASE k < i
        <4>1. results'[k] = results[k] /\ k # i
          BY <1>2, <3>1, <3>2
        <4> QED BY <1>1, <3>1, <3>2, <4>1 DEF Own
      <3>3. CASE ~(k < i)
        <4>1. results'[k] = results[k + 1] /\ k + 1 # i /\ k >= i
          BY <1>1, <1>2, <3>1, <3>3
        <4> QED BY <1>1, <3>1, <4>1 DEF Own
      <3> QED BY <3>2, <3>3
    <2>3. ASSUME NEW k \in K PROVE (k < i /\ k \in M) \/ (k > i /\ k - 1 \in M)
      <3>1. k \in 1 .. Len(results) /\ k # i /\ results[k].id \in Ids(q)
        BY <1>1 DEF Own
      <3>2. CASE k < i
        <4>1. k \in 1 .. Len(results) - 1
          BY <1>1, <1>2, <3>1, <3>2
        <4> QED BY <1>2, <3>1, <3>2, <4>1
      <3>3. CASE ~(k < i)
        <4>1. k > i /\ k - 1 \in 1 .. Len(results) - 1 /\ ~(k - 1 < i) /\ (k - 1) + 1 = k
          BY <1>1, <1>2, <3>1, <3>3
        <4>2. results'[k - 1] = results[k]
          BY <1>2, <4>1
        <4> QED BY <1>2, <3>1, <4>1, <4>2
      <3> QED BY <3>2, <3>3
    <2>4. Remaining(RemoveAt(results, i), M) = Remaining(results, K)
      <3> HIDE DEF M, K
      <3> QED BY <1>1, <2>1, <2>2, <2>3, RemainingRemoveAt
    <2>5. Way(q)' = Remaining(results', M)
      BY DEF Way, Own, Ids
    <2> QED BY <2>4, <2>5
  <1>4. /\ Remaining(results, Own(r)) # <<>> /\ Head(Remaining(results, Own(r))) = results[i]
        /\ Remaining(results, Own(r) \ {i}) = Tail(Remaining(results, Own(r)))
    BY <1>1, RemainingTail
  <1>5. ASSUME NEW q \in Reader, q # r PROVE Own(q) \ {i} = Own(q)
    BY <1>1, <1>5, WayType
  <1> QED BY <1>3, <1>4, <1>5 DEF Way

\* Erasing the results of a task leaves those of other readers in their order.
LEMMA WayPurge ==
  ASSUME IInv, NEW r \in Reader, NEW t \in Ids(r), NEW q \in Reader, q # r,
         results' = Remaining(results, {i \in DOMAIN results : results[i].id # t})
  PROVE  Way(q)' = Way(q)
  <1> DEFINE K == {i \in DOMAIN results : results[i].id # t}
             M == {k \in DOMAIN results' : results'[k].id \in Ids(q)}
             L == Own(q)
  <1>1. /\ results \in Seq(Result) /\ DOMAIN results = 1 .. Len(results)
        /\ L \in SUBSET (1 .. Len(results)) /\ K \in SUBSET (1 .. Len(results))
    BY WayType
  <1>2. t \notin Ids(q)
    BY DEF Ids
  <1>3. L \in SUBSET K
    BY <1>1, <1>2 DEF Own
  <1>4. results' = Remaining(results, K)
    OBVIOUS
  <1>5. /\ DOMAIN results' = 1 .. Cardinality(K)
        /\ \A k \in 1 .. Cardinality(K) : Nth(K, k) \in K /\ results'[k] = results[Nth(K, k)]
    <2> HIDE DEF K
    <2>1. results \in Seq(Result) /\ K \in SUBSET (1 .. Len(results))
      BY <1>1
    <2>2. /\ DOMAIN Remaining(results, K) = 1 .. Cardinality(K)
          /\ \A k \in 1 .. Cardinality(K) :
                Nth(K, k) \in K /\ Remaining(results, K)[k] = results[Nth(K, k)]
      BY <2>1, RemainingElements
    <2> QED BY <1>4, <2>2
  <1>6. \A k \in 1 .. Cardinality(K) : k \in M <=> Nth(K, k) \in L
    BY <1>1, <1>5 DEF Own
  <1>7. M \in SUBSET (1 .. Cardinality(K))
    BY <1>5
  <1>8. Way(q)' = Remaining(results', M)
    BY DEF Way, Own, Ids
  <1> HIDE DEF K, M, L
  <1>9. Remaining(Remaining(results, K), M) = Remaining(results, L)
    BY <1>1, <1>3, <1>6, <1>7, RemainingTwice
  <1> QED BY <1>4, <1>8, <1>9 DEF Way, L

----------------------------------------------------------------------------
(* Steps of the channels *)

LEMMA Opens ==
  ASSUME NEW r \in Reader, rpc[r] = "new", Stage' = [Stage EXCEPT ![r] = "open"],
         UNCHANGED <<Transit, got>>
  PROVE  Channel!Next
  <1>1. Stage[r] = "new"
    BY DEF Stage
  <1>2. Channel!Open(r)
    BY <1>1 DEF Channel!Open, Stage, Transit, Closed, Way
  <1> QED BY <1>2 DEF Channel!Next

LEMMA Closes ==
  ASSUME NEW r \in Reader, rpc[r] = "stop", Stage' = [Stage EXCEPT ![r] = "closed"],
         Transit' = [Transit EXCEPT ![r] = <<>>], UNCHANGED got
  PROVE  Channel!Next
  <1>1. Stage[r] = "open"
    BY DEF Stage, Closed
  <1>2. Channel!Close(r)
    BY <1>1 DEF Channel!Close, Stage, Transit, Closed, Way
  <1> QED BY <1>2 DEF Channel!Next

LEMMA Receives ==
  ASSUME NEW r \in Reader, rpc[r] = "next", Way(r) # <<>>,
         got' = [got EXCEPT ![r] = Append(@, Head(Way(r)))],
         Transit' = [Transit EXCEPT ![r] = Tail(@)], UNCHANGED Stage
  PROVE  Channel!Next
  <1>1. Stage[r] = "open" /\ Transit[r] = Way(r)
    BY DEF Stage, Transit, Closed
  <1>2. Transit[r] # <<>> /\ got' = [got EXCEPT ![r] = Append(@, Head(Transit[r]))]
    BY <1>1
  <1>3. Channel!Receive(r)
    BY <1>1, <1>2 DEF Channel!Receive, Stage, Transit, Closed, Way
  <1> QED BY <1>3 DEF Channel!Next

\* The instance has a Cardinality of its own.
LEMMA ChannelCardinality == ASSUME NEW S PROVE Channel!Cardinality(S) = Cardinality(S)
  BY Zenon DEF Cardinality, Channel!Cardinality

LEMMA Sends ==
  ASSUME NEW x \in Result, rpc[ReaderOf[x.id]] # "new", ~Closed(ReaderOf[x.id]),
         x.n = OfTask(got[ReaderOf[x.id]], x.id) + OfTask(Way(ReaderOf[x.id]), x.id),
         Transit' = [Transit EXCEPT ![ReaderOf[x.id]] = Append(@, x)],
         UNCHANGED <<Stage, got>>
  PROVE  Channel!Next
  <1>1. ReaderOf[x.id] \in Reader
    BY IdsType DEF Result
  <1>2. Stage[ReaderOf[x.id]] = "open" /\ Transit[ReaderOf[x.id]] = Way(ReaderOf[x.id])
    BY <1>1 DEF Stage, Transit
  <1>3. x.n = OfTask(got[ReaderOf[x.id]], x.id) + OfTask(Transit[ReaderOf[x.id]], x.id)
    BY <1>2
  <1>4. Channel!Count(ReaderOf[x.id], x.id) = x.n
    <2>1. Channel!Count(ReaderOf[x.id], x.id) =
              Channel!Cardinality({i \in DOMAIN got[ReaderOf[x.id]] : got[ReaderOf[x.id]][i].id = x.id})
            + Channel!Cardinality({i \in DOMAIN Transit[ReaderOf[x.id]] : Transit[ReaderOf[x.id]][i].id = x.id})
      BY DEF Channel!Count, Transit, Closed, Way
    <2> QED BY <1>3, <2>1, ChannelCardinality DEF OfTask
  <1>5. Channel!Send(x)
    BY <1>2, <1>4 DEF Channel!Send, Stage, Transit, Closed, Way
  <1> QED BY <1>5 DEF Channel!Next

\* A step that opens and closes nothing, and moves no result of an open reader.
LEMMA Idle ==
  ASSUME UNCHANGED got,
         \A r \in Reader : /\ rpc[r] = "new" <=> rpc'[r] = "new"
                           /\ Closed(r) <=> Closed(r)'
                           /\ ~Closed(r) => Way(r)' = Way(r)
  PROVE  UNCHANGED Channel!vars
  <1>1. Stage' = Stage
    BY DEF Stage
  <1>2. Transit' = Transit
    BY DEF Transit
  <1> QED BY <1>1, <1>2 DEF Channel!vars, Stage, Transit, Closed, Way

\* Nothing is sent or received for a reader that stays open.
LEMMA Quiet ==
  ASSUME CInv, UNCHANGED <<got, sent>>,
         \A r \in Reader : ~Closed(r)' => ~Closed(r) /\ Way(r)' = Way(r),
         \A t \in Task : ~Closed(ReaderOf[t])' /\ (t \in live' \/ rpc'[ReaderOf[t]] \in {"new", "post"})
                           => t \in live \/ rpc[ReaderOf[t]] \in {"new", "post"}
  PROVE  Counted'
  <1> SUFFICES ASSUME NEW t \in Task, ~Closed(ReaderOf[t])',
                      t \in live' \/ rpc'[ReaderOf[t]] \in {"new", "post"}
               PROVE  sent'[t] = OfTask(got'[ReaderOf[t]], t) + OfTask(Way(ReaderOf[t])', t)
    BY DEF Counted, OfTask
  <1>1. ReaderOf[t] \in Reader
    BY IdsType
  <1>2. ~Closed(ReaderOf[t]) /\ Way(ReaderOf[t])' = Way(ReaderOf[t])
    BY <1>1
  <1>3. t \in live \/ rpc[ReaderOf[t]] \in {"new", "post"}
    OBVIOUS
  <1> QED BY <1>2, <1>3 DEF CInv, Books, Counted

LEMMA SameWay == ASSUME UNCHANGED results PROVE \A r : Way(r)' = Way(r)
  BY DEF Way, Own, Ids

----------------------------------------------------------------------------
(* What every action does to the books and to the channels *)

\* Register() opens, the other steps up to stop() that move no result do not
\* show.
LEMMA GoesBooks ==
  ASSUME CInv, NEW r \in Reader, NEW p \in {"post", "next", "wait", "stop"}, Goto(r, p),
         rpc[r] \notin {"purge", "ended"}, p = "post" <=> rpc[r] = "new",
         UNCHANGED <<results, purge, got, sent>>,
         waiting' = IF p = "post" THEN waiting \cup Ids(r) ELSE waiting,
         \/ live' = live
         \/ live' = live \cup Ids(r) /\ rpc[r] = "post"
  PROVE  Books' /\ (Channel!Next \/ UNCHANGED Channel!vars)
  <1>1. /\ \A q \in Reader : rpc'[q] = IF q = r THEN p ELSE rpc[q]
        /\ rpc \in [Reader -> {"new", "post", "next", "wait", "stop", "purge", "ended"}]
    BY DEF Goto, CInv, IInv, TypeOK
  <1>2. \A q \in Reader : (Closed(q) <=> Closed(q)') /\ Way(q)' = Way(q)
    BY <1>1, SameWay DEF Closed
  <1>3. Purges'
    BY DEF CInv, Books, Purges, Ids
  <1>4. Registered'
    <2> SUFFICES ASSUME NEW t \in Task, rpc'[ReaderOf[t]] \in {"post", "next", "wait", "stop"}
                 PROVE  t \in waiting'
      BY DEF Registered
    <2>1. ReaderOf[t] \in Reader /\ t \in Ids(ReaderOf[t])
      BY IdsType
    <2>2. rpc[ReaderOf[t]] \in {"post", "next", "wait", "stop"} => t \in waiting
      BY DEF CInv, Books, Registered
    <2>3. CASE ReaderOf[t] = r
      <3>1. p = "post" \/ rpc[r] \in {"post", "next", "wait", "stop"}
        BY <1>1
      <3> QED BY <2>1, <2>2, <2>3, <3>1
    <2>4. CASE ReaderOf[t] # r
      BY <1>1, <2>1, <2>2, <2>4
    <2> QED BY <2>3, <2>4
  <1>5. Counted'
    <2>1. ASSUME NEW t \in Task, t \in live' \/ rpc'[ReaderOf[t]] \in {"new", "post"}
          PROVE  t \in live \/ rpc[ReaderOf[t]] \in {"new", "post"}
      <3>1. ReaderOf[t] \in Reader /\ (t \in Ids(r) => ReaderOf[t] = r)
        BY IdsType DEF Ids
      <3> QED BY <1>1, <2>1, <3>1
    <2> QED BY <1>2, <2>1, Quiet
  <1>6. CASE rpc[r] = "new"
    <2>1. Stage' = [Stage EXCEPT ![r] = "open"]
      <3>1. ~Closed(r)'
        BY <1>1, <1>6 DEF Closed
      <3>2. p # "new"
        OBVIOUS
      <3> QED BY <1>1, <1>2, <3>1, <3>2 DEF Stage
    <2>2. Transit' = Transit
      BY <1>2 DEF Transit
    <2> QED BY <1>3, <1>4, <1>5, <1>6, <2>1, <2>2, Opens DEF Books
  <1>7. CASE rpc[r] # "new"
    <2>1. \A q \in Reader : rpc[q] = "new" <=> rpc'[q] = "new"
      BY <1>1, <1>7
    <2>2. UNCHANGED Channel!vars
      BY <1>2, <2>1, Idle
    <2> QED BY <1>3, <1>4, <1>5, <2>2 DEF Books
  <1> QED BY <1>6, <1>7

LEMMA WaitsBooks ==
  ASSUME CInv, NEW r \in Reader,
         \/ Register(r) \/ PostTasks(r)
         \/ Block(r) \/ Notified(r) \/ Timeout(r) \/ Leave(r)
  PROVE  Books' /\ (Channel!Next \/ UNCHANGED Channel!vars)
  <1>1. CASE Register(r)
    BY <1>1, GoesBooks DEF Register, reader, server
  <1>2. CASE PostTasks(r)
    BY <1>2, GoesBooks DEF PostTasks, reader, response
  <1>3. CASE Block(r)
    BY <1>3, GoesBooks DEF Block, reader, server, response
  <1>4. CASE Notified(r)
    BY <1>4, GoesBooks DEF Notified, reader, server, response
  <1>5. CASE Timeout(r)
    <2>1. PICK p \in {"next", "stop"} : Goto(r, p)
      BY <1>5 DEF Timeout
    <2> QED BY <1>5, <2>1, GoesBooks DEF Timeout, reader, server, response
  <1>6. CASE Leave(r)
    BY <1>6, GoesBooks DEF Leave, reader, server, response
  <1> QED BY <1>1, <1>2, <1>3, <1>4, <1>5, <1>6

LEMMA StopBooks ==
  ASSUME CInv, NEW r \in Reader, Stop(r)
  PROVE  Books' /\ Channel!Next
  <1>1. PICK p \in {"purge", "ended"} :
            /\ rpc' = [rpc EXCEPT ![r] = p]
            /\ purge' = IF p = "purge" THEN [purge EXCEPT ![r] = Ids(r)] ELSE purge
    BY DEF Stop, Goto
  <1>2. /\ rpc[r] = "stop" /\ waiting' = waiting \ Ids(r)
        /\ UNCHANGED <<results, got, live, sent>>
    BY DEF Stop, server
  <1>3. \A q \in Reader : rpc'[q] = IF q = r THEN p ELSE rpc[q]
    BY <1>1 DEF CInv, IInv, TypeOK
  <1>4. /\ Closed(r)' /\ \A q \in Reader : q # r => (Closed(q)' <=> Closed(q))
        /\ \A q \in Reader : Way(q)' = Way(q)
    BY <1>2, <1>3, SameWay DEF Closed
  <1>5. Purges'
    <2>1. \A q \in Reader : purge'[q] = purge[q] \/ purge'[q] = Ids(q)
      BY <1>1 DEF CInv, IInv, TypeOK
    <2> QED BY <2>1 DEF CInv, Books, Purges, Ids
  <1>6. Registered'
    <2>1. \A t \in Task : ReaderOf[t] \in Reader /\ (ReaderOf[t] # r => t \notin Ids(r))
      BY IdsType DEF Ids
    <2> QED BY <1>2, <1>3, <2>1 DEF CInv, Books, Registered
  <1>7. Counted'
    <2>1. \A t \in Task : ReaderOf[t] \in Reader
      BY IdsType
    <2>2. \A t \in Task : rpc'[ReaderOf[t]] \in {"new", "post"} => rpc[ReaderOf[t]] \in {"new", "post"}
      BY <1>3, <2>1
    <2>3. \A q \in Reader : ~Closed(q)' => ~Closed(q) /\ Way(q)' = Way(q)
      BY <1>4
    <2> QED BY <1>2, <2>2, <2>3, Quiet
  <1>8. Stage' = [Stage EXCEPT ![r] = "closed"]
    BY <1>3, <1>4 DEF Stage
  <1>9. Transit' = [Transit EXCEPT ![r] = <<>>]
    BY <1>4 DEF Transit
  <1> QED BY <1>2, <1>5, <1>6, <1>7, <1>8, <1>9, Closes DEF Books

LEMMA PostCancelsBooks ==
  ASSUME CInv, NEW r \in Reader, PostCancels(r)
  PROVE  Books' /\ UNCHANGED Channel!vars
  <1>1. /\ rpc[r] = "purge" /\ rpc' = [rpc EXCEPT ![r] = "ended"]
        /\ UNCHANGED <<waiting, results, purge, got, live, sent>>
    BY DEF PostCancels, Goto, response, reader
  <1>2. \A q \in Reader : rpc'[q] = IF q = r THEN "ended" ELSE rpc[q]
    BY <1>1 DEF CInv, IInv, TypeOK
  <1>3. \A q \in Reader : /\ rpc[q] = "new" <=> rpc'[q] = "new"
                          /\ (Closed(q) <=> Closed(q)') /\ Way(q)' = Way(q)
    BY <1>1, <1>2, SameWay DEF Closed
  <1>4. Purges'
    BY <1>1 DEF CInv, Books, Purges, Ids
  <1>5. \A t \in Task : ReaderOf[t] \in Reader
    BY IdsType
  <1>6. Registered'
    BY <1>1, <1>2, <1>5 DEF CInv, Books, Registered
  <1>7. Counted'
    <2>1. \A t \in Task : rpc'[ReaderOf[t]] \in {"new", "post"} => rpc[ReaderOf[t]] \in {"new", "post"}
      BY <1>2, <1>5
    <2> QED BY <1>1, <1>3, <2>1, Quiet
  <1>8. UNCHANGED Channel!vars
    BY <1>1, <1>3, Idle
  <1> QED BY <1>4, <1>6, <1>7, <1>8 DEF Books

LEMMA CancelBooks ==
  ASSUME CInv, live' \subseteq live, UNCHANGED <<waiting, results, rpc, purge, got, sent>>
  PROVE  Books' /\ UNCHANGED Channel!vars
  <1>1. \A q \in Reader : (Closed(q) <=> Closed(q)') /\ Way(q)' = Way(q)
    BY SameWay DEF Closed
  <1>2. Purges' /\ Registered'
    BY DEF CInv, Books, Purges, Ids, Registered
  <1>3. Counted'
    BY <1>1, Quiet
  <1>4. UNCHANGED Channel!vars
    BY <1>1, Idle
  <1> QED BY <1>2, <1>3, <1>4 DEF Books

LEMMA PurgeBooks ==
  ASSUME CInv, NEW r \in Reader, Purge(r)
  PROVE  Books' /\ UNCHANGED Channel!vars
  <1>1. PICK t \in purge[r] :
           /\ purge' = [purge EXCEPT ![r] = @ \ {t}]
           /\ waiting' = waiting \ {t}
           /\ results' = Remaining(results, {i \in DOMAIN results : results[i].id # t})
    BY DEF Purge
  <1>2. rpc[r] = "purge" /\ UNCHANGED <<rpc, got, live, sent>>
    BY DEF Purge, server
  <1>3. t \in Ids(r) /\ t \in Task /\ ReaderOf[t] = r /\ IInv
    BY DEF CInv, Books, Purges, Ids
  <1>4. \A q \in Reader : (Closed(q) <=> Closed(q)') /\ (~Closed(q) => Way(q)' = Way(q))
    <2>1. ASSUME NEW q \in Reader, ~Closed(q) PROVE Way(q)' = Way(q)
      <3>1. q # r
        BY <1>2, <2>1 DEF Closed
      <3> QED BY <1>1, <1>3, <3>1, WayPurge
    <2> QED BY <1>2, <2>1 DEF Closed
  <1>5. Purges'
    BY <1>1 DEF CInv, Books, Purges, Ids, IInv, TypeOK
  <1>6. Registered'
    BY <1>1, <1>2, <1>3 DEF CInv, Books, Registered
  <1>7. Counted'
    BY <1>2, <1>4, Quiet
  <1>8. UNCHANGED Channel!vars
    BY <1>2, <1>4, Idle
  <1> QED BY <1>5, <1>6, <1>7, <1>8 DEF Books

\* The result taken is counted among those received from now on.
LEMMA ReceiveBooks ==
  ASSUME CInv, NEW r \in Reader, Receive(r)
  PROVE  Books' /\ Channel!Next
  <1>1. PICK i \in Own(r) :
           /\ \A j \in Own(r) : i <= j
           /\ results' = RemoveAt(results, i)
           /\ got' = [got EXCEPT ![r] = Append(@, results[i])]
           /\ rpc' = [rpc EXCEPT ![r] = IF results[i].kind = "error" THEN "stop" ELSE "next"]
    BY DEF Receive, Goto
  <1>2. rpc[r] = "next" /\ UNCHANGED <<waiting, purge, live, sent>> /\ IInv
    BY DEF Receive, server, CInv
  <1>3. PICK p \in {"next", "stop"} : \A q \in Reader : rpc'[q] = IF q = r THEN p ELSE rpc[q]
    BY <1>1, <1>2 DEF IInv, TypeOK
  <1>4. /\ Way(r) # <<>> /\ Head(Way(r)) = results[i] /\ Way(r)' = Tail(Way(r))
        /\ \A q \in Reader : q # r => Way(q)' = Way(q)
    BY <1>1, <1>2, WayReceive
  <1>5. \A q \in Reader : /\ rpc[q] = "new" <=> rpc'[q] = "new"
                          /\ Closed(q) <=> Closed(q)'
    BY <1>2, <1>3 DEF Closed
  <1>6. /\ got \in [Reader -> Seq(Result)] /\ Way(r) \in Seq(Result) /\ got[r] \in Seq(Result)
        /\ results[i] \in Result
    BY <1>2, WayType DEF IInv, TypeOK
  <1>7. \A q \in Reader : got'[q] = IF q = r THEN Append(got[r], results[i]) ELSE got[q]
    BY <1>1, <1>6
  <1>8. Purges'
    BY <1>2 DEF CInv, Books, Purges, Ids
  <1>9. \A t \in Task : ReaderOf[t] \in Reader
    BY IdsType
  <1>10. Registered'
    <2> SUFFICES ASSUME NEW t \in Task, rpc'[ReaderOf[t]] \in {"post", "next", "wait", "stop"}
                 PROVE  t \in waiting
      BY <1>2 DEF Registered
    <2>1. rpc[ReaderOf[t]] \in {"post", "next", "wait", "stop"}
      BY <1>2, <1>3, <1>9
    <2> QED BY <2>1 DEF CInv, Books, Registered
  <1>11. Counted'
    <2> SUFFICES ASSUME NEW t \in Task, ~Closed(ReaderOf[t])',
                        t \in live' \/ rpc'[ReaderOf[t]] \in {"new", "post"}
                 PROVE  sent'[t] = OfTask(got'[ReaderOf[t]], t) + OfTask(Way(ReaderOf[t])', t)
      BY DEF Counted, OfTask
    <2>1. ~Closed(ReaderOf[t]) /\ (t \in live \/ rpc[ReaderOf[t]] \in {"new", "post"})
      BY <1>2, <1>3, <1>5, <1>9
    <2>2. sent'[t] = OfTask(got[ReaderOf[t]], t) + OfTask(Way(ReaderOf[t]), t)
      BY <1>2, <2>1 DEF CInv, Books, Counted
    <2>3. CASE ReaderOf[t] = r
      <3>1. PICK g, w, x : g = got[r] /\ w = Way(r) /\ x = results[i]
        OBVIOUS
      <3>2. g \in Seq(Result) /\ w \in Seq(Result) /\ w # <<>> /\ x \in Result /\ Head(w) = x
        BY <1>4, <1>6, <3>1
      <3>3. OfTask(Append(g, x), t) = OfTask(g, t) + IF x.id = t THEN 1 ELSE 0
        BY <3>2, OfTaskAppend
      <3>4. OfTask(w, t) = OfTask(Tail(w), t) + IF x.id = t THEN 1 ELSE 0
        BY <3>2, OfTaskTail
      <3>5. OfTask(g, t) \in Nat /\ OfTask(Tail(w), t) \in Nat
        <4>1. PICK v \in Seq(Result) : v = Tail(w)
          <5>1. Tail(w) \in Seq(Result)
            BY <3>2, HeadTailProperties
          <5> QED BY <5>1
        <4>2. OfTask(g, t) \in Nat /\ OfTask(v, t) \in Nat
          BY <3>2, OfTaskType
        <4> QED BY <4>1, <4>2
      <3>6. OfTask(Append(g, x), t) + OfTask(Tail(w), t) = OfTask(g, t) + OfTask(w, t)
        BY <3>3, <3>4, <3>5
      <3>7. got'[r] = Append(g, x) /\ Way(r)' = Tail(w)
        BY <1>4, <1>7, <3>1
      <3> QED BY <2>2, <2>3, <3>1, <3>6, <3>7
    <2>4. CASE ReaderOf[t] # r
      BY <1>4, <1>7, <1>9, <2>2, <2>4
    <2> QED BY <2>3, <2>4
  <1>12. UNCHANGED Stage
    BY <1>5 DEF Stage
  <1>13. Transit' = [Transit EXCEPT ![r] = Tail(@)]
    <2>1. ~Closed(r)
      BY <1>2 DEF Closed
    <2> QED BY <1>4, <1>5, <2>1 DEF Transit
  <1>14. Channel!Next
    <2>1. got' = [got EXCEPT ![r] = Append(@, Head(Way(r)))]
      BY <1>1, <1>4
    <2> QED BY <1>2, <1>4, <1>12, <1>13, <2>1, Receives
  <1> QED BY <1>8, <1>10, <1>11, <1>14 DEF Books

\* A task of a reader that waits gets every result into the queue.
LEMMA SendBooks ==
  ASSUME CInv, NEW t \in live, NEW kind \in {"partial", "final", "error"},
         Send(t, kind, sent[t]),
         live' \subseteq live, UNCHANGED purge,
         \/ t \notin live' /\ sent' = sent
         \/ sent' = [sent EXCEPT ![t] = @ + 1]
  PROVE  Books' /\ (Channel!Next \/ UNCHANGED Channel!vars)
  <1>1. UNCHANGED <<waiting, rpc, got>> /\ IInv /\ t \in Task /\ sent \in [Task -> 0 .. MaxPartial]
    BY DEF Send, reader, CInv, IInv, TypeOK
  <1>2. PICK r \in Reader : r = ReaderOf[t]
    BY <1>1, IdsType
  <1>3. rpc[r] \notin {"new", "post"} /\ rpc[r] \in {"new", "post", "next", "wait", "stop", "purge", "ended"}
    BY <1>1, <1>2 DEF IInv, TypeOK, Order, Fresh
  <1>4. Purges' /\ Registered'
    BY <1>1 DEF CInv, Books, Purges, Ids, Registered
  <1>5. \A u \in Task : ReaderOf[u] \in Reader
    BY IdsType
  <1>6. CASE Closed(r)
    <2>1. t \notin waiting
      BY <1>1, <1>2, <1>6, IdsType DEF IInv, Closing, Closed
    <2>2. \A q \in Reader : (Closed(q) <=> Closed(q)') /\ Way(q)' = Way(q)
      BY <1>1, <2>1, SameWay DEF Closed, Send
    <2>3. Counted'
      <3> SUFFICES ASSUME NEW u \in Task, ~Closed(ReaderOf[u])',
                          u \in live' \/ rpc'[ReaderOf[u]] \in {"new", "post"}
                   PROVE  sent'[u] = OfTask(got'[ReaderOf[u]], u) + OfTask(Way(ReaderOf[u])', u)
        BY DEF Counted, OfTask
      <3>1. ~Closed(ReaderOf[u]) /\ (u \in live \/ rpc[ReaderOf[u]] \in {"new", "post"})
        BY <1>1, <1>5, <2>2
      <3>2. u # t
        BY <1>2, <1>6, <3>1
      <3>3. sent'[u] = sent[u] /\ Way(ReaderOf[u])' = Way(ReaderOf[u])
        BY <1>1, <1>5, <2>2, <3>2
      <3> QED BY <1>1, <3>1, <3>3 DEF CInv, Books, Counted
    <2>4. UNCHANGED Channel!vars
      BY <1>1, <2>2, Idle
    <2> QED BY <1>4, <2>3, <2>4 DEF Books
  <1>7. CASE ~Closed(r)
    <2>1. t \in waiting
      BY <1>1, <1>2, <1>3, <1>7 DEF CInv, Books, Registered, Closed
    <2>2. PICK x : x = [id |-> t, kind |-> kind, n |-> sent[t]]
      OBVIOUS
    <2>3. x \in Result /\ x.id = t /\ x.n = sent[t] /\ results' = Append(results, x)
      BY <1>1, <2>1, <2>2 DEF Result, Send
    <2>4. \A q \in Reader : Way(q)' = IF q = r THEN Append(Way(q), x) ELSE Way(q)
      <3> TAKE q \in Reader
      <3>1. Way(q)' = IF ReaderOf[x.id] = q THEN Append(Way(q), x) ELSE Way(q)
        BY <1>1, <2>3, WayAppend
      <3> QED BY <1>2, <2>3, <3>1
    <2>5. \A q \in Reader : (Closed(q) <=> Closed(q)') /\ rpc'[q] = rpc[q]
      BY <1>1 DEF Closed
    <2>6. Way(r) \in Seq(Result)
      BY <1>1, WayType
    <2>7. Counted'
      <3> SUFFICES ASSUME NEW u \in Task, ~Closed(ReaderOf[u])',
                          u \in live' \/ rpc'[ReaderOf[u]] \in {"new", "post"}
                   PROVE  sent'[u] = OfTask(got'[ReaderOf[u]], u) + OfTask(Way(ReaderOf[u])', u)
        BY DEF Counted, OfTask
      <3>1. ~Closed(ReaderOf[u]) /\ (u \in live \/ rpc[ReaderOf[u]] \in {"new", "post"})
        BY <1>1, <1>5, <2>5
      <3>2. sent[u] = OfTask(got[ReaderOf[u]], u) + OfTask(Way(ReaderOf[u]), u) /\ got' = got
        BY <1>1, <3>1 DEF CInv, Books, Counted
      <3>3. CASE ReaderOf[u] # r
        <4>1. sent'[u] = sent[u] /\ Way(ReaderOf[u])' = Way(ReaderOf[u])
          BY <1>1, <1>2, <1>5, <2>4, <3>3
        <4> QED BY <3>2, <4>1
      <3>4. CASE ReaderOf[u] = r
        <4>1. PICK g \in Seq(Result), w \in Seq(Result), y \in Result : g = got[r] /\ w = Way(r) /\ y = x
          BY <1>1, <2>3, <2>6, WayType
        <4>2. OfTask(Append(w, y), u) = OfTask(w, u) + IF y.id = u THEN 1 ELSE 0
          BY OfTaskAppend
        <4>3. OfTask(g, u) \in Nat /\ OfTask(w, u) \in Nat
          BY OfTaskType
        <4>4. sent'[u] = sent[u] + IF y.id = u THEN 1 ELSE 0
          <5>1. sent[u] \in Nat
            BY <1>1, ResponseAssumption DEF ResponseAssumption
          <5>2. CASE u = t
            <6>1. t \in live'
              BY <1>1, <1>2, <1>3, <3>4, <5>2
            <6>2. sent'[t] = sent[t] + 1
              BY <1>1, <6>1
            <6> QED BY <2>3, <4>1, <5>2, <6>2
          <5>3. CASE u # t
            BY <1>1, <2>3, <4>1, <5>1, <5>3
          <5> QED BY <5>2, <5>3
        <4>5. sent[u] = OfTask(g, u) + OfTask(w, u)
          BY <3>2, <3>4, <4>1
        <4>6. sent'[u] = OfTask(g, u) + OfTask(Append(w, y), u)
          BY <4>2, <4>3, <4>4, <4>5
        <4>7. Way(r)' = Append(w, y) /\ got'[r] = g
          BY <1>1, <2>4, <4>1
        <4> QED BY <3>4, <4>6, <4>7
      <3> QED BY <3>3, <3>4
    <2>8. UNCHANGED Stage
      BY <2>5 DEF Stage
    <2>9. Transit' = [Transit EXCEPT ![r] = Append(@, x)]
      BY <1>7, <2>4, <2>5 DEF Transit
    <2>10. x.n = OfTask(got[r], t) + OfTask(Way(r), t)
      BY <1>1, <1>2, <1>7, <2>3 DEF CInv, Books, Counted
    <2>11. Channel!Next
      <3>1. PICK y \in Result : y = x
        BY <2>3
      <3>2. ReaderOf[y.id] = r /\ y.id = t
        BY <1>2, <2>3, <3>1
      <3> QED BY <1>1, <1>3, <1>7, <2>8, <2>9, <2>10, <3>1, <3>2, Sends
    <2> QED BY <1>4, <2>7, <2>11 DEF Books
  <1> QED BY <1>6, <1>7

LEMMA MainThreadBooks ==
  ASSUME CInv, NEW t \in Task, MainThread(t)
  PROVE  Books' /\ (Channel!Next \/ UNCHANGED Channel!vars)
  <1>1. CASE SendPartial(t)
    <2>1. /\ t \in live /\ Send(t, "partial", sent[t]) /\ live' = live
          /\ sent' = [sent EXCEPT ![t] = @ + 1] /\ UNCHANGED purge
      BY <1>1 DEF SendPartial, Send, reader
    <2> QED BY <2>1, SendBooks
  <1>2. CASE SendLast(t)
    <2>1. PICK kind \in {"final", "error"} : Send(t, kind, sent[t])
      BY <1>2 DEF SendLast
    <2>2. t \in live /\ live' = live \ {t} /\ sent' = sent /\ UNCHANGED purge
      BY <1>2, <2>1 DEF SendLast, Send, reader
    <2> QED BY <2>1, <2>2, SendBooks
  <1>3. CASE Cancel(t)
    <2>1. live' \subseteq live /\ UNCHANGED <<waiting, results, rpc, purge, got, sent>>
      BY <1>3 DEF Cancel, response, reader
    <2> QED BY <2>1, CancelBooks
  <1> QED BY <1>1, <1>2, <1>3 DEF MainThread

LEMMA StepBooks ==
  ASSUME CInv, [Next]_vars
  PROVE  CInv' /\ [Channel!Next]_Channel!vars
  <1>1. IInv'
    BY StepInv DEF CInv
  <1>2. CASE \E r \in Reader : HttpThread(r)
    <2>1. PICK r \in Reader : HttpThread(r)
      BY <1>2
    <2>2. CASE \/ Register(r) \/ PostTasks(r)
               \/ Block(r) \/ Notified(r) \/ Timeout(r) \/ Leave(r)
      BY <1>1, <2>2, WaitsBooks DEF CInv
    <2>3. CASE Receive(r)
      BY <1>1, <2>3, ReceiveBooks DEF CInv
    <2>4. CASE Stop(r)
      BY <1>1, <2>4, StopBooks DEF CInv
    <2>5. CASE Purge(r)
      BY <1>1, <2>5, PurgeBooks DEF CInv
    <2>6. CASE PostCancels(r)
      BY <1>1, <2>6, PostCancelsBooks DEF CInv
    <2> QED BY <2>1, <2>2, <2>3, <2>4, <2>5, <2>6 DEF HttpThread
  <1>3. CASE \E t \in Task : MainThread(t)
    BY <1>1, <1>3, MainThreadBooks DEF CInv
  <1>4. CASE UNCHANGED vars
    <2>1. live' \subseteq live /\ UNCHANGED <<waiting, results, rpc, purge, got, sent>>
      BY <1>4 DEF vars
    <2> QED BY <1>1, <2>1, CancelBooks DEF CInv
  <1> QED BY <1>2, <1>3, <1>4 DEF Next, Finished

LEMMA InitBooks == Init => CInv /\ Channel!Init
  <1> SUFFICES ASSUME Init PROVE CInv /\ Channel!Init
    OBVIOUS
  <1>1. \A t \in Task : ReaderOf[t] \in Reader
    BY IdsType
  <1>2. Registered /\ Purges
    BY <1>1 DEF Init, Registered, Purges
  <1>3. results = <<>> /\ DOMAIN results = {} /\ \A r \in Reader : Own(r) = {}
    BY DEF Init, Own
  <1>4. \A r \in Reader : Way(r) = <<>>
    <2> TAKE r \in Reader
    <2>1. Way(r) \in Seq(Result) /\ Len(Way(r)) = 0
      <3>1. IInv
        BY InitInv
      <3>2. Own(r) = {} /\ Cardinality(Own(r)) = 0
        BY <1>3, FS_EmptySet
      <3>3. DOMAIN Way(r) = 1 .. 0
        BY <3>2 DEF Way, Remaining
      <3> QED BY <3>1, <3>3, WayType
    <2> QED BY <2>1, EmptySeq
  <1>5. Counted
    <2> SUFFICES ASSUME NEW t \in Task
                 PROVE  sent[t] = OfTask(got[ReaderOf[t]], t) + OfTask(Way(ReaderOf[t]), t)
      BY DEF Counted
    <2>1. sent[t] = 0 /\ got[ReaderOf[t]] = <<>> /\ Way(ReaderOf[t]) = <<>>
      BY <1>1, <1>4 DEF Init
    <2>2. OfTask(<<>>, t) = 0
      <3>1. {i \in DOMAIN <<>> : <<>>[i].id = t} = {}
        OBVIOUS
      <3> QED BY <3>1, FS_EmptySet DEF OfTask
    <2> QED BY <2>1, <2>2
  <1>6. Stage = [r \in Reader |-> "new"] /\ Transit = [r \in Reader |-> <<>>]
    BY <1>4 DEF Init, Stage, Transit
  <1>7. Channel!Init
    BY <1>6 DEF Init, Channel!Init, Stage, Transit, Closed, Way
  <1> QED BY <1>2, <1>5, <1>7, InitInv DEF CInv, Books

\* server_response and server_response_reader: to every HTTP thread the one
\* queue that all share is a channel of its own, from post_tasks() to stop().
\* Its results arrive, each once and in the order sent, whatever the other
\* readers receive, erase or abandon, and none arrives after stop().
THEOREM SharedQueueIsChannels == Spec => RefinesChannel
  <1>1. Init => CInv /\ Channel!Init
    BY InitBooks
  <1>2. CInv /\ [Next]_vars => CInv' /\ [Channel!Next]_Channel!vars
    BY StepBooks
  <1> QED BY <1>1, <1>2, PTL DEF Spec, RefinesChannel, Channel!Spec

============================================================================
