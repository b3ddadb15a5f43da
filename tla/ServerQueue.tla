----------------------------- MODULE ServerQueue -----------------------------
(***************************************************************************)
(* The monitor of struct server_queue (tools/server/server-queue.cpp): the *)
(* main thread in start_loop(), the HTTP threads that enter through        *)
(* wait_until_no_sleep() and post(), and terminate(), all on mutex_tasks   *)
(* and the one condition variable condition_tasks.                         *)
(*                                                                         *)
(* Sections under mutex_tasks are atomic steps, except unloading and       *)
(* reloading the model: there the main thread keeps the mutex while HTTP   *)
(* threads that do not need it run on.  What a task does to the slots is   *)
(* the subject of ServerSlots; here it is handed to callback_new_task().   *)
(***************************************************************************)
EXTENDS Integers, SequencesExt

CONSTANTS
    Http,          \* HTTP threads; each serves one request
    Main,          \* the main thread
    IdleSleep,     \* sleep_idle_seconds >= 0
    MayTerminate,  \* terminate() may be called once start_loop() runs
    EarlySignal,   \* terminate() may be called before start_loop()
    SignalOnMain   \* terminate() is called by a signal handler on Main

ASSUME QueueAssumption ==
    /\ Main \notin Http
    /\ IdleSleep \in BOOLEAN /\ MayTerminate \in BOOLEAN
    /\ EarlySignal \in BOOLEAN /\ SignalOnMain \in BOOLEAN

VARIABLES
    queue,       \* queue_tasks: the threads whose task is in it; Main's own is
                 \* the NEXT_RESPONSE that update_slots() posts
    running,
    sleeping,
    req_stop,    \* req_stop_sleeping
    idle,        \* ggml_time_ms() - time_last_task >= idle_sleep_ms
    waiters,     \* threads blocked on condition_tasks
    loaded,      \* the model, the context and the vocab exist
    main,        \* where Main is
    http,        \* where each HTTP thread is
    task,        \* the task Main moved out of the queue
    processed,   \* tasks handed to callback_new_task()
    active,      \* those of them that occupy a slot
    killed,      \* terminate() was called
    calm         \* history: the idle time never ran out on a request (Calm)

queue_vars == <<queue, running, sleeping, req_stop, idle, waiters, loaded, main,
                http, task, processed, active, killed>>
monitor == <<queue, running, sleeping, req_stop, idle, waiters>>

QueueTypeOK ==
    /\ queue \in Seq(Http \cup {Main})
    /\ running \in BOOLEAN /\ sleeping \in BOOLEAN /\ req_stop \in BOOLEAN
    /\ idle \in BOOLEAN /\ loaded \in BOOLEAN /\ killed \in BOOLEAN
    /\ waiters \subseteq Http \cup {Main}
    /\ main \in {"boot", "pop", "process", "update", "check", "timed",
                 "unload", "asleep", "reload", "stopped", "deadlocked"}
    /\ http \in [Http -> {"start", "waiting", "use", "post", "posted"}]
    /\ task \in Http \cup {Main}
    /\ processed \subseteq Http /\ active \subseteq processed

QueueInit ==
    /\ queue = <<>> /\ running = FALSE /\ sleeping = FALSE /\ req_stop = FALSE
    /\ idle = FALSE /\ waiters = {} /\ loaded = TRUE /\ main = "boot"
    /\ http = [w \in Http |-> "start"]
    /\ task = Main /\ processed = {} /\ active = {} /\ killed = FALSE
    /\ calm = TRUE

\* Nobody is in the middle of a section under mutex_tasks.
MutexFree == main \notin {"unload", "reload", "deadlocked"}

\* condition_tasks.notify_one(): any one of the threads in the set W wakes up.
NotifyOne(W) == IF W = {} THEN {{}} ELSE {W \ {w} : w \in W}

----------------------------------------------------------------------------
(* HTTP threads *)

HttpAt(w, p) == http' = [http EXCEPT ![w] = p]

\* Mutant: wait_until_no_sleep() sets req_stop_sleeping and notifies nobody.
EnterSilent(w) ==
    /\ http[w] = "start" /\ MutexFree
    /\ IF ~IdleSleep \/ ~sleeping
       THEN HttpAt(w, "use") /\ UNCHANGED <<req_stop, waiters>>
       ELSE /\ HttpAt(w, "waiting")
            /\ req_stop' = TRUE
            /\ waiters' = waiters \cup {w}
    /\ UNCHANGED <<queue, running, sleeping, idle, loaded, main, task, processed, active, killed>>

\* server_res_generator(): wait_until_no_sleep(), unless sleeping is disabled.
Enter(w) ==
    /\ http[w] = "start" /\ MutexFree
    /\ IF ~IdleSleep \/ ~sleeping
       THEN HttpAt(w, "use") /\ UNCHANGED <<req_stop, waiters>>
       ELSE /\ HttpAt(w, "waiting")
            /\ req_stop' = TRUE
            /\ \E W \in (IF req_stop THEN {waiters} ELSE NotifyOne(waiters)) :
                  waiters' = W \cup {w}
    /\ UNCHANGED <<queue, running, sleeping, idle, loaded, main, task, processed, active, killed>>

\* The predicate of the wait is evaluated with the mutex held again.
Woken(w) ==
    /\ http[w] = "waiting" /\ w \notin waiters /\ MutexFree
    /\ IF sleeping THEN waiters' = waiters \cup {w} /\ UNCHANGED http
       ELSE HttpAt(w, "use") /\ UNCHANGED waiters
    /\ UNCHANGED <<queue, running, sleeping, req_stop, idle, loaded, main, task, processed, active, killed>>

\* The handler is done with ctx_server.vocab and model_meta: it tokenized.
Tokenize(w) ==
    /\ http[w] = "use"
    /\ HttpAt(w, "post")
    /\ UNCHANGED <<monitor, loaded, main, task, processed, active, killed>>

\* post()
PostTask(w) ==
    /\ http[w] = "post" /\ MutexFree
    /\ HttpAt(w, "posted")
    /\ queue' = Append(queue, w)
    /\ idle' = FALSE
    /\ waiters' \in NotifyOne(waiters)
    /\ UNCHANGED <<running, sleeping, req_stop, loaded, main, task, processed, active, killed>>

----------------------------------------------------------------------------
(* start_loop() *)

Start ==
    /\ main = "boot"
    /\ running' = TRUE /\ idle' = FALSE
    /\ main' = "pop"
    /\ UNCHANGED <<queue, sleeping, req_stop, waiters, loaded, http, task, processed, active, killed>>

\* Mutant: running is not tested here.
PopUnchecked ==
    /\ main = "pop"
    /\ \/ /\ queue = <<>>
          /\ main' = "update" /\ UNCHANGED <<queue, task>>
       \/ /\ queue # <<>>
          /\ main' = "process"
          /\ task' = Head(queue) /\ queue' = Tail(queue)
    /\ UNCHANGED <<running, sleeping, req_stop, idle, waiters, loaded, http, processed, active, killed>>

Pop ==
    /\ main = "pop"
    /\ \/ /\ ~running
          /\ main' = "stopped" /\ UNCHANGED <<queue, task>>
       \/ /\ running /\ queue = <<>>
          /\ main' = "update" /\ UNCHANGED <<queue, task>>
       \/ /\ running /\ queue # <<>>
          /\ main' = "process"
          /\ task' = Head(queue) /\ queue' = Tail(queue)
    /\ UNCHANGED <<running, sleeping, req_stop, idle, waiters, loaded, http, processed, active, killed>>

\* callback_new_task(): a request's task takes a slot, or is over at once; the
\* NEXT_RESPONSE does nothing.
ProcessTask ==
    /\ main = "process"
    /\ IF task \in Http
       THEN /\ processed' = processed \cup {task}
            /\ active' \in {active, active \cup {task}}
       ELSE UNCHANGED <<processed, active>>
    /\ task' = Main
    /\ main' = "pop"
    /\ UNCHANGED <<monitor, loaded, http, killed>>

\* Mutant: no NEXT_RESPONSE is posted.
UpdateSlotsSilent ==
    /\ main = "update"
    /\ active' \in SUBSET active
    /\ idle' = FALSE
    /\ main' = "check"
    /\ UNCHANGED <<queue, running, sleeping, req_stop, waiters, loaded, http, task, processed, killed>>

\* callback_update_slots(): with a slot in use it posts NEXT_RESPONSE, and some
\* slots may be released.  Then time_last_task is set again.
UpdateSlots ==
    /\ main = "update"
    /\ IF active = {}
       THEN UNCHANGED <<queue, waiters, active>>
       ELSE /\ queue' = Append(queue, Main)
            /\ waiters' \in NotifyOne(waiters)
            /\ active' \in SUBSET active
    /\ idle' = FALSE
    /\ main' = "check"
    /\ UNCHANGED <<running, sleeping, req_stop, loaded, http, task, processed, killed>>

\* Mutant: the queue is not looked at before sleeping.
CheckBlind ==
    /\ main = "check"
    /\ \/ /\ ~running \/ (queue # <<>> /\ ~(IdleSleep /\ idle))
          /\ main' = "pop"
          /\ UNCHANGED <<sleeping, waiters>>
       \/ /\ running /\ IdleSleep /\ idle
          /\ sleeping' = TRUE
          /\ main' = "unload"
          /\ UNCHANGED waiters
       \/ /\ running /\ queue = <<>>
          /\ ~(IdleSleep /\ idle)
          /\ main' = "timed"
          /\ waiters' = waiters \cup {Main}
          /\ UNCHANGED sleeping
    /\ UNCHANGED <<queue, running, req_stop, idle, loaded, http, task, processed, active, killed>>

\* One turn of the inner wait loop, up to the wait or the call of
\* callback_sleeping_state(true).
Check ==
    /\ main = "check"
    /\ \/ /\ ~running \/ queue # <<>>
          /\ main' = "pop"
          /\ UNCHANGED <<sleeping, waiters>>
       \/ /\ running /\ queue = <<>>
          /\ IdleSleep /\ idle
          /\ sleeping' = TRUE
          /\ main' = "unload"
          /\ UNCHANGED waiters
       \/ /\ running /\ queue = <<>>
          /\ ~(IdleSleep /\ idle)
          /\ main' = "timed"
          /\ waiters' = waiters \cup {Main}
          /\ UNCHANGED sleeping
    /\ UNCHANGED <<queue, running, req_stop, idle, loaded, http, task, processed, active, killed>>

\* wait_for() returns: notified, or after max_wait_time.
TimedWait ==
    /\ main = "timed" /\ MutexFree
    /\ waiters' = waiters \ {Main}
    /\ main' = IF queue # <<>> \/ ~running THEN "pop" ELSE "check"
    /\ UNCHANGED <<queue, running, sleeping, req_stop, idle, loaded, http, task, processed, active, killed>>

\* callback_sleeping_state(true) destroys the model; then Main waits.
Unload ==
    /\ main = "unload"
    /\ loaded' = FALSE
    /\ req_stop' = FALSE
    /\ waiters' = waiters \cup {Main}
    /\ main' = "asleep"
    /\ UNCHANGED <<queue, running, sleeping, idle, http, task, processed, active, killed>>

Awake ==
    /\ main = "asleep" /\ Main \notin waiters
    /\ \/ /\ ~running
          /\ main' = "pop" /\ UNCHANGED <<req_stop, waiters>>
       \/ /\ running /\ req_stop
          /\ main' = "reload" /\ req_stop' = FALSE /\ UNCHANGED waiters
       \/ /\ running /\ ~req_stop
          /\ waiters' = waiters \cup {Main} /\ UNCHANGED <<main, req_stop>>
    /\ UNCHANGED <<queue, running, sleeping, idle, loaded, http, task, processed, active, killed>>

\* Mutant: the threads in wait_until_no_sleep() are not notified.
ReloadSilent ==
    /\ main = "reload"
    /\ loaded' = TRUE
    /\ sleeping' = FALSE
    /\ idle' = FALSE
    /\ main' = "pop"
    /\ UNCHANGED <<queue, running, req_stop, waiters, http, task, processed, active, killed>>

\* callback_sleeping_state(false) loads the model again; notify_all().
Reload ==
    /\ main = "reload"
    /\ loaded' = TRUE
    /\ sleeping' = FALSE
    /\ idle' = FALSE
    /\ waiters' = {}
    /\ main' = "pop"
    /\ UNCHANGED <<queue, running, req_stop, http, task, processed, active, killed>>

----------------------------------------------------------------------------
(* The clock, and terminate() *)

IdleTimeOver ==
    /\ IdleSleep /\ ~idle
    /\ idle' = TRUE
    /\ UNCHANGED <<queue, running, sleeping, req_stop, waiters, loaded, main, http, task, processed, active, killed>>

\* A signal handler on Main that finds mutex_tasks taken by Main never returns.
Terminate ==
    /\ ~killed
    /\ IF main = "boot" THEN EarlySignal ELSE MayTerminate
    /\ main # "stopped"
    /\ killed' = TRUE
    /\ \/ /\ MutexFree
          /\ running' = FALSE
          /\ waiters' = {}
          /\ UNCHANGED main
       \/ /\ ~MutexFree /\ SignalOnMain
          /\ main' = "deadlocked"
          /\ UNCHANGED <<running, waiters>>
    /\ UNCHANGED <<queue, sleeping, req_stop, idle, loaded, http, task, processed, active>>

\* Nothing is left to do: the loop has ended, or Main sleeps and every request
\* is posted.
QueueEnded ==
    /\ \/ main \in {"stopped", "deadlocked"}
       \/ Main \in waiters /\ \A w \in Http : http[w] = "posted"
    /\ UNCHANGED queue_vars

HttpSteps(w) == Enter(w) \/ Woken(w) \/ Tokenize(w) \/ PostTask(w)

LoopThread == \/ Start \/ Pop \/ ProcessTask \/ UpdateSlots \/ Check
              \/ TimedWait \/ Unload \/ Awake \/ Reload

QueueNext ==
    \/ \E w \in Http : HttpSteps(w)
    \/ LoopThread
    \/ IdleTimeOver
    \/ Terminate
    \/ QueueEnded

\* What a long --sleep-idle-seconds gives: the idle time does not run out while
\* an HTTP thread is between create_response() and post().  Nothing in the code
\* enforces it; some of the properties are about runs that have been calm so far.
InFlight == {w \in Http : http[w] \in {"waiting", "use", "post"}}
Calm     == main' = "unload" /\ main = "check" => InFlight = {}

QueueStep == QueueNext /\ calm' = (calm /\ Calm)
all_vars  == <<queue_vars, calm>>

QueueSpec == QueueInit /\ [][QueueStep]_all_vars

\* Threads that can run do; a thread that has entered does not give up.
QueueFairSpec ==
    /\ QueueSpec
    /\ WF_queue_vars(LoopThread)
    /\ \A w \in Http : WF_queue_vars(Woken(w) \/ Tokenize(w) \/ PostTask(w))

----------------------------------------------------------------------------
(* Properties *)

\* A task is processed, and the slots are updated, only while the model exists.
ModelForTasks == main \in {"process", "update"} => loaded

\* The idle timer never takes the model from a slot in use.  The loop does not
\* look at the slots before it sleeps: the NEXT_RESPONSE in the queue is all
\* that keeps it awake while they generate.
NeverSleepsBusy == main \in {"timed", "unload", "asleep", "reload"} => active = {}

\* Main blocks on condition_tasks only with nothing to do: no task, no request to
\* stop sleeping and no end of the loop.
BlocksIdle ==
    Main \in waiters =>
        /\ running
        /\ main = "timed" => queue = <<>>
        /\ main = "asleep" => ~req_stop

\* No wake-up of Main is lost: wait_until_no_sleep() relies on notify_one()
\* reaching it ("only main thread is waiting on this"), which is so in calm runs.
NoLostWakeup == calm => BlocksIdle

\* An HTTP thread uses the vocab, the model and its templates only while they
\* exist (server-context.cpp: "only use these pointers outside of this class:
\* when not in sleeping state").  Not so when the idle time runs out between
\* wait_until_no_sleep() and the use (QueueRace).
NoUseUnloaded == \A w \in Http : http[w] = "use" => loaded

\* wait_until_no_sleep() returns in calm runs (server-queue.h: "wait until it is
\* done"), unless the server is told to stop.
WaiterReturns ==
    \A w \in Http : http[w] = "waiting" ~> http[w] # "waiting" \/ killed \/ ~calm

\* A task that is posted gets processed in calm runs, unless the server is told to
\* stop.
TaskProcessed == \A w \in Http : http[w] = "posted" ~> w \in processed \/ killed \/ ~calm

\* Wherever start_loop() is when terminate() resets running, awake, asleep or
\* loading the model, it ends.
LoopEnds == main # "boot" /\ ~running ~> main = "stopped"

\* terminate() ends start_loop() (server.cpp: "this will unblock start_loop()"),
\* also when a signal calls it early or on the main thread.
TerminateStops == killed ~> main = "stopped"
=============================================================================
