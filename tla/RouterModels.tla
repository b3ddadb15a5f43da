---------------------------- MODULE RouterModels ----------------------------
(***************************************************************************)
(* The router mode of llama-server: struct server_models                   *)
(* (tools/server/server-models.cpp), which loads, unloads and evicts model *)
(* instances, each a child process with a monitor thread of its own.       *)
(*                                                                         *)
(* A step is a section under the mutex, or what a thread does between two  *)
(* of them.  The monitor of a model consists of three threads: one reads   *)
(* the child's output, one waits for a reason to stop the child, and their *)
(* parent joins both.  Names, presets, ports and the proxied requests are  *)
(* abstracted; which of the running models is least recently used is a     *)
(* choice.                                                                 *)
(***************************************************************************)
EXTENDS Integers, FiniteSets, Sequences

CONSTANTS
    Model,
    Http,          \* HTTP threads
    Workloads,     \* what clients may ask of each thread: [Http -> sets of <<op, model>>]
    NoModel,
    MaxModels,     \* models_max, 0 for no limit
    PipeBound,     \* bound on the lines a child has written and nobody read
    Dozers,        \* children that sleep when idle (--sleep-idle-seconds)
    MayVanish,     \* models a reload may no longer find in its sources
    EofGap         \* whether a child's output ends before it can be waited for

ASSUME RouterAssumption ==
    /\ IsFiniteSet(Model) /\ NoModel \notin Model
    /\ Workloads \subseteq
          [Http -> SUBSET ({"proxy", "load", "unload", "reload"} \X (Model \cup {NoModel}))]
    /\ MaxModels \in Nat
    /\ PipeBound \in Nat \ {0}
    /\ Dozers \subseteq Model
    /\ MayVanish \subseteq Model
    /\ EofGap \in BOOLEAN

VARIABLES
    up,         \* "up", "joining" (unload_all), "down", "killed", "aborted"
    known,      \* DOMAIN mapping
    status,     \* meta.status
    joinable,   \* models whose instance_t::th is joinable
    stopping,   \* stopping_models
    reloading,  \* is_reloading
    child,      \* the child process of each model
    told,       \* children the exit command was written to
    out,        \* lines in the pipe from the child
    monitor,    \* the managing thread and, in "reading", its log_thread
    stopper,    \* stopping_thread
    http,       \* what each HTTP thread does
    work        \* the workload, one of Workloads

registry == <<known, status, joinable, stopping, reloading>>
process  == <<child, told, out>>
vars == <<up, known, status, joinable, stopping, reloading, child, told, out,
          monitor, stopper, http, work>>

Alive == {"booting", "serving", "asleep"}

\* "ended" is a process whose output is at its end but which cannot be waited
\* for yet, "zombie" one that can, "reaped" one whose pid is forgotten.
ChildState == Alive \cup {"none", "ended", "zombie", "reaped"}

\* "model" is what the request names, "victim" what unload_lru() picked; the sets
\* belong to load_models(): names found in the sources, models to unload, and
\* those of a loop (unload, then load) still to do.
Job(pc, m, op, keep, target, todo) ==
    [pc |-> pc, model |-> m, op |-> op, victim |-> NoModel,
     keep |-> keep, target |-> target, todo |-> todo]
Free == Job("idle", NoModel, "none", {}, {}, {})

TypeOK ==
    /\ up \in {"up", "joining", "down", "killed", "aborted"}
    /\ known \subseteq Model
    /\ status \in [Model -> {"unloaded", "loading", "loaded", "sleeping"}]
    /\ joinable \subseteq known
    /\ stopping \subseteq Model
    /\ reloading \in BOOLEAN
    /\ child \in [Model -> ChildState]
    /\ told \subseteq Model
    /\ out \in [Model -> Seq({"ready", "sleep"})]
    /\ \A m \in Model : Len(out[m]) <= PipeBound
    /\ monitor \in [Model -> {"none", "reading", "clean", "join", "reap", "status", "over"}]
    /\ stopper \in [Model -> {"none", "check", "asleep", "act", "grace", "over"}]
    /\ http \in [Http ->
          [pc : {"idle", "load", "lru", "evict", "evicting", "spawn", "await",
                 "final", "unload", "reload", "rebuild"},
           model : Model \cup {NoModel}, op : {"none", "proxy", "load", "unload", "reload"},
           victim : Model \cup {NoModel},
           keep : SUBSET Model, target : SUBSET Model, todo : SUBSET Model]]
    /\ work \in Workloads

Init ==
    /\ up = "up"
    /\ known = Model
    /\ status = [m \in Model |-> "unloaded"]
    /\ joinable = {} /\ stopping = {} /\ reloading = FALSE
    /\ child = [m \in Model |-> "none"]
    /\ told = {} /\ out = [m \in Model |-> <<>>]
    /\ monitor = [m \in Model |-> "none"]
    /\ stopper = [m \in Model |-> "none"]
    /\ http = [h \in Http |-> Free]
    /\ work \in Workloads

Live == up \in {"up", "joining"}

\* server_model_meta::is_running() of the models in the mapping.
Active == {m \in known : status[m] # "unloaded"}
Full   == MaxModels > 0 /\ Cardinality(Active) >= MaxModels

\* cv_stop.notify_all(): every stopping_thread looks at its condition again.
StopNotified == [m \in Model |-> IF stopper[m] = "asleep" THEN "check" ELSE stopper[m]]

\* A process ends, by itself or by a signal.
Dead == IF EofGap THEN "ended" ELSE "zombie"

----------------------------------------------------------------------------
(* unload() *)

\* Mutant: unload() marks the model itself instead of its managing thread.
UnloadOfMarks(m) ==
    IF m \in Active
    THEN /\ stopping' = stopping \cup {m}
         /\ status' = [status EXCEPT ![m] = "unloaded"]
         /\ stopper' = StopNotified
         /\ UNCHANGED <<child, up>>
    ELSE UNCHANGED <<stopping, status, child, up, stopper>>

\* A model that is loading is killed by its pid, which is 0 once the process
\* has been waited for: then the signal goes to the router's process group.
UnloadOf(m) ==
    IF m \in Active
    THEN /\ stopping' = stopping \cup {m}
         /\ status' = status
         /\ IF status[m] = "loading"
            THEN /\ child' = [child EXCEPT ![m] = IF @ \in Alive THEN Dead ELSE @]
                 /\ up' = IF child[m] = "reaped" THEN "killed" ELSE up
            ELSE UNCHANGED <<child, up>>
         /\ stopper' = StopNotified
    ELSE UNCHANGED <<stopping, status, child, up, stopper>>

At(h, pc)  == Live /\ http[h].pc = pc
Goto(h, pc) == http' = [http EXCEPT ![h].pc = pc]
Return(h)  == http' = [http EXCEPT ![h] = Free]

\* POST /models/unload; the handler has looked at is_running() before.
Unload(h) ==
    /\ At(h, "unload")
    /\ UnloadOf(http[h].model)
    /\ Return(h)
    /\ UNCHANGED <<known, joinable, reloading, told, out, monitor>>

----------------------------------------------------------------------------
(* HTTP handlers: requests, and load() *)

\* router_validate_model() with autoload, POST /models/load and /models/unload
\* read the status in a section of their own, and act on it later.
Begin(h, m, op) ==
    /\ At(h, "idle") /\ up = "up"
    /\ <<op, m>> \in work[h] /\ m \in known
    /\ LET to(pc) == http' = [http EXCEPT ![h] = Job(pc, m, op, {}, {}, {})]
       IN \/ op = "proxy" /\ status[m] = "unloaded" /\ to("load")
          \/ op = "proxy" /\ status[m] = "loading" /\ to("await")
          \/ op = "load" /\ status[m] = "unloaded" /\ to("load")
          \/ op = "unload" /\ status[m] # "unloaded" /\ to("unload")
    /\ UNCHANGED <<up, registry, process, monitor, stopper>>

\* load(): throws when a reload has removed the model.
HasModel(h) ==
    /\ At(h, "load")
    /\ IF http[h].model \in known THEN Goto(h, "lru") ELSE Return(h)
    /\ UNCHANGED <<up, registry, process, monitor, stopper>>

\* unload_lru() below the limit, or when every running model was used in this
\* very millisecond.
NoVictim(h) ==
    /\ At(h, "lru")
    /\ Goto(h, "spawn")
    /\ UNCHANGED <<up, registry, process, monitor, stopper>>

\* unload_lru() at the limit: the victim may be a model that is still loading.
PickVictim(h) ==
    /\ At(h, "lru") /\ Full
    /\ \E v \in Active : http' = [http EXCEPT ![h].pc = "evict", ![h].victim = v]
    /\ UNCHANGED <<up, registry, process, monitor, stopper>>

Evict(h) ==
    /\ At(h, "evict")
    /\ UnloadOf(http[h].victim)
    /\ Goto(h, "evicting")
    /\ UNCHANGED <<known, joinable, reloading, told, out, monitor>>

\* unload_lru(): cv.wait(), with mapping[] creating the entry if it is gone.
Evicted(h) ==
    /\ At(h, "evicting")
    /\ status[http[h].victim] = "unloaded" \/ http[h].victim \notin known
    /\ known' = known \cup {http[h].victim}
    /\ http' = [http EXCEPT ![h].pc = "spawn", ![h].victim = NoModel]
    /\ UNCHANGED <<up, status, joinable, stopping, reloading, process, monitor, stopper>>

\* Where load() returns to: ensure_model_ready(), the handler, or the loop of
\* load_models() over the models to load.
AfterLoad(h) ==
    IF http[h].op = "proxy" THEN Goto(h, "await")
    ELSE IF http[h].todo = {} THEN Return(h)
    ELSE \E n \in http[h].todo :
           http' = [http EXCEPT ![h] = Job("load", n, "load", {}, {}, http[h].todo \ {n})]

\* load() under the lock, once no reload is in progress: somebody else has
\* loaded the model, or the limit is reached again (it throws).
LoadRefused(h) ==
    /\ At(h, "spawn") /\ ~reloading
    /\ known' = known \cup {http[h].model}
    /\ \/ status[http[h].model] # "unloaded" /\ AfterLoad(h)
       \/ status[http[h].model] = "unloaded" /\ Full /\ Return(h)
    /\ UNCHANGED <<up, status, joinable, stopping, reloading, process, monitor, stopper>>

\* Mutant: the limit is not checked again under the lock.
SpawnUnchecked(h) == LET m == http[h].model IN
    /\ At(h, "spawn") /\ ~reloading
    /\ status[m] = "unloaded"
    /\ known' = known \cup {m}
    /\ status' = [status EXCEPT ![m] = "loading"]
    /\ child' = [child EXCEPT ![m] = "booting"]
    /\ told' = told \ {m}
    /\ out' = [out EXCEPT ![m] = <<>>]
    /\ monitor' = [monitor EXCEPT ![m] = "reading"]
    /\ stopper' = [stopper EXCEPT ![m] = "check"]
    /\ joinable' = joinable \cup {m}
    /\ AfterLoad(h)
    /\ UNCHANGED <<up, stopping, reloading>>

\* load() spawns the child and its threads, and joins the thread of the
\* instance before, which is over since the status is "unloaded".
Spawn(h) == LET m == http[h].model IN
    /\ At(h, "spawn") /\ ~reloading
    /\ status[m] = "unloaded" /\ ~Full
    /\ known' = known \cup {m}
    /\ status' = [status EXCEPT ![m] = "loading"]
    /\ child' = [child EXCEPT ![m] = "booting"]
    /\ told' = told \ {m}
    /\ out' = [out EXCEPT ![m] = <<>>]
    /\ monitor' = [monitor EXCEPT ![m] = "reading"]
    /\ stopper' = [stopper EXCEPT ![m] = "check"]
    /\ joinable' = joinable \cup {m}
    /\ AfterLoad(h)
    /\ UNCHANGED <<up, stopping, reloading>>

\* Mutant: the waiter expects the load to succeed.
LoadingOverLoaded(h) ==
    /\ At(h, "await")
    /\ http[h].model \in known /\ status[http[h].model] = "loaded"
    /\ Goto(h, "final")
    /\ UNCHANGED <<up, registry, process, monitor, stopper>>

\* wait_until_loading_finished(), for ever if a reload removes the model.
LoadingOver(h) ==
    /\ At(h, "await")
    /\ http[h].model \in known /\ status[http[h].model] # "loading"
    /\ Goto(h, "final")
    /\ UNCHANGED <<up, registry, process, monitor, stopper>>

\* ensure_model_ready() looks once more, then proxy_request() does: the answer
\* is the child's or an error.
Proxied(h) ==
    /\ At(h, "final")
    /\ Return(h)
    /\ UNCHANGED <<up, registry, process, monitor, stopper>>

----------------------------------------------------------------------------
(* load_models() on a running router *)

\* The sources are read; models that run and are gone or changed will be
\* unloaded.
Reload(h) ==
    /\ At(h, "idle") /\ up = "up"
    /\ <<"reload", NoModel>> \in work[h]
    /\ reloading' = TRUE
    /\ \E gone \in SUBSET MayVanish, changed \in SUBSET Active :
         LET target == changed \cup (Active \cap gone)
         IN http' = [http EXCEPT ![h] =
                Job("reload", NoModel, "reload", Model \ gone, target, target)]
    /\ UNCHANGED <<up, known, status, joinable, stopping, process, monitor, stopper>>

\* unload() of the targets, without the lock in between.
ReloadUnload(h) ==
    /\ At(h, "reload")
    /\ \E m \in http[h].todo :
         /\ UnloadOf(m)
         /\ http' = [http EXCEPT ![h].todo = @ \ {m}]
    /\ UNCHANGED <<known, joinable, reloading, told, out, monitor>>

\* When none of the targets runs, their threads and those of other models that
\* are gone are taken out of the mapping, to be joined without the lock.
ReloadSettled(h) ==
    /\ At(h, "reload") /\ http[h].todo = {}
    /\ http[h].target \cap Active = {}
    /\ joinable' = joinable \ (http[h].target \cup (known \ (http[h].keep \cup Active)))
    /\ Goto(h, "rebuild")
    /\ UNCHANGED <<up, known, status, stopping, reloading, process, monitor, stopper>>

\* Models that are gone are erased (GGML_ASSERT: their thread was joined), new
\* ones are added and, if so configured, loaded.
Rebuild(h) == LET keep == http[h].keep IN
    /\ At(h, "rebuild")
    /\ IF (known \ keep) \cap joinable # {}
       THEN up' = "aborted" /\ UNCHANGED <<known, reloading, http>>
       ELSE /\ known' = keep
            /\ reloading' = FALSE
            /\ up' = up
            /\ \/ Return(h)
               \/ \E n \in keep \ known : http' = [http EXCEPT ![h] =
                     Job("load", n, "load", {}, {}, keep \ (known \cup {n}))]
    /\ UNCHANGED <<status, joinable, stopping, process, monitor, stopper>>

----------------------------------------------------------------------------
(* The monitor of a model *)

\* log_thread: a line of the child, update_status().
ReadLine(m) ==
    /\ Live /\ monitor[m] = "reading"
    /\ out[m] # <<>>
    /\ out' = [out EXCEPT ![m] = Tail(@)]
    /\ status' = IF m \notin known THEN status
                 ELSE [status EXCEPT ![m] =
                          IF Head(out[m]) = "ready" THEN "loaded" ELSE "sleeping"]
    /\ UNCHANGED <<up, known, joinable, stopping, reloading, child, told, monitor, stopper, http>>

ReadEnd(m) ==
    /\ Live /\ monitor[m] = "reading"
    /\ out[m] = <<>> /\ child[m] \notin Alive
    /\ monitor' = [monitor EXCEPT ![m] = "clean"]
    /\ UNCHANGED <<up, registry, process, stopper, http>>

\* Mutant: the stopping thread is not notified.
CleanSilent(m) ==
    /\ Live /\ monitor[m] = "clean"
    /\ stopping' = stopping \ {m}
    /\ monitor' = [monitor EXCEPT ![m] = "join"]
    /\ UNCHANGED <<up, known, status, joinable, reloading, process, stopper, http>>

\* stopping_models.erase() and cv_stop.notify_all().
Clean(m) ==
    /\ Live /\ monitor[m] = "clean"
    /\ stopping' = stopping \ {m}
    /\ stopper' = StopNotified
    /\ monitor' = [monitor EXCEPT ![m] = "join"]
    /\ UNCHANGED <<up, known, status, joinable, reloading, process, http>>

JoinStopper(m) ==
    /\ Live /\ monitor[m] = "join" /\ stopper[m] = "over"
    /\ monitor' = [monitor EXCEPT ![m] = "reap"]
    /\ UNCHANGED <<up, registry, process, stopper, http>>

\* subprocess_join() waits for the process unless that was done already.
Reap(m) ==
    /\ Live /\ monitor[m] = "reap" /\ child[m] \in {"zombie", "reaped"}
    /\ child' = [child EXCEPT ![m] = "reaped"]
    /\ monitor' = [monitor EXCEPT ![m] = "status"]
    /\ UNCHANGED <<up, registry, told, out, stopper, http>>

\* update_status(UNLOADED), the last thing the thread does.
SetUnloaded(m) ==
    /\ Live /\ monitor[m] = "status"
    /\ status' = IF m \in known THEN [status EXCEPT ![m] = "unloaded"] ELSE status
    /\ monitor' = [monitor EXCEPT ![m] = "over"]
    /\ UNCHANGED <<up, known, joinable, stopping, reloading, process, stopper, http>>

\* stopping_thread: cv_stop.wait(), whose condition waits for the process
\* (WNOHANG) when no stop is asked for.
StopperCheck(m) ==
    /\ Live /\ stopper[m] = "check"
    /\ IF m \in stopping \/ child[m] \in {"zombie", "reaped"}
       THEN /\ stopper' = [stopper EXCEPT ![m] = "act"]
            /\ child' = IF m \in stopping THEN child ELSE [child EXCEPT ![m] = "reaped"]
       ELSE stopper' = [stopper EXCEPT ![m] = "asleep"] /\ child' = child
    /\ UNCHANGED <<up, registry, told, out, monitor, http>>

\* Nothing to stop, or the exit command is written to the child.
StopperAct(m) ==
    /\ Live /\ stopper[m] = "act"
    /\ IF child[m] \in {"zombie", "reaped"}
       THEN /\ child' = [child EXCEPT ![m] = "reaped"]
            /\ stopper' = [stopper EXCEPT ![m] = "over"]
            /\ told' = told
       ELSE /\ told' = told \cup {m}
            /\ stopper' = [stopper EXCEPT ![m] = "grace"]
            /\ child' = child
    /\ UNCHANGED <<up, registry, out, monitor, http>>

StopperDone(m) ==
    /\ Live /\ stopper[m] = "grace" /\ m \notin stopping
    /\ stopper' = [stopper EXCEPT ![m] = "over"]
    /\ UNCHANGED <<up, registry, process, monitor, http>>

\* Mutant: the timeout of the shutdown is never reached.
ForceKillNever(m) == FALSE

\* stop_timeout is over and the child has not ended.
ForceKill(m) ==
    /\ Live /\ stopper[m] = "grace" /\ m \in stopping
    /\ child' = [child EXCEPT ![m] = IF @ \in Alive THEN Dead ELSE @]
    /\ stopper' = [stopper EXCEPT ![m] = "over"]
    /\ UNCHANGED <<up, registry, told, out, monitor, http>>

----------------------------------------------------------------------------
(* The child process *)

Becomes(m, from, to) ==
    /\ Live /\ child[m] \in from
    /\ child' = [child EXCEPT ![m] = to]
    /\ UNCHANGED <<up, registry, told, monitor, stopper, http>>

Writes(m, line) == Len(out[m]) < PipeBound /\ out' = [out EXCEPT ![m] = Append(@, line)]

\* setup_child_server() and notify_router_sleeping_state().
Boot(m)   == Becomes(m, {"booting"}, "serving") /\ Writes(m, "ready")
Doze(m)   == m \in Dozers /\ Becomes(m, {"serving"}, "asleep") /\ Writes(m, "sleep")
WakeUp(m) == Becomes(m, {"asleep"}, "serving") /\ Writes(m, "ready")

\* The exit command is read by a thread that starts when the model is loaded.
Obey(m)  == m \in told /\ Becomes(m, {"serving", "asleep"}, Dead) /\ UNCHANGED out
Crash(m) == Becomes(m, Alive, Dead) /\ UNCHANGED out

\* The kernel lets the process be waited for after it has closed its files.
Waitable(m) == Becomes(m, {"ended"}, "zombie") /\ UNCHANGED out

----------------------------------------------------------------------------
(* clean_up() of the router's main thread, after the HTTP server has stopped *)

\* Mutant: the models are not asked to stop.
UnloadAllSilent ==
    /\ up = "up" /\ \A h \in Http : http[h].pc = "idle"
    /\ up' = "joining"
    /\ joinable' = {}
    /\ UNCHANGED <<known, status, stopping, stopper, reloading, process, monitor, http>>

\* unload_all() asks every running model to stop, a loading one too, and takes
\* all threads to join them without the lock.
UnloadAll ==
    /\ up = "up" /\ \A h \in Http : http[h].pc = "idle"
    /\ up' = "joining"
    /\ stopping' = stopping \cup Active
    /\ stopper' = IF Active = {} THEN stopper ELSE StopNotified
    /\ joinable' = {}
    /\ UNCHANGED <<known, status, reloading, process, monitor, http>>

Joined ==
    /\ up = "joining" /\ \A m \in Model : monitor[m] \in {"none", "over"}
    /\ up' = "down"
    /\ UNCHANGED <<registry, process, monitor, stopper, http>>

Halted ==
    /\ ~Live
    /\ UNCHANGED <<up, registry, process, monitor, stopper, http>>

----------------------------------------------------------------------------
Handler(h) ==
    \/ Unload(h) \/ HasModel(h) \/ NoVictim(h) \/ PickVictim(h) \/ Evict(h)
    \/ Evicted(h) \/ LoadRefused(h) \/ Spawn(h) \/ LoadingOver(h) \/ Proxied(h)
    \/ ReloadUnload(h) \/ ReloadSettled(h) \/ Rebuild(h)

LogThread(m) == ReadLine(m) \/ ReadEnd(m)
Manager(m)   == Clean(m) \/ JoinStopper(m) \/ Reap(m) \/ SetUnloaded(m)
Stopper(m)   == StopperCheck(m) \/ StopperAct(m) \/ StopperDone(m) \/ ForceKill(m)
Child(m)     == Boot(m) \/ Doze(m) \/ WakeUp(m) \/ Obey(m) \/ Crash(m) \/ Waitable(m)

Next ==
    /\ UNCHANGED work
    /\ \/ \E h \in Http : \/ \E m \in Model, op \in {"proxy", "load", "unload"} : Begin(h, m, op)
                         \/ Reload(h)
                         \/ Handler(h)
       \/ \E m \in Model : LogThread(m) \/ Manager(m) \/ Stopper(m) \/ Child(m)
       \/ UnloadAll \/ Joined \/ Halted

Spec == Init /\ [][Next]_vars

Steps(A) == A /\ UNCHANGED work

\* Threads run; a child that boots becomes ready or fails, a dead process can
\* be waited for.  A condition that cv.wait() finds true again and again is
\* seen in the end.  A child need not obey, crash, doze or wake up.
FairSpec ==
    /\ Spec
    /\ \A m \in Model : /\ WF_vars(Steps(LogThread(m))) /\ WF_vars(Steps(Manager(m)))
                        /\ WF_vars(Steps(Stopper(m))) /\ WF_vars(Steps(Waitable(m)))
                        /\ WF_vars(Steps(child[m] = "booting" /\ Child(m)))
    /\ \A h \in Http : WF_vars(Steps(Handler(h))) /\ SF_vars(Steps(LoadingOver(h)))
    /\ WF_vars(Steps(Joined))

----------------------------------------------------------------------------
(* Properties *)

\* The limit on model instances holds whatever requests, reloads, evictions and
\* crashes overlap (load(): "Re-check capacity under the lock to prevent
\* concurrent loads from exceeding models_max").
Capacity == MaxModels > 0 => Cardinality(Active) <= MaxModels

\* No child process is lost: one that is alive belongs to a model which the
\* router considers to be running, so that it counts and can be stopped.
AliveIsRunning == TypeOK /\ \A m \in Model : child[m] \in Alive => m \in Active

\* The router does not send the signal meant for a loading child to its own
\* process group (unload(): "if model is in loading state, unloading means
\* force-killing it").
RouterSurvives == up # "killed"

\* What is asked to stop stops, though the child may ignore the exit command.
StopHonoured ==
    \A m \in Model :
        m \in stopping /\ child[m] \in Alive ~> child[m] \notin Alive \/ ~Live

\* A child that ends, for whatever reason, is noticed and its model unloaded
\* (stopping_thread: "monitor stopping signal OR child crash").
DeadIsUnloaded ==
    \A m \in Model :
        child[m] \in {"ended", "zombie"} ~> status[m] = "unloaded" \/ ~Live

\* A request does not wait for a load for ever, whether the model gets ready,
\* fails, is evicted or unloaded meanwhile ("return when the model no longer in
\* loading state").
LoadEnds == \A h \in Http : http[h].pc = "await" ~> http[h].pc # "await" \/ ~Live

\* unload_all() ends: every monitor thread can be joined.
RouterStops == up = "joining" ~> ~Live
=============================================================================
