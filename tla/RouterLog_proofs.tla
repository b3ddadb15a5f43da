-------------------------- MODULE RouterLog_proofs --------------------------
(***************************************************************************)
(* What is proved about the two parts beside the server that decodes, the  *)
(* router and the log.                                                     *)
(*                                                                         *)
(* RouterModels, for any number of models and HTTP threads and any limit:  *)
(* the limit is kept and no child process is lost, whatever requests,      *)
(* evictions, reloads, crashes and a shutdown overlap.  Capacity and       *)
(* AliveIsRunning look at the mapping and the processes; what ties them to *)
(* each other is the managing thread (Registered), and that a reload       *)
(* cannot erase a model whose thread may still be joined.                  *)
(*                                                                         *)
(* CommonLog, for any number of threads and messages, any capacity and any *)
(* number of calls: every message is printed once, in the order of add(),  *)
(* and the file gets what is printed while it is open.  The inductive      *)
(* invariant compares the ring with accepted: behind what was shown the    *)
(* entries from head on are the messages that follow, and behind those is  *)
(* the entry of pause().                                                   *)
(***************************************************************************)
EXTENDS RouterModels, CommonLog, FiniteSetTheorems, SequenceTheorems, TLAPS

\* The managing thread of m has not set the status to UNLOADED yet.
Managed(m) == monitor[m] \in {"reading", "clean", "join", "reap", "status"}

Jobs == [pc : {"idle", "load", "lru", "evict", "evicting", "spawn", "await",
               "final", "unload", "reload", "rebuild"},
         model : Model \cup {NoModel}, op : {"none", "proxy", "load", "unload", "reload"},
         victim : Model \cup {NoModel},
         keep : SUBSET Model, target : SUBSET Model, todo : SUBSET Model]

\* What a thread is about to load, to evict or to wait for is a model.
Named(j) ==
    /\ j.pc \in {"load", "lru", "evict", "evicting", "spawn", "await", "final", "unload"} =>
           j.model \in Model
    /\ j.pc \in {"evict", "evicting"} => j.victim \in Model

\* No request is being served any more when the threads are joined.
Serving == \A h \in Http : Named(http[h]) /\ (up = "joining" => http[h].pc = "idle")

\* A model runs as long as it has a managing thread, also beside the mapping,
\* and that thread reads as long as the child is alive.
Registered ==
    /\ \A m \in Model : Managed(m) <=> m \in Active
    /\ \A m \in Model \ known : status[m] = "unloaded"
    /\ \A m \in Model : child[m] \in Alive => monitor[m] = "reading"
    /\ up = "up" => Active \subseteq joinable

IInv == TypeOK /\ Serving /\ Registered /\ Capacity

----------------------------------------------------------------------------
(* What an HTTP thread does next *)

\* A record keeps its type when its pc changes.
LEMMA PcChanges ==
    ASSUME TypeOK, NEW h \in Http, NEW pc \in {"idle", "load", "lru", "evict", "evicting",
               "spawn", "await", "final", "unload", "reload", "rebuild"}
    PROVE  /\ [http[h] EXCEPT !.pc = pc] \in Jobs
           /\ [http[h] EXCEPT !.pc = pc].pc = pc
           /\ [http[h] EXCEPT !.pc = pc].model = http[h].model
           /\ [http[h] EXCEPT !.pc = pc].victim = http[h].victim
           /\ Goto(h, pc) => http' = [http EXCEPT ![h] = [http[h] EXCEPT !.pc = pc]]
<1>1. http[h] \in Jobs
  BY DEF TypeOK, Jobs
<1> QED
  BY <1>1 DEF Jobs, Goto, TypeOK

\* A new job is a job.
LEMMA JobType ==
    ASSUME NEW pc \in {"idle", "load", "lru", "evict", "evicting",
               "spawn", "await", "final", "unload", "reload", "rebuild"},
           NEW m \in Model \cup {NoModel}, NEW op \in {"none", "proxy", "load", "unload", "reload"},
           NEW keep \in SUBSET Model, NEW target \in SUBSET Model, NEW todo \in SUBSET Model
    PROVE  /\ Job(pc, m, op, keep, target, todo) \in Jobs
           /\ Job(pc, m, op, keep, target, todo).pc = pc
           /\ Job(pc, m, op, keep, target, todo).model = m
BY DEF Job, Jobs

LEMMA FreeType == Free \in Jobs /\ Free.pc = "idle" /\ Named(Free)
<1>1. Free \in Jobs /\ Free.pc = "idle"
  BY JobType DEF Free
<1> QED
  BY <1>1 DEF Named

\* Thread h goes on with a job that names its models.
Moves(h) == \E j \in Jobs : Named(j) /\ http' = [http EXCEPT ![h] = j]

LEMMA ReturnMoves == ASSUME NEW h \in Http, Return(h) PROVE Moves(h)
BY FreeType DEF Moves, Return

LEMMA GotoMoves ==
    ASSUME TypeOK, Serving, NEW h \in Http,
           NEW pc \in {"idle", "lru", "evict", "evicting", "spawn", "await", "final",
                       "unload", "reload", "rebuild"},
           Goto(h, pc), pc \in {"reload", "rebuild"} \/ http[h].model \in Model,
           pc \in {"evict", "evicting"} => http[h].victim \in Model
    PROVE  Moves(h)
<1> DEFINE j == [http[h] EXCEPT !.pc = pc]
<1>1. j \in Jobs
  BY PcChanges
<1>2. http' = [http EXCEPT ![h] = j]
  BY DEF Goto, TypeOK, Jobs
<1>3. j.pc = pc /\ j.model = http[h].model /\ j.victim = http[h].victim
  BY PcChanges
<1> HIDE DEF j
<1>4. Named(j)
  BY <1>3 DEF Named
<1> QED
  BY <1>1, <1>2, <1>4 DEF Moves

LEMMA AfterLoadMoves ==
    ASSUME TypeOK, Serving, NEW h \in Http, http[h].model \in Model, AfterLoad(h)
    PROVE  Moves(h)
<1>1. CASE http[h].op = "proxy"
  BY <1>1, GotoMoves DEF AfterLoad
<1>2. CASE http[h].op # "proxy" /\ http[h].todo = {}
  BY <1>2, ReturnMoves DEF AfterLoad
<1>3. CASE http[h].op # "proxy" /\ http[h].todo # {}
  <2>1. PICK n \in http[h].todo :
          http' = [http EXCEPT ![h] = Job("load", n, "load", {}, {}, http[h].todo \ {n})]
    BY <1>3 DEF AfterLoad
  <2>2. http[h].todo \in SUBSET Model
    BY DEF TypeOK
  <2>3. LET j == Job("load", n, "load", {}, {}, http[h].todo \ {n})
        IN j \in Jobs /\ j.pc = "load" /\ j.model = n
    BY <2>2, JobType
  <2> QED
    BY <2>1, <2>2, <2>3 DEF Moves, Named
<1> QED
  BY <1>1, <1>2, <1>3

\* What the jobs and Serving say, where an HTTP thread is known to be at pc.
LEMMA AtModel ==
    ASSUME TypeOK, Serving, NEW h \in Http, NEW pc, At(h, pc)
    PROVE  /\ http[h].pc = pc /\ Live /\ http[h] \in Jobs
           /\ pc \in {"load", "lru", "evict", "evicting", "spawn", "await", "final",
                       "unload"} => http[h].model \in Model
           /\ pc \in {"evict", "evicting"} => http[h].victim \in Model
           /\ pc # "idle" => up = "up"
BY DEF TypeOK, Serving, At, Jobs, Named, Live

LEMMA BeginMoves ==
    ASSUME TypeOK, NEW h \in Http, NEW m \in Model,
           NEW op \in {"proxy", "load", "unload"}, Begin(h, m, op)
    PROVE  Moves(h)
<1>1. PICK pc \in {"load", "await", "unload"} :
          http' = [http EXCEPT ![h] = Job(pc, m, op, {}, {}, {})]
  BY DEF Begin
<1>2. /\ Job(pc, m, op, {}, {}, {}) \in Jobs
      /\ Job(pc, m, op, {}, {}, {}).model = m /\ Job(pc, m, op, {}, {}, {}).pc = pc
  BY JobType
<1> QED
  BY <1>1, <1>2 DEF Moves, Named

LEMMA ReloadMoves ==
    ASSUME TypeOK, NEW h \in Http, Reload(h)
    PROVE  Moves(h)
<1>1. PICK gone \in SUBSET MayVanish, changed \in SUBSET Active :
        http' = [http EXCEPT ![h] = Job("reload", NoModel, "reload", Model \ gone,
                    changed \cup (Active \cap gone), changed \cup (Active \cap gone))]
  BY DEF Reload
<1>2. Active \subseteq Model
  BY DEF Active, TypeOK
<1> DEFINE j == Job("reload", NoModel, "reload", Model \ gone,
                    changed \cup (Active \cap gone), changed \cup (Active \cap gone))
<1>3. j \in Jobs /\ j.pc = "reload"
  BY <1>2, JobType
<1> QED
  BY <1>1, <1>3 DEF Moves, Named

LEMMA HandlerMoves ==
    ASSUME TypeOK, Serving, NEW h \in Http, Handler(h)
    PROVE  Moves(h)
<1>1. CASE Unload(h)
  BY <1>1, ReturnMoves DEF Unload
<1>2. CASE HasModel(h)
  BY <1>2, ReturnMoves, GotoMoves, AtModel DEF HasModel
<1>3. CASE NoVictim(h)
  BY <1>3, GotoMoves, AtModel DEF NoVictim
<1>4. CASE PickVictim(h)
  <2>1. PICK v \in Active : http' = [http EXCEPT ![h].pc = "evict", ![h].victim = v]
    BY <1>4 DEF PickVictim
  <2>2. v \in Model /\ http[h] \in Jobs /\ http[h].model \in Model
    BY <1>4, AtModel DEF PickVictim, Active, TypeOK
  <2> DEFINE j == [http[h] EXCEPT !.pc = "evict", !.victim = v]
  <2>3. j \in Jobs /\ j.pc = "evict" /\ j.victim = v /\ j.model = http[h].model
    BY <2>2 DEF Jobs
  <2>4. http' = [http EXCEPT ![h] = j]
    BY <2>1, <2>2 DEF TypeOK, Jobs
  <2> QED
    BY <2>2, <2>3, <2>4 DEF Moves, Named
<1>5. CASE Evict(h)
  BY <1>5, GotoMoves, AtModel DEF Evict
<1>6. CASE Evicted(h)
  <2>1. http' = [http EXCEPT ![h].pc = "spawn", ![h].victim = NoModel]
    BY <1>6 DEF Evicted
  <2>2. http[h] \in Jobs /\ http[h].model \in Model
    BY <1>6, AtModel DEF Evicted
  <2> DEFINE j == [http[h] EXCEPT !.pc = "spawn", !.victim = NoModel]
  <2>3. j \in Jobs /\ j.pc = "spawn" /\ j.model = http[h].model
    BY <2>2 DEF Jobs
  <2>4. http' = [http EXCEPT ![h] = j]
    BY <2>1, <2>2 DEF TypeOK, Jobs
  <2> QED
    BY <2>2, <2>3, <2>4 DEF Moves, Named
<1>7. CASE LoadRefused(h)
  BY <1>7, ReturnMoves, AfterLoadMoves, AtModel DEF LoadRefused
<1>8. CASE Spawn(h)
  BY <1>8, AfterLoadMoves, AtModel DEF Spawn
<1>9. CASE LoadingOver(h)
  BY <1>9, GotoMoves, AtModel DEF LoadingOver
<1>10. CASE Proxied(h)
  BY <1>10, ReturnMoves DEF Proxied
<1>11. CASE ReloadUnload(h)
  <2>1. PICK m \in http[h].todo : http' = [http EXCEPT ![h].todo = @ \ {m}]
    BY <1>11 DEF ReloadUnload
  <2>2. http[h] \in Jobs /\ http[h].pc = "reload"
    BY <1>11, AtModel DEF ReloadUnload
  <2> DEFINE j == [http[h] EXCEPT !.todo = @ \ {m}]
  <2>3. j \in Jobs /\ j.pc = "reload"
    BY <2>2 DEF Jobs
  <2>4. http' = [http EXCEPT ![h] = j]
    BY <2>1, <2>2 DEF TypeOK, Jobs
  <2> QED
    BY <2>3, <2>4 DEF Moves, Named
<1>12. CASE ReloadSettled(h)
  BY <1>12, GotoMoves DEF ReloadSettled
<1>13. CASE Rebuild(h)
  <2>1. CASE UNCHANGED http
    <3>1. http[h] \in Jobs /\ Named(http[h]) /\ http' = [http EXCEPT ![h] = http[h]]
      BY <2>1 DEF TypeOK, Serving, Jobs
    <3> QED
      BY <3>1 DEF Moves
  <2>2. CASE Return(h)
    BY <2>2, ReturnMoves
  <2>3. CASE \E n \in http[h].keep \ known : http' = [http EXCEPT ![h] =
                     Job("load", n, "load", {}, {}, http[h].keep \ (known \cup {n}))]
    <3>1. PICK n \in http[h].keep \ known : http' = [http EXCEPT ![h] =
                     Job("load", n, "load", {}, {}, http[h].keep \ (known \cup {n}))]
      BY <2>3
    <3>2. http[h].keep \in SUBSET Model
      BY DEF TypeOK
    <3> DEFINE j == Job("load", n, "load", {}, {}, http[h].keep \ (known \cup {n}))
    <3>3. j \in Jobs /\ j.pc = "load" /\ j.model = n
      BY <3>2, JobType
    <3> QED
      BY <3>1, <3>2, <3>3 DEF Moves, Named
  <2> QED
    BY <1>13, <2>1, <2>2, <2>3 DEF Rebuild
<1> QED
  BY <1>1, <1>2, <1>3, <1>4, <1>5, <1>6, <1>7, <1>8, <1>9, <1>10, <1>11, <1>12, <1>13 DEF Handler

----------------------------------------------------------------------------
(* What the steps do to the mapping, the processes and their threads *)

\* TypeOK without the jobs.
RestOK ==
    /\ up \in {"up", "joining", "down", "killed", "aborted"}
    /\ known \subseteq Model
    /\ status \in [Model -> {"unloaded", "loading", "loaded", "sleeping"}]
    /\ joinable \subseteq known
    /\ stopping \subseteq Model
    /\ reloading \in BOOLEAN
    /\ child \in [Model -> ChildState]
    /\ told \subseteq Model
    /\ out \in [Model -> Seq({"ready", "sleep"})]
    /\ \A m \in Model : Len(out[m]) <= PipeBound
    /\ monitor \in [Model -> {"none", "reading", "clean", "join", "reap", "status", "over"}]
    /\ stopper \in [Model -> {"none", "check", "asleep", "act", "grace", "over"}]

LEMMA TypeParts == TypeOK <=> RestOK /\ http \in [Http -> Jobs] /\ work \in Workloads
BY DEF TypeOK, RestOK, Jobs

\* The limit can only be exceeded by a model that starts to run.
LEMMA FewerRun ==
    ASSUME TypeOK, Capacity, NEW A, A \subseteq Active
    PROVE  MaxModels > 0 => Cardinality(A) <= MaxModels
<1>1. IsFiniteSet(Active)
  BY RouterAssumption, FS_Subset DEF TypeOK, Active
<1>2. IsFiniteSet(A) /\ Cardinality(A) <= Cardinality(Active)
  BY <1>1, FS_Subset
<1>3. Cardinality(A) \in Nat /\ Cardinality(Active) \in Nat
  BY <1>1, <1>2, FS_CardinalityType
<1> QED
  BY <1>2, <1>3, RouterAssumption DEF Capacity

LEMMA OneMoreRuns ==
    ASSUME TypeOK, ~Full, NEW m \in Model
    PROVE  MaxModels > 0 => Cardinality(Active \cup {m}) <= MaxModels
<1>1. IsFiniteSet(Active)
  BY RouterAssumption, FS_Subset DEF TypeOK, Active
<1>2. \/ Cardinality(Active \cup {m}) = Cardinality(Active)
      \/ Cardinality(Active \cup {m}) = Cardinality(Active) + 1
  BY <1>1, FS_AddElement
<1>3. Cardinality(Active) \in Nat
  BY <1>1, FS_CardinalityType
<1> QED
  BY <1>2, <1>3, RouterAssumption DEF Full

\* What a step has to show beside the jobs.
Kept == RestOK' /\ Registered' /\ Capacity' /\ (up' = "joining" => up = "joining")

LEMMA NothingMoves ==
    ASSUME TypeOK, Registered, Capacity, UNCHANGED <<up, registry, process, monitor, stopper>>
    PROVE  Kept
<1>1. RestOK'
  BY TypeParts DEF RestOK, registry, process
<1>2. Registered'
  BY DEF Registered, Managed, Active, registry, process
<1>3. Capacity'
  BY DEF Capacity, Active, registry
<1> QED
  BY <1>1, <1>2, <1>3 DEF Kept

\* unload() changes no status; it may end the child, or the router.
LEMMA UnloadFacts ==
    ASSUME TypeOK, NEW m, UnloadOf(m)
    PROVE  /\ status' = status /\ stopping' \subseteq Model
           /\ stopper' \in [Model -> {"none", "check", "asleep", "act", "grace", "over"}]
           /\ child' \in [Model -> ChildState]
           /\ \A x \in Model : child'[x] \in Alive => child[x] \in Alive
           /\ up' \in {up, "killed"}
<1>1. StopNotified \in [Model -> {"none", "check", "asleep", "act", "grace", "over"}]
  BY DEF StopNotified, TypeOK
<1>2. CASE m \in Active
  <2>1. m \in Model
    BY <1>2 DEF Active, TypeOK
  <2>2. stopping' \subseteq Model
    BY <1>2, <2>1 DEF UnloadOf, TypeOK
  <2>3. child' \in [Model -> ChildState] /\ \A x \in Model : child'[x] \in Alive => child[x] \in Alive
    BY <1>2, <2>1 DEF UnloadOf, TypeOK, Dead, ChildState, Alive
  <2>4. up' \in {up, "killed"} /\ status' = status /\ stopper' = StopNotified
    BY <1>2 DEF UnloadOf
  <2> QED
    BY <1>1, <2>2, <2>3, <2>4
<1>3. CASE m \notin Active
  BY <1>3 DEF UnloadOf, TypeOK
<1> QED
  BY <1>2, <1>3

LEMMA UnloadKeeps ==
    ASSUME TypeOK, Registered, Capacity, NEW m, UnloadOf(m),
           UNCHANGED <<known, joinable, reloading, told, out, monitor>>
    PROVE  Kept
<1>1. RestOK'
  BY UnloadFacts, TypeParts DEF RestOK
<1>2. Active' = Active
  BY UnloadFacts DEF Active
<1>3. Registered'
  BY UnloadFacts, <1>2 DEF Registered, Managed
<1>4. Capacity'
  BY <1>2 DEF Capacity
<1> QED
  BY <1>1, <1>3, <1>4, UnloadFacts DEF Kept

LEMMA HandlerKeeps ==
    ASSUME TypeOK, Serving, Registered, Capacity, NEW h \in Http, Handler(h)
    PROVE  Kept
<1>1. CASE Unload(h)
  BY <1>1, UnloadKeeps DEF Unload
<1>2. CASE HasModel(h) \/ NoVictim(h) \/ PickVictim(h) \/ LoadingOver(h) \/ Proxied(h)
  BY <1>2, NothingMoves DEF HasModel, NoVictim, PickVictim, LoadingOver, Proxied
<1>3. CASE Evict(h)
  BY <1>3, UnloadKeeps DEF Evict
<1>4. CASE Evicted(h)
  <2>1. http[h].victim \in Model
    BY <1>4, AtModel DEF Evicted
  <2>2. RestOK'
    BY <1>4, <2>1, TypeParts DEF RestOK, Evicted, process
  <2>3. Active' = Active
    BY <1>4, <2>1 DEF Evicted, Active, Registered
  <2>4. Registered'
    BY <1>4, <2>3 DEF Registered, Managed, Evicted, process
  <2> QED
    BY <1>4, <2>2, <2>3, <2>4 DEF Kept, Capacity, Evicted
<1>5. CASE LoadRefused(h)
  <2>1. http[h].model \in Model
    BY <1>5, AtModel DEF LoadRefused
  <2>2. RestOK'
    BY <1>5, <2>1, TypeParts DEF RestOK, LoadRefused, process
  <2>3. Active' = Active
    BY <1>5, <2>1 DEF LoadRefused, Active, Registered
  <2>4. Registered'
    BY <1>5, <2>3 DEF Registered, Managed, LoadRefused, process
  <2> QED
    BY <1>5, <2>2, <2>3, <2>4 DEF Kept, Capacity, LoadRefused
<1>6. CASE Spawn(h)
  <2> DEFINE m == http[h].model
  <2>1. m \in Model
    BY <1>6, AtModel DEF Spawn
  <2>2. RestOK'
    <3>1. out' \in [Model -> Seq({"ready", "sleep"})] /\ \A n \in Model : Len(out'[n]) <= PipeBound
      BY <1>6, <2>1, RouterAssumption DEF Spawn, TypeOK
    <3> QED
      BY <1>6, <2>1, <3>1, TypeParts DEF RestOK, Spawn, ChildState, Alive
  <2>3. Active' = Active \cup {m}
    BY <1>6, <2>1 DEF Spawn, Active, Registered, TypeOK
  <2>4. Registered'
    <3>1. \A n \in Model : Managed(n)' <=> n \in Active'
      BY <1>6, <2>1, <2>3 DEF Registered, Managed, Spawn, TypeOK
    <3>2. \A n \in Model \ known' : status'[n] = "unloaded"
      BY <1>6, <2>1 DEF Registered, Spawn, TypeOK
    <3>3. \A n \in Model : child'[n] \in Alive => monitor'[n] = "reading"
      BY <1>6, <2>1 DEF Registered, Spawn, TypeOK
    <3>4. up' = "up" => Active' \subseteq joinable'
      BY <1>6, <2>3 DEF Registered, Spawn
    <3> QED
      BY <3>1, <3>2, <3>3, <3>4 DEF Registered
  <2>5. Capacity'
    BY <1>6, <2>1, <2>3, OneMoreRuns DEF Capacity, Spawn
  <2> QED
    BY <1>6, <2>2, <2>4, <2>5 DEF Kept, Spawn
<1>7. CASE ReloadUnload(h)
  BY <1>7, UnloadKeeps DEF ReloadUnload
<1>8. CASE ReloadSettled(h)
  <2>1. RestOK'
    BY <1>8, TypeParts DEF RestOK, ReloadSettled, process
  <2>2. Active' = Active
    BY <1>8 DEF ReloadSettled, Active
  <2>3. Registered'
    BY <1>8, <2>2 DEF Registered, Managed, ReloadSettled, process
  <2> QED
    BY <1>8, <2>1, <2>2, <2>3 DEF Kept, Capacity, ReloadSettled
<1>9. CASE Rebuild(h) /\ (known \ http[h].keep) \cap joinable # {}
  <2>1. RestOK'
    BY <1>9, TypeParts DEF RestOK, Rebuild, process
  <2>2. Active' = Active
    BY <1>9 DEF Rebuild, Active
  <2>3. Registered'
    BY <1>9, <2>2 DEF Registered, Managed, Rebuild, process
  <2> QED
    BY <1>9, <2>1, <2>2, <2>3 DEF Kept, Capacity, Rebuild
<1>10. CASE Rebuild(h) /\ (known \ http[h].keep) \cap joinable = {}
  <2>1. up = "up" /\ http[h].keep \subseteq Model
    BY <1>10, AtModel DEF Rebuild, TypeOK
  <2>2. RestOK'
    BY <1>10, <2>1, TypeParts DEF RestOK, Rebuild, process
  <2>3. Active' = Active
    BY <1>10, <2>1 DEF Rebuild, Active, Registered, TypeOK
  <2>4. Registered'
    BY <1>10, <2>1, <2>3 DEF Registered, Managed, Rebuild, process, Active, TypeOK
  <2> QED
    BY <1>10, <2>2, <2>3, <2>4 DEF Kept, Capacity, Rebuild
<1> QED
  BY <1>1, <1>2, <1>3, <1>4, <1>5, <1>6, <1>7, <1>8, <1>9, <1>10 DEF Handler

LEMMA StopNotifiedType ==
    ASSUME TypeOK
    PROVE  StopNotified \in [Model -> {"none", "check", "asleep", "act", "grace", "over"}]
BY DEF StopNotified, TypeOK

LEMMA ManagerKeeps ==
    ASSUME TypeOK, Registered, Capacity, NEW m \in Model, LogThread(m) \/ Manager(m)
    PROVE  Kept
<1>1. CASE ReadLine(m)
  <2>1. Head(out[m]) \in {"ready", "sleep"} /\ Tail(out[m]) \in Seq({"ready", "sleep"})
    BY <1>1 DEF ReadLine, TypeOK
  <2>2. Len(Tail(out[m])) <= PipeBound
    BY <1>1, RouterAssumption DEF ReadLine, TypeOK
  <2>3. RestOK'
    BY <1>1, <2>1, <2>2, TypeParts DEF RestOK, ReadLine
  <2>4. m \in known => m \in Active
    BY <1>1 DEF ReadLine, Registered, Managed
  <2>5. Active' = Active
    BY <1>1, <2>4 DEF ReadLine, Active, TypeOK
  <2>6. Registered'
    BY <1>1, <2>5 DEF Registered, Managed, ReadLine, TypeOK
  <2> QED
    BY <1>1, <2>3, <2>5, <2>6 DEF Kept, Capacity, ReadLine
<1>2. CASE ReadEnd(m) \/ Clean(m) \/ JoinStopper(m)
  <2>1. RestOK'
    BY <1>2, StopNotifiedType, TypeParts DEF RestOK, ReadEnd, Clean, JoinStopper, registry, process
  <2>2. Active' = Active
    BY <1>2 DEF Active, ReadEnd, Clean, JoinStopper, registry
  <2>3. \A n \in Model : Managed(n)' <=> Managed(n)
    BY <1>2 DEF Managed, ReadEnd, Clean, JoinStopper, TypeOK
  <2>4. \A n \in Model : child'[n] \in Alive => monitor'[n] = "reading"
    BY <1>2 DEF Registered, ReadEnd, Clean, JoinStopper, process, TypeOK
  <2>5. Registered'
    BY <1>2, <2>2, <2>3, <2>4 DEF Registered, ReadEnd, Clean, JoinStopper, registry
  <2> QED
    BY <1>2, <2>1, <2>2, <2>5 DEF Kept, Capacity, ReadEnd, Clean, JoinStopper
<1>3. CASE Reap(m)
  <2>1. RestOK'
    BY <1>3, TypeParts DEF RestOK, Reap, registry, ChildState
  <2>2. Active' = Active
    BY <1>3 DEF Active, Reap, registry
  <2>3. Registered'
    BY <1>3, <2>2 DEF Registered, Managed, Reap, registry, TypeOK, Alive
  <2> QED
    BY <1>3, <2>1, <2>2, <2>3 DEF Kept, Capacity, Reap
<1>4. CASE SetUnloaded(m)
  <2>1. RestOK'
    BY <1>4, TypeParts DEF RestOK, SetUnloaded, process
  <2>2. m \in Active
    BY <1>4 DEF SetUnloaded, Registered, Managed
  <2>3. Active' = Active \ {m}
    BY <1>4, <2>2 DEF SetUnloaded, Active, TypeOK
  <2>4. \A n \in Model : Managed(n)' <=> (Managed(n) /\ n # m)
    BY <1>4 DEF SetUnloaded, Managed, TypeOK
  <2>5. \A n \in Model \ known' : status'[n] = "unloaded"
    BY <1>4 DEF SetUnloaded, Registered, TypeOK
  <2>6. \A n \in Model : child'[n] \in Alive => monitor'[n] = "reading"
    BY <1>4 DEF SetUnloaded, Registered, process, TypeOK
  <2>7. Registered'
    BY <1>4, <2>3, <2>4, <2>5, <2>6 DEF SetUnloaded, Registered
  <2>8. Capacity'
    BY <2>3, FewerRun DEF Capacity
  <2> QED
    BY <1>4, <2>1, <2>7, <2>8 DEF Kept, SetUnloaded
<1> QED
  BY <1>1, <1>2, <1>3, <1>4 DEF LogThread, Manager

\* The stopping thread and the child leave the mapping and the managing thread
\* alone, and no step of theirs starts a child.
LEMMA ProcessKeeps ==
    ASSUME TypeOK, Registered, Capacity, RestOK',
           UNCHANGED <<up, registry, monitor>>,
           \A n \in Model : child'[n] \in Alive => child[n] \in Alive
    PROVE  Kept
<1>1. Active' = Active
  BY DEF Active, registry
<1>2. Registered'
  BY <1>1 DEF Registered, Managed, registry
<1> QED
  BY <1>1, <1>2 DEF Kept, Capacity

LEMMA StopperKeeps ==
    ASSUME TypeOK, Registered, Capacity, NEW m \in Model, Stopper(m)
    PROVE  Kept
<1>1. UNCHANGED <<up, registry, monitor>>
  BY DEF Stopper, StopperCheck, StopperAct, StopperDone, ForceKill
<1>2. child' = child \/ \E to \in {"reaped", "ended", "zombie"} : child' = [child EXCEPT ![m] = to]
  <2>1. CASE StopperCheck(m) \/ StopperAct(m)
    BY <2>1 DEF StopperCheck, StopperAct
  <2>2. CASE StopperDone(m)
    BY <2>2 DEF StopperDone, process
  <2>3. CASE ForceKill(m)
    <3>1. CASE child[m] \in Alive
      BY <2>3, <3>1 DEF ForceKill, Dead
    <3>2. CASE child[m] \notin Alive
      BY <2>3, <3>2 DEF ForceKill, TypeOK
    <3> QED
      BY <3>1, <3>2
  <2> QED
    BY <2>1, <2>2, <2>3 DEF Stopper
<1>3. /\ child' \in [Model -> ChildState]
      /\ \A n \in Model : child'[n] \in Alive => child[n] \in Alive
  <2>1. CASE child' = child
    BY <2>1 DEF TypeOK
  <2>2. ASSUME NEW to \in {"reaped", "ended", "zombie"}, child' = [child EXCEPT ![m] = to]
        PROVE  /\ child' \in [Model -> ChildState]
               /\ \A n \in Model : child'[n] \in Alive => child[n] \in Alive
    <3>1. to \in ChildState /\ to \notin Alive
      BY DEF Alive, ChildState
    <3> QED
      BY <2>2, <3>1 DEF TypeOK
  <2> QED
    BY <1>2, <2>1, <2>2
<1>4. told' \subseteq Model /\ out' = out
  BY DEF Stopper, StopperCheck, StopperAct, StopperDone, ForceKill, process, TypeOK
<1>5. stopper' \in [Model -> {"none", "check", "asleep", "act", "grace", "over"}]
  BY DEF Stopper, StopperCheck, StopperAct, StopperDone, ForceKill, TypeOK
<1>6. RestOK'
  BY <1>1, <1>3, <1>4, <1>5, TypeParts DEF RestOK, registry
<1> QED
  BY <1>1, <1>3, <1>6, ProcessKeeps

LEMMA ChildKeeps ==
    ASSUME TypeOK, Registered, Capacity, NEW m \in Model, Child(m)
    PROVE  Kept
<1>1. PICK from \in SUBSET (Alive \cup {"ended"}), to \in ChildState :
        Becomes(m, from, to) /\ (to \in Alive => from \subseteq Alive)
  BY DEF Child, Boot, Doze, WakeUp, Obey, Crash, Waitable, Dead, Alive, ChildState
<1>2. out' = out \/ \E line \in {"ready", "sleep"} : Writes(m, line)
  BY DEF Child, Boot, Doze, WakeUp, Obey, Crash, Waitable
<1>3. out' \in [Model -> Seq({"ready", "sleep"})] /\ \A n \in Model : Len(out'[n]) <= PipeBound
  <2>1. CASE out' = out
    BY <2>1 DEF TypeOK
  <2>2. ASSUME NEW line \in {"ready", "sleep"}, Writes(m, line)
        PROVE  out' \in [Model -> Seq({"ready", "sleep"})] /\ \A n \in Model : Len(out'[n]) <= PipeBound
    <3>1. out[m] \in Seq({"ready", "sleep"}) /\ Len(out[m]) < PipeBound
      BY <2>2 DEF Writes, TypeOK
    <3>2. /\ Append(out[m], line) \in Seq({"ready", "sleep"})
          /\ Len(Append(out[m], line)) <= PipeBound
      BY <3>1, RouterAssumption
    <3> QED
      BY <2>2, <3>2 DEF Writes, TypeOK
  <2> QED
    BY <1>2, <2>1, <2>2
<1>4. RestOK'
  BY <1>1, <1>3, TypeParts DEF RestOK, Becomes, registry
<1>5. \A n \in Model : child'[n] \in Alive => child[n] \in Alive
  BY <1>1 DEF Becomes, TypeOK
<1>6. UNCHANGED <<up, registry, monitor>>
  BY <1>1 DEF Becomes
<1> QED
  BY <1>4, <1>5, <1>6, ProcessKeeps

----------------------------------------------------------------------------
(* The invariant *)

LEMMA InitInv == Init => IInv
<1> SUFFICES ASSUME Init PROVE IInv
  OBVIOUS
<1>1. TypeOK
  <2>1. out \in [Model -> Seq({"ready", "sleep"})] /\ \A m \in Model : Len(out[m]) = 0
    BY DEF Init
  <2>2. child \in [Model -> ChildState]
    BY DEF Init, ChildState
  <2>3. RestOK
    <3>1. \A m \in Model : Len(out[m]) <= PipeBound
      BY <2>1, RouterAssumption
    <3>2. /\ stopper \in [Model -> {"none", "check", "asleep", "act", "grace", "over"}]
          /\ monitor \in [Model -> {"none", "reading", "clean", "join", "reap", "status", "over"}]
          /\ status \in [Model -> {"unloaded", "loading", "loaded", "sleeping"}]
      BY DEF Init
    <3> QED
      BY <2>1, <2>2, <3>1, <3>2 DEF Init, RestOK
  <2>4. http \in [Http -> Jobs]
    BY FreeType DEF Init
  <2> QED
    BY <2>3, <2>4, TypeParts DEF Init
<1>2. Serving
  BY FreeType DEF Init, Serving
<1>3. Active = {}
  BY DEF Init, Active
<1>4. Registered
  BY <1>3 DEF Init, Registered, Managed, Alive
<1>5. Capacity
  BY <1>3, FS_EmptySet, RouterAssumption DEF Capacity
<1> QED
  BY <1>1, <1>2, <1>4, <1>5 DEF IInv

\* A step of an HTTP thread, and one of anything else.
LEMMA MoveStep ==
    ASSUME IInv, NEW h \in Http, Moves(h), Kept, up = "up", UNCHANGED work
    PROVE  IInv'
<1>1. PICK j \in Jobs : Named(j) /\ http' = [http EXCEPT ![h] = j]
  BY DEF Moves
<1>2. TypeOK'
  <2>1. http' \in [Http -> Jobs]
    BY <1>1, TypeParts DEF IInv
  <2>2. RestOK' /\ work' \in Workloads
    BY TypeParts DEF Kept, IInv
  <2> QED
    BY <2>1, <2>2, TypeParts DEF TypeOK, RestOK, Jobs
<1>3. Serving'
  <2>1. \A k \in Http : Named(http'[k])
    BY <1>1 DEF IInv, Serving, TypeOK
  <2> QED
    BY <2>1 DEF Serving, Named, Kept
<1> QED
  BY <1>2, <1>3 DEF IInv, Kept

LEMMA StillStep ==
    ASSUME IInv, Kept, UNCHANGED <<http, work>>
    PROVE  IInv'
<1>1. TypeOK'
  BY TypeParts DEF Kept, IInv, TypeOK, RestOK, Jobs
<1>2. Serving'
  BY DEF IInv, Serving, Named, Kept
<1> QED
  BY <1>1, <1>2 DEF IInv, Kept

LEMMA NextStep == IInv /\ [Next]_vars => IInv'
<1> SUFFICES ASSUME IInv, [Next]_vars PROVE IInv'
  OBVIOUS
<1> USE DEF IInv
<1>1. ASSUME NEW h \in Http, NEW m \in Model, NEW op \in {"proxy", "load", "unload"},
             Begin(h, m, op), UNCHANGED work
      PROVE  IInv'
  BY <1>1, BeginMoves, NothingMoves, MoveStep DEF Begin
<1>2. ASSUME NEW h \in Http, Reload(h), UNCHANGED work
      PROVE  IInv'
  <2>1. RestOK'
    BY <1>2, TypeParts DEF RestOK, Reload, process
  <2>2. Registered'
    BY <1>2 DEF Registered, Managed, Active, Reload, process
  <2>3. Capacity'
    BY <1>2 DEF Capacity, Active, Reload
  <2>4. Kept /\ up = "up"
    BY <1>2, <2>1, <2>2, <2>3 DEF Kept, Reload
  <2> QED
    BY <1>2, <2>4, ReloadMoves, MoveStep
<1>3. ASSUME NEW h \in Http, Handler(h), UNCHANGED work
      PROVE  IInv'
  <2>1. http[h].pc # "idle" /\ Live
    BY <1>3 DEF Handler, At, Unload, HasModel, NoVictim, PickVictim, Evict, Evicted, LoadRefused,
                Spawn, LoadingOver, Proxied, ReloadUnload, ReloadSettled, Rebuild
  <2>2. up = "up"
    BY <2>1 DEF Serving, Live
  <2> QED
    BY <1>3, <2>2, HandlerMoves, HandlerKeeps, MoveStep
<1>4. ASSUME NEW m \in Model, LogThread(m) \/ Manager(m), UNCHANGED work
      PROVE  IInv'
  <2>1. UNCHANGED http
    BY <1>4 DEF LogThread, Manager, ReadLine, ReadEnd, Clean, JoinStopper, Reap, SetUnloaded
  <2> QED
    BY <1>4, <2>1, ManagerKeeps, StillStep
<1>5. ASSUME NEW m \in Model, Stopper(m), UNCHANGED work
      PROVE  IInv'
  <2>1. UNCHANGED http
    BY <1>5 DEF Stopper, StopperCheck, StopperAct, StopperDone, ForceKill
  <2> QED
    BY <1>5, <2>1, StopperKeeps, StillStep
<1>6. ASSUME NEW m \in Model, Child(m), UNCHANGED work
      PROVE  IInv'
  <2>1. UNCHANGED http
    BY <1>6 DEF Child, Boot, Doze, WakeUp, Obey, Crash, Waitable, Becomes
  <2> QED
    BY <1>6, <2>1, ChildKeeps, StillStep
<1>7. CASE UnloadAll /\ UNCHANGED work
  <2>1. RestOK'
    BY <1>7, StopNotifiedType, TypeParts DEF RestOK, UnloadAll, process, Active
  <2>2. Active' = Active
    BY <1>7 DEF UnloadAll, Active
  <2>3. Registered'
    BY <1>7, <2>2 DEF Registered, Managed, UnloadAll, process
  <2>4. TypeOK'
    BY <1>7, <2>1, TypeParts DEF TypeOK, RestOK, Jobs, UnloadAll
  <2>5. Serving'
    BY <1>7 DEF Serving, Named, UnloadAll
  <2> QED
    BY <2>2, <2>3, <2>4, <2>5 DEF Capacity
<1>8. CASE (Joined \/ Halted) /\ UNCHANGED work
  <2>1. RestOK'
    BY <1>8, TypeParts DEF RestOK, Joined, Halted, registry, process
  <2>2. Active' = Active
    BY <1>8 DEF Joined, Halted, Active, registry
  <2>3. Registered'
    BY <1>8, <2>2 DEF Registered, Managed, Joined, Halted, registry, process
  <2>4. Kept
    BY <1>8, <2>1, <2>2, <2>3 DEF Kept, Capacity, Joined, Halted
  <2> QED
    BY <1>8, <2>4, StillStep DEF Joined, Halted
<1>9. CASE UNCHANGED vars
  BY <1>9, NothingMoves, StillStep DEF vars, registry, process
<1> QED
  BY <1>1, <1>2, <1>3, <1>4, <1>5, <1>6, <1>7, <1>8, <1>9 DEF Next

LEMMA Inductive == Spec => []IInv
BY InitInv, NextStep, PTL DEF Spec

----------------------------------------------------------------------------
(* Theorems *)

\* The limit on model instances (--models-max) is kept for any number of models
\* and requests: load() looks again under the lock, and nothing else makes a model
\* run, not even the mapping of a reload (Capacity).
THEOREM LimitKept == Spec => []Capacity
<1>1. IInv => Capacity
  BY DEF IInv
<1> QED
  BY <1>1, Inductive, PTL

\* No child process is lost: one that is alive belongs to a model of the mapping
\* that runs, so it counts and can be stopped; and every variable keeps its type
\* (AliveIsRunning).
THEOREM NoChildLost == Spec => []AliveIsRunning
<1>1. IInv => AliveIsRunning
  BY DEF IInv, Registered, AliveIsRunning, Managed
<1> QED
  BY <1>1, Inductive, PTL

-----------------------------------------------------------------------------
(* CommonLog: every message is printed once and in order *)

Busy == worker \in {"take", "print", "write"}

\* The number of entries in the ring and the position of one, without "%".
Used     == IF tail >= head THEN tail - head ELSE tail - head + Size
Place(i) == IF head + i - 1 < Size THEN head + i - 1 ELSE head + i - 1 - Size

\* Messages that were printed or are about to be, and those that are left.
Shown == Len(printed) + IF worker = "print" THEN 1 ELSE 0
Left  == Len(accepted) - Shown

Ring == Size \in Nat \ {0} /\ DOMAIN entries = 0 .. Size - 1

Control ==
    /\ running => call = "idle" /\ Busy
    /\ ~running => (Joining <=> worker # "none")
    /\ worker \in {"ended", "none"} => head = tail

Printed ==
    /\ Shown <= Len(accepted)
    /\ \A i \in 1 .. Len(printed) : printed[i] = accepted[i]
    /\ worker = "print" => cur = accepted[Len(printed) + 1]
    /\ worker = "write" => since < Len(printed) /\ cur = printed[Len(printed)]
    /\ worker \in {"ended", "none"} => Left = 0

\* After an entry of pause() that made the full ring look empty nothing is taken.
Line ==
    running \/ (Busy /\ head # tail) =>
        /\ Used = Left + IF running THEN 0 ELSE 1
        /\ \A i \in 1 .. Left : entries[Place(i)] = accepted[Shown + i]
        /\ ~running => entries[Place(Used)] = Stop

LInv == LogTypeOK /\ Ring /\ Control /\ Printed /\ Line /\ FileFollows

----------------------------------------------------------------------------
(* The ring *)

\* "%" within one turn of the ring, either way.
LEMMA Modulo ==
  ASSUME NEW n \in Nat \ {0}, NEW x \in Int
  PROVE  /\ 0 <= x /\ x < n => x % n = x
         /\ n <= x /\ x < 2 * n => x % n = x - n
         /\ -n <= x /\ x < 0 => x % n = x + n
  <1> DEFINE q == x \div n
             r == x % n
  <1>1. x = n * q + r /\ r \in 0 .. n - 1 /\ q \in Int
    OBVIOUS
  <1>2. 0 <= x /\ x < n => q = 0
    BY <1>1
  <1>3. n <= x /\ x < 2 * n => q = 1
    BY <1>1
  <1>4. -n <= x /\ x < 0 => q = -1
    BY <1>1
  <1> QED BY <1>1, <1>2, <1>3, <1>4

\* A place and a distance from it wrap once at most.
LEMMA Wraps ==
  ASSUME NEW n \in Nat \ {0}, NEW h \in 0 .. n - 1, NEW i \in 0 .. n, NEW x, x = h + i
  PROVE  x % n = IF h + i < n THEN h + i ELSE h + i - n
  <1>1. x \in Int /\ 0 <= x /\ x < 2 * n
    OBVIOUS
  <1>2. /\ 0 <= x /\ x < n => x % n = x
        /\ n <= x /\ x < 2 * n => x % n = x - n
    BY <1>1, Modulo, Zenon
  <1>3. x % n = IF x < n THEN x ELSE x - n
    BY <1>1, <1>2
  <1> QED BY <1>1, <1>3

\* The same for the i-th entry.
LEMMA PlaceWraps ==
  ASSUME NEW n \in Nat \ {0}, NEW h \in 0 .. n - 1, NEW i \in 1 .. n
  PROVE  (h + i - 1) % n = IF h + i - 1 < n THEN h + i - 1 ELSE h + i - 1 - n
  <1>1. h + i - 1 = h + (i - 1) /\ i - 1 \in 0 .. n
    OBVIOUS
  <1>2. (h + i - 1) % n = IF h + (i - 1) < n THEN h + (i - 1) ELSE h + (i - 1) - n
    BY <1>1, Wraps, Zenon
  <1> QED BY <1>1, <1>2

\* A ring has as many entries as positions from 0.
LEMMA SizeOf ==
  ASSUME NEW f, NEW n \in Nat \ {0}, DOMAIN f = 0 .. n - 1
  PROVE  Cardinality(DOMAIN f) = n
  <1>1. 0 \in Int /\ n - 1 \in Int
    OBVIOUS
  <1> QED BY <1>1, FS_Interval

\* Positions without "%"; the i-th entries have different ones.
LEMMA RingFacts ==
  ASSUME LogTypeOK, Ring
  PROVE  /\ head \in 0 .. Size - 1 /\ tail \in 0 .. Size - 1
         /\ (tail - head) % Size = Used /\ Used \in 0 .. Size - 1
         /\ (head = tail <=> Used = 0)
         /\ (head + 1) % Size = (IF head + 1 < Size THEN head + 1 ELSE 0)
         /\ (tail + 1) % Size = (IF tail + 1 < Size THEN tail + 1 ELSE 0)
         /\ \A i \in 1 .. Size : Place(i) \in 0 .. Size - 1 /\ (head + i - 1) % Size = Place(i)
         /\ Place(1) = head /\ Place(Used + 1) = tail
         /\ \A i, j \in 1 .. Size : i # j => Place(i) # Place(j)
  <1>1. head \in 0 .. Size - 1 /\ tail \in 0 .. Size - 1 /\ Size \in Nat \ {0}
    BY DEF LogTypeOK, Ring
  <1> DEFINE n == Size
  <1>2. n = Size
    OBVIOUS
  <1> HIDE DEF n
  <1>3. head \in 0 .. n - 1 /\ tail \in 0 .. n - 1 /\ n \in Nat \ {0}
    BY <1>1, <1>2
  <1>4. (tail - head) % n = (IF tail >= head THEN tail - head ELSE tail - head + n)
    <2>1. PICK x \in Int : x = tail - head
      BY <1>3
    <2>2. -n <= x /\ x < n
      BY <1>3, <2>1
    <2>3. /\ 0 <= x /\ x < n => x % n = x
          /\ -n <= x /\ x < 0 => x % n = x + n
      BY <1>3, Modulo, Zenon
    <2>4. x % n = IF 0 <= x THEN x ELSE x + n
      BY <1>3, <2>2, <2>3
    <2> QED BY <1>3, <2>1, <2>4
  <1>5. (head + 1) % n = (IF head + 1 < n THEN head + 1 ELSE 0)
    BY <1>3, Modulo
  <1>6. (tail + 1) % n = (IF tail + 1 < n THEN tail + 1 ELSE 0)
    BY <1>3, Modulo
  <1>7. \A i \in 1 .. n : (head + i - 1) % n = (IF head + i - 1 < n THEN head + i - 1 ELSE head + i - 1 - n)
    BY <1>3, PlaceWraps
  <1>8. Used \in 0 .. n - 1 /\ (head = tail <=> Used = 0)
    BY <1>2, <1>3 DEF Used
  <1>9. \A i \in 1 .. n : Place(i) \in 0 .. n - 1 /\ \A j \in 1 .. n : i # j => Place(i) # Place(j)
    BY <1>2, <1>3 DEF Place
  <1>10. Place(1) = head /\ Place(Used + 1) = tail
    BY <1>2, <1>3 DEF Place, Used
  <1> QED BY <1>1, <1>2, <1>4, <1>5, <1>6, <1>7, <1>8, <1>9, <1>10 DEF Used, Place

\* Types of lengths and elements.
LEMMA LenFacts ==
  ASSUME LogTypeOK
  PROVE  /\ Len(printed) \in Nat /\ Len(accepted) \in Nat /\ since \in Nat /\ since <= Len(printed)
         /\ Shown \in Nat /\ Left \in Int
         /\ \A i \in 1 .. Len(accepted) : accepted[i] \in Message /\ ~accepted[i].is_end
         /\ \A i \in 1 .. Len(printed) : printed[i] \in Message
  <1>1. Len(printed) \in Nat /\ Len(accepted) \in Nat
    BY LenProperties DEF LogTypeOK
  <1>2. \A i \in 1 .. Len(accepted) : accepted[i] \in Message
    BY ElementOfSeq DEF LogTypeOK
  <1>3. \A i \in 1 .. Len(printed) : printed[i] \in Message
    BY ElementOfSeq DEF LogTypeOK
  <1>4. \A m \in Message : ~m.is_end
    BY DEF Message
  <1>5. since \in 0 .. Len(printed)
    BY DEF LogTypeOK
  <1>6. Shown \in Nat /\ Left \in Int
    BY <1>1 DEF Shown, Left
  <1> QED BY <1>1, <1>2, <1>3, <1>4, <1>5, <1>6

\* The empty ring.
LEMMA InitLog == LogInit => LInv
  <1> SUFFICES ASSUME LogInit PROVE LInv
    OBVIOUS
  <1>1. InitialCapacity \in Nat \ {0} /\ DOMAIN entries = 0 .. InitialCapacity - 1
    BY LogAssumption DEF LogInit
  <1>2. Size = InitialCapacity
    BY <1>1, SizeOf DEF Size
  <1>3. Ring
    BY <1>1, <1>2 DEF Ring
  <1>4. Len(printed) = 0 /\ Len(accepted) = 0 /\ <<>> \in Seq(Message)
    BY EmptySeq DEF LogInit
  <1>5. LogTypeOK
    <2>1. entries \in [0 .. Size - 1 -> Message \cup {Stop, Blank}] /\ head \in DOMAIN entries /\ tail \in DOMAIN entries
      BY <1>1, <1>2 DEF LogInit
    <2>2. said \in [Thread -> 0 .. Messages] /\ calls \in 0 .. Calls
      BY LogAssumption DEF LogInit
    <2>3. since \in 0 .. Len(printed)
      BY <1>4 DEF LogInit
    <2> QED BY <1>4, <2>1, <2>2, <2>3 DEF LogInit, LogTypeOK
  <1>6. Control /\ FileFollows
    BY DEF LogInit, Control, Busy, FileFollows
  <1>7. Printed /\ Line
    BY <1>3, <1>4, <1>5, RingFacts DEF LogInit, Printed, Line, Shown, Left
  <1> QED BY <1>3, <1>5, <1>6, <1>7 DEF LInv

----------------------------------------------------------------------------
(* add() *)

\* A message goes behind the others, in the same ring or in one of twice the size.
LEMMA AddLog ==
  ASSUME LInv, NEW t \in Thread, Add(t)
  PROVE  LInv'
  <1> USE DEF LInv
  <1>1. /\ UNCHANGED <<running, cur, worker, call, calls, file, since, printed, written>>
        /\ said' = [said EXCEPT ![t] = said[t] + 1] /\ said[t] < Messages
    BY DEF Add, control, output
  <1>2. said[t] \in 0 .. Messages /\ Messages \in Nat
    BY LogAssumption DEF LogTypeOK
  <1>3. said[t] + 1 \in 0 .. Messages /\ said[t] + 1 \in 1 .. Messages
    BY <1>1, <1>2
  <1>7. said' \in [Thread -> 0 .. Messages]
    BY <1>1, <1>3 DEF LogTypeOK
  <1>8. PICK m \in Message : m = [by |-> t, n |-> said[t] + 1, is_end |-> FALSE]
    BY <1>3 DEF Message
  <1>9. PICK e : e = [entries EXCEPT ![tail] = m]
    OBVIOUS
  <1>10. /\ tail \in DOMAIN entries /\ DOMAIN e = DOMAIN entries /\ e[tail] = m
         /\ \A i \in DOMAIN entries : i # tail => e[i] = entries[i]
    BY <1>9 DEF LogTypeOK
  <1>4. FileFollows'
    BY <1>1 DEF FileFollows
  <1>5. CASE ~running
    <2>1. UNCHANGED <<entries, head, tail, accepted>>
      BY <1>5 DEF Add, ring
    <2>2. LogTypeOK' /\ Ring' /\ Control'
      BY <1>1, <1>7, <2>1 DEF LogTypeOK, Ring, Control, Busy, Joining, Size
    <2>3. Printed' /\ Line'
      BY <1>1, <2>1 DEF Printed, Line, Shown, Left, Used, Place, Busy, Size
    <2> QED BY <1>4, <2>2, <2>3
  <1>6. CASE running
    <2>1. /\ accepted' = Append(accepted, m)
          /\ IF (tail + 1) % Size = head THEN Grow(e)
             ELSE entries' = e /\ tail' = (tail + 1) % Size /\ head' = head
      BY <1>6, <1>8, <1>9 DEF Add
    <2>2. /\ accepted' \in Seq(Message) /\ Len(accepted') = Len(accepted) + 1
          /\ accepted'[Len(accepted) + 1] = m
          /\ \A i \in 1 .. Len(accepted) : accepted'[i] = accepted[i]
      BY <2>1, LenFacts, AppendProperties DEF LogTypeOK
    <2>3. Shown' = Shown /\ Left' = Left + 1 /\ Shown \in Nat /\ Left \in Nat /\ Shown + Left = Len(accepted)
      BY <1>1, <2>2, LenFacts DEF Shown, Left, Printed
    <2>4. Used = Left /\ \A i \in 1 .. Left : entries[Place(i)] = accepted[Shown + i]
      BY <1>6, <2>3 DEF Line
    <2>5. Control'
      BY <1>1, <1>6 DEF Control, Busy, Joining
    <2>6. Printed'
      <3>1. Len(printed) \in Nat /\ Len(accepted) \in Nat /\ Len(printed) <= Len(accepted)
        BY LenFacts DEF Printed, Shown
      <3>2. \A i \in 1 .. Len(printed) : printed[i] = accepted'[i]
        BY <2>2, <3>1 DEF Printed
      <3>3. worker = "print" => cur = accepted'[Len(printed) + 1]
        BY <2>2, <3>1 DEF Printed, Shown
      <3>4. worker \notin {"ended", "none"}
        BY <1>6 DEF Control, Busy
      <3>5. Shown' <= Len(accepted')
        BY <2>2, <2>3
      <3> QED BY <1>1, <3>2, <3>3, <3>4, <3>5 DEF Printed
    <2>7. ASSUME Used' = Left', \A i \in 1 .. Left' : entries'[Place(i)'] = IF i = Left' THEN m ELSE entries[Place(i)]
          PROVE  Line'
      <3>1. ASSUME NEW i \in 1 .. Left' PROVE entries'[Place(i)'] = accepted'[Shown' + i]
        <4>1. CASE i = Left'
          <5>1. Shown' + i = Len(accepted) + 1
            BY <2>3, <4>1
          <5>2. entries'[Place(i)'] = m
            BY <2>7, <3>1, <4>1
          <5> QED BY <2>2, <5>1, <5>2
        <4>2. CASE i # Left'
          <5>1. i \in 1 .. Left /\ Shown + i \in 1 .. Len(accepted)
            BY <2>3, <4>2
          <5> QED BY <2>2, <2>3, <2>4, <2>7, <4>2, <5>1
        <4> QED BY <4>1, <4>2
      <3> QED BY <1>1, <1>6, <2>3, <2>7, <3>1 DEF Line
    <2>8. CASE (tail + 1) % Size # head
      <3>1. entries' = e /\ tail' = (IF tail + 1 < Size THEN tail + 1 ELSE 0) /\ head' = head
        BY <2>1, <2>8, RingFacts
      <3>2. Size' = Size /\ DOMAIN entries' = DOMAIN entries
        BY <1>10, <3>1 DEF Size
      <3>3. LogTypeOK' /\ Ring'
        <4>1. tail' \in 0 .. Size - 1 /\ head' \in 0 .. Size - 1 /\ DOMAIN entries = 0 .. Size - 1
          <5>1. /\ tail \in 0 .. Size - 1 /\ head \in 0 .. Size - 1 /\ Size \in Nat \ {0}
                /\ DOMAIN entries = 0 .. Size - 1
            BY RingFacts DEF Ring
          <5> QED BY <3>1, <5>1
        <4>2. entries' \in [0 .. Size - 1 -> Message \cup {Stop, Blank}]
          BY <1>9, <3>1 DEF LogTypeOK
        <4> QED BY <1>1, <1>7, <2>2, <3>2, <4>1, <4>2 DEF LogTypeOK, Ring
      <3>4. \A i : Place(i)' = Place(i)
        BY <3>1, <3>2 DEF Place
      <3>5. Used' = Used + 1
        <4>1. /\ tail \in 0 .. Size - 1 /\ head \in 0 .. Size - 1 /\ Size \in Nat \ {0}
              /\ (IF tail + 1 < Size THEN tail + 1 ELSE 0) # head
          BY <2>8, RingFacts DEF Ring
        <4> QED BY <3>1, <3>2, <4>1 DEF Used
      <3>6. \A i \in 1 .. Left' : entries'[Place(i)'] = IF i = Left' THEN m ELSE entries[Place(i)]
        <4>1. ASSUME NEW i \in 1 .. Left' PROVE entries'[Place(i)] = IF i = Left' THEN m ELSE entries[Place(i)]
          <5>1. i \in 1 .. Size /\ Left' = Used + 1 /\ Used + 1 \in 1 .. Size
            BY <2>3, <2>4, RingFacts DEF Ring
          <5>2. Place(i) \in DOMAIN entries /\ Place(Left') = tail /\ (i # Left' => Place(i) # tail)
            BY <5>1, RingFacts DEF Ring
          <5> QED BY <1>10, <3>1, <5>2
        <4> QED BY <3>4, <4>1
      <3>7. Line'
        BY <2>3, <2>4, <2>7, <3>5, <3>6
      <3> QED BY <1>4, <2>5, <2>6, <3>3, <3>7
    <2>9. CASE (tail + 1) % Size = head
      <3>1. entries' = [i \in 0 .. 2 * Size - 1 |-> IF i < Size THEN e[(head + i) % Size] ELSE Blank]
            /\ head' = 0 /\ tail' = Size
        BY <2>1, <2>9 DEF Grow
      <3>2. Size \in Nat \ {0} /\ Used = Size - 1
        <4>1. /\ tail \in 0 .. Size - 1 /\ head \in 0 .. Size - 1 /\ Size \in Nat \ {0}
              /\ (IF tail + 1 < Size THEN tail + 1 ELSE 0) = head
          BY <2>9, RingFacts DEF Ring
        <4> QED BY <4>1 DEF Used
      <3>3. Size' = 2 * Size /\ DOMAIN entries' = 0 .. 2 * Size - 1
        <4>1. 2 * Size \in Nat \ {0}
          BY <3>2
        <4> QED BY <3>1, <4>1, SizeOf DEF Size
      <3>4. \A i \in 0 .. Size - 1 : (head + i) % Size = Place(i + 1) /\ Place(i + 1) \in DOMAIN entries
        <4>1. ASSUME NEW i \in 0 .. Size - 1 PROVE (head + i) % Size = Place(i + 1) /\ Place(i + 1) \in DOMAIN entries
          <5>1. i + 1 \in 1 .. Size /\ head + i = head + (i + 1) - 1
            BY <3>2, RingFacts
          <5> QED BY <5>1, RingFacts DEF Ring
        <4> QED BY <4>1
      <3>5. \A i \in 0 .. Size - 1 : e[(head + i) % Size] = (IF i = Size - 1 THEN m ELSE entries[Place(i + 1)])
        <4>1. ASSUME NEW i \in 0 .. Size - 1
              PROVE  e[Place(i + 1)] = (IF i = Size - 1 THEN m ELSE entries[Place(i + 1)])
          <5>1. i + 1 \in 1 .. Size /\ Size \in 1 .. Size /\ Place(Size) = tail
            BY <3>2, RingFacts
          <5>2. i # Size - 1 => Place(i + 1) # Place(Size)
            BY <3>2, <5>1, RingFacts
          <5>3. Place(i + 1) \in DOMAIN entries
            BY <3>4
          <5> QED BY <1>10, <3>2, <5>1, <5>2, <5>3
        <4> QED BY <3>4, <4>1
      <3>6. LogTypeOK' /\ Ring'
        <4>1. ASSUME NEW i \in 0 .. Size - 1 PROVE e[(head + i) % Size] \in Message \cup {Stop, Blank}
          <5>1. Place(i + 1) \in 0 .. Size - 1
            BY <3>4 DEF Ring
          <5> QED BY <3>5, <5>1 DEF LogTypeOK
        <4>2. entries' \in [0 .. 2 * Size - 1 -> Message \cup {Stop, Blank}]
          BY <3>1, <3>2, <4>1
        <4>3. head' \in 0 .. 2 * Size - 1 /\ tail' \in 0 .. 2 * Size - 1 /\ 2 * Size \in Nat \ {0}
          BY <3>1, <3>2
        <4> QED BY <1>1, <1>7, <2>2, <3>3, <4>2, <4>3 DEF LogTypeOK, Ring
      <3>7. Used' = Size /\ \A i \in 1 .. Size : Place(i)' = i - 1
        BY <3>1, <3>2, <3>3 DEF Used, Place
      <3>8. \A i \in 1 .. Left' : entries'[Place(i)'] = IF i = Left' THEN m ELSE entries[Place(i)]
        <4>1. ASSUME NEW i \in 1 .. Size PROVE entries'[i - 1] = IF i = Size THEN m ELSE entries[Place(i)]
          <5>1. i - 1 \in 0 .. Size - 1 /\ i - 1 \in 0 .. 2 * Size - 1 /\ i - 1 < Size /\ (i - 1) + 1 = i
            BY <3>2
          <5>2. entries'[i - 1] = e[(head + (i - 1)) % Size]
            BY <3>1, <5>1
          <5> QED BY <3>2, <3>5, <5>1, <5>2
        <4>2. Left' = Size
          BY <2>3, <2>4, <3>2
        <4> QED BY <3>7, <4>1, <4>2
      <3>9. Line'
        BY <2>3, <2>4, <2>7, <3>2, <3>7, <3>8
      <3> QED BY <1>4, <2>5, <2>6, <3>6, <3>9
    <2> QED BY <2>8, <2>9
  <1> QED BY <1>5, <1>6

----------------------------------------------------------------------------
(* The worker *)

\* The worker takes the first message of those left, or the entry of pause().
LEMMA TakeLog ==
  ASSUME LInv, Take
  PROVE  LInv'
  <1> USE DEF LInv
  <1>1. /\ worker = "take" /\ head # tail /\ cur' = entries[head] /\ head' = (head + 1) % Size
        /\ worker' = (IF entries[head].is_end THEN "ended" ELSE "print")
        /\ UNCHANGED <<entries, tail, running, call, calls, file, since, said, accepted, printed, written>>
    BY DEF Take, control, output
  <1>2. /\ head \in 0 .. Size - 1 /\ tail \in 0 .. Size - 1 /\ Size \in Nat \ {0}
        /\ head' = (IF head + 1 < Size THEN head + 1 ELSE 0) /\ Size' = Size
        /\ DOMAIN entries = 0 .. Size - 1 /\ Used \in 0 .. Size - 1 /\ Used # 0
    BY <1>1, RingFacts DEF Ring, Size
  <1>3. Used' = Used - 1
    BY <1>1, <1>2 DEF Used
  <1>4. \A i \in 1 .. Size - 1 : Place(i)' = Place(i + 1)
    BY <1>2 DEF Place
  <1>5. LogTypeOK' /\ Ring'
    <2>1. entries[head] \in Message \cup {Stop, Blank}
      BY <1>2 DEF LogTypeOK
    <2>2. head' \in 0 .. Size - 1
      BY <1>2
    <2> QED BY <1>1, <1>2, <2>1, <2>2 DEF LogTypeOK, Ring
  <1>6. FileFollows'
    BY <1>1 DEF FileFollows
  <1>7. /\ Shown = Len(printed) /\ Len(printed) \in Nat /\ Len(accepted) \in Nat /\ Left \in Nat
        /\ Shown + Left = Len(accepted)
    BY <1>1, LenFacts DEF Shown, Left, Printed
  <1>8. /\ Used = Left + (IF running THEN 0 ELSE 1)
        /\ \A i \in 1 .. Left : entries[Place(i)] = accepted[Shown + i]
        /\ ~running => entries[Place(Used)] = Stop
    BY <1>1 DEF Line, Busy
  <1>9. Place(1) = head
    BY RingFacts
  <1>10. CASE Left = 0
    <2>1. ~running /\ Used = 1
      BY <1>2, <1>8, <1>10
    <2>2. worker' = "ended"
      BY <1>1, <1>8, <1>9, <2>1 DEF Stop
    <2>3. head' = tail
      BY <1>1, <1>2, <2>1 DEF Used
    <2>4. Control'
      BY <1>1, <2>1, <2>2, <2>3 DEF Control, Joining
    <2>5. Printed'
      BY <1>1, <1>7, <1>10, <2>2 DEF Printed, Shown, Left
    <2>6. Line'
      BY <1>1, <2>1, <2>2 DEF Line, Busy
    <2> QED BY <1>5, <1>6, <2>4, <2>5, <2>6
  <1>11. CASE Left # 0
    <2>1. entries[head] = accepted[Shown + 1] /\ Shown + 1 \in 1 .. Len(accepted)
      BY <1>7, <1>8, <1>9, <1>11
    <2>2. entries[head] \in Message /\ worker' = "print"
      BY <1>1, <2>1, LenFacts
    <2>3. Shown' = Shown + 1 /\ Left' = Left - 1
      BY <1>1, <1>7, <2>2 DEF Shown, Left
    <2>4. Control'
      BY <1>1, <2>2 DEF Control, Joining, Busy
    <2>5. Printed'
      BY <1>1, <1>7, <1>11, <2>1, <2>2, <2>3 DEF Printed
    <2>6. Line'
      <3>1. Used' = Left' + (IF running THEN 0 ELSE 1)
        BY <1>3, <1>7, <1>8, <2>3
      <3>2. ASSUME NEW i \in 1 .. Left' PROVE entries[Place(i)'] = accepted[Shown' + i]
        <4>1. i \in 1 .. Size - 1 /\ i + 1 \in 1 .. Left /\ Shown' + i = Shown + (i + 1)
          BY <1>2, <1>7, <1>8, <2>3
        <4> QED BY <1>4, <1>8, <4>1
      <3>3. ~running => entries[Place(Used)'] = Stop
        <4>1. ~running => Used > 1
          BY <1>2, <1>7, <1>8, <1>11
        <4>2. ~running => Place(Used)' = Place(Used)
          BY <1>2, <1>3, <4>1 DEF Place
        <4> QED BY <1>8, <4>2
      <3> QED BY <1>1, <3>1, <3>2, <3>3 DEF Line
    <2> QED BY <1>5, <1>6, <2>4, <2>5, <2>6
  <1> QED BY <1>10, <1>11

\* A message that is printed is the next one of accepted.
LEMMA PrintLog ==
  ASSUME LInv, PrintOut
  PROVE  LInv'
  <1> USE DEF LInv
  <1>1. /\ worker = "print" /\ printed' = Append(printed, cur) /\ worker' = "write"
        /\ UNCHANGED <<entries, head, tail, running, cur, call, calls, file, since, said, accepted, written>>
    BY DEF PrintOut, ring, control
  <1>2. Len(printed) \in Nat /\ Len(accepted) \in Nat /\ Shown = Len(printed) + 1 /\ Shown <= Len(accepted) /\ since <= Len(printed) /\ since \in Nat
    BY <1>1, LenFacts DEF Shown, Printed
  <1>3. cur \in Message /\ cur = accepted[Len(printed) + 1]
    <2>1. cur = accepted[Len(printed) + 1] /\ Len(printed) + 1 \in 1 .. Len(accepted)
      BY <1>1, <1>2 DEF Printed
    <2> QED BY <2>1, LenFacts
  <1>4. /\ printed' \in Seq(Message) /\ Len(printed') = Len(printed) + 1
        /\ \A i \in 1 .. Len(printed) : printed'[i] = printed[i]
        /\ printed'[Len(printed) + 1] = cur
    BY <1>1, <1>3, AppendProperties DEF LogTypeOK
  <1>5. LogTypeOK' /\ Ring'
    <2>1. since \in 0 .. Len(printed')
      BY <1>2, <1>4
    <2> QED BY <1>1, <1>4, <2>1 DEF LogTypeOK, Ring, Size
  <1>6. Control'
    BY <1>1 DEF Control, Busy, Joining
  <1>7. Shown' = Shown /\ Left' = Left
    BY <1>1, <1>2, <1>4 DEF Shown, Left
  <1>8. Printed'
    <2>1. \A i \in 1 .. Len(printed') : printed'[i] = accepted[i]
      <3>1. ASSUME NEW i \in 1 .. Len(printed') PROVE printed'[i] = accepted[i]
        <4>1. i \in 1 .. Len(printed) \/ i = Len(printed) + 1
          BY <1>2, <1>4
        <4> QED BY <1>3, <1>4, <4>1 DEF Printed
      <3> QED BY <3>1
    <2>2. since < Len(printed') /\ cur = printed'[Len(printed')]
      BY <1>2, <1>4
    <2> QED BY <1>1, <1>2, <1>7, <2>1, <2>2 DEF Printed
  <1>9. Line'
    <2>1. Used' = Used /\ \A i : Place(i)' = Place(i)
      BY <1>1 DEF Used, Place, Size
    <2> QED BY <1>1, <1>7, <2>1 DEF Line, Busy
  <1>10. FileFollows'
    <2>1. CASE ~file
      BY <1>1, <2>1 DEF FileFollows
    <2>2. CASE file
      <3> DEFINE a == since + 1
                 b == Len(printed)
      <3>1. written = SubSeq(printed, a, b) /\ a \in Int /\ b \in Int /\ a >= 1
        BY <1>1, <1>2, <2>2 DEF FileFollows
      <3>2. SubSeq(printed', a, b) = SubSeq(printed, a, b)
        <4>1. \A i \in a .. b : printed[i] \in Message /\ printed'[i] \in Message /\ printed'[i] = printed[i]
          BY <1>2, <1>4, <3>1, LenFacts
        <4>2. /\ SubSeq(printed, a, b) \in Seq(Message) /\ SubSeq(printed', a, b) \in Seq(Message)
              /\ Len(SubSeq(printed, a, b)) = Len(SubSeq(printed', a, b))
              /\ Len(SubSeq(printed, a, b)) = (IF a <= b THEN b - a + 1 ELSE 0)
              /\ \A i \in 1 .. b - a + 1 : /\ SubSeq(printed, a, b)[i] = printed[a + i - 1]
                                           /\ SubSeq(printed', a, b)[i] = printed'[a + i - 1]
          BY <3>1, <4>1, SubSeqProperties
        <4>3. \A i \in 1 .. Len(SubSeq(printed, a, b)) : SubSeq(printed, a, b)[i] = SubSeq(printed', a, b)[i]
          <5> HIDE DEF a, b
          <5>1. ASSUME NEW i \in 1 .. Len(SubSeq(printed, a, b))
                PROVE  SubSeq(printed, a, b)[i] = SubSeq(printed', a, b)[i]
            <6>1. i \in 1 .. b - a + 1 /\ a + i - 1 \in a .. b
              BY <3>1, <4>2, <5>1
            <6> QED BY <4>1, <4>2, <6>1
          <5> QED BY <5>1
        <4> QED BY <4>2, <4>3, SeqEqual
      <3>3. Len(printed') - 1 = b
        BY <1>2, <1>4
      <3> QED BY <1>1, <3>1, <3>2, <3>3 DEF FileFollows
    <2> QED BY <2>1, <2>2
  <1> QED BY <1>5, <1>6, <1>8, <1>9, <1>10

\* One element more of s at the end of a part of it.
LEMMA Longer ==
  ASSUME NEW S, NEW s \in Seq(S), NEW a \in 1 .. Len(s)
  PROVE  Append(SubSeq(s, a, Len(s) - 1), s[Len(s)]) = SubSeq(s, a, Len(s))
  <1>1. PICK l \in Nat \ {0} : l = Len(s)
    BY LenProperties
  <1>2. l \in 1 .. Len(s) /\ a \in 1 .. l /\ a \in Int /\ l - 1 \in Int /\ l \in Int
    BY <1>1
  <1>3. \A i \in 1 .. l : s[i] \in S
    BY <1>1, ElementOfSeq
  <1>4. PICK p \in Seq(S) : /\ p = SubSeq(s, a, l - 1) /\ Len(p) = l - a
                            /\ \A i \in 1 .. l - a : p[i] = s[a + i - 1]
    <2>1. \A i \in a .. l - 1 : s[i] \in S
      BY <1>2, <1>3
    <2>2. /\ SubSeq(s, a, l - 1) \in Seq(S)
          /\ Len(SubSeq(s, a, l - 1)) = (IF a <= l - 1 THEN (l - 1) - a + 1 ELSE 0)
          /\ \A i \in 1 .. (l - 1) - a + 1 : SubSeq(s, a, l - 1)[i] = s[a + i - 1]
      BY <1>2, <2>1, SubSeqProperties
    <2>3. (IF a <= l - 1 THEN (l - 1) - a + 1 ELSE 0) = l - a /\ (l - 1) - a + 1 = l - a
      BY <1>2
    <2> QED BY <2>2, <2>3
  <1>5. PICK q \in Seq(S) : /\ q = SubSeq(s, a, l) /\ Len(q) = l - a + 1
                            /\ \A i \in 1 .. l - a + 1 : q[i] = s[a + i - 1]
    <2>1. \A i \in a .. l : s[i] \in S
      BY <1>2, <1>3
    <2>2. /\ SubSeq(s, a, l) \in Seq(S)
          /\ Len(SubSeq(s, a, l)) = (IF a <= l THEN l - a + 1 ELSE 0)
          /\ \A i \in 1 .. l - a + 1 : SubSeq(s, a, l)[i] = s[a + i - 1]
      BY <1>2, <2>1, SubSeqProperties
    <2>3. (IF a <= l THEN l - a + 1 ELSE 0) = l - a + 1
      BY <1>2
    <2> QED BY <2>2, <2>3
  <1>6. s[l] \in S
    BY <1>2, <1>3
  <1>7. /\ Append(p, s[l]) \in Seq(S) /\ Len(Append(p, s[l])) = l - a + 1
        /\ \A i \in 1 .. l - a : Append(p, s[l])[i] = p[i]
        /\ Append(p, s[l])[l - a + 1] = s[l]
    BY <1>4, <1>6, AppendProperties
  <1>8. ASSUME NEW i \in 1 .. l - a + 1 PROVE Append(p, s[l])[i] = q[i]
    <2>1. CASE i \in 1 .. l - a
      BY <1>4, <1>5, <1>7, <2>1
    <2>2. CASE i = l - a + 1
      <3>1. a + i - 1 = l
        BY <1>2, <2>2
      <3> QED BY <1>5, <1>7, <2>2, <3>1
    <2>3. i \in 1 .. l - a \/ i = l - a + 1
      BY <1>2
    <2> QED BY <2>1, <2>2, <2>3
  <1>9. Append(p, s[l]) = q
    BY <1>5, <1>7, <1>8, SeqEqual
  <1> QED BY <1>1, <1>4, <1>5, <1>9

\* The worker writes the message it printed: the one the file lacks.
LEMMA WriteLog ==
  ASSUME LInv, Write
  PROVE  LInv'
  <1> USE DEF LInv
  <1>1. /\ worker = "write" /\ worker' = "take"
        /\ written' = (IF file THEN Append(written, cur) ELSE written)
        /\ UNCHANGED <<entries, head, tail, running, cur, call, calls, file, since, said, accepted, printed>>
    BY DEF Write, ring, control
  <1>2. since \in Nat /\ Len(printed) \in Nat /\ since < Len(printed) /\ cur = printed[Len(printed)]
    BY <1>1, LenFacts DEF Printed, LogTypeOK
  <1>3. Len(printed) \in 1 .. Len(printed) /\ cur \in Message
    <2>1. Len(printed) \in 1 .. Len(printed)
      BY <1>2
    <2> QED BY <1>2, <2>1, ElementOfSeq DEF LogTypeOK
  <1>4. written' \in Seq(Message)
    BY <1>1, <1>3, AppendProperties DEF LogTypeOK
  <1>5. LogTypeOK' /\ Ring' /\ Control'
    BY <1>1, <1>4 DEF LogTypeOK, Ring, Control, Busy, Joining, Size
  <1>6. Shown' = Shown /\ Left' = Left
    BY <1>1 DEF Shown, Left
  <1>7. Printed'
    BY <1>1, <1>6 DEF Printed
  <1>8. Line'
    <2>1. Used' = Used /\ \A i : Place(i)' = Place(i)
      BY <1>1 DEF Used, Place, Size
    <2> QED BY <1>1, <1>6, <2>1 DEF Line, Busy
  <1>9. FileFollows'
    <2>1. CASE ~file
      BY <1>1, <2>1 DEF FileFollows
    <2>2. CASE file
      <3>1. written = SubSeq(printed, since + 1, Len(printed) - 1)
        BY <1>1, <2>2 DEF FileFollows
      <3>2. since + 1 \in 1 .. Len(printed) /\ Len(printed) - 0 = Len(printed)
        BY <1>2
      <3>3. Append(SubSeq(printed, since + 1, Len(printed) - 1), printed[Len(printed)])
            = SubSeq(printed, since + 1, Len(printed))
        BY <3>2, Longer DEF LogTypeOK
      <3>4. written' = SubSeq(printed, since + 1, Len(printed))
        BY <1>1, <1>2, <2>2, <3>1, <3>3
      <3> QED BY <1>1, <3>2, <3>4 DEF FileFollows
    <2> QED BY <2>1, <2>2
  <1> QED BY <1>5, <1>7, <1>8, <1>9

----------------------------------------------------------------------------
(* The controlling thread *)

\* The entry of pause() is the last, or the ring looks empty and the worker stops taking.
LEMMA PauseLog ==
  ASSUME LInv, NEW k \in DOMAIN After, Pause(k)
  PROVE  LInv'
  <1> USE DEF LInv
  <1>1. /\ call = "idle" /\ calls < Calls /\ calls' = calls + 1
        /\ UNCHANGED <<head, cur, worker, file, since, said, accepted, printed, written>>
    BY DEF Pause, output
  <1>2. calls' \in 0 .. Calls
    BY <1>1, LogAssumption DEF LogTypeOK
  <1>3. k \in {"pause", "flush", "set"} /\ After[k] \in {"idle", "resume", "open"}
    BY DEF After
  <1>4. FileFollows' /\ Printed' /\ Shown' = Shown /\ Left' = Left
    BY <1>1 DEF FileFollows, Printed, Shown, Left
  <1>5. CASE ~running
    <2>1. UNCHANGED <<entries, tail, running>> /\ call' = After[k]
      BY <1>5 DEF Pause
    <2>2. worker = "none" /\ ~Joining
      BY <1>1, <1>5 DEF Control, Joining, After
    <2>3. call' \notin DOMAIN After
      BY <1>3, <2>1 DEF After
    <2>4. LogTypeOK' /\ Ring'
      BY <1>1, <1>2, <1>3, <2>1 DEF LogTypeOK, Ring, Size
    <2>5. Control' /\ Line'
      BY <1>1, <1>5, <2>1, <2>2, <2>3 DEF Control, Line, Busy, Joining
    <2> QED BY <1>4, <2>4, <2>5
  <1>6. CASE running
    <2>1. /\ running' = FALSE /\ entries' = [entries EXCEPT ![tail] = Stop]
          /\ tail' = (tail + 1) % Size /\ call' = k
      BY <1>6 DEF Pause
    <2>2. /\ tail \in 0 .. Size - 1 /\ head \in 0 .. Size - 1 /\ Size \in Nat \ {0}
          /\ tail' = (IF tail + 1 < Size THEN tail + 1 ELSE 0) /\ head' = head
          /\ DOMAIN entries = 0 .. Size - 1
      BY <1>1, <2>1, RingFacts DEF Ring
    <2>3. DOMAIN entries' = DOMAIN entries /\ Size' = Size
      BY <2>1 DEF Size, LogTypeOK
    <2>4. LogTypeOK' /\ Ring'
      <3>1. entries' \in [0 .. Size - 1 -> Message \cup {Stop, Blank}]
        BY <2>1, <2>2 DEF LogTypeOK
      <3>2. tail' \in 0 .. Size - 1
        BY <2>2
      <3>3. head' \in DOMAIN entries' /\ tail' \in DOMAIN entries' /\ DOMAIN entries' = 0 .. Size' - 1
        BY <2>2, <2>3, <3>2
      <3>4. /\ call' \in {"idle", "resume", "open"} \cup DOMAIN After
            /\ cur' \in Message \cup {Stop, Blank} /\ running' \in BOOLEAN
        BY <1>1, <2>1 DEF LogTypeOK
      <3>5. Ring' /\ entries' \in [0 .. Size' - 1 -> Message \cup {Stop, Blank}]
        BY <2>2, <2>3, <3>1, <3>3 DEF Ring
      <3>6. /\ file' \in BOOLEAN /\ worker' \in {"none", "take", "print", "write", "ended"}
            /\ said' \in [Thread -> 0 .. Messages] /\ since' \in 0 .. Len(printed')
            /\ accepted' \in Seq(Message) /\ printed' \in Seq(Message) /\ written' \in Seq(Message)
        BY <1>1 DEF LogTypeOK
      <3> QED BY <1>2, <3>3, <3>4, <3>5, <3>6 DEF LogTypeOK
    <2>5. worker \notin {"ended", "none"} /\ Busy
      BY <1>6 DEF Control, Busy
    <2>6. Control'
      BY <1>1, <2>1, <2>5 DEF Control, Joining
    <2>7. CASE tail' = head
      <3>1. Line'
        BY <1>1, <2>1, <2>7 DEF Line
      <3> QED BY <1>4, <2>4, <2>6, <3>1
    <2>8. CASE tail' # head
      <3>1. Used' = Used + 1 /\ Used \in 0 .. Size - 1
        <4>1. Used \in 0 .. Size - 1
          BY RingFacts
        <4> QED BY <2>2, <2>3, <2>8, <4>1 DEF Used
      <3>2. Used + 1 \in 1 .. Size /\ Used \in Nat
        BY <2>2, <3>1
      <3>3. \A i : Place(i)' = Place(i)
        BY <2>2, <2>3 DEF Place
      <3>4. Used = Left /\ \A i \in 1 .. Left : entries[Place(i)] = accepted[Shown + i]
        BY <1>6, <3>2, LenFacts DEF Line
      <3>5. Place(Used + 1) = tail
        BY RingFacts
      <3>6. entries'[Place(Used + 1)] = Stop
        BY <2>1, <2>2, <3>5
      <3>7. ASSUME NEW i \in 1 .. Left PROVE entries'[Place(i)] = accepted[Shown + i]
        <4>1. i \in 1 .. Size /\ i # Used + 1
          BY <2>2, <3>1, <3>2, <3>4
        <4>2. Place(i) # tail /\ Place(i) \in 0 .. Size - 1
          BY <3>2, <3>5, <4>1, RingFacts
        <4> QED BY <2>1, <2>2, <3>4, <4>2
      <3>8. Place(Used)' = Place(Used + 1)
        BY <2>2, <2>3, <3>1 DEF Place
      <3>9. Used' = Left' + (IF running' THEN 0 ELSE 1)
        BY <1>4, <2>1, <3>1, <3>4
      <3>10. Line'
        BY <1>1, <1>4, <2>1, <3>3, <3>6, <3>7, <3>8, <3>9 DEF Line
      <3> QED BY <1>4, <2>4, <2>6, <3>10
    <2> QED BY <2>7, <2>8
  <1> QED BY <1>5, <1>6

\* join() returns only while the log is paused.
LEMMA JoinLog ==
  ASSUME LInv, Join
  PROVE  LInv'
  <1> USE DEF LInv
  <1>1. /\ call \in DOMAIN After /\ worker = "ended" /\ worker' = "none" /\ call' = After[call]
        /\ UNCHANGED <<entries, head, tail, running, cur, calls, file, since, said, accepted, printed, written>>
    BY DEF Join, Joining, ring, output
  <1>2. ~running /\ call' \in {"idle", "resume", "open"} /\ call' \notin DOMAIN After
    BY <1>1 DEF Control, After
  <1>3. LogTypeOK' /\ Ring'
    BY <1>1, <1>2 DEF LogTypeOK, Ring, Size
  <1>4. Control'
    BY <1>1, <1>2 DEF Control, Joining
  <1>5. Shown' = Shown /\ Left' = Left
    BY <1>1 DEF Shown, Left
  <1>6. Printed' /\ FileFollows'
    BY <1>1, <1>5 DEF Printed, FileFollows
  <1>7. Line'
    BY <1>1, <1>2 DEF Line, Busy
  <1> QED BY <1>3, <1>4, <1>6, <1>7

\* A file is opened when the worker has ended, and begins behind what was printed.
LEMMA SetFileLog ==
  ASSUME LInv, SetFile
  PROVE  LInv'
  <1> USE DEF LInv
  <1>1. /\ call = "open" /\ file' \in BOOLEAN /\ written' = <<>> /\ since' = Len(printed)
        /\ call' = "resume"
        /\ UNCHANGED <<entries, head, tail, running, cur, worker, calls, said, accepted, printed>>
    BY DEF SetFile, ring
  <1>2. ~running /\ worker = "none"
    BY <1>1 DEF Control, Joining, After
  <1>3. Len(printed) \in Nat /\ since' \in 0 .. Len(printed')
    BY <1>1, LenFacts
  <1>4. LogTypeOK' /\ Ring'
    BY <1>1, <1>3, EmptySeq DEF LogTypeOK, Ring, Size
  <1>5. Control' /\ Line'
    BY <1>1, <1>2 DEF Control, Joining, After, Line, Busy
  <1>6. Printed'
    BY <1>1, <1>2 DEF Printed, Shown, Left
  <1>7. FileFollows'
    <2>1. PICK l \in Nat : l = Len(printed)
      BY <1>3
    <2>2. SubSeq(printed, l + 1, l) = <<>>
      <3>1. \A i \in l + 1 .. l : printed[i] \in Message
        BY <2>1
      <3>2. SubSeq(printed, l + 1, l) \in Seq(Message) /\ Len(SubSeq(printed, l + 1, l)) = 0
        BY <2>1, <3>1, SubSeqProperties
      <3> QED BY <3>2, EmptySeq
    <2> QED BY <1>1, <1>2, <2>1, <2>2 DEF FileFollows
  <1> QED BY <1>4, <1>5, <1>6, <1>7

\* The worker starts again with an empty ring and everything printed.
LEMMA ResumeLog ==
  ASSUME LInv, Resume
  PROVE  LInv'
  <1> USE DEF LInv
  <1>1. /\ call \in {"idle", "resume"} /\ calls' \in 0 .. Calls /\ ~running /\ running' = TRUE
        /\ worker' = "take" /\ call' = "idle"
        /\ UNCHANGED <<entries, head, tail, cur, file, since, said, accepted, printed, written>>
    BY LogAssumption DEF Resume, ring, output, LogTypeOK
  <1>2. worker = "none" /\ head = tail /\ Left = 0
    BY <1>1 DEF Control, Joining, After, Printed
  <1>3. LogTypeOK' /\ Ring'
    BY <1>1 DEF LogTypeOK, Ring, Size
  <1>4. Control' /\ FileFollows'
    BY <1>1, <1>2 DEF Control, Joining, After, Busy, FileFollows
  <1>5. Shown' = Shown /\ Left' = 0
    BY <1>1, <1>2 DEF Shown, Left
  <1>6. Printed'
    BY <1>1, <1>5 DEF Printed
  <1>7. Line'
    <2>1. Used' = 0
      <3>1. Used = 0
        BY <1>2, RingFacts
      <3> QED BY <1>1, <3>1 DEF Used, Size
    <2> QED BY <1>1, <1>5, <2>1 DEF Line
  <1> QED BY <1>3, <1>4, <1>6, <1>7

\* Every step preserves the invariant.
LEMMA StepLog ==
  ASSUME LInv, [LogNext]_logvars
  PROVE  LInv'
  <1>1. CASE UNCHANGED logvars
    <2>1. UNCHANGED <<entries, head, tail, running, cur, worker, call, calls, file, since, said,
                      accepted, printed, written>>
      BY <1>1 DEF logvars
    <2> QED BY <2>1 DEF LInv, LogTypeOK, Ring, Control, Printed, Line, FileFollows, Busy, Joining,
                        Used, Place, Shown, Left, Size
  <1>2. ASSUME NEW t \in Thread, Add(t) PROVE LInv'
    BY <1>2, AddLog
  <1>3. ASSUME NEW k \in DOMAIN After, Pause(k) PROVE LInv'
    BY <1>3, PauseLog
  <1>4. CASE Worker
    BY <1>4, TakeLog, PrintLog, WriteLog DEF Worker
  <1>5. CASE Join \/ SetFile \/ Resume
    BY <1>5, JoinLog, SetFileLog, ResumeLog
  <1> QED BY <1>1, <1>2, <1>3, <1>4, <1>5 DEF LogNext

----------------------------------------------------------------------------
(* Properties *)

\* What was printed, with the message that is about to be, begins accepted.
LEMMA ShownFirst ==
  ASSUME LInv
  PROVE  /\ printed \o Current \in Seq(Message) /\ Len(printed \o Current) = Shown
         /\ \A i \in 1 .. Shown : (printed \o Current)[i] = accepted[i]
  <1> USE DEF LInv
  <1>1. Len(printed) \in Nat /\ Len(accepted) \in Nat /\ Shown <= Len(accepted)
    BY LenFacts DEF Printed
  <1>2. CASE worker # "print"
    <2>1. Current = <<>> /\ Shown = Len(printed)
      BY <1>1, <1>2 DEF Current, Shown
    <2>2. printed \o <<>> = printed
      BY ConcatEmptySeq DEF LogTypeOK
    <2> QED BY <2>1, <2>2 DEF LogTypeOK, Printed
  <1>3. CASE worker = "print"
    <2>1. Current = <<cur>> /\ Shown = Len(printed) + 1
      BY <1>1, <1>3 DEF Current, Shown
    <2>2. cur = accepted[Len(printed) + 1] /\ Len(printed) + 1 \in 1 .. Len(accepted)
      BY <1>1, <1>3, <2>1 DEF Printed
    <2>3. cur \in Message
      BY <2>2, LenFacts
    <2>4. <<cur>> \in Seq(Message) /\ Len(<<cur>>) = 1 /\ <<cur>>[1] = cur
      BY <2>3
    <2>5. /\ printed \o <<cur>> \in Seq(Message) /\ Len(printed \o <<cur>>) = Len(printed) + 1
          /\ \A i \in 1 .. Len(printed) + 1 :
               (printed \o <<cur>>)[i] = IF i <= Len(printed) THEN printed[i] ELSE <<cur>>[i - Len(printed)]
      BY <2>4, ConcatProperties DEF LogTypeOK
    <2>6. ASSUME NEW i \in 1 .. Len(printed) + 1 PROVE (printed \o <<cur>>)[i] = accepted[i]
      <3>1. CASE i \in 1 .. Len(printed)
        <4>1. i <= Len(printed)
          BY <1>1, <3>1
        <4> QED BY <2>5, <3>1, <4>1 DEF Printed
      <3>2. CASE i = Len(printed) + 1
        <4>1. ~(i <= Len(printed)) /\ i - Len(printed) = 1
          BY <1>1, <3>2
        <4> QED BY <2>2, <2>4, <2>5, <3>2, <4>1
      <3>3. i \in 1 .. Len(printed) \/ i = Len(printed) + 1
        BY <1>1
      <3> QED BY <3>1, <3>2, <3>3
    <2> QED BY <2>1, <2>5, <2>6
  <1> QED BY <1>2, <1>3

\* The same as a prefix.
LEMMA Prefix ==
  ASSUME NEW S, NEW s \in Seq(S), NEW t \in Seq(S), Len(s) <= Len(t),
         \A i \in 1 .. Len(s) : s[i] = t[i]
  PROVE  IsPrefix(s, t)
  <1>1. PICK l \in Nat : l = Len(s)
    BY LenProperties
  <1>2. 1 \in Int /\ l \in Int /\ Len(t) \in Nat /\ l <= Len(t)
    BY <1>1, LenProperties
  <1>3. \A i \in 1 .. l : s[i] \in S /\ t[i] \in S
    BY <1>1, <1>2, ElementOfSeq
  <1>4. (IF 1 <= l THEN l - 1 + 1 ELSE 0) = l /\ l - 1 + 1 = l
    BY <1>2
  <1>5. /\ SubSeq(s, 1, l) \in Seq(S) /\ Len(SubSeq(s, 1, l)) = l
        /\ \A i \in 1 .. l : SubSeq(s, 1, l)[i] = s[1 + i - 1]
    BY <1>2, <1>3, <1>4, SubSeqProperties
  <1>6. /\ SubSeq(t, 1, l) \in Seq(S) /\ Len(SubSeq(t, 1, l)) = l
        /\ \A i \in 1 .. l : SubSeq(t, 1, l)[i] = t[1 + i - 1]
    BY <1>2, <1>3, <1>4, SubSeqProperties
  <1>7. \A i \in 1 .. l : SubSeq(s, 1, l)[i] = SubSeq(t, 1, l)[i]
    BY <1>1, <1>5, <1>6
  <1>8. SubSeq(s, 1, l) = SubSeq(t, 1, l)
    BY <1>5, <1>6, <1>7, SeqEqual
  <1> QED BY <1>1, <1>8 DEF IsPrefix

\* Behind what was printed the ring has what is left of accepted, in order.
LEMMA RingHasRest ==
  ASSUME LInv, running
  PROVE  printed \o Current \o Pending = accepted
  <1> USE DEF LInv
  <1>1. /\ Len(printed) \in Nat /\ Len(accepted) \in Nat /\ Shown \in Nat /\ Left \in Nat
        /\ Shown + Left = Len(accepted)
    BY LenFacts DEF Printed, Left
  <1>2. Used = Left /\ \A i \in 1 .. Left : entries[Place(i)] = accepted[Shown + i]
    BY <1>1 DEF Line
  <1>3. PICK p : p = Pending
    OBVIOUS
  <1>4. Left \in 0 .. Size - 1 /\ Size \in Nat \ {0} /\ p = [i \in 1 .. Left |-> entries[(head + i - 1) % Size]]
    BY <1>2, <1>3, RingFacts DEF Pending, Ring
  <1>5. ASSUME NEW i \in 1 .. Left
        PROVE  p[i] = accepted[Shown + i] /\ p[i] \in Message
    <2>1. i \in 1 .. Size /\ Shown + i \in 1 .. Len(accepted)
      BY <1>1, <1>4
    <2>2. (head + i - 1) % Size = Place(i)
      BY <2>1, RingFacts
    <2> QED BY <1>2, <1>4, <2>1, <2>2, LenFacts
  <1>6. p \in Seq(Message) /\ Len(p) = Left
    <2>1. p \in [1 .. Left -> Message]
      BY <1>4, <1>5
    <2> QED BY <1>1, <2>1
  <1>7. PICK q \in Seq(Message) :
          /\ q = printed \o Current /\ Len(q) = Shown
          /\ \A i \in 1 .. Shown : q[i] = accepted[i]
    BY ShownFirst
  <1>8. /\ q \o p \in Seq(Message) /\ Len(q \o p) = Shown + Left
        /\ \A i \in 1 .. Shown + Left : (q \o p)[i] = IF i <= Shown THEN q[i] ELSE p[i - Shown]
    <2>1. /\ q \o p \in Seq(Message) /\ Len(q \o p) = Len(q) + Len(p)
          /\ \A i \in 1 .. Len(q) + Len(p) : (q \o p)[i] = IF i <= Len(q) THEN q[i] ELSE p[i - Len(q)]
      BY <1>6, ConcatProperties, Zenon
    <2>2. Len(q) = Shown /\ Len(p) = Left
      BY <1>6, <1>7
    <2> QED BY <2>1, <2>2, Zenon
  <1>9. ASSUME NEW i \in 1 .. Len(q \o p) PROVE (q \o p)[i] = accepted[i]
    <2>1. i \in 1 .. Shown + Left
      BY <1>8
    <2>2. CASE i <= Shown
      <3>1. i \in 1 .. Shown
        BY <1>1, <2>1, <2>2
      <3> QED BY <1>7, <1>8, <2>1, <2>2, <3>1
    <2>3. CASE ~(i <= Shown)
      <3>1. i - Shown \in 1 .. Left /\ Shown + (i - Shown) = i
        BY <1>1, <2>1, <2>3
      <3>2. p[i - Shown] = accepted[Shown + (i - Shown)]
        BY <1>5, <3>1
      <3> QED BY <1>8, <2>1, <2>3, <3>1, <3>2
    <2> QED BY <2>2, <2>3
  <1>10. q \o p = accepted
    BY <1>1, <1>8, <1>9, SeqEqual DEF LogTypeOK
  <1> QED BY <1>3, <1>7, <1>10

\* What the invariant says of the ring gives the property.
LEMMA LogDelivers == LInv => Delivered
  <1> SUFFICES ASSUME LInv PROVE NothingLost
    BY DEF LInv, Delivered
  <1>1. Len(printed) \in Nat /\ Len(accepted) \in Nat /\ Shown <= Len(accepted)
    BY LenFacts DEF LInv, Printed
  <1>2. IsPrefix(printed \o Current, accepted)
    BY <1>1, ShownFirst, Prefix DEF LInv, LogTypeOK
  <1>3. worker = "none" => printed = accepted
    <2>1. SUFFICES ASSUME worker = "none" PROVE printed = accepted
      OBVIOUS
    <2>2. Len(printed) = Len(accepted)
      <3>1. Left = 0
        BY <2>1 DEF LInv, Printed
      <3>2. Shown = Len(printed)
        BY <1>1, <2>1 DEF Shown
      <3> QED BY <1>1, <3>1, <3>2 DEF Left
    <2>3. \A i \in 1 .. Len(printed) : printed[i] = accepted[i]
      BY DEF LInv, Printed
    <2> QED BY <2>2, <2>3, SeqEqual DEF LInv, LogTypeOK
  <1> QED BY <1>2, <1>3, RingHasRest DEF LInv, NothingLost

\* Every message is printed once, in the order of add(), through every growth of
\* the ring, all of them before pause() returns; the log file has what is printed
\* while it is open.  For any threads, messages, capacity and calls.
THEOREM EveryMessageDelivered == LogSpec => []Delivered
  <1>1. LogSpec => []LInv
    BY InitLog, StepLog, PTL DEF LogSpec
  <1> QED BY <1>1, LogDelivers, PTL

\* The log keeps its types: head and tail are places of the ring, however it grows.
THEOREM LogTypes == LogSpec => []LogTypeOK
  <1>1. LInv => LogTypeOK
    BY DEF LInv
  <1> QED BY <1>1, InitLog, StepLog, PTL DEF LogSpec
=============================================================================
