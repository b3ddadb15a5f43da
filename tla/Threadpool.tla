------------------------------ MODULE Threadpool ------------------------------
(***************************************************************************)
(* The CPU thread pool (ggml/src/ggml-cpu/ggml-cpu.c, built without        *)
(* OpenMP): the threads that wait for graphs by polling and on a condition *)
(* variable, ggml_barrier(), the loop of a thread over the nodes of a      *)
(* graph, the chunks of a matrix multiplication and abort; the main thread *)
(* (thread 0) computes graphs, pauses, resumes and frees the pool.         *)
(*                                                                         *)
(* One step is one access to an atomic that another thread writes, or one  *)
(* section under the mutex; accesses are sequentially consistent.  Threads *)
(* read cgraph, cplan and the number of active threads from the pool: the  *)
(* code copies some of them to locals, property ParamsQuiet makes that the *)
(* same.                                                                   *)
(***************************************************************************)
EXTENDS Integers, FiniteSets, Sequences

CONSTANTS
    NPool,     \* threads of the pool, the main thread included
    Graphs,    \* what may be computed: nodes, and the threads it asks for
    NChunk,    \* chunks of a matrix multiplication
    MaxGraph,  \* bound on the graphs that are computed
    MayAbort   \* the abort callback may ask to stop

Kinds == {"nop",      \* an empty node, or one without GGML_TENSOR_FLAG_COMPUTE
          "rows",     \* each thread computes its share
          "chunks"}   \* ggml_compute_forward_mul_mat()

ASSUME PoolAssumption ==
    /\ NPool \in Nat \ {0} /\ NChunk \in Nat \ {0} /\ MaxGraph \in Nat
    /\ MayAbort \in BOOLEAN
    /\ \A g \in Graphs : g.nodes \in Seq(Kinds) /\ g.n_threads \in Nat \ {0}

Main    == 0
Thread  == 0 .. NPool - 1
Workers == Thread \ {Main}

VARIABLES
    graph,             \* threadpool->cgraph and cplan
    n_graph,           \* the upper bits of n_graph: how many graphs were kicked off
    n_threads,         \* its lower bits: threads 0 .. n_threads - 1 compute
    n_barrier, n_barrier_passed, current_chunk,
    stop, pause,
    abort,             \* the node before which the threads stop, -1
    pc, last_graph,
    node_n,            \* the node a thread is at
    n_passed,          \* what ggml_barrier() read before it arrived
    return,            \* where a thread goes after the barrier
    chunk,             \* the chunk a thread computes
    computed           \* what has been computed of the graph, and by whom

pool    == <<graph, n_graph, n_threads, stop, pause>>
barrier == <<n_barrier, n_barrier_passed>>
vars == <<pool, barrier, current_chunk, abort, pc, last_graph, node_n, n_passed,
          return, chunk, computed>>

\* Where a thread waits for a graph, and where it computes one.
Waits    == {"loop", "paused", "blocked", "poll", "lock", "asleep", "exited"}
Rests    == {"idle", "kick", "wake", "join", "freed"}
Computes == {"run", "node", "rows", "init", "chunks", "post",
             "arrive", "add", "last", "release", "spin"}

TypeOK ==
    /\ graph \in Graphs /\ n_graph \in Nat /\ n_threads \in 0 .. NPool
    /\ n_barrier \in Nat /\ n_barrier_passed \in Nat /\ current_chunk \in Nat
    /\ stop \in BOOLEAN /\ pause \in BOOLEAN
    /\ abort \in Nat \cup {-1}
    /\ pc \in [Thread -> Waits \cup Rests \cup Computes]
    /\ last_graph \in [Thread -> Nat]
    /\ node_n \in [Thread -> Nat] /\ n_passed \in [Thread -> Nat]
    /\ return \in [Thread -> {"chunks", "node", "end"}]
    /\ chunk \in [Thread -> Nat]
    /\ computed \subseteq [node : Nat, chunk : Nat, by : Thread]

\* ggml_threadpool_new(): the pool may start paused.
Init ==
    /\ graph \in Graphs /\ n_graph = 0 /\ n_threads = 0
    /\ n_barrier = 0 /\ n_barrier_passed = 0 /\ current_chunk = 0
    /\ stop = FALSE /\ pause \in BOOLEAN /\ abort = -1
    /\ pc = [t \in Thread |-> IF t = Main THEN "idle" ELSE "loop"]
    /\ last_graph = [t \in Thread |-> 0]
    /\ node_n = [t \in Thread |-> 0] /\ n_passed = [t \in Thread |-> 0]
    /\ return = [t \in Thread |-> "end"] /\ chunk = [t \in Thread |-> 0]
    /\ computed = {}

\* The main thread holds the mutex between the two writes of the kick-off.
MutexFree == pc[Main] # "wake"

Goto(t, p) == pc' = [pc EXCEPT ![t] = p]

\* The main thread goes to p and broadcasts: a blocked thread leaves
\* ggml_cond_wait(), and asks for the mutex again.
Broadcast(p) ==
    pc' = [t \in Thread |-> IF t = Main THEN p
                            ELSE IF pc[t] = "blocked" THEN "loop"
                            ELSE IF pc[t] = "asleep" THEN "lock" ELSE pc[t]]

Len_      == Len(graph.nodes)
Node(n)   == graph.nodes[n + 1]
Active(t) == t < n_threads

----------------------------------------------------------------------------
(* The main thread between graphs *)

\* ggml_graph_compute() sets the parameters: "No worker threads should be
\* accessing the parameters below at this stage".
Compute(g) ==
    /\ pc[Main] = "idle" /\ n_graph < MaxGraph
    /\ graph' = g /\ current_chunk' = 0 /\ abort' = -1 /\ computed' = {}
    /\ Goto(Main, "kick")
    /\ UNCHANGED <<n_graph, n_threads, stop, pause, barrier, last_graph, node_n,
                   n_passed, return, chunk>>

\* ggml_graph_compute_kickoff(): n_graph, and then pause, with the mutex held.
KickOff ==
    /\ pc[Main] = "kick"
    /\ n_graph' = n_graph + 1
    /\ n_threads' = IF graph.n_threads > NPool THEN NPool ELSE graph.n_threads
    /\ Goto(Main, "wake")
    /\ UNCHANGED <<graph, stop, pause, barrier, current_chunk, abort, last_graph,
                   node_n, n_passed, return, chunk, computed>>

Wake ==
    /\ pc[Main] = "wake"
    /\ pause' = FALSE
    /\ Broadcast("run")
    /\ UNCHANGED <<graph, n_graph, n_threads, stop, barrier, current_chunk, abort,
                   last_graph, node_n, n_passed, return, chunk, computed>>

\* ggml_threadpool_pause() and ggml_threadpool_resume()
Pause(p) ==
    /\ pc[Main] = "idle" /\ pause # p
    /\ pause' = p
    /\ Broadcast("idle")
    /\ UNCHANGED <<graph, n_graph, n_threads, stop, barrier, current_chunk, abort,
                   last_graph, node_n, n_passed, return, chunk, computed>>

\* ggml_threadpool_free()
Free ==
    /\ pc[Main] = "idle"
    /\ stop' = TRUE /\ pause' = FALSE
    /\ Broadcast("join")
    /\ UNCHANGED <<graph, n_graph, n_threads, barrier, current_chunk, abort,
                   last_graph, node_n, n_passed, return, chunk, computed>>

Join ==
    /\ pc[Main] = "join" /\ \A t \in Workers : pc[t] = "exited"
    /\ Goto(Main, "freed")
    /\ UNCHANGED <<pool, barrier, current_chunk, abort, last_graph, node_n, n_passed,
                   return, chunk, computed>>

Gone == pc[Main] = "freed" /\ UNCHANGED vars

----------------------------------------------------------------------------
(* A worker between graphs: ggml_graph_compute_secondary_thread() *)

data == <<barrier, current_chunk, abort, node_n, n_passed, return, chunk, computed>>

Loop(t) ==
    /\ pc[t] = "loop"
    /\ Goto(t, IF pause THEN "paused" ELSE IF stop THEN "exited" ELSE "poll")
    /\ UNCHANGED <<pool, data, last_graph>>

Paused(t) ==
    /\ pc[t] = "paused" /\ MutexFree
    /\ Goto(t, IF pause THEN "blocked" ELSE "loop")
    /\ UNCHANGED <<pool, data, last_graph>>

\* ggml_graph_compute_thread_ready(); a thread that is not needed for the new
\* graph is ready too, but not pending.
Fresh(t)   == ~stop /\ ~pause /\ n_graph # last_graph[t]
Ready(t)   == stop \/ pause \/ n_graph # last_graph[t]
Pending(t) == Fresh(t) /\ Active(t)

\* Mutant: a graph counts as seen although the thread goes to pause.
SeenLate(t) == last_graph' = [last_graph EXCEPT ![t] = n_graph]

Seen(t) == last_graph' = IF Fresh(t) THEN [last_graph EXCEPT ![t] = n_graph] ELSE last_graph

\* ggml_graph_compute_poll_for_work(): ends when ready, or tired of polling.
Poll(t) ==
    /\ pc[t] = "poll"
    /\ Goto(t, IF Pending(t) THEN "run" ELSE "lock")
    /\ Seen(t)
    /\ UNCHANGED <<pool, data>>

\* The rest of ggml_graph_compute_check_for_work(), under the mutex
Lock(t) ==
    /\ pc[t] = "lock" /\ MutexFree
    /\ Goto(t, IF Pending(t) THEN "run" ELSE IF Ready(t) THEN "loop" ELSE "asleep")
    /\ Seen(t)
    /\ UNCHANGED <<pool, data>>

\* ggml_cond_wait() may return for no reason.
Spurious(t) ==
    /\ pc[t] \in {"blocked", "asleep"} /\ MutexFree
    /\ Goto(t, IF pc[t] = "blocked" THEN "loop" ELSE "lock")
    /\ UNCHANGED <<pool, data, last_graph>>

----------------------------------------------------------------------------
(* A thread in ggml_graph_compute_thread() *)

Run(t) ==
    /\ pc[t] = "run"
    /\ node_n' = [node_n EXCEPT ![t] = 0]
    /\ Goto(t, "node")
    /\ UNCHANGED <<pool, barrier, current_chunk, abort, last_graph, n_passed, return,
                   chunk, computed>>

\* The head of the loop over the nodes
Over(n) == n >= Len_ \/ abort = n

SkipNode(t) ==
    /\ pc[t] = "node" /\ ~Over(node_n[t]) /\ Node(node_n[t]) = "nop"
    /\ node_n' = [node_n EXCEPT ![t] = @ + 1]
    /\ UNCHANGED <<pool, barrier, current_chunk, abort, pc, last_graph, n_passed, return,
                   chunk, computed>>

StartNode(t) ==
    /\ pc[t] = "node" /\ ~Over(node_n[t]) /\ Node(node_n[t]) # "nop"
    /\ Goto(t, IF Node(node_n[t]) = "rows" THEN "rows" ELSE "init")
    /\ UNCHANGED <<pool, data, last_graph>>

\* Mutant: no barrier behind the loop.
LeaveLoopAtOnce(t) ==
    /\ pc[t] = "node" /\ Over(node_n[t])
    /\ Goto(t, IF t = Main THEN "idle" ELSE "loop")
    /\ UNCHANGED <<pool, data, last_graph>>

LeaveLoop(t) ==
    /\ pc[t] = "node" /\ Over(node_n[t])
    /\ Goto(t, "arrive")
    /\ return' = [return EXCEPT ![t] = "end"]
    /\ UNCHANGED <<pool, barrier, current_chunk, abort, last_graph, node_n, n_passed,
                   chunk, computed>>

Done(t, c) == computed' = computed \cup {[node |-> node_n[t], chunk |-> c, by |-> t]}

Rows(t) ==
    /\ pc[t] = "rows"
    /\ Done(t, t)
    /\ Goto(t, "post")
    /\ UNCHANGED <<pool, barrier, current_chunk, abort, last_graph, node_n, n_passed, return, chunk>>

\* Mutant: the first unprocessed chunk is taken to be 0.
ChunksInitZero(t) ==
    /\ pc[t] = "init"
    /\ current_chunk' = IF t = Main THEN 0 ELSE current_chunk
    /\ chunk' = [chunk EXCEPT ![t] = t]
    /\ return' = [return EXCEPT ![t] = "chunks"]
    /\ Goto(t, "arrive")
    /\ UNCHANGED <<pool, barrier, abort, last_graph, node_n, n_passed, computed>>

\* ggml_compute_forward_mul_mat() until the barrier: src1 is converted, "Every
\* thread starts at ith, so the first unprocessed chunk is nth".
ChunksInit(t) ==
    /\ pc[t] = "init"
    /\ current_chunk' = IF t = Main THEN n_threads ELSE current_chunk
    /\ chunk' = [chunk EXCEPT ![t] = t]
    /\ return' = [return EXCEPT ![t] = "chunks"]
    /\ Goto(t, "arrive")
    /\ UNCHANGED <<pool, barrier, abort, last_graph, node_n, n_passed, computed>>

\* A chunk is computed, and the next one is taken if there may be one.
Chunk(t) ==
    /\ pc[t] = "chunks" /\ chunk[t] < NChunk
    /\ Done(t, chunk[t])
    /\ IF n_threads >= NChunk
       THEN Goto(t, "post") /\ UNCHANGED <<chunk, current_chunk>>
       ELSE /\ chunk' = [chunk EXCEPT ![t] = current_chunk]
            /\ current_chunk' = current_chunk + 1
            /\ UNCHANGED pc
    /\ UNCHANGED <<pool, barrier, abort, last_graph, node_n, n_passed, return>>

ChunksOver(t) ==
    /\ pc[t] = "chunks" /\ chunk[t] >= NChunk
    /\ Goto(t, "post")
    /\ UNCHANGED <<pool, data, last_graph>>

\* The node is computed: the main thread asks whether to abort, and all meet at
\* the barrier, after the last node at the one behind the loop.
Post(t) ==
    LET n == node_n[t]
    IN /\ pc[t] = "post"
       /\ \/ UNCHANGED abort
          \/ t = Main /\ MayAbort /\ abort' = n + 1
       /\ node_n' = [node_n EXCEPT ![t] = n + 1]
       /\ IF n + 1 < Len_
          THEN Goto(t, "arrive") /\ return' = [return EXCEPT ![t] = "node"]
          ELSE Goto(t, "node") /\ UNCHANGED return
       /\ UNCHANGED <<pool, barrier, current_chunk, last_graph, n_passed, chunk, computed>>

----------------------------------------------------------------------------
(* ggml_barrier() *)

\* The main thread goes back to its caller, a worker to its loop.
Left(t) == IF return[t] # "end" THEN return[t] ELSE IF t = Main THEN "idle" ELSE "loop"

rest == <<pool, current_chunk, abort, last_graph, node_n, return, chunk, computed>>

Arrive(t) ==
    /\ pc[t] = "arrive"
    /\ IF n_threads = 1
       THEN Goto(t, Left(t)) /\ UNCHANGED n_passed
       ELSE Goto(t, "add") /\ n_passed' = [n_passed EXCEPT ![t] = n_barrier_passed]
    /\ UNCHANGED <<rest, barrier>>

\* Mutant: one thread too early is taken for the last.
AddEarly(t) ==
    /\ pc[t] = "add"
    /\ n_barrier' = n_barrier + 1
    /\ Goto(t, IF n_barrier + 1 = n_threads - 1 THEN "last" ELSE "spin")
    /\ UNCHANGED <<rest, n_barrier_passed, n_passed>>

Add(t) ==
    /\ pc[t] = "add"
    /\ n_barrier' = n_barrier + 1
    /\ Goto(t, IF n_barrier = n_threads - 1 THEN "last" ELSE "spin")
    /\ UNCHANGED <<rest, n_barrier_passed, n_passed>>

Last(t) ==
    /\ pc[t] = "last"
    /\ n_barrier' = 0
    /\ Goto(t, "release")
    /\ UNCHANGED <<rest, n_barrier_passed, n_passed>>

Release(t) ==
    /\ pc[t] = "release"
    /\ n_barrier_passed' = n_barrier_passed + 1
    /\ Goto(t, Left(t))
    /\ UNCHANGED <<rest, n_barrier, n_passed>>

Spin(t) ==
    /\ pc[t] = "spin" /\ n_barrier_passed # n_passed[t]
    /\ Goto(t, Left(t))
    /\ UNCHANGED <<rest, barrier, n_passed>>

----------------------------------------------------------------------------
Barrier(t) == Arrive(t) \/ Add(t) \/ Last(t) \/ Release(t) \/ Spin(t)
Nodes(t)   == SkipNode(t) \/ StartNode(t) \/ LeaveLoop(t)
Work(t)    == Rows(t) \/ ChunksInit(t) \/ Chunk(t) \/ ChunksOver(t) \/ Post(t)
Computing(t) == Run(t) \/ Nodes(t) \/ Work(t)
Waiting(t) == Loop(t) \/ Paused(t) \/ Poll(t) \/ Lock(t)

Begin == \E g \in Graphs : Compute(g)

Next ==
    \/ Begin \/ KickOff \/ Wake \/ Free \/ Join \/ Gone
    \/ \E p \in BOOLEAN : Pause(p)
    \/ \E t \in Workers : Waiting(t) \/ Spurious(t)
    \/ \E t \in Thread : Computing(t) \/ Barrier(t)

Spec == Init /\ [][Next]_vars

\* The operating system runs every thread; nothing obliges the caller to go on.
FairSpec ==
    /\ Spec
    /\ WF_vars(KickOff \/ Wake \/ Join)
    /\ \A t \in Workers : WF_vars(Waiting(t))
    /\ \A t \in Thread : WF_vars(Computing(t) \/ Barrier(t))

----------------------------------------------------------------------------
(* Properties *)

\* Threads that compute at the same time compute the same node, and the same
\* half of it: what one reads, no other still writes.
Lockstep ==
    LET working(t) == pc[t] \in {"rows", "init", "chunks"}
        half(t)    == IF pc[t] = "chunks" THEN 1 ELSE 0
    IN \A t, u \in Thread :
          working(t) /\ working(u) => node_n[t] = node_n[u] /\ half(t) = half(u)

\* While the main thread may change the parameters of the pool, every worker is
\* between two graphs, or about to see that the last barrier is open.
ParamsQuiet ==
    pc[Main] \in Rests \ {"wake"} =>
        \A t \in Workers :
            pc[t] \in Computes =>
                pc[t] = "spin" /\ return[t] = "end" /\ n_barrier_passed # n_passed[t]

\* No chunk is computed twice; when the graph is done every chunk is of every
\* node up to the one where it was aborted, and of none behind it.
Wanted(n) ==
    IF Node(n) = "nop" THEN {}
    ELSE IF Node(n) = "rows" THEN 0 .. n_threads - 1 ELSE 0 .. NChunk - 1

EachOnce ==
    /\ \A x, y \in computed : x.node = y.node /\ x.chunk = y.chunk => x = y
    /\ pc[Main] = "idle" /\ n_graph > 0 =>
          {<<x.node, x.chunk>> : x \in computed} =
          UNION {{<<n, c>> : c \in Wanted(n)} :
                     n \in 0 .. (IF abort = -1 THEN Len_ ELSE abort) - 1}

\* Every graph that is kicked off is computed, and a pool that is freed is joined.
GraphEnds ==
    /\ pc[Main] = "kick" ~> pc[Main] = "idle"
    /\ pc[Main] = "join" ~> pc[Main] = "freed"
=============================================================================
