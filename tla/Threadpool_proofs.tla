-------------------------- MODULE Threadpool_proofs --------------------------
(***************************************************************************)
(* What is proved about Threadpool, for any number of threads and any      *)
(* graphs: the barrier keeps the threads in step, and every graph is       *)
(* computed once.                                                          *)
(*                                                                         *)
(* The inductive invariant says where every active thread is: all are at   *)
(* one place of the graph (Position), the number in the barrier is         *)
(* n_barrier (Counting), and the others stay out (Scheduling).  On it      *)
(* rests the one of what has been computed (Results): of every node behind *)
(* a thread its rows, and every chunk, unless a thread still holds it; the *)
(* chunks held are distinct, not computed and below current_chunk.         *)
(***************************************************************************)
EXTENDS Threadpool, FiniteSetTheorems, TLAPS

\* The thread saw the last barrier of a graph open and has not noticed yet.
Out(t) == pc[t] = "spin" /\ return[t] = "end" /\ n_barrier_passed # n_passed[t]

\* A graph was kicked off and its last barrier is not open.
On == pc[Main] = "wake" \/ (pc[Main] \in Computes /\ ~Out(Main))

Act == {t \in Thread : Active(t)}

Resting(w) == pc[w] \in Computes => Out(w)
Ahead(w)   == last_graph[w] # n_graph /\ Resting(w)
Inside(w)  == last_graph[w] = n_graph /\ pc[w] \in Computes /\ ~Out(w)

Scheduling ==
    /\ pc[Main] \in Rests \cup Computes
    /\ \A w \in Workers : pc[w] \in Waits \cup Computes /\ last_graph[w] <= n_graph
    /\ ~On => \A w \in Workers : Resting(w) /\ (Active(w) => last_graph[w] = n_graph)
    /\ On => /\ Active(Main)
             /\ \A w \in Workers : IF Active(w) THEN Ahead(w) \/ Inside(w) ELSE Resting(w)

Half(m)     == IF Node(m) = "rows" THEN 0 ELSE 1
Leads(n, m) == n <= m /\ \A k \in n .. m - 1 : k < Len_ /\ Node(k) = "nop" /\ abort # k
Busy(m)     == m < Len_ /\ Node(m) # "nop" /\ abort # m

\* The thread computed the last node, after which there is no barrier but the one
\* behind the loop.
Past(t, m, h) == node_n[t] = Len_ /\ m + 1 = Len_ /\ Busy(m) /\ h = Half(m)

InBarrier(t) ==
    \/ pc[t] \in {"arrive", "add", "last", "release"}
    \/ pc[t] = "spin" /\ n_passed[t] = n_barrier_passed

Arriving(t, m, h) ==
    \/ return[t] = "chunks" /\ node_n[t] = m /\ h = 0 /\ Busy(m) /\ Node(m) = "chunks"
    \/ return[t] = "node" /\ node_n[t] = m + 1 /\ m + 1 < Len_ /\ Busy(m) /\ h = Half(m)
    \/ return[t] = "end" /\ ((node_n[t] = m /\ h = 0 /\ Over(m)) \/ Past(t, m, h))

At(t, m, h) ==
    \/ /\ (t = Main /\ pc[t] = "wake") \/ pc[t] = "run" \/ (t # Main /\ Ahead(t))
       /\ h = 0 /\ Leads(0, m)
    \/ pc[t] = "node" /\ ((h = 0 /\ Leads(node_n[t], m)) \/ Past(t, m, h))
    \/ pc[t] = "rows" /\ node_n[t] = m /\ h = 0 /\ Busy(m) /\ Node(m) = "rows"
    \/ pc[t] = "init" /\ node_n[t] = m /\ h = 0 /\ Busy(m) /\ Node(m) = "chunks"
    \/ pc[t] = "chunks" /\ node_n[t] = m /\ h = 1 /\ Busy(m) /\ Node(m) = "chunks"
    \/ pc[t] = "post" /\ node_n[t] = m /\ h = Half(m) /\ Busy(m)
    \/ InBarrier(t) /\ Arriving(t, m, h)
    \/ /\ pc[t] = "spin" /\ n_passed[t] # n_barrier_passed
       /\ \/ return[t] = "chunks" /\ node_n[t] = m /\ h = 1 /\ Busy(m) /\ Node(m) = "chunks"
          \/ return[t] = "node" /\ h = 0 /\ Leads(node_n[t], m)

Position == On => \E m \in Nat, h \in {0, 1} : \A t \in Act : At(t, m, h)

Arrived == {t \in Act : pc[t] = "last" \/ (pc[t] = "spin" /\ n_passed[t] = n_barrier_passed)}

Counting ==
    /\ ~On => n_barrier = 0
    /\ \A t \in Thread :
         /\ pc[t] = "add" => n_passed[t] = n_barrier_passed
         /\ pc[t] = "spin" => n_passed[t] <= n_barrier_passed
         /\ pc[t] \in {"last", "release"} =>
                \A u \in Act : u # t => pc[u] = "spin" /\ n_passed[u] = n_barrier_passed
         /\ pc[t] = "release" => n_barrier = 0
    /\ On /\ (\A t \in Thread : pc[t] # "release") => n_barrier = Cardinality(Arrived)

IInv == TypeOK /\ Scheduling /\ Position /\ Counting

----------------------------------------------------------------------------
(* Types *)

LEMMA GraphFacts ==
  ASSUME TypeOK
  PROVE  /\ graph.nodes \in Seq(Kinds) /\ Len_ \in Nat
         /\ \A n \in Nat : n < Len_ => Node(n) \in Kinds
         /\ Main \in Thread /\ NPool \in Nat /\ n_threads \in Nat
         /\ \A t \in Thread : t \in Nat
  BY PoolAssumption DEF TypeOK, Len_, Node, Main, Thread

LEMMA InitInv == Init => IInv
  <1> SUFFICES ASSUME Init PROVE IInv
    OBVIOUS
  <1>1. TypeOK
    <2>1. pc \in [Thread -> Waits \cup Rests \cup Computes]
      BY DEF Init, Waits, Rests
    <2>2. n_threads \in 0 .. NPool /\ n_graph \in Nat /\ abort \in Nat \cup {-1} /\ graph \in Graphs
      BY PoolAssumption DEF Init
    <2>3. computed \subseteq [node : Nat, chunk : Nat, by : Thread]
      BY DEF Init
    <2>4. /\ last_graph \in [Thread -> Nat] /\ node_n \in [Thread -> Nat]
          /\ n_passed \in [Thread -> Nat] /\ chunk \in [Thread -> Nat]
          /\ return \in [Thread -> {"chunks", "node", "end"}]
      BY DEF Init
    <2> QED BY <2>1, <2>2, <2>3, <2>4 DEF Init, TypeOK
  <1>2. ~On
    BY PoolAssumption DEF Init, On, Computes, Main, Thread
  <1>3. Scheduling
    BY <1>2, PoolAssumption DEF Init, Scheduling, Resting, Computes, Rests, Waits, Main, Thread, Workers, Active
  <1>4. Counting
    BY <1>2 DEF Init, Counting, Main
  <1> QED BY <1>1, <1>2, <1>3, <1>4 DEF IInv, Position

LEMMA StepType ==
  ASSUME TypeOK, [Next]_vars
  PROVE  TypeOK'
  <1> USE PoolAssumption DEF TypeOK, Waits, Rests, Computes, pool, barrier, data, rest, Goto, Broadcast
  <1>1. ASSUME NEW g \in Graphs, Compute(g) PROVE TypeOK'
    BY <1>1 DEF Compute
  <1>2. CASE KickOff
    <2>1. graph.n_threads \in Nat \ {0} /\ NPool \in Nat \ {0}
      OBVIOUS
    <2>2. n_threads' \in 0 .. NPool
      BY <1>2, <2>1 DEF KickOff
    <2>3. pc' = [pc EXCEPT ![Main] = "wake"] /\ n_graph' = n_graph + 1
      BY <1>2 DEF KickOff
    <2>4. pc' \in [Thread -> Waits \cup Rests \cup Computes]
      BY <2>3
    <2>5. n_graph' \in Nat
      BY <2>3
    <2> QED BY <1>2, <2>2, <2>4, <2>5 DEF KickOff
  <1>3. CASE Wake
    BY <1>3 DEF Wake
  <1>4. ASSUME NEW p \in BOOLEAN, Pause(p) PROVE TypeOK'
    BY <1>4 DEF Pause
  <1>5. CASE Free
    BY <1>5 DEF Free
  <1>6. CASE Join
    BY <1>6 DEF Join
  <1>7. CASE UNCHANGED vars
    BY <1>7 DEF vars
  <1>8. ASSUME NEW t \in Workers, Waiting(t) \/ Spurious(t) PROVE TypeOK'
    <2>1. t \in Thread
      BY DEF Workers
    <2>2. pc' \in [Thread -> Waits \cup Rests \cup Computes]
      BY <1>8, <2>1 DEF Waiting, Loop, Paused, Poll, Lock, Spurious
    <2>3. last_graph' \in [Thread -> Nat]
      BY <1>8, <2>1 DEF Waiting, Loop, Paused, Poll, Lock, Spurious, Seen
    <2> QED BY <1>8, <2>2, <2>3 DEF Waiting, Loop, Paused, Poll, Lock, Spurious
  <1>9. ASSUME NEW t \in Thread, Run(t) \/ Nodes(t) PROVE TypeOK'
    <2>1. pc' \in [Thread -> Waits \cup Rests \cup Computes]
      BY <1>9 DEF Run, Nodes, SkipNode, StartNode, LeaveLoop
    <2>2. node_n' \in [Thread -> Nat]
      <3>1. node_n[t] + 1 \in Nat
        OBVIOUS
      <3> QED BY <1>9, <3>1 DEF Run, Nodes, SkipNode, StartNode, LeaveLoop
    <2>3. return' \in [Thread -> {"chunks", "node", "end"}]
      BY <1>9 DEF Run, Nodes, SkipNode, StartNode, LeaveLoop
    <2> QED BY <1>9, <2>1, <2>2, <2>3 DEF Run, Nodes, SkipNode, StartNode, LeaveLoop
  <1>10. ASSUME NEW t \in Thread, Work(t) PROVE TypeOK'
    <2>1. t \in Nat
      BY DEF Thread
    <2>2. CASE Rows(t)
      BY <2>1, <2>2 DEF Rows, Done
    <2>3. CASE ChunksInit(t)
      BY <2>1, <2>3 DEF ChunksInit
    <2>4. CASE Chunk(t)
      <3>1. [node |-> node_n[t], chunk |-> chunk[t], by |-> t] \in [node : Nat, chunk : Nat, by : Thread]
        OBVIOUS
      <3>2. computed' \subseteq [node : Nat, chunk : Nat, by : Thread]
        BY <2>4, <3>1 DEF Chunk, Done
      <3>3. /\ chunk' \in {chunk, [chunk EXCEPT ![t] = current_chunk]}
            /\ current_chunk' \in {current_chunk, current_chunk + 1}
        BY <2>4 DEF Chunk
      <3>5. current_chunk' \in Nat
        BY <3>3
      <3>6. chunk' \in [Thread -> Nat]
        BY <3>3
      <3>4. pc' \in [Thread -> Waits \cup Rests \cup Computes]
        BY <2>4 DEF Chunk
      <3> QED BY <2>4, <3>2, <3>4, <3>5, <3>6 DEF Chunk
    <2>5. CASE ChunksOver(t)
      BY <2>1, <2>5 DEF ChunksOver
    <2>6. CASE Post(t)
      <3>1. node_n[t] \in Nat
        OBVIOUS
      <3>2. abort' \in Nat \cup {-1} /\ node_n' \in [Thread -> Nat]
        BY <2>6, <3>1 DEF Post
      <3>3. pc' \in [Thread -> Waits \cup Rests \cup Computes] /\ return' \in [Thread -> {"chunks", "node", "end"}]
        BY <2>6 DEF Post
      <3> QED BY <2>6, <3>2, <3>3 DEF Post
    <2> QED BY <1>10, <2>2, <2>3, <2>4, <2>5, <2>6 DEF Work
  <1>11. ASSUME NEW t \in Thread, Barrier(t) PROVE TypeOK'
    <2>1. Left(t) \in Waits \cup Rests \cup Computes
      BY DEF Left
    <2>2. CASE Arrive(t)
      BY <2>1, <2>2 DEF Arrive
    <2>3. CASE Add(t)
      BY <2>1, <2>3 DEF Add
    <2>4. CASE Last(t)
      BY <2>1, <2>4 DEF Last
    <2>5. CASE Release(t)
      BY <2>1, <2>5 DEF Release
    <2>6. CASE Spin(t)
      BY <2>1, <2>6 DEF Spin
    <2> QED BY <1>11, <2>2, <2>3, <2>4, <2>5, <2>6 DEF Barrier
  <1> QED BY <1>1, <1>2, <1>3, <1>4, <1>5, <1>6, <1>7, <1>8, <1>9, <1>10, <1>11
        DEF Next, Begin, Gone, Computing

----------------------------------------------------------------------------
(* Who is inside a graph *)

LEMMA InGraph ==
  ASSUME TypeOK, Scheduling, NEW t \in Thread, pc[t] \in Computes, ~Out(t)
  PROVE  On /\ t \in Act /\ (t # Main => Inside(t))
  <1>1. CASE t = Main
    BY <1>1 DEF On, Scheduling, Act
  <1>2. CASE t # Main
    <2>1. t \in Workers /\ ~Resting(t)
      BY <1>2 DEF Workers, Resting
    <2> QED BY <2>1 DEF Scheduling, Ahead, Act
  <1> QED BY <1>1, <1>2

LEMMA InGraphPlace ==
  ASSUME TypeOK, NEW t \in Thread, pc[t] \in Computes, pc[t] # "spin"
  PROVE  ~Out(t)
  BY DEF Out

Inner == {"run", "node", "rows", "init", "chunks", "post", "arrive"}

\* The thread is inside of a graph, and not one of those the barrier has counted.
Uncounted(t) == pc[t] \in Inner \/ (pc[t] = "spin" /\ n_passed[t] # n_barrier_passed /\ ~Out(t))

\* A step of a thread inside of a graph that stays inside.
LEMMA StepWithin ==
  ASSUME TypeOK, TypeOK', Scheduling,
         NEW t \in Thread, NEW p \in Computes, pc[t] \in Computes, pc' = [pc EXCEPT ![t] = p],
         ~Out(t), ~Out(t)',
         UNCHANGED <<n_graph, n_threads, n_barrier_passed, last_graph>>,
         \A u \in Thread : u # t => return'[u] = return[u] /\ n_passed'[u] = n_passed[u]
  PROVE  On' /\ Scheduling'
  <1>1. On /\ t \in Act /\ (t # Main => Inside(t))
    BY InGraph
  <1>2. \A u \in Thread : u # t => pc'[u] = pc[u] /\ Out(u)' = Out(u)
    BY DEF TypeOK, Out
  <1>3. pc'[t] = p
    BY DEF TypeOK
  <1>4. Main \in Thread /\ Workers \subseteq Thread
    BY PoolAssumption DEF Main, Thread, Workers
  <1>5. On'
    <2>1. CASE t = Main
      BY <2>1, <1>3 DEF On
    <2>2. CASE t # Main
      BY <2>2, <1>1, <1>2, <1>4 DEF On
    <2> QED BY <2>1, <2>2
  <1>6. Scheduling'
    <2>1. \A u \in Thread : Active(u)' = Active(u)
      BY DEF Active
    <2>2. pc'[Main] \in Rests \cup Computes
      BY <1>2, <1>3, <1>4 DEF Scheduling
    <2>3. ASSUME NEW w \in Workers
          PROVE  /\ pc'[w] \in Waits \cup Computes /\ last_graph'[w] <= n_graph'
                 /\ IF Active(w)' THEN Ahead(w)' \/ Inside(w)' ELSE Resting(w)'
      <3>1. CASE w = t
        BY <3>1, <1>1, <1>3, <2>1, <2>3 DEF Scheduling, Inside, Act, Workers
      <3>2. CASE w # t
        BY <3>2, <1>1, <1>2, <1>4, <2>1, <2>3 DEF Scheduling, Inside, Ahead, Resting
      <3> QED BY <3>1, <3>2
    <2>4. Active(Main)'
      BY <1>1, <2>1, <1>4 DEF Scheduling
    <2> QED BY <1>5, <2>2, <2>3, <2>4 DEF Scheduling
  <1> QED BY <1>5, <1>6

\* A step of a thread that the barrier has not counted, to where it has not either.
LEMMA StepInside ==
  ASSUME TypeOK, TypeOK', Scheduling, Counting,
         NEW t \in Thread, NEW p \in Inner \cup {"add"}, Uncounted(t), pc' = [pc EXCEPT ![t] = p],
         UNCHANGED <<n_graph, n_threads, n_barrier, n_barrier_passed, last_graph>>,
         \A u \in Thread : u # t => return'[u] = return[u] /\ n_passed'[u] = n_passed[u],
         p = "add" => n_passed'[t] = n_barrier_passed
  PROVE  On' /\ Scheduling' /\ Counting'
  <1>1. On /\ t \in Act /\ pc[t] \in Computes /\ ~Out(t)
    <2>1. pc[t] \in Computes /\ ~Out(t)
      BY InGraphPlace DEF Uncounted, Inner, Computes
    <2> QED BY <2>1, InGraph
  <1>2. \A u \in Thread : u # t => pc'[u] = pc[u] /\ Out(u)' = Out(u)
    BY DEF TypeOK, Out
  <1>3. pc'[t] = p /\ ~Out(t) /\ ~Out(t)' /\ p \in Computes
    BY DEF TypeOK, Out, Inner, Computes, Uncounted
  <1>5. On' /\ Scheduling'
    BY <1>1, <1>3, StepWithin
  <1>7. Arrived' = Arrived
    BY <1>2, <1>3 DEF Arrived, Act, Active, Inner, Uncounted
  <1>8. Counting'
    <2>1. \A u \in Thread : pc'[u] \in {"spin", "last", "release"} => u # t /\ pc'[u] = pc[u]
      BY <1>2, <1>3 DEF Inner
    <2>2. (\A u \in Thread : pc'[u] # "release") <=> (\A u \in Thread : pc[u] # "release")
      BY <1>2, <1>3 DEF Inner, Uncounted
    <2>3. Act' = Act /\ Act \subseteq Thread
      BY DEF Act, Active
    <2>4. \A u \in Thread : pc'[u] = "add" => n_passed'[u] = n_barrier_passed'
      BY <1>2, <1>3 DEF Counting
    <2>5. ASSUME NEW u \in Thread, pc'[u] \in {"last", "release"}, NEW v \in Act, v # u
          PROVE  pc'[v] = "spin" /\ n_passed'[v] = n_barrier_passed'
      <3>1. pc[v] = "spin" /\ n_passed[v] = n_barrier_passed
        BY <2>1, <2>5 DEF Counting
      <3> QED BY <3>1, <1>2, <2>3 DEF Uncounted, Inner
    <2>6. \A u \in Thread : pc'[u] = "spin" => n_passed'[u] <= n_barrier_passed'
      BY <2>1 DEF Counting
    <2>7. \A u \in Thread : pc'[u] = "release" => n_barrier' = 0
      BY <2>1 DEF Counting
    <2>8. (\A u \in Thread : pc'[u] # "release") => n_barrier' = Cardinality(Arrived')
      BY <1>1, <1>7, <2>2 DEF Counting
    <2> QED BY <1>5, <2>3, <2>4, <2>5, <2>6, <2>7, <2>8 DEF Counting
  <1> QED BY <1>5, <1>8

----------------------------------------------------------------------------
(* Where they are *)

places == <<graph, abort, n_graph, n_barrier_passed, n_passed, last_graph>>

\* A thread that does nothing stays where it is.
LEMMA Stays ==
  ASSUME NEW u \in Thread, NEW m \in Nat, NEW h \in {0, 1}, At(u, m, h), UNCHANGED places,
         pc'[u] = pc[u], node_n'[u] = node_n[u], return'[u] = return[u]
  PROVE  At(u, m, h)'
  BY DEF At, Arriving, InBarrier, Past, Busy, Leads, Half, Over, Ahead, Resting, Out, Node, Len_, places

\* The place of all threads moves on when the first of them skips an empty node.
LEMMA MovesOn ==
  ASSUME TypeOK, NEW u \in Thread, NEW m \in Nat, At(u, m, 0), ~Over(m), Node(m) = "nop"
  PROVE  At(u, m + 1, 0)
  <1>1. m < Len_ /\ abort # m /\ ~Busy(m)
    BY GraphFacts DEF Over, Busy
  <1>2. \A k \in Nat : Leads(k, m) => Leads(k, m + 1)
    BY <1>1, GraphFacts DEF Leads
  <1>3. node_n[u] \in Nat
    BY DEF TypeOK
  <1> QED BY <1>1, <1>2, <1>3 DEF At, Arriving, Past, Over

\* Asking for an abort while all are at node m leaves them there.
LEMMA AbortStays ==
  ASSUME TypeOK, NEW u \in Thread, NEW m \in Nat, NEW h \in {0, 1}, At(u, m, h), Busy(m),
         abort' \in {abort, m + 1},
         UNCHANGED <<graph, n_graph, n_barrier_passed, n_passed, last_graph>>,
         pc'[u] = pc[u], node_n'[u] = node_n[u], return'[u] = return[u]
  PROVE  At(u, m, h)'
  <1>1. Len_' = Len_ /\ Busy(m)' /\ Half(m)' = Half(m) /\ Node(m)' = Node(m)
    BY DEF Len_, Busy, Half, Node
  <1>2. \A k \in Nat : Leads(k, m) => Leads(k, m)'
    BY DEF Leads, Len_, Node
  <1>3. node_n[u] \in Nat /\ ~Over(m)
    BY GraphFacts DEF TypeOK, Over, Busy
  <1>4. Ahead(u)' = Ahead(u) /\ InBarrier(u)' = InBarrier(u)
    BY DEF Ahead, Resting, Out, InBarrier
  <1>5. Past(u, m, h) => Past(u, m, h)'
    BY <1>1 DEF Past
  <1> QED BY <1>1, <1>2, <1>3, <1>4, <1>5 DEF At, Arriving

LEMMA PositionInside ==
  ASSUME TypeOK, Scheduling, Position, NEW t \in Thread,
         Run(t) \/ Nodes(t) \/ Work(t)
  PROVE  Position'
  <1> DEFINE n == node_n[t]
  <1>0. n \in Nat /\ pc[t] \in Inner
    BY DEF TypeOK, Run, Nodes, SkipNode, StartNode, LeaveLoop, Work, Rows, ChunksInit, Chunk,
           ChunksOver, Post, Inner
  <1>1. On /\ t \in Act /\ (t # Main => Inside(t))
    BY <1>0, InGraph, InGraphPlace DEF Inner, Computes
  <1>2. PICK m \in Nat, h \in {0, 1} : \A u \in Act : At(u, m, h)
    BY <1>1 DEF Position
  <1>3. At(t, m, h) /\ ~(t # Main /\ Ahead(t)) /\ Act \subseteq Thread
    BY <1>1, <1>2 DEF Act, Inside, Ahead
  <1>4. Act' = Act
    BY DEF Act, Active, pool, data, Run, Nodes, SkipNode, StartNode, LeaveLoop, Work, Rows,
           ChunksInit, Chunk, ChunksOver, Post
  <1>5. \A u \in Act : u # t => pc'[u] = pc[u] /\ node_n'[u] = node_n[u] /\ return'[u] = return[u]
    BY <1>3 DEF TypeOK, data, Goto, Run, Nodes, SkipNode, StartNode, LeaveLoop, Work, Rows,
           ChunksInit, Chunk, ChunksOver, Post
  <1>6. ~Post(t) => UNCHANGED places
    BY DEF places, pool, barrier, data, Run, Nodes, SkipNode, StartNode, LeaveLoop, Work, Rows,
           ChunksInit, Chunk, ChunksOver
  <1>7. ASSUME UNCHANGED places, At(t, m, h)'
        PROVE  Position'
    <2>1. \A u \in Act' : At(u, m, h)'
      BY <1>2, <1>3, <1>4, <1>5, <1>7, Stays
    <2> QED BY <2>1 DEF Position
  <1>8. CASE Run(t)
    <2>1. h = 0 /\ Leads(0, m)
      BY <1>3, <1>8 DEF Run, At, InBarrier
    <2>2. pc'[t] = "node" /\ node_n'[t] = 0 /\ Leads(0, m)'
      BY <1>8, <2>1 DEF Run, Goto, TypeOK, Leads, pool, Len_, Node
    <2>3. At(t, m, h)'
      BY <2>1, <2>2 DEF At
    <2> QED BY <1>6, <1>7, <1>8, <2>3 DEF Run, Post
  <1>9. CASE SkipNode(t)
    <2>1. h = 0 /\ Leads(n, m)
      BY <1>3, <1>9, <1>0, GraphFacts DEF SkipNode, At, InBarrier, Past, Over
    <2>2. pc'[t] = "node" /\ node_n'[t] = n + 1
      BY <1>9 DEF SkipNode, TypeOK
    <2>3. UNCHANGED places
      BY <1>6, <1>9 DEF SkipNode, Post
    <2>4. CASE n < m
      <3>1. Leads(n + 1, m)
        BY <2>1, <2>4, <1>0 DEF Leads
      <3>3. \A k \in Nat : Leads(k, m)' = Leads(k, m)
        BY <2>3 DEF Leads, places, Len_, Node
      <3>2. At(t, m, h)'
        BY <2>1, <2>2, <3>1, <3>3, <1>0 DEF At
      <3> QED BY <1>7, <2>3, <3>2
    <2>5. CASE n = m
      <3>1. \A u \in Act : At(u, m + 1, 0)
        BY <1>2, <1>3, <1>9, <2>1, <2>5, MovesOn DEF SkipNode
      <3>2. \A u \in Act : u # t => At(u, m + 1, 0)'
        BY <3>1, <1>3, <1>5, <2>3, Stays
      <3>3. Leads(m + 1, m + 1)'
        BY DEF Leads
      <3>4. At(t, m + 1, 0)'
        BY <2>2, <2>5, <3>3 DEF At
      <3>5. \A u \in Act' : At(u, m + 1, 0)'
        BY <1>4, <3>2, <3>4
      <3> QED BY <3>5 DEF Position
    <2> QED BY <2>1, <2>4, <2>5, <1>0 DEF Leads
  <1>10. CASE StartNode(t)
    <2>1. h = 0 /\ Leads(n, m)
      BY <1>3, <1>10, <1>0, GraphFacts DEF StartNode, At, InBarrier, Past, Over
    <2>2. n = m /\ Busy(m) /\ Node(m) \in Kinds \ {"nop"}
      BY <2>1, <1>0, <1>10, GraphFacts DEF StartNode, Leads, Over, Busy
    <2>3. pc'[t] = (IF Node(m) = "rows" THEN "rows" ELSE "init") /\ node_n'[t] = m
      BY <1>10, <2>2 DEF StartNode, Goto, TypeOK, data
    <2>4. UNCHANGED places
      BY <1>6, <1>10 DEF StartNode, Post
    <2>5. Busy(m)' /\ Node(m)' = Node(m)
      BY <2>2, <2>4 DEF Busy, places, Len_, Node
    <2>6. At(t, m, h)'
      BY <2>1, <2>2, <2>3, <2>5 DEF At, Kinds
    <2> QED BY <1>7, <2>4, <2>6
  <1>11. CASE LeaveLoop(t)
    <2>1. (h = 0 /\ Leads(n, m)) \/ Past(t, m, h)
      BY <1>3, <1>11 DEF LeaveLoop, At, InBarrier
    <2>2. Leads(n, m) => n = m /\ Over(m)
      BY <1>0, <1>11, GraphFacts DEF LeaveLoop, Leads, Over
    <2>3. pc'[t] = "arrive" /\ return'[t] = "end" /\ node_n'[t] = n
      BY <1>11 DEF LeaveLoop, Goto, TypeOK
    <2>4. UNCHANGED places
      BY <1>6, <1>11 DEF LeaveLoop, Post
    <2>5. Over(m)' = Over(m) /\ Past(t, m, h)' = Past(t, m, h)
      BY <2>3, <2>4 DEF Over, Past, Busy, Half, places, Len_, Node
    <2>6. Arriving(t, m, h)' /\ InBarrier(t)'
      BY <2>1, <2>2, <2>3, <2>5 DEF Arriving, InBarrier
    <2>7. At(t, m, h)'
      BY <2>6 DEF At
    <2> QED BY <1>7, <2>4, <2>7
  <1>12. CASE Work(t) /\ ~Post(t)
    <2>1. UNCHANGED places
      BY <1>6, <1>12
    <2>2. Busy(m)' = Busy(m) /\ Node(m)' = Node(m) /\ Half(m)' = Half(m)
      BY <2>1 DEF Busy, places, Len_, Node, Half
    <2>3. CASE Rows(t)
      <3>1. h = 0 /\ Busy(m) /\ Node(m) = "rows" /\ n = m
        BY <2>3, <1>3 DEF Rows, At, InBarrier
      <3>2. pc'[t] = "post" /\ node_n'[t] = n
        BY <2>3 DEF Rows, Goto, TypeOK
      <3>3. At(t, m, h)'
        BY <2>2, <3>1, <3>2 DEF At, Half
      <3> QED BY <1>7, <2>1, <3>3
    <2>4. CASE ChunksInit(t)
      <3>1. h = 0 /\ Busy(m) /\ Node(m) = "chunks" /\ n = m
        BY <2>4, <1>3 DEF ChunksInit, At, InBarrier
      <3>2. pc'[t] = "arrive" /\ node_n'[t] = n /\ return'[t] = "chunks"
        BY <2>4 DEF ChunksInit, Goto, TypeOK
      <3>3. At(t, m, h)'
        BY <2>2, <3>1, <3>2 DEF At, Arriving, InBarrier
      <3> QED BY <1>7, <2>1, <3>3
    <2>5. CASE Chunk(t) \/ ChunksOver(t)
      <3>1. h = 1 /\ Busy(m) /\ Node(m) = "chunks" /\ n = m
        BY <2>5, <1>3 DEF Chunk, ChunksOver, At, InBarrier
      <3>2. pc'[t] \in {"chunks", "post"} /\ node_n'[t] = n
        BY <2>5 DEF Chunk, ChunksOver, Goto, TypeOK, data
      <3>3. At(t, m, h)'
        BY <2>2, <3>1, <3>2 DEF At, Half
      <3> QED BY <1>7, <2>1, <3>3
    <2> QED BY <1>12, <2>3, <2>4, <2>5 DEF Work
  <1>13. CASE Post(t)
    <2>1. h = Half(m) /\ Busy(m) /\ n = m
      BY <1>3, <1>13 DEF Post, At, InBarrier
    <2>2. abort' \in {abort, m + 1} /\ node_n'[t] = m + 1
      BY <1>13, <2>1 DEF Post, TypeOK
    <2>3. UNCHANGED <<graph, n_graph, n_barrier_passed, n_passed, last_graph>>
      BY <1>13 DEF Post, pool, barrier
    <2>4. \A u \in Act : u # t => At(u, m, h)'
      BY <1>2, <1>3, <1>5, <2>1, <2>2, <2>3, AbortStays
    <2>5. Busy(m)' /\ Half(m)' = Half(m) /\ Len_' = Len_
      BY <2>1, <2>2, <2>3 DEF Busy, Half, Len_, Node
    <2>6. m + 1 < Len_ => At(t, m, h)'
      <3> SUFFICES ASSUME m + 1 < Len_ PROVE At(t, m, h)'
        OBVIOUS
      <3>1. pc'[t] = "arrive" /\ return'[t] = "node"
        BY <1>13, <2>1 DEF Post, Goto, TypeOK
      <3>2. Arriving(t, m, h)' /\ InBarrier(t)'
        BY <2>1, <2>2, <2>5, <3>1 DEF Arriving, InBarrier
      <3> QED BY <3>2 DEF At
    <2>7. ~(m + 1 < Len_) => At(t, m, h)'
      <3> SUFFICES ASSUME ~(m + 1 < Len_) PROVE At(t, m, h)'
        OBVIOUS
      <3>1. pc'[t] = "node" /\ m + 1 = Len_
        BY <1>13, <2>1, GraphFacts DEF Post, Goto, TypeOK, Busy
      <3>2. Past(t, m, h)'
        BY <2>1, <2>2, <2>5, <3>1 DEF Past
      <3> QED BY <3>1, <3>2 DEF At
    <2>8. \A u \in Act' : At(u, m, h)'
      BY <1>4, <2>4, <2>6, <2>7
    <2> QED BY <2>8 DEF Position
  <1> QED BY <1>8, <1>9, <1>10, <1>11, <1>12, <1>13 DEF Nodes, Work

LEMMA ComputingInv ==
  ASSUME IInv, TypeOK', NEW t \in Thread, Run(t) \/ Nodes(t) \/ Work(t)
  PROVE  IInv'
  <1> USE DEF IInv
  <1>1. Position'
    BY PositionInside
  <1>2. pc[t] \in Inner
    BY DEF Run, Nodes, SkipNode, StartNode, LeaveLoop, Work, Rows, ChunksInit, Chunk,
           ChunksOver, Post, Inner
  <1>3. UNCHANGED <<n_graph, n_threads, n_barrier, n_barrier_passed, last_graph, n_passed>>
    BY DEF pool, barrier, data, Run, Nodes, SkipNode, StartNode, LeaveLoop, Work, Rows,
           ChunksInit, Chunk, ChunksOver, Post
  <1>4. \A u \in Thread : u # t => return'[u] = return[u]
    BY DEF TypeOK, data, Run, Nodes, SkipNode, StartNode, LeaveLoop, Work, Rows,
           ChunksInit, Chunk, ChunksOver, Post
  <1>5. \E p \in Inner : pc' = [pc EXCEPT ![t] = p]
    <2>1. CASE SkipNode(t)
      BY <2>1 DEF SkipNode, TypeOK, Inner
    <2>2. CASE Chunk(t)
      BY <2>2 DEF Chunk, TypeOK, Inner, Goto
    <2>3. CASE Run(t) \/ StartNode(t) \/ LeaveLoop(t) \/ Rows(t) \/ ChunksInit(t) \/ ChunksOver(t) \/ Post(t)
      BY <2>3 DEF Goto, Inner, Run, StartNode, LeaveLoop, Rows, ChunksInit, ChunksOver, Post
    <2> QED BY <2>1, <2>2, <2>3 DEF Nodes, Work
  <1>6. PICK p \in Inner : pc' = [pc EXCEPT ![t] = p]
    BY <1>5
  <1>7. p # "add"
    BY DEF Inner
  <1>8. Scheduling' /\ Counting'
    BY <1>2, <1>3, <1>4, <1>6, <1>7, StepInside DEF Uncounted
  <1> QED BY <1>1, <1>8

----------------------------------------------------------------------------
(* The barrier *)

\* A thread in the barrier knows where it goes, and all go to the same place.
LEMMA AtBarrier ==
  ASSUME NEW t \in Thread, NEW m \in Nat, NEW h \in {0, 1}, At(t, m, h), InBarrier(t)
  PROVE  Arriving(t, m, h)
  BY DEF At, InBarrier, Ahead, Resting, Out, Computes

LEMMA Together ==
  ASSUME TypeOK, NEW t \in Thread, NEW u \in Thread, NEW m \in Nat, NEW h \in {0, 1},
         Arriving(t, m, h), Arriving(u, m, h)
  PROVE  return[u] = return[t]
  BY GraphFacts DEF Arriving, Past, Busy, Half, Over

\* A thread that does nothing stays where it is, whatever another one read.
LEMMA StaysHere ==
  ASSUME NEW u \in Thread, NEW m \in Nat, NEW h \in {0, 1}, At(u, m, h),
         UNCHANGED <<graph, abort, n_graph, n_barrier_passed, last_graph>>,
         pc'[u] = pc[u], node_n'[u] = node_n[u], return'[u] = return[u], n_passed'[u] = n_passed[u]
  PROVE  At(u, m, h)'
  BY DEF At, Arriving, InBarrier, Past, Busy, Leads, Half, Over, Ahead, Resting, Out, Node, Len_

\* A thread that stays in the barrier stays where it is, too.
LEMMA StaysInBarrier ==
  ASSUME NEW t \in Thread, NEW m \in Nat, NEW h \in {0, 1}, At(t, m, h), InBarrier(t), InBarrier(t)',
         UNCHANGED <<graph, abort>>, node_n'[t] = node_n[t], return'[t] = return[t]
  PROVE  At(t, m, h)'
  <1>1. Arriving(t, m, h)
    BY AtBarrier
  <1>2. Arriving(t, m, h)'
    BY <1>1 DEF Arriving, Past, Busy, Half, Over, Node, Len_
  <1> QED BY <1>2 DEF At

\* The threads inside a graph, and how many there are.
LEMMA ActFinite ==
  ASSUME TypeOK
  PROVE  /\ IsFiniteSet(Act) /\ Cardinality(Act) = n_threads
         /\ \A S \in SUBSET Act : IsFiniteSet(S) /\ Cardinality(S) \in Nat
  <1>1. n_threads \in Nat /\ NPool \in Nat /\ n_threads <= NPool
    BY PoolAssumption DEF TypeOK
  <1>2. Act = 0 .. n_threads - 1
    BY <1>1 DEF Act, Thread, Active
  <1>3. IsFiniteSet(Act) /\ Cardinality(Act) = n_threads
    BY <1>1, <1>2, FS_Interval
  <1> QED BY <1>3, FS_Subset, FS_CardinalityType

\* While a thread is about to be counted, none is the last.
LEMMA NoneIsLast ==
  ASSUME TypeOK, Scheduling, Counting, NEW t \in Thread, pc[t] \in Computes, pc[t] # "spin",
         NEW u \in Thread, u # t
  PROVE  pc[u] \notin {"last", "release"}
  <1>1. t \in Act
    BY InGraph, InGraphPlace
  <1> QED BY <1>1 DEF Counting

LEMMA ArriveInv ==
  ASSUME IInv, TypeOK', NEW t \in Thread, Arrive(t)
  PROVE  IInv'
  <1> USE DEF IInv
  <1>1. pc[t] = "arrive" /\ Uncounted(t) /\ InBarrier(t) /\ On /\ t \in Act
    BY InGraph, InGraphPlace DEF Arrive, Uncounted, Inner, InBarrier, Computes
  <1>2. PICK m \in Nat, h \in {0, 1} : \A u \in Act : At(u, m, h)
    BY <1>1 DEF Position
  <1>3. Arriving(t, m, h)
    BY <1>1, <1>2, AtBarrier
  <1>4. UNCHANGED <<graph, abort, n_graph, n_threads, n_barrier, n_barrier_passed, last_graph, node_n, return>>
    BY DEF Arrive, rest, pool, barrier
  <1>5. Act' = Act /\ Act \subseteq Thread
    BY <1>4 DEF Act, Active
  <1>6. CASE n_threads # 1
    <2>1. pc' = [pc EXCEPT ![t] = "add"] /\ n_passed' = [n_passed EXCEPT ![t] = n_barrier_passed]
      BY <1>6 DEF Arrive, Goto
    <2>2. n_passed'[t] = n_barrier_passed /\ pc'[t] = "add"
      BY <2>1 DEF TypeOK
    <2>3. \A u \in Thread : u # t => pc'[u] = pc[u] /\ n_passed'[u] = n_passed[u]
      BY <2>1 DEF TypeOK
    <2>4. Scheduling' /\ Counting'
      BY <1>1, <1>4, <2>1, <2>2, <2>3, StepInside
    <2>5. \A u \in Act : u # t => At(u, m, h)'
      BY <1>2, <1>4, <1>5, <2>3, StaysHere
    <2>6. At(t, m, h)'
      BY <1>1, <1>2, <1>4, <2>2, StaysInBarrier DEF InBarrier
    <2>7. Position'
      BY <1>5, <2>5, <2>6 DEF Position
    <2> QED BY <2>4, <2>7
  <1>7. CASE n_threads = 1
    <2>1. t = Main /\ Act = {Main}
      BY <1>1, <1>7, GraphFacts DEF Act, Active, Main
    <2>2. pc' = [pc EXCEPT ![t] = Left(t)] /\ n_passed' = n_passed
      BY <1>7 DEF Arrive, Goto
    <2>3. CASE return[t] # "end"
      <3>1. Left(t) = return[t] /\ return[t] \in {"chunks", "node"}
        BY <2>3 DEF Left, TypeOK
      <3>2. Left(t) \in Inner /\ pc'[t] = return[t]
        BY <2>2, <3>1 DEF Inner, TypeOK
      <3>3. Left(t) # "add"
        BY <3>1
      <3>4. Scheduling' /\ Counting'
        BY <1>1, <1>4, <2>2, <3>2, <3>3, StepInside
      <3>5. return[t] = "chunks" => At(t, m, 1)'
        BY <1>3, <1>4, <3>2 DEF Arriving, At, Busy, Node, Len_
      <3>6. return[t] = "node" => At(t, m + 1, 0)'
        <4>1. return[t] = "node" => node_n'[t] = m + 1
          BY <1>3, <1>4 DEF Arriving
        <4>2. Leads(m + 1, m + 1)'
          BY DEF Leads
        <4> QED BY <3>2, <4>1, <4>2 DEF At
      <3>7. Position'
        BY <1>5, <2>1, <3>1, <3>5, <3>6 DEF Position
      <3> QED BY <3>4, <3>7
    <2>4. CASE return[t] = "end"
      <3>1. pc'[Main] = "idle" /\ \A u \in Thread : u # Main => pc'[u] = pc[u] /\ Out(u)' = Out(u)
        BY <1>4, <2>1, <2>2, <2>4 DEF Left, TypeOK, Out
      <3>2. ~On'
        BY <3>1 DEF On, Computes
      <3>3. ASSUME NEW w \in Workers
            PROVE  pc'[w] \in Waits \cup Computes /\ last_graph'[w] <= n_graph' /\ Resting(w)' /\ ~Active(w)'
        <4>1. w \in Thread /\ w # Main /\ ~Active(w) /\ pc'[w] = pc[w] /\ Out(w)' = Out(w)
          BY <2>1, <3>1 DEF Workers, Act
        <4> QED BY <1>1, <1>4, <4>1 DEF Scheduling, Resting, Active
      <3>4. Scheduling'
        BY <3>1, <3>2, <3>3 DEF Scheduling, Rests
      <3>5. \A u \in Thread : pc[u] \notin {"last", "release"}
        BY <1>1, NoneIsLast DEF Computes
      <3>6. Arrived = {}
        BY <1>1, <2>1 DEF Arrived
      <3>7. n_barrier = 0
        BY <1>1, <3>5, <3>6, FS_EmptySet DEF Counting
      <3>8. ASSUME NEW u \in Thread
            PROVE  /\ pc'[u] = "add" => n_passed'[u] = n_barrier_passed'
                   /\ pc'[u] = "spin" => n_passed'[u] <= n_barrier_passed'
                   /\ pc'[u] \notin {"last", "release"}
        BY <1>4, <2>2, <3>1, <3>5, <3>8 DEF Counting
      <3>9. Counting'
        BY <1>4, <3>2, <3>7, <3>8 DEF Counting
      <3> QED BY <3>2, <3>4, <3>9 DEF Position
    <2> QED BY <2>3, <2>4
  <1> QED BY <1>6, <1>7

LEMMA AddInv ==
  ASSUME IInv, TypeOK', NEW t \in Thread, Add(t)
  PROVE  IInv'
  <1> USE DEF IInv
  <1>1. pc[t] = "add" /\ pc[t] \in Computes /\ ~Out(t) /\ On /\ t \in Act /\ n_passed[t] = n_barrier_passed
    BY InGraph, InGraphPlace DEF Add, Computes, Counting
  <1>2. PICK m \in Nat, h \in {0, 1} : \A u \in Act : At(u, m, h)
    BY <1>1 DEF Position
  <1>3. UNCHANGED <<graph, abort, n_graph, n_threads, n_barrier_passed, last_graph, node_n, return, n_passed>>
    BY DEF Add, rest, pool
  <1>4. Act' = Act /\ Act \subseteq Thread
    BY <1>3 DEF Act, Active
  <1>5. PICK p \in {"last", "spin"} :
            /\ pc' = [pc EXCEPT ![t] = p] /\ n_barrier' = n_barrier + 1
            /\ p = "last" <=> n_barrier = n_threads - 1
    <2>1. pc' = [pc EXCEPT ![t] = IF n_barrier = n_threads - 1 THEN "last" ELSE "spin"]
      BY DEF Add, Goto
    <2>2. n_barrier' = n_barrier + 1
      BY DEF Add
    <2> QED BY <2>1, <2>2
  <1>6. pc'[t] = p /\ \A u \in Thread : u # t => pc'[u] = pc[u]
    BY <1>5 DEF TypeOK
  <1>7. ~Out(t)'
    BY <1>1, <1>3 DEF Out
  <1>8. On' /\ Scheduling'
    BY <1>1, <1>3, <1>5, <1>7, StepWithin DEF Computes
  <1>9. Position'
    <2>1. \A u \in Act : u # t => At(u, m, h)'
      BY <1>2, <1>3, <1>4, <1>6, StaysHere
    <2>2. InBarrier(t) /\ InBarrier(t)'
      BY <1>1, <1>3, <1>6 DEF InBarrier
    <2>3. At(t, m, h)'
      BY <1>1, <1>2, <1>3, <2>2, StaysInBarrier
    <2> QED BY <1>4, <2>1, <2>3 DEF Position
  <1>10. \A u \in Thread : pc[u] \notin {"last", "release"}
    BY <1>1, NoneIsLast
  <1>11. n_barrier = Cardinality(Arrived) /\ Arrived \subseteq Act \ {t}
    BY <1>1, <1>10 DEF Counting, Arrived
  <1>12. Arrived' = Arrived \cup {t}
    BY <1>1, <1>3, <1>4, <1>6 DEF Arrived
  <1>13. Cardinality(Arrived') = Cardinality(Arrived) + 1
    <2>1. IsFiniteSet(Arrived) /\ t \notin Arrived
      BY <1>11, ActFinite
    <2> QED BY <1>12, <2>1, FS_AddElement
  <1>14. ASSUME p = "last", NEW u \in Act, u # t
         PROVE  pc[u] = "spin" /\ n_passed[u] = n_barrier_passed
    <2>1. IsFiniteSet(Act) /\ Cardinality(Act) = n_threads
      BY ActFinite
    <2>2. IsFiniteSet(Act \ {t}) /\ Cardinality(Act \ {t}) = n_threads - 1
      BY <1>1, <2>1, FS_RemoveElement
    <2>3. Cardinality(Arrived) = n_threads - 1
      BY <1>5, <1>11, <1>14
    <2>4. Arrived = Act \ {t}
      BY <1>11, <2>2, <2>3, FS_Subset
    <2>5. u \in Arrived
      BY <1>14, <2>4
    <2> QED BY <1>4, <1>10, <2>5 DEF Arrived
  <1>15. ASSUME NEW u \in Thread
         PROVE  /\ pc'[u] = "add" => n_passed'[u] = n_barrier_passed'
                /\ pc'[u] = "spin" => n_passed'[u] <= n_barrier_passed'
                /\ pc'[u] # "release" /\ (pc'[u] = "last" => u = t /\ p = "last")
    <2>1. n_barrier_passed \in Nat
      BY DEF TypeOK
    <2> QED BY <1>1, <1>3, <1>6, <1>10, <1>15, <2>1 DEF Counting
  <1>16. ASSUME NEW u \in Thread, pc'[u] \in {"last", "release"}, NEW v \in Act', v # u
         PROVE  pc'[v] = "spin" /\ n_passed'[v] = n_barrier_passed'
    BY <1>3, <1>4, <1>6, <1>14, <1>15, <1>16
  <1>17. Counting'
    BY <1>5, <1>8, <1>11, <1>13, <1>15, <1>16 DEF Counting
  <1> QED BY <1>8, <1>9, <1>17

LEMMA LastInv ==
  ASSUME IInv, TypeOK', NEW t \in Thread, Last(t)
  PROVE  IInv'
  <1> USE DEF IInv
  <1>1. pc[t] = "last" /\ pc[t] \in Computes /\ ~Out(t) /\ On /\ t \in Act
    BY InGraph, InGraphPlace DEF Last, Computes
  <1>2. PICK m \in Nat, h \in {0, 1} : \A u \in Act : At(u, m, h)
    BY <1>1 DEF Position
  <1>3. /\ UNCHANGED <<graph, abort, n_graph, n_threads, n_barrier_passed, last_graph, node_n, return, n_passed>>
        /\ n_barrier' = 0 /\ pc' = [pc EXCEPT ![t] = "release"]
    BY DEF Last, rest, pool, Goto
  <1>4. Act' = Act /\ Act \subseteq Thread
    BY <1>3 DEF Act, Active
  <1>5. pc'[t] = "release" /\ \A u \in Thread : u # t => pc'[u] = pc[u]
    BY <1>3 DEF TypeOK
  <1>6. On' /\ Scheduling'
    BY <1>1, <1>3, <1>5, StepWithin DEF Computes, Out
  <1>7. Position'
    <2>1. \A u \in Act : u # t => At(u, m, h)'
      BY <1>2, <1>3, <1>4, <1>5, StaysHere
    <2>2. At(t, m, h)'
      BY <1>1, <1>2, <1>3, <1>5, StaysInBarrier DEF InBarrier
    <2> QED BY <1>4, <2>1, <2>2 DEF Position
  <1>8. \A u \in Thread : u # t => pc[u] \notin {"last", "release"}
    BY <1>1, NoneIsLast
  <1>9. \A v \in Act : v # t => pc'[v] = "spin" /\ n_passed'[v] = n_barrier_passed'
    BY <1>1, <1>3, <1>4, <1>5 DEF Counting
  <1>10. ASSUME NEW u \in Thread
         PROVE  /\ pc'[u] = "add" => n_passed'[u] = n_barrier_passed'
                /\ pc'[u] = "spin" => n_passed'[u] <= n_barrier_passed'
                /\ pc'[u] \in {"last", "release"} => u = t
    BY <1>3, <1>5, <1>8, <1>10 DEF Counting
  <1>11. Counting'
    BY <1>3, <1>4, <1>5, <1>6, <1>9, <1>10 DEF Counting
  <1> QED BY <1>6, <1>7, <1>11

LEMMA ReleaseInv ==
  ASSUME IInv, TypeOK', NEW t \in Thread, Release(t)
  PROVE  IInv'
  <1> USE DEF IInv
  <1> DEFINE r == return[t]
  <1>1. pc[t] = "release" /\ InBarrier(t) /\ On /\ t \in Act /\ (t # Main => Inside(t)) /\ n_barrier = 0
    <2>1. pc[t] = "release" /\ pc[t] \in Computes /\ ~Out(t)
      BY InGraphPlace DEF Release, Computes
    <2> QED BY <2>1, InGraph DEF Counting, InBarrier
  <1>2. PICK m \in Nat, h \in {0, 1} : \A u \in Act : At(u, m, h)
    BY <1>1 DEF Position
  <1>3. /\ UNCHANGED <<graph, abort, n_graph, n_threads, n_barrier, last_graph, node_n, return, n_passed>>
        /\ n_barrier_passed' = n_barrier_passed + 1 /\ pc' = [pc EXCEPT ![t] = Left(t)]
    BY DEF Release, rest, pool, Goto
  <1>4. Act' = Act /\ Act \subseteq Thread /\ Main \in Thread /\ Workers \subseteq Thread
    BY <1>3, GraphFacts DEF Act, Active, Workers
  <1>5. pc'[t] = Left(t) /\ \A u \in Thread : u # t => pc'[u] = pc[u]
    BY <1>3 DEF TypeOK
  <1>6. \A u \in Act : u # t => pc[u] = "spin" /\ n_passed[u] = n_barrier_passed
    BY <1>1 DEF Counting
  <1>7. \A u \in Act : Arriving(u, m, h) /\ return[u] = r
    <2>1. \A u \in Act : Arriving(u, m, h)
      BY <1>1, <1>2, <1>4, <1>6, AtBarrier DEF InBarrier
    <2> QED BY <1>1, <1>4, <2>1, Together
  <1>8. \A u \in Act : u # t => pc'[u] = "spin" /\ n_passed'[u] # n_barrier_passed' /\ return'[u] = r
    <2>1. n_barrier_passed \in Nat
      BY DEF TypeOK
    <2> QED BY <1>3, <1>4, <1>5, <1>6, <1>7, <2>1
  <1>9. ASSUME NEW u \in Thread, u # t
        PROVE  /\ pc'[u] \notin {"add", "last", "release"}
               /\ pc'[u] = "spin" => n_passed'[u] < n_barrier_passed'
    <2>1. n_barrier_passed \in Nat /\ n_passed[u] \in Nat
      BY DEF TypeOK
    <2>2. pc[u] \in {"add", "last", "release"} => u \in Act
      BY InGraph, InGraphPlace DEF Computes
    <2> QED BY <1>3, <1>5, <1>6, <1>9, <2>1, <2>2 DEF Counting
  <1>10. Left(t) \in {"chunks", "node", "idle", "loop"}
    BY DEF Left, TypeOK
  <1>11. ASSUME NEW w \in Workers, ~Active(w)
         PROVE  pc'[w] \in Waits \cup Computes /\ Resting(w)'
    <2>1. w \in Thread /\ w # t
      BY <1>1, <1>4, <1>11 DEF Act
    <2>2. Resting(w) /\ pc[w] \in Waits \cup Computes
      BY <1>1, <1>11 DEF Scheduling
    <2>3. pc[w] \in Computes => pc[w] = "spin" /\ return[w] = "end"
      BY <2>2 DEF Resting, Out
    <2> QED BY <1>3, <1>5, <1>9, <2>1, <2>2, <2>3 DEF Resting, Out
  <1>12. ASSUME NEW w \in Workers, Active(w)
         PROVE  last_graph[w] = n_graph
    <2>1. w \in Act /\ w # Main
      BY <1>4, <1>12 DEF Act, Workers
    <2>2. w # t => pc[w] \in Computes /\ ~Out(w)
      BY <1>6, <2>1 DEF Out, Computes
    <2> QED BY <1>1, <1>4, <2>1, <2>2, InGraph DEF Inside
  <1>13. \A u \in Thread : Active(u)' = Active(u)
    BY <1>3 DEF Active
  <1>14. Main \in Act
    BY <1>1, <1>4 DEF Scheduling, Act
  <1>15. CASE r = "end"
    <2>1. pc'[t] = (IF t = Main THEN "idle" ELSE "loop")
      BY <1>5, <1>15 DEF Left
    <2>2. \A u \in Act : u # t => Out(u)'
      BY <1>8, <1>15 DEF Out
    <2>3. ~On'
      BY <1>14, <2>1, <2>2, <1>8 DEF On, Computes
    <2>4. pc'[Main] \in Rests \cup Computes
      BY <1>8, <1>14, <2>1 DEF Rests, Computes
    <2>5. ASSUME NEW w \in Workers
          PROVE  /\ pc'[w] \in Waits \cup Computes /\ last_graph'[w] <= n_graph' /\ Resting(w)'
                 /\ Active(w)' => last_graph'[w] = n_graph'
      <3>1. CASE ~Active(w)
        BY <1>3, <1>4, <1>11, <1>13, <3>1 DEF Scheduling
      <3>2. CASE Active(w)
        <4>1. w \in Act /\ w # Main /\ n_graph \in Nat
          BY <1>4, <3>2 DEF Act, Workers, TypeOK
        <4>2. last_graph'[w] = n_graph'
          BY <1>3, <1>12, <3>2
        <4>3. pc'[w] \in Waits \cup Computes /\ Resting(w)'
          BY <4>1, <2>1, <2>2, <1>8 DEF Waits, Computes, Resting
        <4> QED BY <1>3, <4>1, <4>2, <4>3
      <3> QED BY <3>1, <3>2
    <2>6. Scheduling'
      BY <2>3, <2>4, <2>5 DEF Scheduling
    <2>7. Counting'
      BY <1>1, <1>3, <1>9, <2>1, <2>3 DEF Counting, TypeOK
    <2> QED BY <2>3, <2>6, <2>7 DEF Position
  <1>16. CASE r # "end"
    <2>1. pc'[t] = r /\ r \in {"chunks", "node"}
      BY <1>5, <1>16 DEF Left, TypeOK
    <2>2. \A u \in Act : pc'[u] \in Computes /\ ~Out(u)'
      BY <1>8, <1>16, <2>1 DEF Out, Computes
    <2>3. On'
      BY <1>14, <2>2 DEF On
    <2>4. ASSUME NEW w \in Workers
          PROVE  /\ pc'[w] \in Waits \cup Computes /\ last_graph'[w] <= n_graph'
                 /\ IF Active(w)' THEN Inside(w)' ELSE Resting(w)'
      <3>1. CASE ~Active(w)
        BY <1>3, <1>4, <1>11, <1>13, <3>1 DEF Scheduling
      <3>2. CASE Active(w)
        <4>1. w \in Act /\ n_graph \in Nat
          BY <1>4, <3>2 DEF Act, TypeOK
        <4>2. last_graph'[w] = n_graph'
          BY <1>3, <1>12, <3>2
        <4> QED BY <1>3, <1>4, <1>13, <2>2, <3>2, <4>1, <4>2 DEF Inside
      <3> QED BY <3>1, <3>2
    <2>5. Scheduling'
      <3>1. pc'[Main] \in Rests \cup Computes /\ Active(Main)'
        BY <1>4, <1>13, <1>14, <2>2 DEF Act
      <3> QED BY <2>3, <2>4, <3>1 DEF Scheduling
    <2>6. Position'
      <3>1. Busy(m)' = Busy(m) /\ Node(m)' = Node(m)
        BY <1>3 DEF Busy, Node, Len_
      <3>2. Leads(m + 1, m + 1)'
        BY DEF Leads
      <3>3. r = "chunks" => \A u \in Act' : At(u, m, 1)'
        BY <1>3, <1>4, <1>7, <1>8, <2>1, <3>1 DEF Arriving, At
      <3>4. r = "node" => \A u \in Act' : At(u, m + 1, 0)'
        <4>1. r = "node" => \A u \in Act : node_n'[u] = m + 1
          BY <1>3, <1>7 DEF Arriving
        <4> QED BY <1>4, <1>8, <2>1, <3>2, <4>1 DEF At
      <3>5. r = "chunks" => Position'
        BY <3>3 DEF Position
      <3>6. r = "node" => Position'
        <4>1. m + 1 \in Nat
          OBVIOUS
        <4> QED BY <3>4, <4>1 DEF Position
      <3> QED BY <2>1, <3>5, <3>6
    <2>7. Arrived' = {}
      BY <1>4, <1>8, <2>1 DEF Arrived
    <2>8. Cardinality(Arrived') = 0
      BY <2>7, FS_EmptySet
    <2>9. Counting'
      BY <1>1, <1>3, <1>9, <2>1, <2>3, <2>8 DEF Counting, TypeOK
    <2> QED BY <2>5, <2>6, <2>9
  <1> QED BY <1>15, <1>16

----------------------------------------------------------------------------
(* The steps of threads that are not inside a graph *)

\* Nothing moves that is inside a graph.
LEMMA Quiet ==
  ASSUME IInv, TypeOK',
         UNCHANGED <<n_graph, n_threads, n_barrier, n_barrier_passed, last_graph, node_n, n_passed, return>>,
         On => UNCHANGED <<graph, abort>>,
         \/ pc'[Main] = pc[Main]
         \/ ~On /\ pc'[Main] \in Rests \ {"wake"}
         \/ pc[Main] = "wake" /\ pc'[Main] = "run",
         \A w \in Workers : \/ pc'[w] = pc[w]
                            \/ (pc[w] \in Waits \/ Out(w)) /\ pc'[w] \in Waits
  PROVE  IInv'
  <1> USE DEF IInv
  <1>1. \A u \in Thread : (pc'[u] = pc[u] => Out(u)' = Out(u)) /\ Active(u)' = Active(u)
    BY DEF Out, Active
  <1>2. Main \in Thread /\ Workers = Thread \ {Main} /\ Act' = Act /\ Act \subseteq Thread
    BY GraphFacts, <1>1 DEF Workers, Act
  <1>3. On' = On
    <2>1. CASE pc'[Main] = pc[Main]
      BY <1>1, <1>2, <2>1 DEF On
    <2>2. CASE ~On /\ pc'[Main] \in Rests \ {"wake"}
      BY <2>2 DEF On, Rests, Computes
    <2>3. CASE pc[Main] = "wake" /\ pc'[Main] = "run"
      BY <2>3 DEF On, Computes, Out
    <2> QED BY <2>1, <2>2, <2>3
  <1>4. \A w \in Waits : w \notin Computes
    BY DEF Waits, Computes
  <1>5. \A w \in Workers : (Resting(w) => Resting(w)') /\ (Inside(w) => Inside(w)' /\ pc'[w] = pc[w])
    BY <1>1, <1>2, <1>4 DEF Resting, Inside
  <1>6. Scheduling'
    <2>1. pc'[Main] \in Rests \cup Computes
      BY DEF Scheduling, Computes
    <2>2. \A w \in Workers : Ahead(w) => Ahead(w)'
      BY <1>5 DEF Ahead
    <2>3. \A w \in Workers : pc'[w] \in Waits \cup Computes /\ last_graph'[w] <= n_graph'
      BY DEF Scheduling
    <2>4. ~On' => \A w \in Workers : Resting(w)' /\ (Active(w)' => last_graph'[w] = n_graph')
      BY <1>1, <1>2, <1>3, <1>5 DEF Scheduling
    <2>5. On' => /\ Active(Main)'
                 /\ \A w \in Workers : IF Active(w)' THEN Ahead(w)' \/ Inside(w)' ELSE Resting(w)'
      BY <1>1, <1>2, <1>3, <1>5, <2>2 DEF Scheduling
    <2> QED BY <2>1, <2>3, <2>4, <2>5 DEF Scheduling
  <1>7. Position'
    <2> SUFFICES ASSUME On' PROVE \E m \in Nat, h \in {0, 1} : \A u \in Act' : At(u, m, h)'
      BY DEF Position
    <2>1. On /\ UNCHANGED <<graph, abort>>
      BY <1>3
    <2>2. PICK m \in Nat, h \in {0, 1} : \A u \in Act : At(u, m, h)
      BY <2>1 DEF Position
    <2>3. UNCHANGED <<graph, abort, n_graph, n_barrier_passed, last_graph>>
      BY <2>1
    <2>4. ASSUME NEW u \in Act PROVE At(u, m, h)'
      <3>1. At(u, m, h) /\ u \in Thread
        BY <1>2, <2>2
      <3>2. CASE pc'[u] = pc[u]
        BY <2>3, <3>1, <3>2, StaysHere
      <3>3. CASE u = Main /\ pc[u] = "wake" /\ pc'[u] = "run"
        <4>1. h = 0 /\ Leads(0, m)
          BY <3>1, <3>3 DEF At, InBarrier
        <4>2. Leads(0, m)'
          BY <2>1, <4>1 DEF Leads, Len_, Node
        <4> QED BY <3>3, <4>1, <4>2 DEF At
      <3>4. CASE u \in Workers /\ pc'[u] # pc[u]
        <4>1. Ahead(u)
          BY <1>2, <1>5, <2>1, <3>4 DEF Scheduling, Act
        <4>2. ~(pc[u] \in Computes) \/ Out(u)
          BY <4>1 DEF Ahead, Resting
        <4>3. h = 0 /\ Leads(0, m)
          BY <3>1, <3>4, <4>1, <4>2 DEF At, InBarrier, Computes, Out
        <4>4. Leads(0, m)' /\ Ahead(u)'
          BY <1>5, <2>1, <3>4, <4>1, <4>3 DEF Leads, Len_, Node, Ahead
        <4> QED BY <1>2, <3>4, <4>3, <4>4 DEF At
      <3> QED BY <1>2, <2>1, <3>2, <3>3, <3>4
    <2> QED BY <1>2, <2>4
  <1>8. ASSUME NEW u \in Thread
        PROVE  /\ pc'[u] \in {"add", "last", "release", "spin"} => pc'[u] = pc[u]
               /\ pc[u] \in {"add", "last", "release"} => pc'[u] = pc[u]
               /\ pc[u] = "spin" /\ n_passed[u] = n_barrier_passed => pc'[u] = pc[u]
    <2>1. CASE u = Main
      BY <2>1 DEF On, Computes, Rests, Out
    <2>2. CASE u \in Workers
      BY <2>2 DEF Waits, Out
    <2> QED BY <1>2, <2>1, <2>2
  <1>9. Arrived' = Arrived
    BY <1>2, <1>8 DEF Arrived
  <1>10. Counting'
    BY <1>2, <1>3, <1>8, <1>9 DEF Counting
  <1> QED BY <1>6, <1>7, <1>10

\* A worker sees a graph that was kicked off, and computes it if it is active.
LEMMA SeesGraph ==
  ASSUME IInv, TypeOK', NEW t \in Workers, pc[t] \in {"poll", "lock"}, Fresh(t),
         last_graph' = [last_graph EXCEPT ![t] = n_graph],
         NEW p \in Waits \cup {"run"}, pc' = [pc EXCEPT ![t] = p], p = "run" <=> Active(t),
         UNCHANGED <<pool, data>>
  PROVE  IInv'
  <1> USE DEF IInv
  <1>1. /\ UNCHANGED <<graph, abort, n_graph, n_threads, n_barrier, n_barrier_passed, node_n, n_passed, return>>
        /\ n_graph # last_graph[t]
    BY DEF pool, data, barrier, Fresh
  <1>2. /\ Main \in Thread /\ Workers = Thread \ {Main} /\ t \in Thread /\ t # Main
        /\ n_graph \in Nat
    BY GraphFacts DEF Workers, TypeOK
  <1>3. Act' = Act /\ Act \subseteq Thread /\ \A u \in Thread : Active(u)' = Active(u)
    BY <1>1 DEF Act, Active
  <1>4. pc'[t] = p /\ last_graph'[t] = n_graph /\ ~Out(t) /\ ~Out(t)' /\ pc[t] \notin Computes
    BY <1>2 DEF TypeOK, Out, Waits, Computes
  <1>5. \A u \in Thread : u # t => pc'[u] = pc[u] /\ last_graph'[u] = last_graph[u] /\ Out(u)' = Out(u)
    BY <1>1, <1>2 DEF TypeOK, Out
  <1>6. On' = On
    BY <1>2, <1>5 DEF On
  <1>7. Active(t) => On
    BY <1>1 DEF Scheduling
  <1>8. \A w \in Waits : w \notin Computes
    BY DEF Waits, Computes
  <1>9. Scheduling'
    <2>1. pc'[Main] \in Rests \cup Computes
      BY <1>2, <1>5 DEF Scheduling
    <2>2. ASSUME NEW w \in Workers, w # t
          PROVE  /\ pc'[w] \in Waits \cup Computes /\ last_graph'[w] <= n_graph'
                 /\ Resting(w)' = Resting(w) /\ Ahead(w)' = Ahead(w) /\ Inside(w)' = Inside(w)
      BY <1>1, <1>2, <1>5, <2>2 DEF Scheduling, Resting, Ahead, Inside
    <2>3. /\ pc'[t] \in Waits \cup Computes /\ last_graph'[t] <= n_graph'
          /\ Active(t) => Inside(t)'
          /\ ~Active(t) => Resting(t)'
      BY <1>1, <1>2, <1>4, <1>8 DEF Resting, Inside, Computes
    <2>4. ~On' => \A w \in Workers : Resting(w)' /\ (Active(w)' => last_graph'[w] = n_graph')
      BY <1>1, <1>2, <1>3, <1>5, <1>6, <1>7, <2>2, <2>3 DEF Scheduling
    <2>5. On' => /\ Active(Main)'
                 /\ \A w \in Workers : IF Active(w)' THEN Ahead(w)' \/ Inside(w)' ELSE Resting(w)'
      BY <1>2, <1>3, <1>6, <2>2, <2>3 DEF Scheduling
    <2> QED BY <2>1, <2>2, <2>3, <2>4, <2>5 DEF Scheduling
  <1>10. Position'
    <2> SUFFICES ASSUME On' PROVE \E m \in Nat, h \in {0, 1} : \A u \in Act' : At(u, m, h)'
      BY DEF Position
    <2>1. PICK m \in Nat, h \in {0, 1} : \A u \in Act : At(u, m, h)
      BY <1>6 DEF Position
    <2>2. ASSUME NEW u \in Act PROVE At(u, m, h)'
      <3>1. At(u, m, h) /\ u \in Thread
        BY <1>3, <2>1
      <3>2. CASE u = t
        <4>1. h = 0 /\ Leads(0, m)
          BY <1>4, <3>1, <3>2 DEF At, InBarrier, Computes
        <4>2. Leads(0, m)' /\ pc'[t] = "run"
          BY <1>1, <1>4, <3>2, <4>1 DEF Leads, Len_, Node, Act
        <4> QED BY <3>2, <4>1, <4>2 DEF At
      <3>3. CASE u # t
        <4>1. /\ pc'[u] = pc[u] /\ node_n'[u] = node_n[u] /\ return'[u] = return[u]
              /\ (u # Main /\ Ahead(u))' = (u # Main /\ Ahead(u))
              /\ InBarrier(u)' = InBarrier(u) /\ n_passed'[u] = n_passed[u]
          BY <1>1, <1>5, <3>1, <3>3 DEF Ahead, Resting, InBarrier
        <4>2. Arriving(u, m, h)' = Arriving(u, m, h) /\ Past(u, m, h)' = Past(u, m, h)
          BY <1>1 DEF Arriving, Past, Busy, Half, Over, Node, Len_
        <4>3. /\ \A k \in {0, node_n[u]} : Leads(k, m)' = Leads(k, m)
              /\ Busy(m)' = Busy(m) /\ Half(m)' = Half(m) /\ Node(m)' = Node(m)
          BY <1>1 DEF Leads, Busy, Half, Node, Len_
        <4> QED BY <1>1, <3>1, <4>1, <4>2, <4>3 DEF At
      <3> QED BY <3>2, <3>3
    <2> QED BY <1>3, <2>2
  <1>11. ASSUME NEW u \in Thread
         PROVE  \A q \in {"add", "last", "release", "spin"} : pc'[u] = q <=> pc[u] = q
    BY <1>4, <1>5 DEF Waits
  <1>12. Arrived' = Arrived
    BY <1>1, <1>3, <1>11 DEF Arrived
  <1>13. Counting'
    BY <1>1, <1>3, <1>6, <1>11, <1>12 DEF Counting
  <1> QED BY <1>9, <1>10, <1>13

LEMMA WaitingInv ==
  ASSUME IInv, TypeOK', NEW t \in Workers, Waiting(t) \/ Spurious(t)
  PROVE  IInv'
  <1>1. t \in Thread /\ t # Main
    BY DEF Workers
  <1>2. ASSUME NEW p \in Waits, pc[t] \in Waits, pc' = [pc EXCEPT ![t] = p], UNCHANGED <<pool, data, last_graph>>
        PROVE  IInv'
    <2>1. pc'[t] = p /\ \A u \in Thread : u # t => pc'[u] = pc[u]
      BY <1>1, <1>2 DEF IInv, TypeOK
    <2>2. /\ pc'[Main] = pc[Main]
          /\ \A w \in Workers : pc'[w] = pc[w] \/ ((pc[w] \in Waits \/ Out(w)) /\ pc'[w] \in Waits)
      BY <1>1, <1>2, <2>1, GraphFacts DEF IInv, Workers
    <2>3. UNCHANGED <<graph, abort, n_graph, n_threads, n_barrier, n_barrier_passed, last_graph, node_n, n_passed, return>>
      BY <1>2 DEF pool, data, barrier
    <2> QED BY <2>2, <2>3, Quiet
  <1>3. CASE Loop(t) \/ Paused(t) \/ Spurious(t)
    BY <1>2, <1>3 DEF Loop, Paused, Spurious, Goto, Waits
  <1>4. CASE Poll(t) \/ Lock(t)
    <2>1. UNCHANGED <<pool, data>> /\ Seen(t) /\ pc[t] \in {"poll", "lock"}
      BY <1>4 DEF Poll, Lock
    <2>2. PICK p \in Waits \cup {"run"} : pc' = [pc EXCEPT ![t] = p] /\ (p = "run" <=> Pending(t))
      BY <1>4 DEF Poll, Lock, Goto, Waits
    <2>3. CASE Fresh(t)
      <3>1. p = "run" <=> Active(t)
        BY <2>2, <2>3 DEF Pending
      <3>2. last_graph' = [last_graph EXCEPT ![t] = n_graph]
        BY <2>1, <2>3 DEF Seen
      <3> QED BY <2>1, <2>2, <2>3, <3>1, <3>2, SeesGraph
    <2>4. CASE ~Fresh(t)
      <3>1. p \in Waits /\ last_graph' = last_graph /\ pc[t] \in Waits
        BY <2>1, <2>2, <2>4 DEF Pending, Seen, Waits
      <3> QED BY <1>2, <2>1, <2>2, <3>1
    <2> QED BY <2>3, <2>4
  <1> QED BY <1>3, <1>4 DEF Waiting

LEMMA SpinInv ==
  ASSUME IInv, TypeOK', NEW t \in Thread, Spin(t)
  PROVE  IInv'
  <1> USE DEF IInv
  <1>1. /\ pc[t] = "spin" /\ n_passed[t] # n_barrier_passed /\ pc' = [pc EXCEPT ![t] = Left(t)]
        /\ UNCHANGED <<graph, abort, n_graph, n_threads, n_barrier, n_barrier_passed, last_graph,
                       node_n, n_passed, return>>
    BY DEF Spin, Goto, rest, pool, barrier
  <1>2. pc'[t] = Left(t) /\ \A u \in Thread : u # t => pc'[u] = pc[u]
    BY <1>1 DEF TypeOK
  <1>3. Main \in Thread /\ Workers = Thread \ {Main} /\ Act' = Act /\ Act \subseteq Thread
    BY <1>1, GraphFacts DEF Workers, Act, Active
  <1>4. CASE return[t] # "end"
    <2>1. Left(t) = return[t] /\ return[t] \in {"chunks", "node"}
      BY <1>4 DEF Left, TypeOK
    <2>2. Left(t) \in Inner /\ Left(t) # "add" /\ ~Out(t) /\ Uncounted(t)
      BY <1>1, <1>4, <2>1 DEF Inner, Out, Uncounted
    <2>3. Scheduling' /\ Counting'
      BY <1>1, <2>2, StepInside
    <2>4. On /\ t \in Act /\ (t # Main => Inside(t))
      BY <1>1, <2>2, InGraph DEF Computes
    <2>5. PICK m \in Nat, h \in {0, 1} : \A u \in Act : At(u, m, h)
      BY <2>4 DEF Position
    <2>6. \A u \in Act : u # t => At(u, m, h)'
      BY <1>1, <1>2, <1>3, <2>5, StaysHere
    <2>7. /\ return[t] = "chunks" => node_n[t] = m /\ h = 1 /\ Busy(m) /\ Node(m) = "chunks"
          /\ return[t] = "node" => h = 0 /\ Leads(node_n[t], m)
      BY <1>1, <2>1, <2>4, <2>5 DEF At, InBarrier, Inside, Ahead
    <2>8. Busy(m)' = Busy(m) /\ Node(m)' = Node(m) /\ Leads(node_n[t], m)' = Leads(node_n[t], m)
      BY <1>1 DEF Busy, Node, Len_, Leads
    <2>9. At(t, m, h)'
      BY <1>1, <1>2, <2>1, <2>7, <2>8 DEF At
    <2>10. Position'
      BY <1>3, <2>6, <2>9 DEF Position
    <2> QED BY <2>3, <2>10
  <1>5. CASE return[t] = "end"
    <2>1. Out(t) /\ pc'[t] = (IF t = Main THEN "idle" ELSE "loop")
      BY <1>1, <1>2, <1>5 DEF Out, Left
    <2>2. t = Main => ~On
      BY <2>1 DEF On, Out
    <2>3. pc'[Main] = pc[Main] \/ (~On /\ pc'[Main] \in Rests \ {"wake"})
      BY <1>2, <1>3, <2>1, <2>2 DEF Rests
    <2>4. \A w \in Workers : pc'[w] = pc[w] \/ ((pc[w] \in Waits \/ Out(w)) /\ pc'[w] \in Waits)
      BY <1>2, <1>3, <2>1 DEF Waits
    <2> QED BY <1>1, <2>3, <2>4, Quiet
  <1> QED BY <1>4, <1>5

----------------------------------------------------------------------------
(* The main thread between graphs *)

LEMMA KickOffInv ==
  ASSUME IInv, TypeOK', KickOff
  PROVE  IInv'
  <1> USE DEF IInv
  <1>1. /\ pc[Main] = "kick" /\ n_graph' = n_graph + 1 /\ pc' = [pc EXCEPT ![Main] = "wake"]
        /\ UNCHANGED <<graph, abort, n_barrier, n_barrier_passed, last_graph, node_n, n_passed, return>>
    BY DEF KickOff, Goto, barrier
  <1>2. Main \in Thread /\ Workers = Thread \ {Main} /\ n_graph \in Nat
    BY GraphFacts DEF Workers, TypeOK
  <1>3. n_threads' \in Nat /\ n_threads' >= 1
    <2>1. graph.n_threads \in Nat \ {0} /\ NPool \in Nat \ {0}
      BY PoolAssumption DEF TypeOK
    <2> QED BY <2>1 DEF KickOff
  <1>4. ~On /\ On'
    BY <1>1, <1>2 DEF On, Computes, TypeOK
  <1>5. pc'[Main] = "wake" /\ \A w \in Workers : pc'[w] = pc[w] /\ Out(w)' = Out(w)
    BY <1>1, <1>2 DEF TypeOK, Out
  <1>6. ASSUME NEW w \in Workers
        PROVE  /\ pc'[w] \in Waits \cup Computes /\ last_graph'[w] <= n_graph'
               /\ Ahead(w)' /\ Resting(w)'
               /\ pc'[w] \in Computes => pc'[w] = "spin" /\ n_passed'[w] # n_barrier_passed'
    <2>1. /\ pc[w] \in Waits \cup Computes /\ last_graph[w] <= n_graph
          /\ Resting(w) /\ last_graph[w] \in Nat
      BY <1>2, <1>4 DEF Scheduling, TypeOK
    <2>2. Resting(w)' /\ last_graph'[w] < n_graph'
      BY <1>1, <1>2, <1>5, <2>1 DEF Resting
    <2>3. pc'[w] \in Computes => pc'[w] = "spin" /\ n_passed'[w] # n_barrier_passed'
      BY <1>1, <1>5, <2>1 DEF Resting, Out
    <2> QED BY <1>1, <1>2, <1>5, <2>1, <2>2, <2>3 DEF Ahead
  <1>7. Active(Main)'
    BY <1>3 DEF Active, Main
  <1>8. Scheduling'
    BY <1>4, <1>5, <1>6, <1>7 DEF Scheduling, Rests
  <1>9. Position'
    <2>1. Leads(0, 0)'
      BY DEF Leads
    <2>2. \A u \in Act' : At(u, 0, 0)'
      BY <1>2, <1>5, <1>6, <2>1 DEF At, Act
    <2> QED BY <2>2 DEF Position
  <1>10. ASSUME NEW u \in Thread
         PROVE  /\ pc'[u] \notin {"add", "last", "release"}
                /\ pc'[u] = "spin" => n_passed'[u] # n_barrier_passed' /\ n_passed'[u] <= n_barrier_passed'
    <2>1. CASE u = Main
      BY <1>5, <2>1
    <2>2. CASE u \in Workers
      BY <1>1, <1>2, <1>5, <1>6, <2>2 DEF Computes, Counting
    <2> QED BY <1>2, <2>1, <2>2
  <1>11. Arrived' = {}
    BY <1>10 DEF Arrived, Act
  <1>12. Cardinality(Arrived') = 0 /\ n_barrier' = 0
    BY <1>1, <1>4, <1>11, FS_EmptySet DEF Counting
  <1>13. Counting'
    BY <1>4, <1>10, <1>12 DEF Counting
  <1> QED BY <1>8, <1>9, <1>13

LEMMA MainInv ==
  ASSUME IInv, TypeOK', Begin \/ Wake \/ Free \/ Join \/ (\E p \in BOOLEAN : Pause(p))
  PROVE  IInv'
  <1> USE DEF IInv
  <1>1. Main \in Thread /\ Workers = Thread \ {Main}
    BY GraphFacts DEF Workers
  <1>2. UNCHANGED <<n_graph, n_threads, n_barrier, n_barrier_passed, last_graph, node_n, n_passed, return>>
    BY DEF Begin, Compute, Wake, Free, Join, Pause, pool, barrier
  <1>3. ~Begin => UNCHANGED <<graph, abort>>
    BY DEF Wake, Free, Join, Pause, pool
  <1>4. ASSUME NEW q, Broadcast(q)
        PROVE  /\ pc'[Main] = q
               /\ \A w \in Workers : pc'[w] = pc[w] \/ ((pc[w] \in Waits \/ Out(w)) /\ pc'[w] \in Waits)
    BY <1>1, <1>4 DEF Broadcast, Waits
  <1>5. ASSUME NEW q, Goto(Main, q)
        PROVE  pc'[Main] = q /\ \A w \in Workers : pc'[w] = pc[w]
    BY <1>1, <1>5 DEF Goto, TypeOK
  <1>6. pc[Main] \in {"idle", "join"} => ~On
    BY DEF On, Computes
  <1>7. CASE Begin
    <2>1. ~On /\ pc'[Main] = "kick" /\ \A w \in Workers : pc'[w] = pc[w]
      BY <1>5, <1>6, <1>7 DEF Begin, Compute
    <2> QED BY <1>2, <2>1, Quiet DEF Rests
  <1>8. CASE Wake
    <2>1. pc[Main] = "wake" /\ Broadcast("run")
      BY <1>8 DEF Wake
    <2>2. UNCHANGED <<graph, abort>>
      BY <1>8 DEF Wake
    <2> QED BY <1>2, <1>4, <2>1, <2>2, Quiet
  <1>9. CASE Free \/ (\E p \in BOOLEAN : Pause(p))
    <2>1. ~On /\ \E q \in {"idle", "join"} : Broadcast(q)
      BY <1>6, <1>9 DEF Free, Pause
    <2>2. UNCHANGED <<graph, abort>>
      BY <1>9 DEF Free, Pause
    <2>3. PICK q \in {"idle", "join"} : Broadcast(q)
      BY <2>1
    <2>4. pc'[Main] \in Rests \ {"wake"}
      BY <1>4, <2>3 DEF Rests
    <2> QED BY <1>2, <1>4, <2>1, <2>2, <2>3, <2>4, Quiet
  <1>10. CASE Join
    <2>1. ~On /\ pc'[Main] = "freed" /\ \A w \in Workers : pc'[w] = pc[w]
      BY <1>5, <1>6, <1>10 DEF Join
    <2> QED BY <1>2, <2>1, Quiet DEF Rests
  <1> QED BY <1>7, <1>8, <1>9, <1>10

----------------------------------------------------------------------------
(* Theorems *)

LEMMA StepInv == IInv /\ [Next]_vars => IInv'
  <1> SUFFICES ASSUME IInv, [Next]_vars PROVE IInv'
    OBVIOUS
  <1>1. TypeOK'
    BY StepType DEF IInv
  <1>2. CASE Begin \/ Wake \/ Free \/ Join \/ (\E p \in BOOLEAN : Pause(p))
    BY <1>1, <1>2, MainInv
  <1>3. CASE KickOff
    BY <1>1, <1>3, KickOffInv
  <1>4. CASE \E t \in Workers : Waiting(t) \/ Spurious(t)
    BY <1>1, <1>4, WaitingInv
  <1>5. CASE \E t \in Thread : Run(t) \/ Nodes(t) \/ Work(t)
    BY <1>1, <1>5, ComputingInv
  <1>6. CASE \E t \in Thread : Barrier(t)
    BY <1>1, <1>6, ArriveInv, AddInv, LastInv, ReleaseInv, SpinInv DEF Barrier
  <1>7. CASE UNCHANGED vars
    <2>1. /\ UNCHANGED <<graph, abort, n_graph, n_threads, n_barrier, n_barrier_passed, last_graph,
                         node_n, n_passed, return>>
          /\ pc' = pc
      BY <1>7 DEF vars, pool, barrier
    <2> QED BY <1>1, <2>1, Quiet
  <1> QED BY <1>2, <1>3, <1>4, <1>5, <1>6, <1>7 DEF Next, Gone, Computing

LEMMA Inductive == Spec => []IInv
  <1> QED BY InitInv, StepInv, PTL DEF Spec

\* In every reachable state of a pool of any size every variable has its type.
THEOREM TypeCorrect == Spec => []TypeOK
  <1>1. IInv => TypeOK
    BY DEF IInv
  <1> QED BY <1>1, Inductive, PTL

\* ggml_barrier() works for any number of threads and any graph: threads that
\* compute at the same time compute the same node and the same half of it.
THEOREM InStep == Spec => []Lockstep
  <1>1. ASSUME IInv PROVE Lockstep
    <2> DEFINE working(t) == pc[t] \in {"rows", "init", "chunks"}
               half(t)    == IF pc[t] = "chunks" THEN 1 ELSE 0
    <2>1. ASSUME NEW t \in Thread, NEW u \in Thread, working(t), working(u)
          PROVE  node_n[t] = node_n[u] /\ half(t) = half(u)
      <3>1. On /\ t \in Act /\ u \in Act
        BY <1>1, <2>1, InGraph, InGraphPlace DEF IInv, Computes
      <3>2. PICK m \in Nat, h \in {0, 1} : \A v \in Act : At(v, m, h)
        BY <1>1, <3>1 DEF IInv, Position
      <3>3. ASSUME NEW v \in Act, working(v)
            PROVE  node_n[v] = m /\ half(v) = h
        <4>1. ~(v # Main /\ Ahead(v)) /\ ~InBarrier(v)
          BY <3>3 DEF Ahead, Resting, Out, Computes, InBarrier
        <4> QED BY <3>2, <3>3, <4>1 DEF At
      <3> QED BY <2>1, <3>1, <3>3
    <2> QED BY <2>1 DEF Lockstep
  <1> QED BY <1>1, Inductive, PTL

\* "No worker threads should be accessing the parameters below at this stage":
\* whenever the main thread is between two graphs, no worker is inside of one.
THEOREM Idle == Spec => []ParamsQuiet
  <1>1. ASSUME IInv PROVE ParamsQuiet
    <2>1. pc[Main] \in Rests \ {"wake"} => ~On
      BY DEF On, Rests, Computes
    <2> QED BY <1>1, <2>1 DEF IInv, Scheduling, ParamsQuiet, Resting, Out
  <1> QED BY <1>1, Inductive, PTL

----------------------------------------------------------------------------
(* What has been computed *)

\* The thread has not begun with the graph.
Before(t) == (t = Main /\ pc[t] = "wake") \/ pc[t] = "run" \/ (t # Main /\ Ahead(t))

\* The thread is through with the nodes in front of this one.
Front(t) == IF Before(t) THEN 0 ELSE IF pc[t] = "post" THEN node_n[t] + 1 ELSE node_n[t]

\* The thread is at the chunks of a matrix multiplication, or in front of the
\* barrier it has to pass before.
Holds(t)  == pc[t] = "chunks" \/ (pc[t] = "spin" /\ return[t] = "chunks" /\ n_passed[t] # n_barrier_passed)
Coming(t) == InBarrier(t) /\ return[t] = "chunks"

Has(n, c)  == \E x \in computed : x.node = n /\ x.chunk = c
Held(n, c) == \E u \in Act : Holds(u) /\ node_n[u] = n /\ chunk[u] = c
Chunks     == 0 .. NChunk - 1

Reached ==
    /\ abort # -1 => abort <= Len_
    /\ \A t \in Act : Front(t) <= Len_ /\ (abort # -1 => Front(t) <= abort)

\* Every thread computes its own share of the rows, and chunks that there are.
OwnPart(x) == /\ x.by \in Act /\ x.node < Len_
              /\ \/ Node(x.node) = "rows" /\ x.chunk = x.by
                 \/ Node(x.node) = "chunks" /\ x.chunk < NChunk
              /\ x.node < Front(x.by) \/ (Holds(x.by) /\ x.node = node_n[x.by])
Owned == \A x \in computed : OwnPart(x)

\* The chunks below current_chunk are computed, or in the hand of one thread.
Starts(t) == chunk[t] = t /\ (t = Main => current_chunk = n_threads)
Share(t)  == /\ chunk[t] < current_chunk /\ n_threads <= current_chunk
             /\ \A u \in Act : u # t /\ Holds(u) => chunk[u] # chunk[t]
             /\ \A x \in computed : x.node = node_n[t] => x.chunk # chunk[t] /\ x.chunk < current_chunk
             /\ \A c \in Chunks : c < current_chunk => Has(node_n[t], c) \/ Held(node_n[t], c)
Shared == \A t \in Act : (Coming(t) => Starts(t)) /\ (Holds(t) => Share(t))

\* What a thread is through with is computed, or still in the hand of another.
Behind(t, n) == /\ Node(n) = "rows" => Has(n, t)
                /\ Node(n) = "chunks" => \A c \in Chunks : Has(n, c) \/ Held(n, c)
AllBehind == \A t \in Act : \A n \in Nat : n < Front(t) /\ n < Len_ => Behind(t, n)

Unique == \A x, y \in computed : x.node = y.node /\ x.chunk = y.chunk => x = y

Complete ==
    {<<x.node, x.chunk>> : x \in computed} =
    UNION {{<<n, c>> : c \in Wanted(n)} : n \in 0 .. (IF abort = -1 THEN Len_ ELSE abort) - 1}

Results ==
    /\ Unique
    /\ On => Reached /\ Owned /\ Shared /\ AllBehind
    /\ pc[Main] = "kick" => computed = {} /\ abort = -1
    /\ ~On /\ pc[Main] # "kick" /\ n_graph > 0 => Complete

\* Every step of a computing thread that neither computes nor opens the barrier.
LEMMA Follows ==
  ASSUME IInv, On, Results, TypeOK',
         UNCHANGED <<graph, n_threads, computed, chunk, current_chunk>>,
         \A u \in Act : /\ (Holds(u)' <=> Holds(u)) /\ (Coming(u)' => Coming(u))
                        /\ Holds(u) => node_n'[u] = node_n[u]
                        /\ \/ Front(u)' = Front(u)
                           \/ Front(u)' = Front(u) + 1 /\ Node(Front(u)) = "nop"
  PROVE  Unique' /\ Owned' /\ Shared' /\ AllBehind'
  <1>1. /\ Act' = Act /\ Len_' = Len_ /\ \A n : Node(n)' = Node(n)
        /\ \A n, c : Has(n, c)' = Has(n, c)
    BY DEF Act, Active, Len_, Node, Has
  <1>2. \A n, c : Held(n, c)' = Held(n, c)
    BY <1>1 DEF Held
  <1>3. Unique'
    BY DEF Results, Unique
  <1>4. \A u \in Act : Front(u) \in Nat /\ Front(u)' \in Nat /\ Front(u) <= Front(u)'
    BY DEF Front, IInv, TypeOK, Act
  <1>5. Owned'
    <2>1. ASSUME NEW x \in computed PROVE OwnPart(x)'
      <3>1. OwnPart(x) /\ x.node \in Nat
        BY DEF Results, Owned, IInv, TypeOK
      <3> QED BY <1>1, <1>4, <3>1 DEF OwnPart
    <2> QED BY <2>1 DEF Owned
  <1>6. Shared'
    <2>1. ASSUME NEW t \in Act, Holds(t)' PROVE Share(t)'
      <3>1. Holds(t) /\ Share(t) /\ node_n'[t] = node_n[t]
        BY <2>1 DEF Results, Shared
      <3> QED BY <1>1, <1>2, <3>1 DEF Share, Chunks
    <2>2. ASSUME NEW t \in Act, Coming(t)' PROVE Starts(t)'
      BY <2>2 DEF Results, Shared, Starts
    <2> QED BY <1>1, <2>1, <2>2 DEF Shared
  <1>7. AllBehind'
    <2>1. ASSUME NEW t \in Act, NEW n \in Nat, n < Front(t)', n < Len_ PROVE Behind(t, n)'
      <3>1. CASE n < Front(t)
        <4>1. Behind(t, n)
          BY <2>1, <3>1 DEF Results, AllBehind
        <4> QED BY <1>1, <1>2, <4>1 DEF Behind, Chunks
      <3>2. CASE n >= Front(t)
        <4>1. Node(n) = "nop"
          BY <1>4, <2>1, <3>2
        <4> QED BY <1>1, <4>1 DEF Behind
      <3> QED BY <1>4, <3>1, <3>2
    <2> QED BY <1>1, <2>1 DEF AllBehind
  <1> QED BY <1>3, <1>5, <1>6, <1>7

LEMMA OthersSame ==
  ASSUME NEW u \in Thread, pc'[u] = pc[u], node_n'[u] = node_n[u], return'[u] = return[u],
         n_passed'[u] = n_passed[u], UNCHANGED <<n_graph, n_barrier_passed, last_graph>>
  PROVE  Front(u)' = Front(u) /\ (Holds(u)' <=> Holds(u)) /\ (Coming(u)' <=> Coming(u))
  BY DEF Front, Before, Ahead, Resting, Out, Holds, Coming, InBarrier

\* What the common place of the threads says about one of them.
LEMMA PlaceOf ==
  ASSUME TypeOK, NEW u \in Thread, NEW m \in Nat, NEW h \in {0, 1}, At(u, m, h)
  PROVE  /\ Front(u) <= m + 1
         /\ Busy(m) /\ Node(m) = "chunks" /\ h = 0 => Front(u) <= m
         /\ Holds(u) => h = 1 /\ node_n[u] = m /\ Busy(m) /\ Node(m) = "chunks"
         /\ Coming(u) => h = 0 /\ node_n[u] = m /\ Busy(m) /\ Node(m) = "chunks"
  <1>1. node_n[u] \in Nat /\ Len_ \in Nat
    BY GraphFacts DEF TypeOK
  <1>2. Before(u) => h = 0 /\ Front(u) = 0 /\ ~Holds(u) /\ ~Coming(u)
    <2>1. Before(u) => pc[u] # "chunks" /\ ~InBarrier(u) /\ ~Holds(u)
      BY DEF Before, Ahead, Resting, Out, Computes, InBarrier, Holds
    <2>2. Before(u) => pc[u] \notin {"node", "rows", "init", "post"}
      BY DEF Before, Ahead, Resting, Out, Computes
    <2>3. Before(u) /\ pc[u] = "spin" => return[u] = "end"
      BY DEF Before, Ahead, Resting, Out, Computes
    <2>4. Before(u) => h = 0
      BY <2>1, <2>2, <2>3 DEF At
    <2> QED BY <2>1, <2>4 DEF Front, Coming
  <1>3. CASE ~Before(u)
    <2>1. CASE pc[u] = "node"
      BY <1>1, <1>3, <2>1 DEF At, Before, Front, Holds, Coming, InBarrier, Leads, Past, Half
    <2>2. CASE pc[u] \in {"rows", "init", "chunks", "post"}
      BY <1>1, <1>3, <2>2 DEF At, Before, Front, Holds, Coming, InBarrier, Half
    <2>3. CASE InBarrier(u)
      <3>1. Arriving(u, m, h) /\ Front(u) = node_n[u] /\ ~Holds(u)
        BY <1>3, <2>3, AtBarrier DEF Front, InBarrier, Holds
      <3> QED BY <1>1, <2>3, <3>1 DEF Arriving, Past, Coming, Half, Busy, Over
    <2>4. CASE pc[u] = "spin" /\ n_passed[u] # n_barrier_passed
      BY <1>1, <1>3, <2>4 DEF At, Before, Front, Holds, Coming, InBarrier, Leads
    <2> QED BY <1>3, <2>1, <2>2, <2>3, <2>4 DEF At, Before
  <1> QED BY <1>2, <1>3

\* While no thread is at the chunks of node n, what is computed is behind the threads.
LEMMA NoneHolds ==
  ASSUME TypeOK, Owned, NEW m \in Nat, NEW h \in {0, 1}, \A u \in Act : At(u, m, h), h = 0
  PROVE  /\ \A u \in Act : ~Holds(u)
         /\ \A n, c : ~Held(n, c)
         /\ \A x \in computed : x.by \in Act /\ x.node < Front(x.by)
  <1>1. \A u \in Act : ~Holds(u)
    BY PlaceOf DEF Act
  <1> QED BY <1>1 DEF Held, Owned, OwnPart

\* Steps over the nodes, and those to and from the barrier that do not open it.
LEMMA NodesResults ==
  ASSUME IInv, IInv', Results, NEW t \in Thread, Run(t) \/ Nodes(t)
  PROVE  Results'
  <1> USE DEF IInv
  <1>1. pc[t] \in {"run", "node"} /\ On /\ t \in Act /\ (t # Main => Inside(t)) /\ node_n[t] \in Nat /\ Act \subseteq Thread
    BY InGraph, InGraphPlace DEF Run, Nodes, SkipNode, StartNode, LeaveLoop, Computes, TypeOK, Act
  <1>2. /\ UNCHANGED <<graph, abort, n_graph, n_threads, n_barrier_passed, last_graph, computed, chunk, current_chunk, n_passed>>
        /\ \A u \in Thread : u # t => pc'[u] = pc[u] /\ node_n'[u] = node_n[u] /\ return'[u] = return[u]
    BY DEF Run, Nodes, SkipNode, StartNode, LeaveLoop, pool, barrier, data, Goto, TypeOK
  <1>3. \A u \in Act : u # t => Front(u)' = Front(u) /\ (Holds(u)' <=> Holds(u)) /\ (Coming(u)' <=> Coming(u))
    BY <1>1, <1>2, OthersSame
  <1>4. On' /\ pc'[Main] # "kick"
    <2>1. pc'[t] \in Computes /\ pc'[t] # "spin"
      <3>1. pc'[t] \in {"node", "rows", "init", "arrive"}
        BY DEF Run, Nodes, SkipNode, StartNode, LeaveLoop, Goto, TypeOK
      <3> QED BY <3>1 DEF Computes
    <2>2. t = Main => On' /\ pc'[Main] # "kick"
      BY <2>1 DEF On, Out, Computes
    <2>3. t # Main => On' /\ pc'[Main] # "kick"
      BY <1>1, <1>2, GraphFacts DEF On, Out, Computes
    <2> QED BY <2>2, <2>3
  <1>5. /\ ~Holds(t) /\ ~Holds(t)' /\ ~Coming(t)' /\ ~Before(t)' /\ Act' = Act /\ Len_' = Len_
        /\ pc[t] = "node" => ~Before(t)
    <2>1. ~Ahead(t)' \/ t = Main
      BY <1>1, <1>2 DEF Inside, Ahead, TypeOK
    <2>2. Act' = Act /\ Len_' = Len_
      BY <1>2 DEF Act, Active, Len_
    <2>3. pc'[t] \in {"node", "rows", "init", "arrive"} /\ (pc'[t] = "arrive" => return'[t] = "end")
      BY DEF Run, Nodes, SkipNode, StartNode, LeaveLoop, Goto, TypeOK
    <2>4. pc[t] = "node" => ~Before(t)
      BY <1>1 DEF Before, Ahead, Inside
    <2> QED BY <1>1, <2>1, <2>2, <2>3, <2>4 DEF Holds, Coming, InBarrier, Before
  <1>6. ASSUME \/ Front(t)' = Front(t)
               \/ Front(t)' = Front(t) + 1 /\ Node(Front(t)) = "nop" /\ Front(t) < Len_ /\ abort # Front(t)
        PROVE  Results'
    <2>1. Unique' /\ Owned' /\ Shared' /\ AllBehind'
      <3>1. ASSUME NEW u \in Act
            PROVE  /\ (Holds(u)' <=> Holds(u)) /\ (Coming(u)' => Coming(u))
                   /\ Holds(u) => node_n'[u] = node_n[u]
                   /\ \/ Front(u)' = Front(u)
                      \/ Front(u)' = Front(u) + 1 /\ Node(Front(u)) = "nop"
        <4>1. CASE u = t
          BY <4>1, <1>5, <1>6
        <4>2. CASE u # t
          BY <4>2, <1>1, <1>2, <1>3
        <4> QED BY <4>1, <4>2
      <3> QED BY <1>1, <1>2, <3>1, Follows
    <2>2. Reached'
      <3>1. Reached /\ Len_ \in Nat /\ abort \in Nat \cup {-1}
        BY <1>1, GraphFacts DEF Results, TypeOK
      <3>2. Front(t) \in Nat
        BY <1>1 DEF Front
      <3>3. Front(t)' <= Len_ /\ (abort # -1 => Front(t)' <= abort)
        BY <1>1, <1>6, <3>1, <3>2 DEF Reached
      <3> QED BY <1>2, <1>3, <1>5, <3>1, <3>3 DEF Reached
    <2> QED BY <1>4, <2>1, <2>2 DEF Results
  <1>7. CASE Run(t)
    <2>1. Front(t)' = Front(t)
      BY <1>5, <1>7 DEF Front, Before, Run, TypeOK, Goto
    <2> QED BY <1>6, <2>1
  <1>8. CASE SkipNode(t)
    <2>1. Front(t) = node_n[t] /\ Front(t)' = node_n[t] + 1
      BY <1>1, <1>5, <1>8 DEF Front, SkipNode, TypeOK
    <2> QED BY <1>1, <1>6, <1>8, <2>1, GraphFacts DEF SkipNode, Over
  <1>9. CASE StartNode(t) \/ LeaveLoop(t)
    <2>1. Front(t)' = Front(t)
      BY <1>1, <1>5, <1>9 DEF Front, StartNode, LeaveLoop, TypeOK, Goto, data
    <2> QED BY <1>6, <2>1
  <1> QED BY <1>7, <1>8, <1>9 DEF Nodes

LEMMA WorkFrame ==
  ASSUME IInv, TypeOK', NEW t \in Thread, Work(t)
  PROVE  /\ pc[t] \in {"rows", "init", "chunks", "post"} /\ On /\ t \in Act /\ Act \subseteq Thread
         /\ UNCHANGED <<graph, n_graph, n_threads, n_barrier_passed, last_graph, n_passed>>
         /\ \A u \in Act : u # t => /\ Front(u)' = Front(u) /\ (Holds(u)' <=> Holds(u))
                                    /\ (Coming(u)' <=> Coming(u)) /\ node_n'[u] = node_n[u]
         /\ On' /\ pc'[Main] # "kick" /\ Act' = Act /\ Len_' = Len_ /\ \A n : Node(n)' = Node(n)
         /\ ~Before(t) /\ ~Before(t)' /\ node_n[t] \in Nat
         /\ Front(t) = (IF pc[t] = "post" THEN node_n[t] + 1 ELSE node_n[t])
         /\ Front(t)' = (IF pc'[t] = "post" THEN node_n'[t] + 1 ELSE node_n'[t])
  <1> USE DEF IInv
  <1>1. /\ pc[t] \in {"rows", "init", "chunks", "post"} /\ On /\ t \in Act /\ (t # Main => Inside(t)) /\ node_n[t] \in Nat
        /\ Act \subseteq Thread
    BY InGraph, InGraphPlace DEF Work, Rows, ChunksInit, Chunk, ChunksOver, Post, Computes, TypeOK, Act
  <1>2. /\ UNCHANGED <<graph, n_graph, n_threads, n_barrier_passed, last_graph, n_passed>>
        /\ \A u \in Thread : u # t => pc'[u] = pc[u] /\ node_n'[u] = node_n[u] /\ return'[u] = return[u]
    BY DEF Work, Rows, ChunksInit, Chunk, ChunksOver, Post, pool, barrier, data, Goto, TypeOK
  <1>3. \A u \in Act : u # t => /\ Front(u)' = Front(u) /\ (Holds(u)' <=> Holds(u))
                                /\ (Coming(u)' <=> Coming(u)) /\ node_n'[u] = node_n[u]
    BY <1>1, <1>2, OthersSame
  <1>4. pc'[t] \in {"post", "arrive", "node", "chunks"}
    BY DEF Work, Rows, ChunksInit, Chunk, ChunksOver, Post, Goto, TypeOK
  <1>5. On' /\ pc'[Main] # "kick"
    <2>1. t = Main => On' /\ pc'[Main] # "kick"
      BY <1>4 DEF On, Out, Computes
    <2>2. t # Main => On' /\ pc'[Main] # "kick"
      BY <1>1, <1>2, GraphFacts DEF On, Out, Computes
    <2> QED BY <2>1, <2>2
  <1>6. ~Before(t) /\ ~Before(t)'
    BY <1>1, <1>2, <1>4 DEF Before, Ahead, Inside
  <1>7. Act' = Act /\ Len_' = Len_ /\ \A n : Node(n)' = Node(n)
    BY <1>2 DEF Act, Active, Len_, Node
  <1> QED BY <1>1, <1>2, <1>3, <1>5, <1>6, <1>7 DEF Front

LEMMA RowsResults ==
  ASSUME IInv, IInv', Results, NEW t \in Thread, Rows(t)
  PROVE  Results'
  <1> USE DEF IInv
  <1> DEFINE n == node_n[t]
             new == [node |-> n, chunk |-> t, by |-> t]
  <1>0. Work(t)
    BY DEF Work
  <1>1. /\ On /\ t \in Act /\ Act \subseteq Thread /\ On' /\ pc'[Main] # "kick" /\ Act' = Act
        /\ Len_' = Len_ /\ (\A k : Node(k)' = Node(k)) /\ n \in Nat
        /\ \A u \in Act : u # t => /\ Front(u)' = Front(u) /\ (Holds(u)' <=> Holds(u))
                                   /\ (Coming(u)' <=> Coming(u)) /\ node_n'[u] = node_n[u]
    BY <1>0, WorkFrame
  <1>2. /\ pc[t] = "rows" /\ pc'[t] = "post" /\ UNCHANGED <<abort, current_chunk, chunk, node_n, return>>
        /\ computed' = computed \cup {new}
        /\ Front(t) = n /\ Front(t)' = n + 1
    BY <1>0, WorkFrame DEF Rows, Done, Goto, TypeOK
  <1>3. PICK m \in Nat, h \in {0, 1} : \A u \in Act : At(u, m, h)
    BY <1>1 DEF Position
  <1>4. h = 0 /\ n = m /\ Busy(m) /\ Node(n) = "rows" /\ n < Len_ /\ abort # n
    <2>1. ~Before(t) /\ ~InBarrier(t)
      BY <1>0, <1>2, WorkFrame DEF InBarrier
    <2> QED BY <1>1, <1>2, <1>3, <2>1 DEF At, Before, Busy
  <1>5. \A u \in Act : ~Holds(u) /\ ~Holds(u)' /\ ~Coming(u) /\ ~Coming(u)'
    <2>1. \A u \in Act : ~Holds(u) /\ ~Coming(u)
      BY <1>1, <1>3, <1>4, PlaceOf
    <2>2. ~Holds(t)' /\ ~Coming(t)'
      BY <1>2 DEF Holds, Coming, InBarrier
    <2> QED BY <1>1, <2>1, <2>2
  <1>6. \A k, c : ~Held(k, c) /\ ~Held(k, c)' /\ (Has(k, c) => Has(k, c)')
    BY <1>1, <1>2, <1>5 DEF Held, Has
  <1>7. \A u \in Act : Front(u) \in Nat /\ Front(u)' \in Nat /\ Front(u) <= Front(u)'
    <2>1. \A u \in Act : Front(u) \in Nat
      BY <1>1 DEF Front, TypeOK
    <2> QED BY <1>1, <1>2, <2>1
  <1>8. \A x \in computed : x.node \in Nat /\ OwnPart(x) /\ x.node < Front(x.by)
    <2>1. \A x \in computed : OwnPart(x) /\ x.node \in Nat
      BY <1>1 DEF Results, Owned, TypeOK
    <2> QED BY <1>5, <2>1 DEF OwnPart
  <1>9. Unique'
    <2>1. ASSUME NEW x \in computed, x.node = n, x.chunk = t PROVE FALSE
      <3>1. x.by = t
        BY <1>4, <1>8, <2>1 DEF OwnPart
      <3> QED BY <1>2, <1>8, <2>1, <3>1
    <2> QED BY <1>2, <2>1 DEF Results, Unique
  <1>10. Reached'
    <2>1. Front(t) <= Len_ /\ (abort # -1 => Front(t) <= abort) /\ Len_ \in Nat /\ abort \in Nat \cup {-1}
      BY <1>1, GraphFacts DEF Results, Reached, TypeOK
    <2>2. Front(t)' <= Len_ /\ (abort # -1 => Front(t)' <= abort)
      BY <1>1, <1>2, <1>4, <2>1
    <2> QED BY <1>1, <1>2, <2>2 DEF Results, Reached
  <1>11. Owned'
    <2>1. ASSUME NEW x \in computed PROVE OwnPart(x)'
      BY <1>1, <1>7, <1>8, <2>1 DEF OwnPart
    <2>2. OwnPart(new)'
      BY <1>1, <1>2, <1>4 DEF OwnPart
    <2> QED BY <1>2, <2>1, <2>2 DEF Owned
  <1>12. Shared'
    BY <1>1, <1>5 DEF Shared
  <1>13. AllBehind'
    <2>1. ASSUME NEW u \in Act, NEW k \in Nat, k < Front(u)', k < Len_ PROVE Behind(u, k)'
      <3>1. CASE k < Front(u)
        <4>1. Behind(u, k)
          BY <1>1, <2>1, <3>1 DEF Results, AllBehind
        <4> QED BY <1>1, <1>6, <4>1 DEF Behind, Chunks
      <3>2. CASE u = t /\ k = n
        <4>1. new \in computed' /\ new.node = k /\ new.chunk = u
          BY <1>2, <3>2
        <4>2. Has(k, u)'
          BY <4>1 DEF Has
        <4>3. Node(k)' # "chunks"
          BY <1>1, <1>4, <3>2
        <4> QED BY <4>2, <4>3 DEF Behind
      <3> QED BY <1>1, <1>2, <2>1, <3>1, <3>2
    <2> QED BY <1>1, <2>1 DEF AllBehind
  <1> QED BY <1>1, <1>9, <1>10, <1>11, <1>12, <1>13 DEF Results

LEMMA ChunksInitResults ==
  ASSUME IInv, IInv', Results, NEW t \in Thread, ChunksInit(t)
  PROVE  Results'
  <1> USE DEF IInv
  <1>0. Work(t)
    BY DEF Work
  <1>1. /\ On /\ t \in Act /\ Act \subseteq Thread /\ On' /\ pc'[Main] # "kick" /\ Act' = Act
        /\ Len_' = Len_ /\ (\A k : Node(k)' = Node(k))
        /\ \A u \in Act : u # t => /\ Front(u)' = Front(u) /\ (Holds(u)' <=> Holds(u))
                                   /\ (Coming(u)' <=> Coming(u)) /\ node_n'[u] = node_n[u]
    BY <1>0, WorkFrame
  <1>2. /\ pc[t] = "init" /\ pc'[t] = "arrive" /\ UNCHANGED <<abort, node_n, n_threads, computed>>
        /\ chunk' = [chunk EXCEPT ![t] = t] /\ Front(t)' = Front(t)
        /\ t = Main => current_chunk' = n_threads
        /\ t # Main => current_chunk' = current_chunk
    BY <1>0, WorkFrame DEF ChunksInit, Goto, TypeOK, pool
  <1>3. PICK m \in Nat, h \in {0, 1} : \A u \in Act : At(u, m, h)
    BY <1>1 DEF Position
  <1>4. h = 0 /\ Busy(m) /\ Node(m) = "chunks"
    <2>1. ~Before(t) /\ ~InBarrier(t)
      BY <1>0, <1>2, WorkFrame DEF InBarrier
    <2> QED BY <1>1, <1>2, <1>3, <2>1 DEF At, Before, Busy
  <1>5. \A u \in Act : ~Holds(u) /\ ~Holds(u)'
    <2>1. \A u \in Act : ~Holds(u)
      BY <1>1, <1>3, <1>4, PlaceOf
    <2>2. ~Holds(t)'
      BY <1>2 DEF Holds
    <2> QED BY <1>1, <2>1, <2>2
  <1>6. \A k, c : ~Held(k, c) /\ ~Held(k, c)' /\ (Has(k, c) <=> Has(k, c)')
    BY <1>1, <1>2, <1>5 DEF Held, Has
  <1>7. \A u \in Act : Front(u)' = Front(u)
    BY <1>1, <1>2
  <1>8. Reached'
    BY <1>1, <1>2, <1>7 DEF Results, Reached
  <1>9. Owned'
    <2>1. ASSUME NEW x \in computed PROVE OwnPart(x)'
      <3>1. OwnPart(x)
        BY <1>1 DEF Results, Owned
      <3> QED BY <1>1, <1>5, <1>7, <3>1 DEF OwnPart
    <2> QED BY <1>2, <2>1 DEF Owned
  <1>10. Shared'
    <2>1. ASSUME NEW u \in Act, Coming(u)' PROVE Starts(u)'
      <3>1. CASE u = t
        BY <1>1, <1>2, <3>1 DEF Starts, TypeOK
      <3>2. CASE u # t
        <4>1. Starts(u) /\ u \in Thread
          BY <1>1, <2>1, <3>2 DEF Results, Shared
        <4> QED BY <1>2, <3>2, <4>1 DEF Starts, TypeOK
      <3> QED BY <3>1, <3>2
    <2> QED BY <1>1, <1>5, <2>1 DEF Shared
  <1>11. AllBehind'
    <2>1. ASSUME NEW u \in Act, NEW k \in Nat, k < Front(u)', k < Len_ PROVE Behind(u, k)'
      <3>1. Behind(u, k)
        BY <1>1, <1>7, <2>1 DEF Results, AllBehind
      <3> QED BY <1>1, <1>6, <3>1 DEF Behind, Chunks
    <2> QED BY <1>1, <2>1 DEF AllBehind
  <1>12. Unique'
    BY <1>2 DEF Results, Unique
  <1> QED BY <1>1, <1>8, <1>9, <1>10, <1>11, <1>12 DEF Results

\* A thread hands on its chunk: it is computed, or none that there is.
LEMMA ChunkHandedOn ==
  ASSUME IInv, IInv', Results, NEW t \in Thread, Work(t), pc[t] = "chunks",
         UNCHANGED <<abort, node_n, return>>, NEW new,
         new = [node |-> node_n[t], chunk |-> chunk[t], by |-> t],
         \/ computed' = computed /\ chunk[t] >= NChunk
         \/ computed' = computed \cup {new} /\ chunk[t] < NChunk,
         \/ pc'[t] = "post" /\ chunk' = chunk /\ current_chunk' = current_chunk /\ NChunk <= current_chunk
         \/ pc'[t] = "chunks" /\ chunk' = [chunk EXCEPT ![t] = current_chunk] /\ current_chunk' = current_chunk + 1
  PROVE  Results'
  <1> USE DEF IInv
  <1>1. /\ On /\ t \in Act /\ Act \subseteq Thread /\ On' /\ pc'[Main] # "kick" /\ Act' = Act
        /\ Len_' = Len_ /\ (\A k : Node(k)' = Node(k)) /\ n_threads' = n_threads
        /\ \A u \in Act : u # t => /\ Front(u)' = Front(u) /\ (Holds(u)' <=> Holds(u))
                                   /\ (Coming(u)' <=> Coming(u)) /\ node_n'[u] = node_n[u]
    BY WorkFrame
  <1>2. PICK n \in Nat : n = node_n[t]
    BY <1>1 DEF TypeOK
  <1>3. Front(t) = n /\ Front(t)' = (IF pc'[t] = "post" THEN n + 1 ELSE n)
    BY <1>2, WorkFrame
  <1>4. /\ Holds(t) /\ (Holds(t)' <=> pc'[t] = "chunks") /\ ~Coming(t) /\ ~Coming(t)'
    BY DEF Holds, Coming, InBarrier
  <1>5. PICK m \in Nat, h \in {0, 1} : \A u \in Act : At(u, m, h)
    BY <1>1 DEF Position
  <1>6. n = m /\ Busy(n) /\ Node(n) = "chunks" /\ n < Len_ /\ abort # n
        /\ \A u \in Act : Holds(u) => node_n[u] = n
    BY <1>1, <1>2, <1>4, <1>5, PlaceOf DEF Busy
  <1>7. Share(t) /\ Unique /\ Reached /\ Owned /\ Shared /\ AllBehind
    BY <1>1, <1>4 DEF Results, Shared
  <1>8. /\ current_chunk \in Nat /\ NChunk \in Nat /\ n_threads \in Nat /\ chunk \in [Thread -> Nat]
        /\ chunk[t] < current_chunk /\ current_chunk <= current_chunk' /\ current_chunk' \in Nat
    BY <1>7, PoolAssumption DEF TypeOK, Share
  <1>9. \A u \in Act : Front(u) \in Nat /\ Front(u)' \in Nat /\ Front(u) <= Front(u)'
    <2>1. \A u \in Act : Front(u) \in Nat
      BY <1>1 DEF Front, TypeOK
    <2> QED BY <1>1, <1>3, <2>1
  <1>10. ASSUME NEW k, NEW c \in Chunks, Has(k, c) \/ Held(k, c)
         PROVE  Has(k, c)' \/ Held(k, c)'
    <2>1. CASE Has(k, c)
      BY <2>1 DEF Has
    <2>2. ASSUME NEW u \in Act, Holds(u), node_n[u] = k, chunk[u] = c, u # t
          PROVE  Held(k, c)'
      <3>1. Holds(u)' /\ node_n'[u] = k /\ chunk'[u] = c
        BY <1>1, <1>8, <2>2
      <3> QED BY <1>1, <3>1 DEF Held
    <2>3. CASE n = k /\ chunk[t] = c
      <3>1. new \in computed' /\ new.node = k /\ new.chunk = c
        BY <1>2, <1>8, <2>3 DEF Chunks
      <3> QED BY <3>1 DEF Has
    <2> QED BY <1>2, <1>10, <2>1, <2>2, <2>3 DEF Held
  <1>11. Unique'
    <2>1. \A x \in computed : x.node = n => x.chunk # chunk[t]
      BY <1>2, <1>7 DEF Share
    <2>2. new.node = n /\ new.chunk = chunk[t]
      BY <1>2
    <2> QED BY <1>7, <2>1, <2>2 DEF Unique
  <1>12. Reached'
    <2>1. Front(t) <= Len_ /\ (abort # -1 => Front(t) <= abort) /\ Len_ \in Nat /\ abort \in Nat \cup {-1}
      BY <1>1, <1>7, GraphFacts DEF Reached, TypeOK
    <2>2. Front(t)' <= Len_ /\ (abort # -1 => Front(t)' <= abort)
      BY <1>3, <1>6, <2>1
    <2> QED BY <1>1, <1>7, <2>2 DEF Reached
  <1>13. Owned'
    <2>1. ASSUME NEW x \in computed PROVE OwnPart(x)'
      <3>1. OwnPart(x) /\ x.node \in Nat
        BY <1>7 DEF Owned, TypeOK
      <3>2. x.node < Front(x.by)' \/ (Holds(x.by)' /\ x.node = node_n'[x.by])
        <4>1. CASE x.by # t
          BY <1>1, <3>1, <4>1 DEF OwnPart
        <4>2. CASE x.by = t
          <5>1. x.node < n \/ x.node = n
            BY <1>2, <1>3, <3>1, <4>2 DEF OwnPart
          <5>2. x.node < Front(t)' \/ (Holds(t)' /\ x.node = n /\ node_n'[t] = n)
            BY <1>2, <1>3, <1>4, <3>1, <5>1
          <5> QED BY <4>2, <5>2
        <4> QED BY <4>1, <4>2
      <3> QED BY <1>1, <3>1, <3>2 DEF OwnPart
    <2>2. ASSUME chunk[t] < NChunk PROVE OwnPart(new)'
      <3>1. new' = new /\ new.node = n /\ new.by = t /\ new.chunk = chunk[t]
        BY <1>2
      <3>2. n < Front(t)' \/ (Holds(t)' /\ n = node_n'[t])
        BY <1>2, <1>3, <1>4
      <3> QED BY <1>1, <1>6, <2>2, <3>1, <3>2 DEF OwnPart
    <2> QED BY <2>1, <2>2 DEF Owned
  <1>14. Shared'
    <2>1. \A u \in Act : ~Coming(u)'
      <3>1. \A u \in Act : ~Coming(u)
        BY <1>1, <1>4, <1>5, PlaceOf
      <3> QED BY <1>1, <1>4, <3>1
    <2>2. ASSUME NEW u \in Act, Holds(u)' PROVE Share(u)'
      <3>1. Holds(u) /\ Share(u) /\ node_n[u] = n /\ node_n'[u] = n
        BY <1>1, <1>2, <1>4, <1>6, <1>7, <2>2 DEF Shared
      <3>2. chunk'[u] < current_chunk' /\ n_threads' <= current_chunk'
        BY <1>1, <1>4, <1>8, <2>2, <3>1 DEF Share
      <3>3. ASSUME NEW v \in Act, v # u, Holds(v)'
            PROVE  chunk'[v] # chunk'[u]
        <4>1. Holds(v) /\ Share(v) /\ chunk[v] # chunk[u] /\ chunk[v] < current_chunk /\ chunk[u] < current_chunk
          BY <1>1, <1>4, <1>7, <3>1, <3>3 DEF Shared, Share
        <4> QED BY <1>1, <1>4, <1>8, <2>2, <3>3, <4>1
      <3>4. ASSUME NEW x \in computed', x.node = n
            PROVE  x.chunk # chunk'[u] /\ x.chunk < current_chunk'
        <4>1. CASE x \in computed
          <5>1. x.chunk # chunk[u] /\ x.chunk < current_chunk /\ x.chunk \in Nat
            BY <3>1, <3>4, <4>1 DEF Share, TypeOK
          <5> QED BY <1>1, <1>4, <1>8, <2>2, <5>1
        <4>2. CASE x = new
          <5>1. x.chunk = chunk[t] /\ x.chunk \in Nat
            BY <1>1, <1>8, <4>2
          <5>2. u # t => chunk[u] # chunk[t] /\ chunk'[u] = chunk[u]
            BY <1>1, <1>4, <1>7, <1>8, <3>1 DEF Share
          <5>3. u = t => chunk'[u] = current_chunk
            BY <1>1, <1>4, <1>8, <2>2
          <5> QED BY <1>8, <5>1, <5>2, <5>3
        <4> QED BY <3>4, <4>1, <4>2
      <3>5. ASSUME NEW c \in Chunks, c < current_chunk'
            PROVE  Has(n, c)' \/ Held(n, c)'
        <4>1. CASE c < current_chunk
          BY <1>10, <3>1, <4>1 DEF Share
        <4>2. CASE c >= current_chunk
          <5>1. Holds(t)' /\ c = current_chunk /\ chunk'[t] = c /\ node_n'[t] = n
            BY <1>1, <1>2, <1>4, <1>8, <3>5, <4>2 DEF Chunks
          <5> QED BY <1>1, <5>1 DEF Held
        <4> QED BY <1>8, <4>1, <4>2 DEF Chunks
      <3> QED BY <1>1, <3>1, <3>2, <3>3, <3>4, <3>5 DEF Share, Chunks
    <2> QED BY <1>1, <2>1, <2>2 DEF Shared
  <1>15. AllBehind'
    <2>1. ASSUME NEW u \in Act, NEW k \in Nat, k < Front(u)', k < Len_ PROVE Behind(u, k)'
      <3>1. CASE k < Front(u)
        <4>1. Behind(u, k)
          BY <1>7, <2>1, <3>1 DEF AllBehind
        <4>2. Has(k, u) => Has(k, u)'
          BY DEF Has
        <4> QED BY <1>1, <1>10, <4>1, <4>2 DEF Behind, Chunks
      <3>2. CASE k >= Front(u)
        <4>1. u = t /\ k = n /\ pc'[t] = "post"
          BY <1>1, <1>3, <1>9, <2>1, <3>2
        <4>2. \A c \in Chunks : c < current_chunk
          BY <1>8, <4>1 DEF Chunks
        <4>3. \A c \in Chunks : Has(n, c) \/ Held(n, c)
          BY <1>2, <1>7, <4>2 DEF Share
        <4>4. \A c \in Chunks : Has(n, c)' \/ Held(n, c)'
          BY <1>10, <4>3
        <4> QED BY <1>1, <1>6, <4>1, <4>4 DEF Behind, Chunks
      <3> QED BY <1>9, <3>1, <3>2
    <2> QED BY <1>1, <2>1 DEF AllBehind
  <1> QED BY <1>1, <1>11, <1>12, <1>13, <1>14, <1>15 DEF Results

LEMMA ChunkResults ==
  ASSUME IInv, IInv', Results, NEW t \in Thread, Chunk(t) \/ ChunksOver(t)
  PROVE  Results'
  <1> USE DEF IInv
  <1> DEFINE new == [node |-> node_n[t], chunk |-> chunk[t], by |-> t]
  <1>1. Work(t) /\ pc[t] = "chunks" /\ UNCHANGED <<abort, node_n, return>>
    BY DEF Work, Chunk, ChunksOver, data
  <1>2. t \in Act /\ On /\ Holds(t)
    BY <1>1, WorkFrame DEF Holds
  <1>3. chunk[t] < current_chunk /\ n_threads <= current_chunk
    BY <1>2 DEF Results, Shared, Share
  <1>4. NChunk \in Nat /\ n_threads \in Nat /\ current_chunk \in Nat /\ chunk[t] \in Nat
    BY PoolAssumption DEF TypeOK
  <1>5. CASE Chunk(t)
    <2>1. computed' = computed \cup {new} /\ chunk[t] < NChunk
      BY <1>5 DEF Chunk, Done
    <2>2. CASE n_threads >= NChunk
      <3>1. pc'[t] = "post" /\ chunk' = chunk /\ current_chunk' = current_chunk /\ NChunk <= current_chunk
        BY <1>3, <1>4, <1>5, <2>2 DEF Chunk, Goto, TypeOK
      <3> QED BY <1>1, <2>1, <3>1, ChunkHandedOn
    <2>3. CASE ~(n_threads >= NChunk)
      <3>1. pc'[t] = "chunks" /\ chunk' = [chunk EXCEPT ![t] = current_chunk] /\ current_chunk' = current_chunk + 1
        BY <1>1, <1>5, <2>3 DEF Chunk
      <3> QED BY <1>1, <2>1, <3>1, ChunkHandedOn
    <2> QED BY <2>2, <2>3
  <1>6. CASE ChunksOver(t)
    <2>1. computed' = computed /\ chunk[t] >= NChunk
      BY <1>6 DEF ChunksOver, data
    <2>2. pc'[t] = "post" /\ chunk' = chunk /\ current_chunk' = current_chunk /\ NChunk <= current_chunk
      BY <1>3, <1>4, <1>6 DEF ChunksOver, data, Goto, TypeOK
    <2> QED BY <1>1, <2>1, <2>2, ChunkHandedOn
  <1> QED BY <1>5, <1>6

LEMMA PostResults ==
  ASSUME IInv, IInv', Results, NEW t \in Thread, Post(t)
  PROVE  Results'
  <1> USE DEF IInv
  <1>0. Work(t)
    BY DEF Work
  <1>1. /\ On /\ t \in Act /\ Act \subseteq Thread /\ On' /\ pc'[Main] # "kick" /\ Act' = Act
        /\ Len_' = Len_ /\ (\A k : Node(k)' = Node(k)) /\ UNCHANGED <<graph, n_threads>>
        /\ \A u \in Act : u # t => /\ Front(u)' = Front(u) /\ (Holds(u)' <=> Holds(u))
                                   /\ (Coming(u)' <=> Coming(u)) /\ node_n'[u] = node_n[u]
    BY <1>0, WorkFrame
  <1>2. PICK n \in Nat : n = node_n[t]
    BY <1>1 DEF TypeOK
  <1>3. /\ pc[t] = "post" /\ pc'[t] \in {"arrive", "node"} /\ (pc'[t] = "arrive" => return'[t] = "node")
        /\ UNCHANGED <<chunk, current_chunk, computed>> /\ abort' \in {abort, n + 1}
        /\ node_n'[t] = n + 1
    BY <1>1, <1>2 DEF Post, Goto, TypeOK
  <1>4. Front(t) = n + 1 /\ Front(t)' = n + 1 /\ ~Holds(t) /\ ~Holds(t)' /\ ~Coming(t)'
    BY <1>0, <1>2, <1>3, WorkFrame DEF Holds, Coming, InBarrier
  <1>5. Unique' /\ Owned' /\ Shared' /\ AllBehind'
    <2>1. ASSUME NEW u \in Act
          PROVE  /\ (Holds(u)' <=> Holds(u)) /\ (Coming(u)' => Coming(u))
                 /\ Holds(u) => node_n'[u] = node_n[u]
                 /\ \/ Front(u)' = Front(u)
                    \/ Front(u)' = Front(u) + 1 /\ Node(Front(u)) = "nop"
      <3>1. CASE u = t
        BY <1>4, <3>1
      <3>2. CASE u # t
        BY <1>1, <3>2
      <3> QED BY <3>1, <3>2
    <2> QED BY <1>1, <1>3, <2>1, Follows
  <1>6. PICK m \in Nat, h \in {0, 1} : \A u \in Act : At(u, m, h)
    BY <1>1 DEF Position
  <1>7. n = m /\ n < Len_
    <2>1. ~Before(t) /\ ~InBarrier(t)
      BY <1>0, <1>3, WorkFrame DEF InBarrier
    <2> QED BY <1>1, <1>2, <1>3, <1>6, <2>1 DEF At, Before, Busy
  <1>8. Reached'
    <2>1. \A u \in Act : Front(u)' = Front(u) /\ Front(u) <= n + 1
      BY <1>1, <1>4, <1>6, <1>7, PlaceOf
    <2>2. Reached /\ Len_ \in Nat
      BY <1>1, GraphFacts DEF Results
    <2> QED BY <1>1, <1>3, <1>7, <2>1, <2>2 DEF Reached
  <1> QED BY <1>1, <1>5, <1>8 DEF Results

----------------------------------------------------------------------------
(* The barrier, and the steps outside of a graph *)

LEMMA BeforeNothing ==
  ASSUME NEW u \in Thread, Before(u)
  PROVE  Front(u) = 0 /\ ~Holds(u) /\ ~Coming(u)
  BY DEF Before, Ahead, Resting, Out, Computes, InBarrier, Holds, Coming, Front

LEMMA StaysResults ==
  ASSUME IInv, Results, TypeOK', On, On',
         UNCHANGED <<graph, abort, n_threads, computed, chunk, current_chunk, node_n>>,
         \A u \in Act : /\ Front(u)' = Front(u) /\ (Holds(u)' <=> Holds(u)) /\ (Coming(u)' => Coming(u))
  PROVE  Results'
  <1>1. Unique' /\ Owned' /\ Shared' /\ AllBehind'
    BY Follows
  <1>2. Reached'
    <2>1. Act' = Act /\ Len_' = Len_
      BY DEF Act, Active, Len_
    <2> QED BY <2>1 DEF Results, Reached
  <1>3. pc'[Main] # "kick"
    BY DEF On, Computes
  <1> QED BY <1>1, <1>2, <1>3 DEF Results

LEMMA QuietResults ==
  ASSUME Results, ~On, ~On', pc'[Main] = "kick" <=> pc[Main] = "kick",
         UNCHANGED <<graph, abort, n_graph, n_threads, computed>>
  PROVE  Results'
  <1>1. Len_' = Len_ /\ \A n : Wanted(n)' = Wanted(n)
    BY DEF Len_, Wanted, Node
  <1>2. Complete' = Complete
    BY <1>1 DEF Complete
  <1> QED BY <1>2 DEF Results, Unique

\* The last thread opens the barrier.
LEMMA OpensResults ==
  ASSUME IInv, IInv', Results, NEW t \in Act, On, \A u \in Act : InBarrier(u),
         UNCHANGED <<graph, abort, n_graph, n_threads, computed, chunk, current_chunk, node_n, return, last_graph>>,
         \A u \in Act : u # t => pc'[u] = "spin" /\ n_passed'[u] # n_barrier_passed',
         pc'[t] = Left(t)
  PROVE  Results'
  <1> USE DEF IInv
  <1> DEFINE r == return[t]
  <1>1. /\ Act' = Act /\ Act \subseteq Thread /\ Len_' = Len_ /\ Main \in Act
        /\ (\A n : Node(n)' = Node(n)) /\ (\A n, c : Has(n, c)' <=> Has(n, c))
    <2>1. Main \in Act
      BY GraphFacts DEF Scheduling, Act
    <2> QED BY <2>1 DEF Act, Active, Len_, Node, Has
  <1>2. PICK m \in Nat, h \in {0, 1} : \A u \in Act : At(u, m, h)
    BY DEF Position
  <1>3. \A u \in Act : Arriving(u, m, h) /\ return[u] = r
    <2>1. \A u \in Act : Arriving(u, m, h)
      BY <1>1, <1>2, AtBarrier
    <2> QED BY <1>1, <2>1, Together
  <1>4. \A u \in Act : ~Before(u) /\ Front(u) = node_n[u] /\ ~Holds(u) /\ node_n[u] \in Nat
    BY <1>1 DEF InBarrier, Before, Ahead, Resting, Out, Computes, Front, Holds, TypeOK
  <1>5. \A n, c : ~Held(n, c)
    BY <1>4 DEF Held
  <1>6. \A x \in computed : OwnPart(x) /\ x.by \in Act /\ x.node \in Nat /\ x.node < node_n[x.by]
    <2>1. \A x \in computed : OwnPart(x) /\ x.node \in Nat
      BY DEF Results, Owned, TypeOK
    <2> QED BY <1>4, <2>1 DEF OwnPart
  <1>7. ASSUME NEW u \in Act, NEW n \in Nat, n < node_n[u], n < Len_
        PROVE  /\ Node(n) = "rows" => Has(n, u)
               /\ Node(n) = "chunks" => \A c \in Chunks : Has(n, c)
    <2>1. Behind(u, n)
      BY <1>4, <1>7 DEF Results, AllBehind
    <2> QED BY <1>5, <2>1 DEF Behind
  <1>8. ASSUME r # "end"
        PROVE  On' /\ \A u \in Act : /\ Front(u)' = Front(u) /\ ~Coming(u)'
                                     /\ Holds(u)' <=> r = "chunks"
    <2>1. Left(t) = r /\ r \in {"chunks", "node"}
      BY <1>1, <1>8 DEF Left, TypeOK
    <2>2. \A u \in Act : pc'[u] \in {"chunks", "node", "spin"} /\ return'[u] = r /\ ~Out(u)'
                         /\ (pc'[u] = "spin" => n_passed'[u] # n_barrier_passed')
                         /\ (pc'[u] # "spin" => pc'[u] = r)
      BY <1>3, <1>8, <2>1 DEF Out
    <2>3. On'
      BY <1>1, <2>2 DEF On, Computes
    <2>4. \A u \in Act : ~Before(u)'
      BY <2>2 DEF Before, Ahead, Resting, Computes
    <2>5. \A u \in Act : Front(u)' = Front(u)
      BY <1>4, <2>2, <2>4 DEF Front
    <2>6. \A u \in Act : ~Coming(u)' /\ (Holds(u)' <=> r = "chunks")
      BY <2>1, <2>2 DEF Coming, Holds, InBarrier
    <2> QED BY <2>3, <2>5, <2>6
  <1>9. CASE r = "node"
    BY <1>4, <1>8, <1>9, StaysResults
  <1>10. CASE r = "chunks"
    <2>1. \A u \in Act : node_n[u] = m /\ Coming(u) /\ Node(m) = "chunks" /\ m < Len_
      BY <1>3, <1>10 DEF Arriving, Coming, Busy
    <2>2. current_chunk = n_threads /\ \A u \in Act : chunk[u] = u /\ u < n_threads /\ u \in Nat
      BY <1>1, <2>1, GraphFacts DEF Results, Shared, Starts, Act, Active
    <2>3. \A u \in Act : Front(u)' = m /\ Holds(u)' /\ ~Coming(u)' /\ On'
      BY <1>4, <1>8, <1>10, <2>1
    <2>4. Unique' /\ Reached'
      BY <1>1, <1>4, <1>8, <1>10 DEF Results, Unique, Reached
    <2>5. Owned'
      <3>1. ASSUME NEW x \in computed PROVE OwnPart(x)'
        BY <1>1, <1>6, <2>1, <2>3, <3>1 DEF OwnPart
      <3> QED BY <3>1 DEF Owned
    <2>6. ASSUME NEW u \in Act PROVE Share(u)'
      <3>1. chunk'[u] < current_chunk' /\ n_threads' <= current_chunk'
        BY <2>2, GraphFacts
      <3>2. \A v \in Act : v # u => chunk'[v] # chunk'[u]
        BY <2>2
      <3>3. \A x \in computed : x.node # m
        BY <1>6, <2>1
      <3>4. ASSUME NEW c \in Chunks, c < n_threads PROVE Held(m, c)'
        <4>1. c \in Act
          BY PoolAssumption, <3>4 DEF Chunks, Act, Thread, Active, TypeOK
        <4> QED BY <1>1, <2>1, <2>2, <2>3, <4>1 DEF Held
      <3> QED BY <1>1, <2>1, <2>2, <3>1, <3>2, <3>3, <3>4 DEF Share, Chunks
    <2>7. Shared'
      BY <1>1, <2>3, <2>6 DEF Shared
    <2>8. AllBehind'
      <3>1. ASSUME NEW u \in Act, NEW n \in Nat, n < m, n < Len_ PROVE Behind(u, n)'
        BY <1>1, <1>7, <2>1, <3>1 DEF Behind, Chunks
      <3> QED BY <1>1, <2>3, <3>1 DEF AllBehind
    <2>9. pc'[Main] # "kick"
      BY <2>3, <1>1 DEF On, Computes
    <2> QED BY <1>1, <2>3, <2>4, <2>5, <2>7, <2>8, <2>9 DEF Results
  <1>11. CASE r = "end"
    <2>1. \A u \in Act : pc'[u] \in {"idle", "loop"} \/ (pc'[u] = "spin" /\ Out(u)')
      BY <1>3, <1>11 DEF Left, Out
    <2>2. ~On' /\ pc'[Main] # "kick"
      <3>1. pc'[Main] \in {"idle", "loop"} => ~On'
        BY DEF On, Computes
      <3> QED BY <1>1, <2>1, <3>1 DEF On
    <2> DEFINE e == node_n[t]
    <2>3. e \in Nat /\ e <= Len_ /\ Over(e) /\ Len_ \in Nat /\ \A u \in Act : node_n[u] = e
      <3>1. Front(t) <= Len_ /\ Len_ \in Nat
        BY GraphFacts DEF Results, Reached
      <3> QED BY <1>3, <1>4, <1>11, <3>1 DEF Arriving, Past, Over, Busy
    <2>4. e = IF abort = -1 THEN Len_ ELSE abort
      <3>1. abort # -1 => abort <= Len_ /\ e <= abort
        BY <1>4 DEF Results, Reached
      <3> QED BY <2>3, <3>1 DEF Over, TypeOK
    <2>5. \A x \in computed : x.chunk \in Wanted(x.node) /\ x.node \in 0 .. e - 1
      <3>1. ASSUME NEW x \in computed PROVE x.chunk \in Wanted(x.node) /\ x.node \in 0 .. e - 1
        <4>1. x.node \in Nat /\ x.node < e /\ x.by \in Act /\ x.chunk \in Nat
          BY <1>6, <2>3, <3>1 DEF TypeOK
        <4>2. x.by \in Nat /\ x.by < n_threads /\ n_threads \in Nat /\ NChunk \in Nat
          BY <1>1, <4>1, GraphFacts, PoolAssumption DEF Act, Active
        <4> QED BY <1>6, <2>3, <4>1, <4>2 DEF OwnPart, Wanted
      <3> QED BY <3>1
    <2>6. ASSUME NEW n \in 0 .. e - 1, NEW c \in Wanted(n) PROVE Has(n, c)
      <3>1. n \in Nat /\ n < e /\ n < Len_ /\ Node(n) \in Kinds
        BY <2>3, GraphFacts
      <3>2. CASE Node(n) = "rows"
        <4>1. c \in Act
          <5>1. c \in 0 .. n_threads - 1
            BY <2>6, <3>2 DEF Wanted
          <5>2. n_threads \in 0 .. NPool /\ NPool \in Nat
            BY PoolAssumption DEF TypeOK
          <5> QED BY <5>1, <5>2 DEF Act, Thread, Active
        <4> QED BY <1>7, <2>3, <3>1, <3>2, <4>1
      <3>3. CASE Node(n) = "chunks"
        <4>1. c \in Chunks
          BY <2>6, <3>3 DEF Wanted, Chunks
        <4> QED BY <1>7, <2>3, <3>1, <3>3, <4>1
      <3> QED BY <2>6, <3>1, <3>2, <3>3 DEF Kinds, Wanted
    <2>7. Complete
      <3> HIDE DEF e
      <3> DEFINE part(n) == {<<n, c>> : c \in Wanted(n)}
      <3>1. {<<x.node, x.chunk>> : x \in computed} \subseteq UNION {part(n) : n \in 0 .. e - 1}
        <4>1. \A x \in computed : <<x.node, x.chunk>> \in part(x.node)
          BY <2>5
        <4> QED BY <2>5, <4>1
      <3>2. UNION {part(n) : n \in 0 .. e - 1} \subseteq {<<x.node, x.chunk>> : x \in computed}
        <4>1. ASSUME NEW n \in 0 .. e - 1, NEW c \in Wanted(n)
              PROVE  <<n, c>> \in {<<x.node, x.chunk>> : x \in computed}
          <5>1. PICK x \in computed : x.node = n /\ x.chunk = c
            BY <2>6 DEF Has
          <5> QED BY <5>1
        <4> QED BY <4>1
      <3> QED BY <2>4, <3>1, <3>2 DEF Complete
    <2>8. Complete'
      <3>1. \A n : Wanted(n)' = Wanted(n)
        BY <1>1 DEF Wanted
      <3> QED BY <1>1, <2>7, <3>1 DEF Complete
    <2> QED BY <2>2, <2>8 DEF Results, Unique
  <1> QED BY <1>1, <1>9, <1>10, <1>11 DEF TypeOK

LEMMA BarrierResults ==
  ASSUME IInv, IInv', Results, NEW t \in Thread, Barrier(t)
  PROVE  Results'
  <1> USE DEF IInv
  <1>1. UNCHANGED <<graph, abort, n_graph, n_threads, computed, chunk, current_chunk, node_n, return, last_graph>>
    BY DEF Barrier, Arrive, Add, Last, Release, Spin, rest, pool
  <1>2. \A u \in Thread : u # t => pc'[u] = pc[u] /\ n_passed'[u] = n_passed[u]
    BY DEF Barrier, Arrive, Add, Last, Release, Spin, Goto, TypeOK
  <1>3. ASSUME ~Spin(t)
        PROVE  pc[t] \in {"arrive", "add", "last", "release"} /\ On /\ t \in Act /\ InBarrier(t)
    <2>1. pc[t] \in {"arrive", "add", "last", "release"}
      BY <1>3 DEF Barrier, Arrive, Add, Last, Release
    <2> QED BY <2>1, InGraph, InGraphPlace DEF Computes, InBarrier
  <1>4. ASSUME ~Spin(t), n_barrier_passed' = n_barrier_passed,
               pc'[t] \in {"add", "last", "release"} \/ (pc'[t] = "spin" /\ n_passed'[t] = n_barrier_passed)
        PROVE  Results'
    <2>1. \A u \in Act : u # t => Front(u)' = Front(u) /\ (Holds(u)' <=> Holds(u)) /\ (Coming(u)' <=> Coming(u))
      BY <1>1, <1>2, <1>4, OthersSame DEF Act
    <2>2. On'
      <3>1. t = Main => On'
        BY <1>4 DEF On, Out, Computes
      <3>2. t # Main => On'
        BY <1>1, <1>2, <1>3, <1>4, GraphFacts DEF On, Out
      <3> QED BY <3>1, <3>2
    <2>3. /\ Front(t)' = Front(t) /\ ~Holds(t)' /\ ~Holds(t) /\ (Coming(t)' => Coming(t))
      <3>1. ~Before(t) /\ pc[t] # "post" /\ ~Holds(t)
        BY <1>3, <1>4 DEF Before, Ahead, Resting, Out, Computes, Holds
      <3>2. ~Before(t)' /\ pc'[t] # "post" /\ ~Holds(t)'
        BY <1>4 DEF Before, Ahead, Resting, Out, Computes, Holds
      <3>3. Coming(t)' => Coming(t)
        BY <1>1, <1>3, <1>4 DEF Coming
      <3> QED BY <1>1, <3>1, <3>2, <3>3 DEF Front
    <2>4. \A u \in Act : Front(u)' = Front(u) /\ (Holds(u)' <=> Holds(u)) /\ (Coming(u)' => Coming(u))
      <3>1. ASSUME NEW u \in Act
            PROVE  Front(u)' = Front(u) /\ (Holds(u)' <=> Holds(u)) /\ (Coming(u)' => Coming(u))
        <4>1. CASE u = t
          BY <2>3, <4>1
        <4>2. CASE u # t
          BY <2>1, <4>2
        <4> QED BY <4>1, <4>2
      <3> QED BY <3>1
    <2> QED BY <1>1, <1>3, <1>4, <2>2, <2>4, StaysResults
  <1>5. CASE Arrive(t)
    <2>1. ~Spin(t) /\ n_barrier_passed' = n_barrier_passed
      BY <1>5 DEF Arrive, Spin, barrier
    <2>2. CASE n_threads # 1
      BY <1>4, <1>5, <2>1, <2>2 DEF Arrive, Goto, TypeOK
    <2>3. CASE n_threads = 1
      <3>1. pc'[t] = Left(t)
        BY <1>5, <2>3 DEF Arrive, Goto, TypeOK
      <3>2. \A u \in Act : u = t
        BY <1>3, <2>1, <2>3, GraphFacts DEF Act, Active
      <3> QED BY <1>1, <1>3, <2>1, <3>1, <3>2, OpensResults
    <2> QED BY <2>2, <2>3
  <1>6. CASE Add(t)
    <2>1. pc'[t] \in {"last", "spin"} /\ n_passed'[t] = n_barrier_passed /\ n_barrier_passed' = n_barrier_passed
      BY <1>6 DEF Add, Goto, TypeOK, Counting
    <2>2. ~Spin(t)
      BY <1>6 DEF Add, Spin
    <2> QED BY <1>4, <2>1, <2>2
  <1>7. CASE Last(t)
    BY <1>4, <1>7 DEF Last, Spin, Goto, TypeOK
  <1>8. CASE Release(t)
    <2>1. ~Spin(t) /\ pc[t] = "release" /\ pc'[t] = Left(t) /\ n_barrier_passed' = n_barrier_passed + 1 /\ n_passed' = n_passed
      BY <1>8 DEF Release, Spin, Goto, TypeOK
    <2>2. \A u \in Act : u # t => pc[u] = "spin" /\ n_passed[u] = n_barrier_passed
      BY <2>1 DEF Counting
    <2>3. \A u \in Act : InBarrier(u)
      BY <1>3, <2>1, <2>2 DEF InBarrier
    <2>4. \A u \in Act : u # t => pc'[u] = "spin" /\ n_passed'[u] # n_barrier_passed'
      BY <1>2, <2>1, <2>2 DEF Act, TypeOK
    <2> QED BY <1>1, <1>3, <2>1, <2>3, <2>4, OpensResults
  <1>9. CASE Spin(t)
    <2>1. /\ pc[t] = "spin" /\ n_passed[t] # n_barrier_passed /\ pc'[t] = Left(t)
          /\ UNCHANGED <<n_passed, n_barrier_passed>>
      BY <1>9 DEF Spin, Goto, TypeOK, barrier
    <2>2. Main \in Thread
      BY GraphFacts
    <2>3. CASE ~On
      <3>1. (pc'[Main] = "kick" <=> pc[Main] = "kick") /\ ~On'
        <4>1. CASE t = Main
          <5>1. return[t] = "end"
            BY <2>1, <2>3, <4>1 DEF On, Out, Computes
          <5> QED BY <2>1, <4>1, <5>1 DEF Left, On, Computes
        <4>2. CASE t # Main
          <5>1. pc'[Main] = pc[Main] /\ (Out(Main)' <=> Out(Main))
            BY <1>1, <1>2, <2>1, <2>2, <4>2 DEF Out
          <5> QED BY <2>3, <5>1 DEF On
        <4> QED BY <4>1, <4>2
      <3> QED BY <1>1, <2>3, <3>1, QuietResults
    <2>4. CASE On
      <3>1. CASE return[t] = "end"
        <4>1. t # Main /\ Out(t)
          BY <2>1, <2>4, <3>1 DEF On, Out
        <4>2. On'
          BY <1>1, <1>2, <2>1, <2>2, <2>4, <4>1 DEF On, Out
        <4>3. \A u \in Act : u # t => Front(u)' = Front(u) /\ (Holds(u)' <=> Holds(u)) /\ (Coming(u)' <=> Coming(u))
          BY <1>1, <1>2, <2>1, OthersSame DEF Act
        <4>4. t \in Act => Before(t) /\ Before(t)'
          <5>1. t \in Act => Ahead(t)
            BY <2>4, <4>1 DEF Scheduling, Inside, Act, Workers
          <5>2. pc'[t] = "loop"
            BY <2>1, <3>1, <4>1 DEF Left
          <5> QED BY <1>1, <4>1, <5>1, <5>2 DEF Before, Ahead, Resting, Computes
        <4>5. t \in Act => Front(t)' = Front(t) /\ (Holds(t)' <=> Holds(t)) /\ (Coming(t)' => Coming(t))
          <5>1. Before(t)' => Front(t)' = 0 /\ ~Holds(t)' /\ ~Coming(t)'
            BY DEF Before, Ahead, Resting, Out, Computes, InBarrier, Holds, Coming, Front
          <5> QED BY <4>4, <5>1, BeforeNothing
        <4>6. \A u \in Act : Front(u)' = Front(u) /\ (Holds(u)' <=> Holds(u)) /\ (Coming(u)' => Coming(u))
          BY <4>3, <4>5
        <4> QED BY <1>1, <2>4, <4>2, <4>6, StaysResults
      <3>2. CASE return[t] # "end"
        <4>1. pc'[t] = return[t] /\ return[t] \in {"chunks", "node"}
          BY <2>1, <3>2 DEF Left, TypeOK
        <4>2. ~Before(t) /\ ~Before(t)' /\ Front(t)' = Front(t)
          BY <1>1, <2>1, <3>2, <4>1 DEF Before, Ahead, Resting, Out, Computes, Front
        <4>3. (Holds(t)' <=> Holds(t)) /\ ~Coming(t)'
          BY <1>1, <2>1, <4>1 DEF Holds, Coming, InBarrier
        <4>4. On'
          BY <1>1, <1>2, <2>1, <2>2, <2>4, <4>1 DEF On, Out, Computes
        <4>5. \A u \in Act : u # t => Front(u)' = Front(u) /\ (Holds(u)' <=> Holds(u)) /\ (Coming(u)' <=> Coming(u))
          BY <1>1, <1>2, <2>1, OthersSame DEF Act
        <4>6. \A u \in Act : Front(u)' = Front(u) /\ (Holds(u)' <=> Holds(u)) /\ (Coming(u)' => Coming(u))
          BY <4>2, <4>3, <4>5
        <4> QED BY <1>1, <2>4, <4>4, <4>6, StaysResults
      <3> QED BY <3>1, <3>2
    <2> QED BY <2>3, <2>4
  <1> QED BY <1>5, <1>6, <1>7, <1>8, <1>9 DEF Barrier

LEMMA WaitingResults ==
  ASSUME IInv, IInv', Results, NEW t \in Workers, Waiting(t) \/ Spurious(t)
  PROVE  Results'
  <1> USE DEF IInv
  <1>1. /\ UNCHANGED <<graph, abort, n_graph, n_threads, n_barrier_passed, n_passed, computed, chunk, current_chunk, node_n, return>>
        /\ pc[t] \in Waits /\ t \in Thread /\ t # Main
    BY DEF Waiting, Loop, Paused, Poll, Lock, Spurious, pool, data, barrier, Waits, Workers
  <1>2. \A u \in Thread : u # t => pc'[u] = pc[u] /\ last_graph'[u] = last_graph[u]
    BY DEF Waiting, Loop, Paused, Poll, Lock, Spurious, Seen, Goto, TypeOK, Workers
  <1>3. (On' <=> On) /\ pc'[Main] = pc[Main]
    BY <1>1, <1>2, GraphFacts DEF On, Out
  <1>4. CASE ~On
    BY <1>1, <1>3, <1>4, QuietResults
  <1>5. CASE On
    <2>1. \A u \in Act : u # t => Front(u)' = Front(u) /\ (Holds(u)' <=> Holds(u)) /\ (Coming(u)' <=> Coming(u))
      BY <1>1, <1>2 DEF Act, Front, Before, Ahead, Resting, Out, Holds, Coming, InBarrier
    <2>2. t \in Act => Before(t) /\ Before(t)'
      <3>1. t \in Act => Ahead(t) /\ Active(t)
        BY <1>1, <1>5 DEF Scheduling, Inside, Act, Waits, Computes
      <3>2. CASE pc'[t] = "run"
        BY <1>1, <3>1, <3>2 DEF Before
      <3>3. CASE pc'[t] # "run"
        <4>1. t \in Act => last_graph'[t] = last_graph[t]
          BY <1>1, <3>1, <3>3 DEF Waiting, Loop, Paused, Poll, Lock, Spurious, Seen, Pending, Goto, TypeOK
        <4>2. pc'[t] \in Waits
          BY <1>1, <3>3 DEF Waiting, Loop, Paused, Poll, Lock, Spurious, Goto, TypeOK, Waits
        <4> QED BY <1>1, <3>1, <4>1, <4>2 DEF Before, Ahead, Resting, Waits, Computes
      <3> QED BY <3>2, <3>3
    <2>3. t \in Act => Front(t)' = Front(t) /\ (Holds(t)' <=> Holds(t)) /\ (Coming(t)' => Coming(t))
      <3>1. Before(t)' => Front(t)' = 0 /\ ~Holds(t)' /\ ~Coming(t)'
        BY DEF Before, Ahead, Resting, Out, Computes, InBarrier, Holds, Coming, Front
      <3> QED BY <1>1, <2>2, <3>1, BeforeNothing
    <2>4. \A u \in Act : Front(u)' = Front(u) /\ (Holds(u)' <=> Holds(u)) /\ (Coming(u)' => Coming(u))
      BY <2>1, <2>3
    <2> QED BY <1>1, <1>3, <1>5, <2>4, StaysResults
  <1> QED BY <1>4, <1>5

LEMMA MainResults ==
  ASSUME IInv, IInv', Results, Begin \/ KickOff \/ Wake \/ Free \/ Join \/ (\E p \in BOOLEAN : Pause(p))
  PROVE  Results'
  <1> USE DEF IInv
  <1>1. Main \in Thread /\ Workers = Thread \ {Main} /\ Act \subseteq Thread
    BY GraphFacts DEF Workers, Act
  <1>2. CASE Begin
    <2>1. pc'[Main] = "kick" /\ computed' = {} /\ abort' = -1
      BY <1>1, <1>2 DEF Begin, Compute, Goto, TypeOK
    <2>2. ~On'
      BY <2>1 DEF On, Computes
    <2> QED BY <2>1, <2>2 DEF Results, Unique
  <1>3. CASE KickOff
    <2>1. /\ pc[Main] = "kick" /\ pc'[Main] = "wake" /\ computed' = {} /\ abort' = -1 /\ n_graph' = n_graph + 1
          /\ \A w \in Workers : pc'[w] = pc[w]
          /\ UNCHANGED <<graph, last_graph, n_passed, n_barrier_passed, return>>
      BY <1>1, <1>3 DEF KickOff, Goto, TypeOK, barrier, Results
    <2>2. On' /\ ~On
      BY <2>1 DEF On, Computes
    <2>3. \A u \in Act' : Before(u)'
      <3>1. \A w \in Workers : Resting(w)' /\ last_graph'[w] # n_graph'
        <4>1. \A w \in Workers : Resting(w) /\ last_graph[w] <= n_graph
          BY <2>2 DEF Scheduling
        <4> QED BY <1>1, <2>1, <4>1 DEF Resting, Out, TypeOK
      <3> QED BY <1>1, <2>1, <3>1 DEF Before, Ahead, Act
    <2>4. \A u \in Act' : Front(u)' = 0 /\ ~Holds(u)' /\ ~Coming(u)'
      BY <2>3 DEF Before, Ahead, Resting, Out, Computes, InBarrier, Holds, Coming, Front
    <2>5. Reached' /\ Owned' /\ Shared' /\ AllBehind'
      <3>1. Len_' \in Nat
        BY GraphFacts, <2>1 DEF Len_
      <3> QED BY <2>1, <2>4, <3>1 DEF Reached, Owned, Shared, AllBehind
    <2> QED BY <2>1, <2>2, <2>5 DEF Results, Unique
  <1>4. CASE Wake
    <2>1. /\ pc[Main] = "wake" /\ pc'[Main] = "run"
          /\ \A w \in Workers : pc'[w] = pc[w] \/ (pc[w] \in Waits /\ pc'[w] \in Waits)
          /\ UNCHANGED <<graph, abort, n_graph, n_threads, last_graph, n_passed, n_barrier_passed, return, computed, chunk, current_chunk, node_n>>
      BY <1>1, <1>4 DEF Wake, Broadcast, barrier, Waits
    <2>2. On /\ On'
      BY <2>1 DEF On, Out, Computes
    <2>3. ASSUME NEW u \in Act
          PROVE  Front(u)' = Front(u) /\ (Holds(u)' <=> Holds(u)) /\ (Coming(u)' => Coming(u))
      <3>1. CASE pc'[u] = pc[u]
        BY <1>1, <2>1, <3>1, OthersSame
      <3>2. CASE pc'[u] # pc[u]
        <4>1. u = Main \/ (u \in Workers /\ Active(u) /\ pc[u] \in Waits /\ pc'[u] \in Waits)
          BY <1>1, <2>1, <3>2 DEF Act
        <4>2. Before(u) /\ Before(u)'
          <5>1. CASE u = Main
            BY <2>1, <5>1 DEF Before
          <5>2. CASE u # Main
            <6>1. Ahead(u)
              BY <2>2, <4>1, <5>2 DEF Scheduling, Inside, Waits, Computes
            <6> QED BY <2>1, <4>1, <5>2, <6>1 DEF Before, Ahead, Resting, Waits, Computes
          <5> QED BY <5>1, <5>2
        <4>3. Before(u)' => Front(u)' = 0 /\ ~Holds(u)' /\ ~Coming(u)'
          BY DEF Before, Ahead, Resting, Out, Computes, InBarrier, Holds, Coming, Front
        <4> QED BY <1>1, <4>2, <4>3, BeforeNothing
      <3> QED BY <3>1, <3>2
    <2> QED BY <2>1, <2>2, <2>3, StaysResults
  <1>5. CASE Free \/ Join \/ (\E p \in BOOLEAN : Pause(p))
    <2>1. pc[Main] \in {"idle", "join"} /\ pc'[Main] \in {"idle", "join", "freed"}
      BY <1>1, <1>5 DEF Free, Join, Pause, Broadcast, Goto, TypeOK
    <2>2. ~On /\ ~On'
      BY <2>1 DEF On, Computes
    <2>3. UNCHANGED <<graph, abort, n_graph, n_threads, computed>>
      BY <1>5 DEF Free, Join, Pause, pool
    <2> QED BY <2>1, <2>2, <2>3, QuietResults
  <1> QED BY <1>2, <1>3, <1>4, <1>5

LEMMA StepResults == IInv /\ IInv' /\ Results /\ [Next]_vars => Results'
  <1> SUFFICES ASSUME IInv, IInv', Results, [Next]_vars PROVE Results'
    OBVIOUS
  <1>1. CASE Begin \/ KickOff \/ Wake \/ Free \/ Join \/ (\E p \in BOOLEAN : Pause(p))
    BY <1>1, MainResults
  <1>2. CASE \E t \in Workers : Waiting(t) \/ Spurious(t)
    BY <1>2, WaitingResults
  <1>3. CASE \E t \in Thread : Run(t) \/ Nodes(t) \/ Work(t)
    BY <1>3, NodesResults, RowsResults, ChunksInitResults, ChunkResults, PostResults DEF Work
  <1>4. CASE \E t \in Thread : Barrier(t)
    BY <1>4, BarrierResults
  <1>5. CASE UNCHANGED vars
    <2>1. /\ UNCHANGED <<graph, abort, n_graph, n_threads, n_barrier_passed, last_graph, node_n, n_passed, return,
                         computed, chunk, current_chunk, pc>>
      BY <1>5 DEF vars, pool, barrier
    <2>2. On' <=> On
      BY <2>1 DEF On, Out
    <2>3. CASE On
      <3>1. \A u \in Act : Front(u)' = Front(u) /\ (Holds(u)' <=> Holds(u)) /\ (Coming(u)' => Coming(u))
        BY <2>1, OthersSame DEF Act
      <3> QED BY <2>1, <2>2, <2>3, <3>1, StaysResults DEF IInv
    <2>4. CASE ~On
      BY <2>1, <2>2, <2>4, QuietResults
    <2> QED BY <2>3, <2>4
  <1> QED BY <1>1, <1>2, <1>3, <1>4, <1>5 DEF Next, Gone, Computing

\* ggml_compute_forward_mul_mat() and the loop over the nodes, for any number of
\* threads, chunks and nodes: no chunk is computed twice, and a graph that is done is
\* computed, every chunk of it, up to the node where it was aborted.
THEOREM ComputedOnce == Spec => []EachOnce
  <1>1. Init => Results
    BY PoolAssumption DEF Init, Results, Unique, On, Computes, Main, Thread
  <1>2. IInv /\ Results => EachOnce
    <2>1. pc[Main] = "idle" => ~On
      BY DEF On, Computes
    <2> QED BY <2>1 DEF Results, EachOnce, Unique, Complete
  <1>3. Spec => []Results
    BY <1>1, Inductive, StepResults, PTL DEF Spec
  <1> QED BY <1>2, <1>3, Inductive, PTL
=============================================================================
