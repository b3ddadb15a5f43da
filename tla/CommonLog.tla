------------------------------ MODULE CommonLog ------------------------------
(***************************************************************************)
(* struct common_log (common/log.cpp): every thread writes messages into a *)
(* ring that grows when it is full; a worker thread prints them.  pause()  *)
(* stops the worker with an entry of its own in the ring and joins it.     *)
(*                                                                         *)
(* A section under mtx is one step.  pause(), resume(), set_file() and     *)
(* common_log_flush() are called by one thread at a time (log.h says that  *)
(* they are not thread-safe), add() by any.                                *)
(***************************************************************************)
EXTENDS Integers, SequencesExt

CONSTANTS
    Thread,       \* threads that log
    Messages,     \* bound on the messages of a thread
    InitialCapacity, \* entries of the ring at first
    Calls         \* bound on the calls of the controlling thread

ASSUME LogAssumption ==
    /\ Messages \in Nat
    /\ InitialCapacity \in Nat \ {0}
    /\ Calls \in Nat

Blank == [by |-> "nobody", is_end |-> FALSE]     \* a new entry
Stop  == [by |-> "nobody", is_end |-> TRUE]      \* the entry of pause()

VARIABLES
    entries,      \* the ring, from position 0
    head, tail,
    running,
    cur,          \* the entry the worker copied
    worker,       \* where the worker thread is
    call,         \* where the controlling thread is
    file,         \* a log file is open
    calls,        \* calls of the controlling thread so far
    said,         \* per thread: messages passed to add()
    accepted,     \* those that were not discarded, in their order
    printed,      \* those printed to stdout or stderr
    written,      \* those printed to the log file that is open
    since         \* what had been printed when it was opened

logvars == <<entries, head, tail, running, cur, worker, call, file, calls, said, accepted,
          printed, written, since>>
ring    == <<entries, head, tail>>
output  == <<printed, written>>
control == <<call, calls, file, since>>

Message == [by : Thread, n : 1 .. Messages, is_end : {FALSE}]
Size    == Cardinality(DOMAIN entries)

\* Where pause(), common_log_flush() and set_file() go on after pause().
After == [pause |-> "idle", flush |-> "resume", set |-> "open"]

LogTypeOK ==
    /\ entries \in [0 .. Size - 1 -> Message \cup {Stop, Blank}]
    /\ head \in DOMAIN entries /\ tail \in DOMAIN entries
    /\ running \in BOOLEAN /\ file \in BOOLEAN
    /\ cur \in Message \cup {Stop, Blank}
    /\ worker \in {"none", "take", "print", "write", "ended"}
    /\ call \in {"idle", "resume", "open"} \cup DOMAIN After
    /\ calls \in 0 .. Calls
    /\ said \in [Thread -> 0 .. Messages]
    /\ accepted \in Seq(Message) /\ printed \in Seq(Message) /\ written \in Seq(Message)
    /\ since \in 0 .. Len(printed)

LogInit ==
    /\ entries = [i \in 0 .. InitialCapacity - 1 |-> Blank] /\ head = 0 /\ tail = 0
    /\ running = TRUE /\ worker = "take" /\ cur = Blank
    /\ call = "idle" /\ calls = 0 /\ file = FALSE
    /\ said = [t \in Thread |-> 0]
    /\ accepted = <<>> /\ printed = <<>> /\ written = <<>> /\ since = 0

\* The entries from head up to tail; none if head = tail.
Pending == [i \in 1 .. (tail - head) % Size |-> entries[(head + i - 1) % Size]]

Current == IF worker = "print" THEN <<cur>> ELSE <<>>

----------------------------------------------------------------------------
(* add() *)

\* Mutant: head is not moved to the beginning of the new ring.
GrowKeepsHead(e) ==
    /\ entries' = [i \in 0 .. 2 * Size - 1 |-> IF i < Size THEN e[(head + i) % Size] ELSE Blank]
    /\ tail' = Size
    /\ UNCHANGED head

\* The ring is full: its entries are moved to one of twice the size.
Grow(e) ==
    /\ entries' = [i \in 0 .. 2 * Size - 1 |-> IF i < Size THEN e[(head + i) % Size] ELSE Blank]
    /\ head' = 0
    /\ tail' = Size

Add(t) ==
    /\ said[t] < Messages
    /\ said' = [said EXCEPT ![t] = @ + 1]
    /\ IF running
       THEN LET m == [by |-> t, n |-> said[t] + 1, is_end |-> FALSE]
                e == [entries EXCEPT ![tail] = m]
                next == (tail + 1) % Size
            IN  /\ accepted' = Append(accepted, m)
                /\ IF next = head
                   THEN Grow(e)
                   ELSE entries' = e /\ tail' = next /\ UNCHANGED head
       ELSE UNCHANGED <<ring, accepted>>
    /\ UNCHANGED <<running, cur, worker, control, output>>

----------------------------------------------------------------------------
(* The worker thread *)

\* Mutant: the worker stops when it is no longer running, not when it is told.
TakeChecksRunning ==
    /\ worker = "take" /\ head # tail
    /\ cur' = entries[head]
    /\ head' = (head + 1) % Size
    /\ worker' = IF running THEN "print" ELSE "ended"
    /\ UNCHANGED <<entries, tail, running, control, said, accepted, output>>

\* Mutant: the worker takes the ring for empty when tail has wrapped round.
TakeAhead ==
    /\ worker = "take" /\ head < tail
    /\ cur' = entries[head]
    /\ head' = (head + 1) % Size
    /\ worker' = IF entries[head].is_end THEN "ended" ELSE "print"
    /\ UNCHANGED <<entries, tail, running, control, said, accepted, output>>

\* cv.wait() returns when there is an entry.
Take ==
    /\ worker = "take" /\ head # tail
    /\ cur' = entries[head]
    /\ head' = (head + 1) % Size
    /\ worker' = IF entries[head].is_end THEN "ended" ELSE "print"
    /\ UNCHANGED <<entries, tail, running, control, said, accepted, output>>

PrintOut ==
    /\ worker = "print"
    /\ printed' = Append(printed, cur)
    /\ worker' = "write"
    /\ UNCHANGED <<ring, running, cur, control, said, accepted, written>>

\* The file is looked at without the mutex.
Write ==
    /\ worker = "write"
    /\ written' = IF file THEN Append(written, cur) ELSE written
    /\ worker' = "take"
    /\ UNCHANGED <<ring, running, cur, control, said, accepted, printed>>

----------------------------------------------------------------------------
(* The controlling thread *)

\* pause(), up to the join.
Pause(k) ==
    /\ call = "idle" /\ calls < Calls
    /\ calls' = calls + 1
    /\ IF running
       THEN /\ running' = FALSE
            /\ entries' = [entries EXCEPT ![tail] = Stop]
            /\ tail' = (tail + 1) % Size
            /\ call' = k
       ELSE /\ call' = After[k]
            /\ UNCHANGED <<entries, tail, running>>
    /\ UNCHANGED <<head, cur, worker, file, since, said, accepted, output>>

Joining == call \in DOMAIN After

Join ==
    /\ Joining /\ worker = "ended"
    /\ worker' = "none"
    /\ call' = After[call]
    /\ UNCHANGED <<ring, running, cur, calls, file, since, said, accepted, output>>

\* The rest of set_file(): the old file is closed, and the new one, if there is
\* one, begins empty.
SetFile ==
    /\ call = "open"
    /\ file' \in BOOLEAN
    /\ written' = <<>> /\ since' = Len(printed)
    /\ call' = "resume"
    /\ UNCHANGED <<ring, running, cur, worker, calls, said, accepted, printed>>

\* resume(), in flush() and set_file() or called after pause().
Resume ==
    /\ \/ call = "resume" /\ UNCHANGED calls
       \/ call = "idle" /\ calls < Calls /\ calls' = calls + 1
    /\ ~running
    /\ running' = TRUE
    /\ worker' = "take"
    /\ call' = "idle"
    /\ UNCHANGED <<ring, cur, file, since, said, accepted, output>>

Worker     == Take \/ PrintOut \/ Write
Controller == Join \/ SetFile \/ (call = "resume" /\ Resume)

LogNext ==
    \/ \E t \in Thread : Add(t)
    \/ Worker
    \/ \E k \in DOMAIN After : Pause(k)
    \/ Join \/ SetFile \/ Resume

LogSpec == LogInit /\ [][LogNext]_logvars

LogFairSpec == LogSpec /\ WF_logvars(Worker) /\ WF_logvars(Controller)

----------------------------------------------------------------------------
(* Properties *)

\* Messages are printed once each, in the order of add(), through every growth
\* of the ring; and all of them before pause() returns.
NothingLost ==
    /\ LogTypeOK
    /\ IsPrefix(printed \o Current, accepted)
    /\ running => printed \o Current \o Pending = accepted
    /\ worker = "none" => printed = accepted

\* The log file gets what is printed while it is open: the worker uses it
\* without the mutex, and never sees it change.
FileFollows ==
    file => written = SubSeq(printed, since + 1, Len(printed) - IF worker = "write" THEN 1 ELSE 0)

\* Both: the terminal and the file get every message, in order.
Delivered == NothingLost /\ FileFollows

StopPending == worker = "ended" \/ \E i \in DOMAIN Pending : Pending[i].is_end

\* pause() returns when its entry is in the ring.
PauseEnds == Joining /\ StopPending ~> ~Joining

\* pause() returns: "push an entry to signal the worker thread to stop".  Not so if
\* the ring has room for that entry only: it looks empty then.
PauseReturns == Joining ~> ~Joining
=============================================================================
