--------------------------- MODULE ResponseChannel ---------------------------
(***************************************************************************)
(* What server_response promises to the HTTP thread of a request: a channel *)
(* of its own.  From the moment it is opened until the request closes it,  *)
(* every result of the request's tasks is delivered, once, in the order    *)
(* sent; nothing is delivered after that, and nothing is kept for it.      *)
(* server-queue.h calls it "a generator-like API for server responses".    *)
(***************************************************************************)
EXTENDS Integers, FiniteSets, Sequences

CONSTANTS
    Reader,        \* requests: each has one server_response_reader
    Result,        \* results that may be sent: the n-th of task id, from 0 on
    ReaderOf       \* the reader a task belongs to

VARIABLES
    state,         \* per reader: "new", "open" or "closed"
    transit,       \* per reader: results sent and not received yet
    got            \* per reader: results received

vars == <<state, transit, got>>

Init ==
    /\ state = [r \in Reader |-> "new"]
    /\ transit = [r \in Reader |-> <<>>]
    /\ got = [r \in Reader |-> <<>>]

Open(r) ==
    /\ state[r] = "new"
    /\ state' = [state EXCEPT ![r] = "open"]
    /\ UNCHANGED <<transit, got>>

\* How many results of task t have been sent to r.
Count(r, t) == Cardinality({i \in DOMAIN got[r] : got[r][i].id = t})
             + Cardinality({i \in DOMAIN transit[r] : transit[r][i].id = t})

\* The next result of a task: none has been lost or repeated on the way.
Send(x) ==
    LET r == ReaderOf[x.id]
    IN /\ state[r] = "open"
       /\ x.n = Count(r, x.id)
       /\ transit' = [transit EXCEPT ![r] = Append(@, x)]
       /\ UNCHANGED <<state, got>>

Receive(r) ==
    /\ state[r] = "open"
    /\ transit[r] # <<>>
    /\ got' = [got EXCEPT ![r] = Append(@, Head(transit[r]))]
    /\ transit' = [transit EXCEPT ![r] = Tail(@)]
    /\ UNCHANGED state

Close(r) ==
    /\ state[r] = "open"
    /\ state' = [state EXCEPT ![r] = "closed"]
    /\ transit' = [transit EXCEPT ![r] = <<>>]
    /\ UNCHANGED got

Next == \/ \E r \in Reader : Open(r) \/ Receive(r) \/ Close(r)
        \/ \E x \in Result : Send(x)

Spec == Init /\ [][Next]_vars
=============================================================================
