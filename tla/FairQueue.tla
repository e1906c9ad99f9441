------------------------------ MODULE FairQueue ------------------------------
(***************************************************************************)
(* nano::fair_queue: one bounded queue per origin, served in turn, each    *)
(* turn taking at most as many requests as the origin's priority.  The     *)
(* queue is a value here; the component that owns one keeps it in a        *)
(* variable.  A queue that was never created and an empty one behave alike *)
(* (seek_next skips both), so a queue exists for every origin.             *)
(***************************************************************************)
EXTENDS Naturals, Sequences, FiniteSetsExt

CONSTANTS
    Origins,        \* the origins in the order of the map's keys, a sequence
    Priority,       \* Priority[o]: priority_query of origin o
    MaxSize         \* MaxSize[o]: max_size_query of origin o

Origin == {Origins[i] : i \in DOMAIN Origins}

ASSUME FairQueueAssumption ==
    /\ Origins \in Seq(Origin)
    /\ \A o \in Origin : Priority[o] \in Nat \ {0} /\ MaxSize[o] \in Nat

(* iterator is a position in Origins, or 0 for queues.end (). *)
EmptyQueue == [requests |-> [o \in Origin |-> <<>>], iterator |-> 0, counter |-> 0]

empty(q) == \A o \in Origin : q.requests[o] = <<>>
full(q, o) == Len(q.requests[o]) >= MaxSize[o]

(* A request that finds its queue full is dropped. *)
push(q, request, o) ==
    IF full(q, o) THEN q ELSE [q EXCEPT !.requests[o] = Append(@, request)]

(* Several requests one after the other: how many find room, and the queue
   after them. *)
push_count(q, requests, o) ==
    LET room == IF full(q, o) THEN 0 ELSE MaxSize[o] - Len(q.requests[o])
    IN  IF Len(requests) < room THEN Len(requests) ELSE room
push_all(q, requests, o) ==
    [q EXCEPT !.requests[o] = @ \o SubSeq(requests, 1, push_count(q, requests, o))]

should_seek(q) ==
    \/ q.iterator = 0
    \/ q.requests[Origins[q.iterator]] = <<>>
    \/ q.counter >= Priority[Origins[q.iterator]]

(* The next non-empty queue in cyclic order, the current one comes last. *)
seek_next(q) ==
    LET n == Len(Origins)
        at(k) == ((q.iterator + k - 1) % n) + 1
        k == Min({j \in 1 .. n : q.requests[Origins[at(j)]] # <<>>})
    IN  [q EXCEPT !.iterator = at(k), !.counter = 0]

(* next: the queue after the request next_request was taken from it. *)
current(q) == IF should_seek(q) THEN seek_next(q) ELSE q
next_origin(q) == Origins[current(q).iterator]
next_request(q) == Head(q.requests[next_origin(q)])
next(q) == LET c == current(q)
           IN  [c EXCEPT !.counter = @ + 1, !.requests[next_origin(q)] = Tail(@)]

(* periodic_update forgets whose turn it is. *)
cleanup(q) == [q EXCEPT !.iterator = 0]
=============================================================================
