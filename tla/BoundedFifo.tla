----------------------------- MODULE BoundedFifo -----------------------------
(***************************************************************************)
(* What SPSCQueue<T, Capacity> promises its two callers, without indices,  *)
(* slots or memory orderings: a first-in first-out queue of at most Bound  *)
(* items, in which every accepted item is handed out exactly once.         *)
(***************************************************************************)
EXTENDS Naturals, Sequences

CONSTANTS Item,   \* the values of the template parameter T
          Bound,  \* how many items the queue holds when it is full
          NoItem  \* what `delivered' holds before the first pop succeeds

VARIABLES queue,     \* the accepted items that were not handed out yet
          delivered  \* the item handed out by the last successful pop

Init == queue = << >> /\ delivered = NoItem

\* A push that returns true.
Put(v) ==
    /\ Len(queue) < Bound
    /\ queue' = Append(queue, v)
    /\ UNCHANGED delivered

\* A pop that returns true.
Get ==
    /\ queue # << >>
    /\ delivered' = Head(queue)
    /\ queue' = Tail(queue)

Next == Get \/ \E v \in Item : Put(v)

Safety == Init /\ [][Next]_<<queue, delivered>>

\* A consumer that keeps polling drains the queue.
Spec == Safety /\ WF_<<queue, delivered>>(Get)
==============================================================================
