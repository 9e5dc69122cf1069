---------------------------- MODULE PriceTimeBook ----------------------------
(***************************************************************************)
(* What LimitOrderBook promises, without pool, links or hash map: at every *)
(* price of either side a queue of orders in time priority.                *)
(***************************************************************************)
EXTENDS Naturals, Sequences, FiniteSets

CONSTANTS MaxOrders,  \* how many orders may rest at a time
          MaxPrice,   \* prices are 0 .. MaxPrice - 1
          OrderId, Quantity

VARIABLE queue  \* at each level, the resting orders in priority order

Side == {"BUY", "SELL"}
Level == Side \X (0 .. MaxPrice - 1)

\* The places of the resting orders, and their ids.
Places == {p \in Level \X (1 .. MaxOrders) : p[2] \in DOMAIN queue[p[1]]}
Ids == {queue[p[1]][p[2]].id : p \in Places}

\* A queue without its i-th order.
Without(q, i) == SubSeq(q, 1, i - 1) \o SubSeq(q, i + 1, Len(q))

Init == queue = [l \in Level |-> << >>]

(* What a call may make of q, the queue of one level. *)

Add(q) ==
    {Append(q, [id |-> id, quantity |-> n]) :
        n \in Quantity,
        id \in IF Cardinality(Places) < MaxOrders THEN OrderId \ Ids ELSE {}}

Cancel(q) == {Without(q, i) : i \in DOMAIN q}

\* Less quantity keeps the order's place, more sends it to the back.
Modify(q, i, n) ==
    IF n <= q[i].quantity
    THEN [q EXCEPT ![i].quantity = n]
    ELSE Append(Without(q, i), [q[i] EXCEPT !.quantity = n])

Allowed(q) ==
    Add(q) \cup Cancel(q) \cup {Modify(q, i, n) : i \in DOMAIN q, n \in Quantity \ {0}}

Next ==
    \E l \in Level :
        /\ queue' = [queue EXCEPT ![l] = queue'[l]]
        /\ queue'[l] \in Allowed(queue[l])

Spec == Init /\ [][Next]_queue
==============================================================================
