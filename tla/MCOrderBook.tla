----------------------------- MODULE MCOrderBook -----------------------------
(***************************************************************************)
(* Instances of OrderBook for TLC.                                         *)
(***************************************************************************)
EXTENDS OrderBook

(***************************************************************************)
(* What the code can still read: of a node on the free list only `next',   *)
(* of a tombstone nothing.  Nothing else of the state influences what a    *)
(* call does, so TLC may take states that agree on this for the same.      *)
(***************************************************************************)
LiveState ==
    LET free == Members(free_list_head)
    IN  <<[n \in Node \ free |-> order_pool[n]], ListFrom(free_list_head), levels,
          [s \in Slot |-> IF order_map[s].value = Tombstone
                          THEN [key |-> 0, value |-> Tombstone] ELSE order_map[s]],
          probing_forever>>

(***************************************************************************)
(* A book after some use: orders 2, 3 and 4 have come and gone, one after  *)
(* the other, all by way of the node at the head of the free list, and     *)
(* have left tombstones, so that a map of six slots soon has no empty one. *)
(***************************************************************************)
UsedInit ==
    /\ order_pool = [n \in Node |-> [id |-> IF n = MaxOrders THEN 4 ELSE 0,
                                     price |-> 0, quantity |-> 0,
                                     side |-> "BUY", prev |-> Null, next |-> n - 1]]
    /\ free_list_head = MaxOrders
    /\ levels = [l \in Level |-> [head |-> Null, tail |-> Null, total_volume |-> 0]]
    /\ order_map = [s \in Slot |-> IF s \in 2 .. 4 THEN [key |-> s, value |-> Tombstone]
                                  ELSE [key |-> 0, value |-> Null]]
    /\ probing_forever = FALSE

MCSpec == (Init \/ UsedInit) /\ [][Next]_vars
==============================================================================
