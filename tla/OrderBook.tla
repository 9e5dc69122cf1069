------------------------------ MODULE OrderBook ------------------------------
(***************************************************************************)
(* LimitOrderBook (include/OrderBook.hpp, src/OrderBook.cpp): a pool of    *)
(* order nodes threaded into a free list and into one doubly linked list   *)
(* per price level, and an open-addressing hash map from order id to node. *)
(*                                                                         *)
(* The book is used by one thread, so an action is a whole call.  A call   *)
(* whose probe of the hash map meets neither an empty slot nor its key     *)
(* goes round the map forever: then `probing_forever' is TRUE and the      *)
(* thread does nothing else.  What the calls log is left out.              *)
(***************************************************************************)
EXTENDS Integers, Sequences, FiniteSets, FiniteSetsExt

CONSTANTS MaxOrders, MaxPrice,  \* the constructor's arguments
          OrderId, Price, Quantity,  \* the arguments the calls are made with
          Modulus    \* 2^64 in the code: volumes are unsigned

ASSUME BookAssumption ==
    /\ MaxOrders \in Nat \ {0} /\ MaxPrice \in Nat \ {0}
    /\ OrderId \subseteq Nat /\ Price \subseteq Nat
    /\ Modulus \in Nat \ {0} /\ Quantity \subseteq 0 .. Modulus - 1

VARIABLES order_pool, free_list_head,
          levels,           \* bids_ and asks_
          order_map,
          probing_forever

vars == <<order_pool, free_list_head, levels, order_map, probing_forever>>

Side == {"BUY", "SELL"}
Level == Side \X (0 .. MaxPrice - 1)
Node == 1 .. MaxOrders
Null == 0
Tombstone == -1
MapCapacity == 2 * MaxOrders
Slot == 0 .. MapCapacity - 1

\* mmap returns zeroed memory; the loop pushes the nodes on the free list.
Init ==
    /\ order_pool = [n \in Node |-> [id |-> 0, price |-> 0, quantity |-> 0,
                                     side |-> "BUY", prev |-> Null, next |-> n - 1]]
    /\ free_list_head = MaxOrders
    /\ levels = [l \in Level |-> [head |-> Null, tail |-> Null, total_volume |-> 0]]
    /\ order_map = [s \in Slot |-> [key |-> 0, value |-> Null]]
    /\ probing_forever = FALSE
------------------------------------------------------------------------------
(* The free list. *)

\* The head of the free list after allocate_order.
allocate_order == order_pool[free_list_head].next

\* The pool after deallocate_order; n is the new head.
deallocate_order(pool, n) == [pool EXCEPT ![n].next = free_list_head]
------------------------------------------------------------------------------
(* The hash map. *)

\* The slot a probe for id looks at in its k-th turn.
ProbeSlot(id, k) == (id + k) % MapCapacity

\* The turns at which map_find and map_erase stop ...
FindStops(id) ==
    {k \in Slot : LET e == order_map[ProbeSlot(id, k)]
                  IN  e.value = Null \/ (e.key = id /\ e.value # Tombstone)}

\* ... and those at which map_insert does.
InsertStops(id) ==
    {k \in Slot : LET e == order_map[ProbeSlot(id, k)]
                  IN  e.value \in {Null, Tombstone} \/ e.key = id}

\* What map_find returns, if it returns.
map_find(id) == order_map[ProbeSlot(id, Min(FindStops(id)))].value

\* The map after map_insert; a probe that does not end changes nothing.
map_insert(id, n) ==
    IF InsertStops(id) = {} THEN order_map
    ELSE [order_map EXCEPT ![ProbeSlot(id, Min(InsertStops(id)))] =
              [key |-> id, value |-> n]]

\* Mutant: an erased slot becomes empty and cuts the probes that pass it.
map_erase_to_null(id) ==
    [order_map EXCEPT ![ProbeSlot(id, Min(FindStops(id)))].value = Null]

\* The map after map_erase of an id that is in it.
map_erase(id) ==
    [order_map EXCEPT ![ProbeSlot(id, Min(FindStops(id)))].value = Tombstone]
------------------------------------------------------------------------------
(* The list of a level: the pool and the level after linking or unlinking  *)
(* node n.                                                                 *)

LevelOf(order) == <<order.side, order.price>>

insert_order_pool(pool, level, n) ==
    [m \in Node |->
        IF m = n THEN [pool[n] EXCEPT !.prev = level.tail, !.next = Null]
        ELSE IF m = level.tail THEN [pool[m] EXCEPT !.next = n]
        ELSE pool[m]]

insert_order_level(pool, level, n) ==
    [head |-> IF level.tail = Null THEN n ELSE level.head,
     tail |-> n,
     total_volume |-> (level.total_volume + pool[n].quantity) % Modulus]

\* Mutant: the back link of the successor is not repaired.
remove_order_pool_one_way(pool, n) ==
    [m \in Node |->
        [pool[m] EXCEPT !.next = IF m = pool[n].prev THEN pool[n].next ELSE @]]

remove_order_pool(pool, n) ==
    [m \in Node |->
        [pool[m] EXCEPT
            !.next = IF m = pool[n].prev THEN pool[n].next ELSE @,
            !.prev = IF m = pool[n].next THEN pool[n].prev ELSE @]]

remove_order_level(pool, level, n) ==
    [head |-> IF pool[n].prev = Null THEN pool[n].next ELSE level.head,
     tail |-> IF pool[n].next = Null THEN pool[n].prev ELSE level.tail,
     total_volume |-> (level.total_volume - pool[n].quantity) % Modulus]
------------------------------------------------------------------------------
(* The calls. *)

\* A call of add, cancel, modify or get_order that does not get past map_find.
ProbeForever(id) ==
    /\ ~ probing_forever
    /\ FindStops(id) = {}
    /\ probing_forever' = TRUE
    /\ UNCHANGED <<order_pool, free_list_head, levels, order_map>>

\* add returns false: price out of range, id in use, or no node left.
AddRejected(id, price) ==
    /\ ~ probing_forever
    /\ \/ price >= MaxPrice
       \/ FindStops(id) # {} /\ map_find(id) # Null
       \/ FindStops(id) # {} /\ free_list_head = Null
    /\ UNCHANGED vars

Add(id, side, price, quantity) ==
    /\ ~ probing_forever
    /\ price < MaxPrice
    /\ FindStops(id) # {} /\ map_find(id) = Null
    /\ free_list_head # Null
    /\ LET n == free_list_head
           l == <<side, price>>
           pool == [order_pool EXCEPT ![n] =
                       [@ EXCEPT !.id = id, !.side = side,
                                 !.price = price, !.quantity = quantity]]
       IN  /\ free_list_head' = allocate_order
           /\ order_pool' = insert_order_pool(pool, levels[l], n)
           /\ levels' = [levels EXCEPT ![l] = insert_order_level(pool, @, n)]
           /\ order_map' = map_insert(id, n)
           /\ probing_forever' = (InsertStops(id) = {})

\* cancel and modify return false, get_order returns nullptr.
NotFound(id) ==
    /\ ~ probing_forever
    /\ FindStops(id) # {} /\ map_find(id) = Null
    /\ UNCHANGED vars

\* Mutant: the node is put on the free list before it is unlinked.
CancelFreesFirst(id) ==
    /\ ~ probing_forever
    /\ FindStops(id) # {} /\ map_find(id) # Null
    /\ LET n == map_find(id)
           l == LevelOf(order_pool[n])
           pool == deallocate_order(order_pool, n)
       IN  /\ order_pool' = remove_order_pool(pool, n)
           /\ levels' = [levels EXCEPT ![l] = remove_order_level(pool, @, n)]
           /\ order_map' = map_erase(id)
           /\ free_list_head' = n
           /\ UNCHANGED probing_forever

\* cancel(id), and modify(id, 0), of an order in the book.
Cancel(id) ==
    /\ ~ probing_forever
    /\ FindStops(id) # {} /\ map_find(id) # Null
    /\ LET n == map_find(id)
           l == LevelOf(order_pool[n])
       IN  /\ order_pool' = deallocate_order(remove_order_pool(order_pool, n), n)
           /\ levels' = [levels EXCEPT ![l] = remove_order_level(order_pool, @, n)]
           /\ order_map' = map_erase(id)
           /\ free_list_head' = n
           /\ UNCHANGED probing_forever

\* Mutant: the new quantity is stored before the order is unlinked.
ModifyUpStoresFirst(id, new_quantity) ==
    /\ ~ probing_forever
    /\ FindStops(id) # {} /\ map_find(id) # Null
    /\ new_quantity > order_pool[map_find(id)].quantity
    /\ LET n == map_find(id)
           l == LevelOf(order_pool[n])
           stored == [order_pool EXCEPT ![n].quantity = new_quantity]
           level == remove_order_level(stored, levels[l], n)
           pool == remove_order_pool(stored, n)
       IN  /\ order_pool' = insert_order_pool(pool, level, n)
           /\ levels' = [levels EXCEPT ![l] = insert_order_level(pool, level, n)]
    /\ UNCHANGED <<free_list_head, order_map, probing_forever>>

\* Mutant: an increased order keeps its place.
ModifyUpInPlace(id, new_quantity) ==
    /\ ~ probing_forever
    /\ FindStops(id) # {} /\ map_find(id) # Null
    /\ new_quantity > order_pool[map_find(id)].quantity
    /\ LET n == map_find(id)
           more == new_quantity - order_pool[n].quantity
       IN  /\ order_pool' = [order_pool EXCEPT ![n].quantity = new_quantity]
           /\ levels' = [levels EXCEPT ![LevelOf(order_pool[n])].total_volume =
                            (@ + more) % Modulus]
    /\ UNCHANGED <<free_list_head, order_map, probing_forever>>

\* modify(id, new_quantity) of an order in the book, to more than it has:
\* it is unlinked and linked again at the tail.
ModifyUp(id, new_quantity) ==
    /\ ~ probing_forever
    /\ FindStops(id) # {} /\ map_find(id) # Null
    /\ new_quantity > order_pool[map_find(id)].quantity
    /\ LET n == map_find(id)
           l == LevelOf(order_pool[n])
           level == remove_order_level(order_pool, levels[l], n)
           pool == [remove_order_pool(order_pool, n)
                       EXCEPT ![n].quantity = new_quantity]
       IN  /\ order_pool' = insert_order_pool(pool, level, n)
           /\ levels' = [levels EXCEPT ![l] = insert_order_level(pool, level, n)]
    /\ UNCHANGED <<free_list_head, order_map, probing_forever>>

\* ... and to no more than it has: it keeps its place.
ModifyDown(id, new_quantity) ==
    /\ ~ probing_forever
    /\ FindStops(id) # {} /\ map_find(id) # Null
    /\ new_quantity # 0 /\ new_quantity <= order_pool[map_find(id)].quantity
    /\ LET n == map_find(id)
           less == order_pool[n].quantity - new_quantity
       IN  /\ order_pool' = [order_pool EXCEPT ![n].quantity = new_quantity]
           /\ levels' = [levels EXCEPT ![LevelOf(order_pool[n])].total_volume =
                            (@ - less) % Modulus]
    /\ UNCHANGED <<free_list_head, order_map, probing_forever>>

\* The loop of a probe that never ends.
Spin == probing_forever /\ UNCHANGED vars

Next ==
    \/ \E id \in OrderId :
        \/ ProbeForever(id)
        \/ NotFound(id)
        \/ Cancel(id)
        \/ \E p \in Price : AddRejected(id, p)
        \/ \E q \in Quantity :
            \/ \E s \in Side, p \in Price : Add(id, s, p, q)
            \/ ModifyUp(id, q)
            \/ ModifyDown(id, q)
    \/ Spin

Spec == Init /\ [][Next]_vars
------------------------------------------------------------------------------
(* What the links mean. *)

\* The node behind m in the list m is in; Null is behind the last one.
After(m) == IF m = Null THEN Null ELSE order_pool[m].next

\* The nodes met from h on by following `next', and Null from the end on.
Walk(h) ==
    LET at[k \in 0 .. MaxOrders] == IF k = 0 THEN h ELSE After(at[k - 1])
    IN  at

\* The same as a sequence, without the end.
ListFrom(h) ==
    LET walk == Walk(h)
        length == Cardinality({k \in 0 .. MaxOrders - 1 : walk[k] # Null})
    IN  [i \in 1 .. length |-> walk[i - 1]]

Members(h) == LET list == ListFrom(h) IN {list[i] : i \in DOMAIN list}

get_volume_at_price(side, price) ==
    IF price >= MaxPrice THEN 0 ELSE levels[<<side, price>>].total_volume

RestingAt(l) == Members(levels[l].head)

\* Where the lists start: at the levels and at free_list_head_.
FreeList == <<"FREE", 0>>
Anchor == Level \cup {FreeList}
HeadOf(a) == IF a = FreeList THEN free_list_head ELSE levels[a].head

Orders(l) ==
    LET list == ListFrom(levels[l].head)
    IN  [i \in DOMAIN list |-> [id |-> order_pool[list[i]].id,
                                quantity |-> order_pool[list[i]].quantity]]

TypeOK ==
    /\ order_pool \in [Node -> [id : Nat, price : 0 .. MaxPrice - 1,
                                quantity : 0 .. Modulus - 1, side : Side,
                                prev : Node \cup {Null}, next : Node \cup {Null}]]
    /\ free_list_head \in Node \cup {Null}
    /\ levels \in [Level -> [head : Node \cup {Null}, tail : Node \cup {Null},
                             total_volume : 0 .. Modulus - 1]]
    /\ order_map \in [Slot -> [key : Nat, value : Node \cup {Null, Tombstone}]]
    /\ probing_forever \in BOOLEAN

(***************************************************************************)
(* No node is lost, and none is in two places: the free list and the lists *)
(* of the levels partition the pool, and no list runs into a cycle         *)
(* (allocate_order, deallocate_order, insert_order, remove_order).         *)
(***************************************************************************)
PoolIsPartitioned ==
    /\ \A a \in Anchor : Walk(HeadOf(a))[MaxOrders] = Null
    /\ \A n \in Node : \E a \in Anchor :
           \A b \in Anchor : n \in Members(HeadOf(b)) <=> b = a

(***************************************************************************)
(* Each level's list reads the same in both directions and ends at its     *)
(* tail, and an order is linked at the level of its own side and price,    *)
(* which is where remove_order will look for it.                           *)
(***************************************************************************)
ListsAreConsistent ==
    \A l \in Level :
        LET list == ListFrom(levels[l].head)
        IN  /\ levels[l].tail = IF list = << >> THEN Null ELSE list[Len(list)]
            /\ \A i \in DOMAIN list :
                /\ order_pool[list[i]].prev = IF i = 1 THEN Null ELSE list[i - 1]
                /\ LevelOf(order_pool[list[i]]) = l

(***************************************************************************)
(* The hash map knows exactly the resting orders: a probe that ends finds  *)
(* the node of an id that rests, across the tombstones other orders left,  *)
(* and finds nothing for any other id; and only a probe for an id that     *)
(* does not rest may go on forever.                                        *)
(***************************************************************************)
MapFindsResting ==
    LET resting == UNION {RestingAt(l) : l \in Level}
    IN  \A id \in OrderId :
            LET nodes == {n \in resting : order_pool[n].id = id}
            IN  IF nodes = {}
                THEN FindStops(id) = {} \/ map_find(id) = Null
                ELSE FindStops(id) # {} /\ nodes = {map_find(id)}

(***************************************************************************)
(* The volume of a level, which every call adjusts by a difference, is the *)
(* sum of the quantities resting there, up to wrap-around.                 *)
(***************************************************************************)
VolumeIsSum ==
    \A l \in Level :
        get_volume_at_price(l[1], l[2]) =
            SumFunctionOnSet([n \in Node |-> order_pool[n].quantity], RestingAt(l)) % Modulus

Queue == [l \in Level |-> Orders(l)]

PriceTime == INSTANCE PriceTimeBook WITH queue <- Queue

(***************************************************************************)
(* Every call does to the queues of the levels what price-time priority    *)
(* asks for: a new order and an increased one go to the back, a reduced    *)
(* one keeps its place, a cancelled one leaves, nobody else moves.         *)
(***************************************************************************)
ImplementsPriceTime == PriceTime!Spec

(***************************************************************************)
(* Every probe of the hash map ends: a call of add, cancel, modify or      *)
(* get_order returns.                                                      *)
(***************************************************************************)
ProbesEnd == ~ probing_forever
==============================================================================
