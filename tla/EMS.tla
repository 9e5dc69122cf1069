--------------------------------- MODULE EMS ---------------------------------
(***************************************************************************)
(* ExecutionManagementSystem (include/EMS.hpp, src/EMS.cpp): the state of  *)
(* every order the strategy sent, in an open-addressing hash map.          *)
(*                                                                         *)
(* One thread uses the EMS, so an action is a whole call.  A lookup that   *)
(* meets neither an empty slot nor its key goes round the map forever:     *)
(* then `probing_forever' is TRUE and the thread does nothing else.  The   *)
(* price, which is stored and never used, and what is logged are left out; *)
(* order_id is the key of the entry.                                       *)
(***************************************************************************)
EXTENDS Naturals, FiniteSetsExt

CONSTANTS MaxOrders,          \* the constructor's argument
          OrderId, Quantity,  \* the arguments the calls are made with
          Modulus             \* 2^32 in the code: quantities are uint32_t

ASSUME EMSAssumption ==
    /\ MaxOrders \in Nat \ {0} /\ Modulus \in Nat \ {0}
    /\ OrderId \subseteq Nat /\ Quantity \subseteq 0 .. Modulus - 1

VARIABLES order_map, probing_forever

vars == <<order_map, probing_forever>>

MapCapacity == 2 * MaxOrders
Slot == 0 .. MapCapacity - 1

OrderState == {"NONE", "PENDING_NEW", "NEW", "PARTIALLY_FILLED", "FILLED",
               "CANCELED", "REJECTED"}
EMSOrder == [state : OrderState, original_quantity : 0 .. Modulus - 1,
             executed_quantity : 0 .. Modulus - 1]

\* The value of an entry no order was stored in: mmap returns zeroed memory.
Zeroed == [state |-> "NONE", original_quantity |-> 0, executed_quantity |-> 0]

Init ==
    /\ order_map = [s \in Slot |-> [key |-> 0, value |-> Zeroed]]
    /\ probing_forever = FALSE
------------------------------------------------------------------------------
\* Mutant: a probe moves on by two slots.
ProbeSlotByTwo(id, k) == (id + 2 * k) % MapCapacity

\* The slot a probe for id looks at in its k-th turn.
ProbeSlot(id, k) == (id + k) % MapCapacity

Empty(e) == e.key = 0 /\ e.value.state = "NONE"

\* Mutant: the probe compares hashes, not ids.
StopsAtHash(id) ==
    {k \in Slot : LET e == order_map[ProbeSlot(id, k)]
                  IN  Empty(e) \/ e.key % MapCapacity = id % MapCapacity}

\* The turns at which map_find and map_insert stop.
Stops(id) ==
    {k \in Slot : LET e == order_map[ProbeSlot(id, k)] IN Empty(e) \/ e.key = id}

\* Where they stop, if they do.
StopSlot(id) == ProbeSlot(id, Min(Stops(id)))

\* map_find(id) returns an order.
Found(id) == Stops(id) # {} /\ ~ Empty(order_map[StopSlot(id)])

\* map_find(id) returns nullptr.
Missing(id) == Stops(id) # {} /\ Empty(order_map[StopSlot(id)])

\* The order map_find(id) returns.
map_find(id) == order_map[StopSlot(id)].value

\* Mutant: the probe moves on before the order is stored.
StoredBehind(id, o) ==
    [order_map EXCEPT ![ProbeSlot(id, Min(Stops(id)) + 1)] = [key |-> id, value |-> o]]

\* The map in which that order is o, or into which map_insert has put o.
Stored(id, o) == [order_map EXCEPT ![StopSlot(id)] = [key |-> id, value |-> o]]
------------------------------------------------------------------------------
onOrderSent(id, quantity) ==
    /\ ~ probing_forever
    /\ Missing(id)
    /\ order_map' = Stored(id, [state |-> "PENDING_NEW",
                                original_quantity |-> quantity,
                                executed_quantity |-> 0])
    /\ UNCHANGED probing_forever

onOrderAccepted(id) ==
    /\ ~ probing_forever
    /\ Found(id) /\ map_find(id).state = "PENDING_NEW"
    /\ order_map' = Stored(id, [map_find(id) EXCEPT !.state = "NEW"])
    /\ UNCHANGED probing_forever

onOrderRejected(id) ==
    /\ ~ probing_forever
    /\ Found(id)
    /\ order_map' = Stored(id, [map_find(id) EXCEPT !.state = "REJECTED"])
    /\ UNCHANGED probing_forever

\* Mutant: the executed quantity is not reduced to its width.
ExecutedWide(o, fill_quantity) == o.executed_quantity + fill_quantity

Executed(o, fill_quantity) == (o.executed_quantity + fill_quantity) % Modulus

\* Mutant: an order is filled only by more than its quantity.
IsFilledStrict(o, executed) == executed > o.original_quantity

IsFilled(o, executed) == executed >= o.original_quantity

\* Mutant: fills of dead orders count.
TakesFillsAlways(o) == TRUE

TakesFills(o) == o.state \notin {"CANCELED", "REJECTED"}

onOrderExecuted(id, fill_quantity) ==
    /\ ~ probing_forever
    /\ Found(id) /\ TakesFills(map_find(id))
    /\ LET executed == Executed(map_find(id), fill_quantity)
           state == IF IsFilled(map_find(id), executed) THEN "FILLED" ELSE "PARTIALLY_FILLED"
       IN  order_map' = Stored(id, [map_find(id) EXCEPT
                                       !.executed_quantity = executed,
                                       !.state = state])
    /\ UNCHANGED probing_forever

onOrderCanceled(id) ==
    /\ ~ probing_forever
    /\ Found(id)
    /\ order_map' = Stored(id, [map_find(id) EXCEPT !.state = "CANCELED"])
    /\ UNCHANGED probing_forever

\* A call that returns false, or only reads: onOrderSent of a known id, a
\* report about an unknown one, an accept that is not pending, a fill of a
\* dead order, getOrderState and getOrder.
Refused(id) ==
    /\ ~ probing_forever
    /\ Stops(id) # {}
    /\ UNCHANGED vars

\* A call whose map_find(id) does not return.
ProbeForever(id) ==
    /\ ~ probing_forever
    /\ Stops(id) = {}
    /\ probing_forever' = TRUE
    /\ UNCHANGED order_map

Spin == probing_forever /\ UNCHANGED vars

Next ==
    \/ \E id \in OrderId :
        \/ onOrderAccepted(id)
        \/ onOrderRejected(id)
        \/ onOrderCanceled(id)
        \/ \E q \in Quantity : onOrderSent(id, q) \/ onOrderExecuted(id, q)
        \/ Refused(id)
        \/ ProbeForever(id)
    \/ Spin

Spec == Init /\ [][Next]_vars
------------------------------------------------------------------------------
TypeOK ==
    /\ order_map \in [Slot -> [key : Nat, value : EMSOrder]]
    /\ probing_forever \in BOOLEAN

\* What getOrder and getOrderState say of an id, as long as they return.
Record(id) == IF Found(id) THEN map_find(id) ELSE Zeroed

(***************************************************************************)
(* A probe for the key of an occupied entry gets to it: the entries before *)
(* it on the probe path are occupied, by other keys.  So no id is in the   *)
(* map twice, and none is hidden behind a gap (map_insert, map_find).      *)
(***************************************************************************)
KeysAreReachable ==
    \A s \in Slot :
        LET e == order_map[s]
        IN  ~ Empty(e) =>
                /\ e.value.state # "NONE"
                /\ \E k \in Slot :
                      /\ s = ProbeSlot(e.key, k)
                      /\ \A j \in 0 .. k - 1 :
                            LET f == order_map[ProbeSlot(e.key, j)]
                            IN  ~ Empty(f) /\ f.key # e.key

(***************************************************************************)
(* A lookup goes round forever only in a map that is full of different     *)
(* orders: while fewer than 2 * max_orders were sent, every call returns,  *)
(* however their ids collide (map_find, EMS.cpp:51-62).                    *)
(***************************************************************************)
ProbesEndWhileRoom ==
    probing_forever =>
        Cardinality({id \in OrderId : Record(id).state # "NONE"}) = MapCapacity

\* The state of an order and its quantities agree.
Consistent(o) ==
    /\ o.state \in {"NONE", "PENDING_NEW", "NEW"} => o.executed_quantity = 0
    /\ o.state = "FILLED" => o.executed_quantity >= o.original_quantity
    /\ o.state = "PARTIALLY_FILLED" => o.executed_quantity < o.original_quantity

(***************************************************************************)
(* The state of an order and its quantities agree, in whatever order the   *)
(* exchange's reports arrive, repeated or not, and also when the executed  *)
(* quantity wraps: FILLED with at least the original quantity executed,    *)
(* PARTIALLY_FILLED with less, and nothing executed before the first fill. *)
(***************************************************************************)
StateMatchesQuantity == \A id \in OrderId : Consistent(Record(id))

(***************************************************************************)
(* An order that was canceled or rejected stays dead and is not executed   *)
(* further: late and duplicate reports cannot revive it.                   *)
(***************************************************************************)
DeadStaysDead ==
    [][\A id \in OrderId :
           Record(id).state \in {"CANCELED", "REJECTED"} =>
               /\ Record(id)'.state \in {"CANCELED", "REJECTED"}
               /\ Record(id)'.executed_quantity = Record(id).executed_quantity]_vars

Table == INSTANCE OrderTable WITH orders <- [id \in OrderId |-> Record(id)]

(***************************************************************************)
(* The hash map is a table: a call changes the record of the id it was     *)
(* made with and of no other, however the ids collide (map_insert,         *)
(* map_find and the five callbacks).                                       *)
(***************************************************************************)
ImplementsTable == Table!Spec
==============================================================================
