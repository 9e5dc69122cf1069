----------------------------- MODULE EMSProofs -------------------------------
(***************************************************************************)
(* Proofs about EMS, for every size of the map, every set of ids and every *)
(* width of the quantities.                                                *)
(***************************************************************************)
EXTENDS EMS, DataLemmas

\* Probes stay inside the map.
LEMMA ProbeInMap ==
    ASSUME NEW id \in Nat, NEW k \in Nat
    PROVE  ProbeSlot(id, k) \in Slot
<1>1. MapCapacity \in Nat \ {0}
  BY EMSAssumption DEF MapCapacity
<1>2. \A x \in Nat, m \in Nat \ {0} : x % m \in 0 .. m - 1
  OBVIOUS
<1>3. QED
  BY <1>1, <1>2 DEF ProbeSlot, Slot

\* The slots are numbered from 0.
LEMMA SlotIsNat == Slot \subseteq Nat
  BY EMSAssumption DEF Slot, MapCapacity

\* Where the probe for id ends, if it does: at the first of its stops.
LEMMA FirstStop ==
    ASSUME NEW id \in OrderId, Stops(id) # {}
    PROVE  \E k \in Slot :
               /\ StopSlot(id) = ProbeSlot(id, k)
               /\ StopSlot(id) \in Slot
               /\ \/ Empty(order_map[StopSlot(id)])
                  \/ order_map[StopSlot(id)].key = id
               /\ \A j \in 0 .. k - 1 :
                     /\ ~ Empty(order_map[ProbeSlot(id, j)])
                     /\ order_map[ProbeSlot(id, j)].key # id
<1> DEFINE m == Min(Stops(id))
<1>1. Stops(id) \in SUBSET Nat /\ Stops(id) \subseteq Slot
  BY SlotIsNat DEF Stops
<1>2. m \in Stops(id) /\ \A x \in Stops(id) : m <= x
  BY <1>1, MinIsLeast
<1>3. m \in Slot /\ m \in Nat
  BY <1>1, <1>2
<1>4. StopSlot(id) = ProbeSlot(id, m) /\ StopSlot(id) \in Slot
  BY <1>3, ProbeInMap, EMSAssumption DEF StopSlot
<1>5. Empty(order_map[ProbeSlot(id, m)]) \/ order_map[ProbeSlot(id, m)].key = id
  BY <1>2 DEF Stops
<1>6. ASSUME NEW j \in 0 .. m - 1
      PROVE  /\ ~ Empty(order_map[ProbeSlot(id, j)])
             /\ order_map[ProbeSlot(id, j)].key # id
  <2>1. j \in Slot /\ j \notin Stops(id)
    <3> HIDE DEF m
    <3> QED BY <1>2, <1>3, EMSAssumption DEF Slot, MapCapacity
  <2>2. QED
    BY <2>1 DEF Stops
<1> HIDE DEF m
<1>7. QED
  BY <1>3, <1>4, <1>5, <1>6

\* The other way round: a slot with these properties is where the probe ends.
LEMMA StopIsFirst ==
    ASSUME NEW id \in OrderId, NEW k \in Slot,
           \/ Empty(order_map[ProbeSlot(id, k)])
           \/ order_map[ProbeSlot(id, k)].key = id,
           \A j \in 0 .. k - 1 : /\ ~ Empty(order_map[ProbeSlot(id, j)])
                                 /\ order_map[ProbeSlot(id, j)].key # id
    PROVE  Stops(id) # {} /\ StopSlot(id) = ProbeSlot(id, k)
<1>1. Stops(id) \in SUBSET Nat
  BY SlotIsNat DEF Stops
<1>2. k \in Stops(id)
  BY DEF Stops
<1>3. \A j \in 0 .. k - 1 : j \notin Stops(id)
  BY DEF Stops
<1>4. Min(Stops(id)) = k
  BY <1>1, <1>2, <1>3, LeastIsMin
<1>5. QED
  BY <1>2, <1>4 DEF StopSlot

\* The map determines the records: an occupied entry is the record of its key,
\* and an id that is no entry's key has no record.
RecordsAreEntries ==
    TypeOK /\ KeysAreReachable =>
        \A id \in OrderId :
            /\ \A s \in Slot :
                  ~ Empty(order_map[s]) /\ order_map[s].key = id
                      => Record(id) = order_map[s].value
            /\ (\A s \in Slot : Empty(order_map[s]) \/ order_map[s].key # id)
                   => Record(id) = Zeroed

\* The probes find what is in the map, because its keys are reachable.
LEMMA RecordsFromMap == RecordsAreEntries
<1> SUFFICES ASSUME TypeOK, KeysAreReachable, NEW id \in OrderId
             PROVE  /\ \A s \in Slot :
                          ~ Empty(order_map[s]) /\ order_map[s].key = id
                              => Record(id) = order_map[s].value
                    /\ (\A s \in Slot : Empty(order_map[s]) \/ order_map[s].key # id)
                          => Record(id) = Zeroed
  BY DEF RecordsAreEntries
<1>1. ASSUME NEW s \in Slot, ~ Empty(order_map[s]), order_map[s].key = id
      PROVE  Record(id) = order_map[s].value
  <2>1. PICK k \in Slot :
            /\ s = ProbeSlot(id, k)
            /\ \A j \in 0 .. k - 1 :
                  /\ ~ Empty(order_map[ProbeSlot(id, j)])
                  /\ order_map[ProbeSlot(id, j)].key # id
    BY <1>1 DEF KeysAreReachable
  <2>2. order_map[ProbeSlot(id, k)].key = id
    BY <1>1, <2>1
  <2>3. Stops(id) # {} /\ StopSlot(id) = s
    BY <2>1, <2>2, StopIsFirst
  <2>4. QED
    BY <1>1, <2>3 DEF Record, Found, map_find
<1>2. ASSUME \A s \in Slot : Empty(order_map[s]) \/ order_map[s].key # id
      PROVE  Record(id) = Zeroed
  <2>1. CASE Found(id)
    <3>1. Stops(id) # {} /\ ~ Empty(order_map[StopSlot(id)])
      BY <2>1 DEF Found
    <3>2. StopSlot(id) \in Slot /\ order_map[StopSlot(id)].key = id
      BY <3>1, FirstStop
    <3>3. QED
      BY <1>2, <3>1, <3>2
  <2>2. CASE ~ Found(id)
    BY <2>2 DEF Record
  <2>3. QED
    BY <2>1, <2>2
<1>3. QED
  BY <1>1, <1>2

\* The same of the state after a step.
LEMMA RecordsFromMapNext == RecordsAreEntries'
  BY RecordsFromMap, PTL

\* What a record becomes when the call for id stores o: it is o, and the
\* records of all other ids are what they were.
Becomes(id, o) ==
    /\ Record(id)' = o
    /\ \A x \in OrderId \ {id} : Record(x)' = Record(x)

\* Storing an order where the probe for its id ends keeps the map in order and
\* changes no other record.
LEMMA Storing ==
    ASSUME TypeOK, KeysAreReachable,
           NEW id \in OrderId, Stops(id) # {},
           NEW o \in EMSOrder, o.state # "NONE",
           order_map' = Stored(id, o), UNCHANGED probing_forever
    PROVE  TypeOK' /\ KeysAreReachable' /\ Becomes(id, o)
<1> DEFINE t == StopSlot(id)
           new == [key |-> id, value |-> o]
<1>1. PICK m \in Slot :
          /\ t = ProbeSlot(id, m) /\ t \in Slot
          /\ Empty(order_map[t]) \/ order_map[t].key = id
          /\ \A j \in 0 .. m - 1 : /\ ~ Empty(order_map[ProbeSlot(id, j)])
                                    /\ order_map[ProbeSlot(id, j)].key # id
  BY FirstStop
<1> HIDE DEF t
<1>2. /\ order_map \in [Slot -> [key : Nat, value : EMSOrder]]
      /\ order_map' = [order_map EXCEPT ![t] = new]
      /\ id \in Nat /\ new \in [key : Nat, value : EMSOrder]
  BY EMSAssumption DEF TypeOK, Stored, t
<1>3. /\ order_map'[t] = new
      /\ \A s \in Slot \ {t} : order_map'[s] = order_map[s]
      /\ ~ Empty(order_map'[t])
  BY <1>1, <1>2 DEF Empty
<1>4. TypeOK'
  <2>1. order_map' \in [Slot -> [key : Nat, value : EMSOrder]]
    BY <1>2
  <2>2. QED
    BY <2>1 DEF TypeOK
<1>5. KeysAreReachable'
  <2> SUFFICES ASSUME NEW s \in Slot, ~ Empty(order_map'[s])
               PROVE  LET e == order_map'[s]
                      IN  /\ e.value.state # "NONE"
                          /\ \E k \in Slot :
                                /\ s = ProbeSlot(e.key, k)
                                /\ \A j \in 0 .. k - 1 :
                                      LET f == order_map'[ProbeSlot(e.key, j)]
                                      IN  ~ Empty(f) /\ f.key # e.key
    BY DEF KeysAreReachable
  <2>1. CASE s = t
    <3>1. ASSUME NEW j \in 0 .. m - 1
          PROVE  /\ ~ Empty(order_map'[ProbeSlot(id, j)])
                 /\ order_map'[ProbeSlot(id, j)].key # id
      <4>1. j \in Nat
        BY SlotIsNat
      <4>2. ProbeSlot(id, j) \in Slot
        BY <1>2, <4>1, ProbeInMap
      <4>3. ProbeSlot(id, j) # t
        BY <1>1, <3>1
      <4>4. QED
        BY <1>1, <1>3, <4>2, <4>3
    <3>2. order_map'[s].key = id /\ order_map'[s].value.state # "NONE"
      BY <1>3, <2>1
    <3>3. QED
      BY <1>1, <2>1, <3>1, <3>2
  <2>2. CASE s # t
    <3> DEFINE x == order_map[s].key
    <3>1. order_map'[s] = order_map[s] /\ ~ Empty(order_map[s]) /\ x \in Nat
      BY <1>2, <1>3, <2>2
    <3>2. /\ order_map[s].value.state # "NONE"
          /\ \E k \in Slot :
                /\ s = ProbeSlot(x, k)
                /\ \A j \in 0 .. k - 1 :
                      /\ ~ Empty(order_map[ProbeSlot(x, j)])
                      /\ order_map[ProbeSlot(x, j)].key # x
      BY <3>1 DEF KeysAreReachable
    <3> HIDE DEF x
    <3>3. PICK k \in Slot :
                /\ s = ProbeSlot(x, k)
                /\ \A j \in 0 .. k - 1 :
                      /\ ~ Empty(order_map[ProbeSlot(x, j)])
                      /\ order_map[ProbeSlot(x, j)].key # x
      BY <3>2
    <3>4. ASSUME NEW j \in 0 .. k - 1
          PROVE  /\ ~ Empty(order_map'[ProbeSlot(x, j)])
                 /\ order_map'[ProbeSlot(x, j)].key # x
      <4>1. j \in Nat
        BY SlotIsNat
      <4>2. ProbeSlot(x, j) \in Slot
        BY <3>1, <4>1, ProbeInMap
      <4>3. CASE ProbeSlot(x, j) = t
        BY <1>1, <1>3, <3>3, <4>3
      <4>4. CASE ProbeSlot(x, j) # t
        BY <1>3, <3>3, <4>2, <4>4
      <4>5. QED
        BY <4>3, <4>4
    <3>5. order_map'[s].key = x
      BY <3>1 DEF x
    <3>6. QED
      BY <3>1, <3>2, <3>3, <3>4, <3>5
  <2>3. QED
    BY <2>1, <2>2
<1>6. Becomes(id, o)
  <2>1. /\ \A x \in OrderId : \A s \in Slot :
              ~ Empty(order_map[s]) /\ order_map[s].key = x
                  => Record(x) = order_map[s].value
        /\ \A x \in OrderId :
              (\A s \in Slot : Empty(order_map[s]) \/ order_map[s].key # x)
                  => Record(x) = Zeroed
    BY RecordsFromMap DEF RecordsAreEntries
  <2>2. /\ \A x \in OrderId : \A s \in Slot :
              ~ Empty(order_map'[s]) /\ order_map'[s].key = x
                  => Record(x)' = order_map'[s].value
        /\ \A x \in OrderId :
              (\A s \in Slot : Empty(order_map'[s]) \/ order_map'[s].key # x)
                  => Record(x)' = Zeroed
    BY <1>4, <1>5, RecordsFromMapNext DEF RecordsAreEntries
  <2>3. Record(id)' = o
    BY <1>1, <1>3, <2>2
  <2>4. ASSUME NEW x \in OrderId \ {id}
        PROVE  Record(x)' = Record(x)
    <3>1. CASE \E s \in Slot : ~ Empty(order_map[s]) /\ order_map[s].key = x
      <4>1. PICK s \in Slot : ~ Empty(order_map[s]) /\ order_map[s].key = x
        BY <3>1
      <4>2. s # t
        BY <1>1, <4>1
      <4>3. order_map'[s] = order_map[s]
        BY <1>3, <4>2
      <4>4. QED
        BY <2>1, <2>2, <4>1, <4>3
    <3>2. CASE \A s \in Slot : Empty(order_map[s]) \/ order_map[s].key # x
      <4>1. \A s \in Slot : Empty(order_map'[s]) \/ order_map'[s].key # x
        BY <1>3, <3>2
      <4>2. QED
        BY <2>1, <2>2, <3>2, <4>1
    <3>3. QED
      BY <3>1, <3>2
  <2>5. QED
    BY <2>3, <2>4 DEF Becomes
<1>7. QED
  BY <1>4, <1>5, <1>6

\* The ways in which a call may change the record r of its order to o.
Moves(r, o) ==
    \/ /\ r.state = "NONE"
       /\ \E q \in Quantity : o = [state |-> "PENDING_NEW", original_quantity |-> q,
                                   executed_quantity |-> 0]
    \/ r.state = "PENDING_NEW" /\ o = [r EXCEPT !.state = "NEW"]
    \/ /\ r.state # "NONE"
       /\ \E s \in {"CANCELED", "REJECTED"} : o = [r EXCEPT !.state = s]
    \/ /\ r.state \notin {"NONE", "CANCELED", "REJECTED"}
       /\ \E q \in Quantity :
            LET executed == (r.executed_quantity + q) % Modulus
            IN  o = [r EXCEPT !.executed_quantity = executed,
                              !.state = IF executed >= r.original_quantity
                                        THEN "FILLED" ELSE "PARTIALLY_FILLED"]

\* A step leaves all records alone, or moves one of them.
Same == \A x \in OrderId : Record(x)' = Record(x)
MovesOne == \E id \in OrderId : \E o \in EMSOrder : Becomes(id, o) /\ Moves(Record(id), o)

\* Quantities are counted modulo Modulus.
LEMMA QuantityWraps ==
    \A a \in 0 .. Modulus - 1, q \in Quantity : (a + q) % Modulus \in 0 .. Modulus - 1
<1>1. \A x \in Nat, m \in Nat \ {0} : x % m \in 0 .. m - 1
  OBVIOUS
<1>2. QED
  BY <1>1, EMSAssumption

\* Every record is an order's.
LEMMA RecordType ==
    ASSUME TypeOK, NEW id \in OrderId
    PROVE  Record(id) \in EMSOrder
<1>1. Zeroed \in EMSOrder
  BY EMSAssumption DEF Zeroed, EMSOrder, OrderState
<1>2. CASE Found(id)
  <2>1. StopSlot(id) \in Slot
    BY <1>2, FirstStop DEF Found
  <2>2. QED
    BY <1>2, <2>1 DEF Record, map_find, TypeOK
<1>3. QED
  BY <1>1, <1>2 DEF Record

\* What a report finds is the record of its order.
LEMMA FoundRecord ==
    ASSUME TypeOK, KeysAreReachable, NEW id \in OrderId, Found(id)
    PROVE  /\ Stops(id) # {} /\ map_find(id) = Record(id)
           /\ Record(id) \in EMSOrder /\ Record(id).state # "NONE"
<1>1. /\ Stops(id) # {} /\ map_find(id) = Record(id)
      /\ ~ Empty(order_map[StopSlot(id)])
  BY DEF Found, Record
<1>2. StopSlot(id) \in Slot
  BY <1>1, FirstStop
<1>3. Record(id).state # "NONE"
  BY <1>1, <1>2 DEF KeysAreReachable, map_find
<1>4. QED
  BY <1>1, <1>3, RecordType

\* A step that leaves the map alone leaves the records alone.
LEMMA SameMap ==
    ASSUME TypeOK, KeysAreReachable, UNCHANGED order_map, probing_forever' \in BOOLEAN
    PROVE  TypeOK' /\ KeysAreReachable' /\ Same
<1>1. TypeOK'
  BY DEF TypeOK
<1>2. KeysAreReachable'
  BY DEF KeysAreReachable, Empty
<1>3. Same
  BY DEF Same, Record, Found, map_find, StopSlot, Stops, Empty
<1>4. QED
  BY <1>1, <1>2, <1>3

\* One step of the EMS, call by call.
LEMMA Step ==
    ASSUME TypeOK, KeysAreReachable, [Next]_vars
    PROVE  TypeOK' /\ KeysAreReachable' /\ (Same \/ MovesOne)
<1>1. ASSUME NEW id \in OrderId, NEW o \in EMSOrder, o.state # "NONE",
             Stops(id) # {}, order_map' = Stored(id, o), UNCHANGED probing_forever,
             Moves(Record(id), o)
      PROVE  TypeOK' /\ KeysAreReachable' /\ (Same \/ MovesOne)
  <2>1. TypeOK' /\ KeysAreReachable' /\ Becomes(id, o)
    BY <1>1, Storing
  <2>2. QED
    BY <1>1, <2>1 DEF MovesOne
<1>2. ASSUME NEW id \in OrderId, NEW q \in Quantity, onOrderSent(id, q)
      PROVE  TypeOK' /\ KeysAreReachable' /\ (Same \/ MovesOne)
  <2> DEFINE o == [state |-> "PENDING_NEW", original_quantity |-> q,
                   executed_quantity |-> 0]
  <2>1. o \in EMSOrder /\ o.state # "NONE"
    BY EMSAssumption DEF EMSOrder, OrderState
  <2>2. Stops(id) # {} /\ Record(id) = Zeroed
    BY <1>2 DEF onOrderSent, Missing, Record, Found
  <2>3. Moves(Record(id), o)
    BY <2>2 DEF Moves, Zeroed
  <2>4. order_map' = Stored(id, o) /\ UNCHANGED probing_forever
    BY <1>2 DEF onOrderSent
  <2> HIDE DEF o
  <2>5. QED
    BY <1>1, <2>1, <2>2, <2>3, <2>4
<1>3. ASSUME NEW id \in OrderId, onOrderAccepted(id)
      PROVE  TypeOK' /\ KeysAreReachable' /\ (Same \/ MovesOne)
  <2> DEFINE o == [Record(id) EXCEPT !.state = "NEW"]
  <2>1. /\ Stops(id) # {} /\ map_find(id) = Record(id)
        /\ Record(id) \in EMSOrder /\ Record(id).state = "PENDING_NEW"
    BY <1>3, FoundRecord DEF onOrderAccepted
  <2>2. o \in EMSOrder /\ o.state # "NONE"
    BY <2>1 DEF EMSOrder, OrderState
  <2>3. Moves(Record(id), o)
    BY <2>1 DEF Moves
  <2>4. order_map' = Stored(id, o) /\ UNCHANGED probing_forever
    BY <1>3, <2>1 DEF onOrderAccepted
  <2> HIDE DEF o
  <2>5. QED
    BY <1>1, <2>1, <2>2, <2>3, <2>4
<1>4. ASSUME NEW id \in OrderId, onOrderRejected(id) \/ onOrderCanceled(id)
      PROVE  TypeOK' /\ KeysAreReachable' /\ (Same \/ MovesOne)
  <2>1. PICK s \in {"CANCELED", "REJECTED"} :
            /\ Found(id) /\ UNCHANGED probing_forever
            /\ order_map' = Stored(id, [map_find(id) EXCEPT !.state = s])
    BY <1>4 DEF onOrderRejected, onOrderCanceled
  <2> DEFINE o == [Record(id) EXCEPT !.state = s]
  <2>2. /\ Stops(id) # {} /\ map_find(id) = Record(id)
        /\ Record(id) \in EMSOrder /\ Record(id).state # "NONE"
    BY <2>1, FoundRecord
  <2>3. o \in EMSOrder /\ o.state # "NONE"
    BY <2>2 DEF EMSOrder, OrderState
  <2>4. Moves(Record(id), o)
    BY <2>2 DEF Moves
  <2>5. order_map' = Stored(id, o)
    BY <2>1, <2>2
  <2> HIDE DEF o
  <2>6. QED
    BY <1>1, <2>1, <2>2, <2>3, <2>4, <2>5
<1>5. ASSUME NEW id \in OrderId, NEW q \in Quantity, onOrderExecuted(id, q)
      PROVE  TypeOK' /\ KeysAreReachable' /\ (Same \/ MovesOne)
  <2> DEFINE r == Record(id)
             executed == (r.executed_quantity + q) % Modulus
             o == [r EXCEPT !.executed_quantity = executed,
                            !.state = IF executed >= r.original_quantity
                                      THEN "FILLED" ELSE "PARTIALLY_FILLED"]
  <2>1. /\ Stops(id) # {} /\ map_find(id) = r
        /\ r \in EMSOrder /\ r.state \notin {"NONE", "CANCELED", "REJECTED"}
    BY <1>5, FoundRecord DEF onOrderExecuted, TakesFills
  <2>2. executed \in 0 .. Modulus - 1
    BY <2>1, QuantityWraps DEF EMSOrder
  <2>3. Moves(r, o)
    BY <2>1 DEF Moves
  <2>4. order_map' = Stored(id, o) /\ UNCHANGED probing_forever
    BY <1>5, <2>1 DEF onOrderExecuted, Executed, IsFilled
  <2>5. o \in EMSOrder /\ o.state # "NONE"
    <3> HIDE DEF executed, r
    <3> QED BY <2>1, <2>2 DEF EMSOrder, OrderState
  <2> HIDE DEF o
  <2>6. QED
    BY <1>1, <2>1, <2>3, <2>4, <2>5
<1>6. CASE UNCHANGED vars
  BY <1>6, SameMap DEF vars, TypeOK
<1>7. ASSUME NEW id \in OrderId, Refused(id) \/ ProbeForever(id)
      PROVE  TypeOK' /\ KeysAreReachable' /\ (Same \/ MovesOne)
  <2>1. UNCHANGED order_map /\ probing_forever' \in BOOLEAN
    BY <1>7 DEF Refused, ProbeForever, vars, TypeOK
  <2>2. QED
    BY <2>1, SameMap
<1>8. CASE Spin
  BY <1>6, <1>8 DEF Spin
<1>9. QED
  BY <1>2, <1>3, <1>4, <1>5, <1>6, <1>7, <1>8 DEF Next

\* The empty map.
LEMMA Start ==
    ASSUME Init
    PROVE  TypeOK /\ KeysAreReachable /\ \A id \in OrderId : Record(id) = Zeroed
<1>1. Zeroed \in EMSOrder
  BY EMSAssumption DEF Zeroed, EMSOrder, OrderState
<1>2. \A s \in Slot : order_map[s] = [key |-> 0, value |-> Zeroed]
  BY DEF Init
<1>3. \A s \in Slot : Empty(order_map[s])
  BY <1>2 DEF Empty, Zeroed
<1>4. TypeOK
  BY <1>1 DEF Init, TypeOK
<1>5. KeysAreReachable
  BY <1>3 DEF KeysAreReachable
<1>6. QED
  BY <1>3, <1>4, <1>5, RecordsFromMap DEF RecordsAreEntries

(***************************************************************************)
(* The entries keep their types, and the quantities their width.           *)
(***************************************************************************)
THEOREM EMSTypeCorrect == Spec => []TypeOK
<1>1. Init => TypeOK /\ KeysAreReachable
  BY Start
<1>2. TypeOK /\ KeysAreReachable /\ [Next]_vars => (TypeOK /\ KeysAreReachable)'
  BY Step
<1>3. QED
  BY <1>1, <1>2, PTL DEF Spec

(***************************************************************************)
(* Linear probing never loses an entry: the probe for its key gets to it.  *)
(***************************************************************************)
THEOREM ProbePaths == Spec => []KeysAreReachable
<1>1. Init => TypeOK /\ KeysAreReachable
  BY Start
<1>2. TypeOK /\ KeysAreReachable /\ [Next]_vars => (TypeOK /\ KeysAreReachable)'
  BY Step
<1>3. QED
  BY <1>1, <1>2, PTL DEF Spec

\* A probe that goes round the map looks at every slot.
LEMMA AroundTheMap ==
    ASSUME NEW id \in Nat, NEW s \in Slot
    PROVE  \E k \in Slot : ProbeSlot(id, k) = s
<1> DEFINE m == MapCapacity
           q == id \div m
           r == id % m
<1>1. m \in Nat \ {0} /\ s \in 0 .. m - 1
  BY EMSAssumption DEF MapCapacity, Slot
<1>2. q \in Nat /\ r \in 0 .. m - 1 /\ id = m * q + r
  BY <1>1, Division
<1>3. ASSUME NEW k \in Slot, (id + k) % m = s PROVE ProbeSlot(id, k) = s
  BY <1>3 DEF ProbeSlot
<1>4. Slot = 0 .. m - 1
  BY DEF Slot
<1> HIDE DEF m, q, r
<1>5. m * q \in Nat /\ m * (q + 1) = m * q + m
  BY <1>1, <1>2, Z3
<1> DEFINE a == m * q
           b == m * (q + 1)
<1>6. a \in Nat /\ b = a + m /\ id = a + r
  BY <1>2, <1>5
<1>7. (a + s) % m = s /\ (b + s) % m = s
  BY <1>1, <1>2, DivisionUnique
<1> HIDE DEF a, b
<1>8. CASE r <= s
  <2>1. s - r \in Slot /\ id + (s - r) = a + s
    BY <1>1, <1>2, <1>4, <1>6, <1>8
  <2>2. QED
    BY <1>3, <1>7, <2>1
<1>9. CASE s < r
  <2>1. m + s - r \in Slot /\ id + (m + s - r) = b + s
    BY <1>1, <1>2, <1>4, <1>6, <1>9
  <2>2. QED
    BY <1>3, <1>7, <2>1
<1>10. QED
  BY <1>1, <1>2, <1>8, <1>9

\* Orders are stored under the ids of the calls, and once a lookup does not
\* return no slot is empty.
KeysAreIds == \A s \in Slot : ~ Empty(order_map[s]) => order_map[s].key \in OrderId
StuckIsFull == probing_forever => \A s \in Slot : ~ Empty(order_map[s])

\* Storing an order keeps both.
LEMMA StoringKeys ==
    ASSUME TypeOK, KeysAreIds, ~ probing_forever, UNCHANGED probing_forever,
           NEW id \in OrderId, NEW o, order_map' = Stored(id, o)
    PROVE  KeysAreIds' /\ StuckIsFull'
<1>1. \A s \in Slot : order_map'[s] = order_map[s] \/ order_map'[s].key = id
  BY DEF TypeOK, Stored
<1>2. KeysAreIds'
  BY <1>1 DEF KeysAreIds, Empty
<1>3. StuckIsFull'
  BY DEF StuckIsFull
<1>4. QED
  BY <1>2, <1>3

\* One step, call by call.
LEMMA StuckStep ==
    ASSUME TypeOK, KeysAreIds, StuckIsFull, [Next]_vars
    PROVE  KeysAreIds' /\ StuckIsFull'
<1>1. CASE UNCHANGED vars
  BY <1>1 DEF vars, KeysAreIds, StuckIsFull, Empty
<1>2. ASSUME NEW id \in OrderId,
             \/ onOrderAccepted(id) \/ onOrderRejected(id) \/ onOrderCanceled(id)
             \/ \E q \in Quantity : onOrderSent(id, q) \/ onOrderExecuted(id, q)
      PROVE  KeysAreIds' /\ StuckIsFull'
  <2>1. ~ probing_forever /\ UNCHANGED probing_forever /\ \E o : order_map' = Stored(id, o)
    BY <1>2 DEF onOrderAccepted, onOrderRejected, onOrderCanceled, onOrderSent, onOrderExecuted
  <2>2. QED
    BY <2>1, StoringKeys
<1>3. ASSUME NEW id \in OrderId, ProbeForever(id)
      PROVE  KeysAreIds' /\ StuckIsFull'
  <2>1. Stops(id) = {} /\ UNCHANGED order_map /\ id \in Nat
    BY <1>3, EMSAssumption DEF ProbeForever
  <2>2. ASSUME NEW s \in Slot PROVE ~ Empty(order_map[s])
    BY <2>1, AroundTheMap DEF Stops
  <2>3. QED
    BY <2>1, <2>2 DEF KeysAreIds, StuckIsFull, Empty
<1>4. ASSUME NEW id \in OrderId, Refused(id)
      PROVE  KeysAreIds' /\ StuckIsFull'
  BY <1>1, <1>4 DEF Refused
<1>5. CASE Spin
  BY <1>1, <1>5 DEF Spin
<1>6. QED
  BY <1>1, <1>2, <1>3, <1>4, <1>5 DEF Next

\* A full map has one order for each slot.
LEMMA FullMap ==
    ASSUME TypeOK, KeysAreReachable, KeysAreIds, \A s \in Slot : ~ Empty(order_map[s])
    PROVE  Cardinality({id \in OrderId : Record(id).state # "NONE"}) = MapCapacity
<1> DEFINE Known == {id \in OrderId : Record(id).state # "NONE"}
           f == [s \in Slot |-> order_map[s].key]
<1>1. \A s \in Slot : f[s] \in OrderId /\ Record(f[s]) = order_map[s].value
  BY RecordsFromMap DEF RecordsAreEntries, KeysAreIds
<1>2. \A s \in Slot : f[s] \in Known
  BY <1>1 DEF KeysAreReachable
<1>3. ASSUME NEW id \in Known PROVE \E s \in Slot : f[s] = id
  BY <1>3, RecordsFromMap DEF RecordsAreEntries, Zeroed
<1>4. ASSUME NEW s \in Slot, NEW t \in Slot, f[s] = f[t] PROVE s = t
  <2> DEFINE x == order_map[s].key
  <2>1. x \in Nat /\ order_map[t].key = x
    BY <1>4 DEF TypeOK
  <2>2. PICK k \in Slot : /\ s = ProbeSlot(x, k)
                          /\ \A j \in 0 .. k - 1 : order_map[ProbeSlot(x, j)].key # x
    BY DEF KeysAreReachable
  <2>3. PICK l \in Slot : /\ t = ProbeSlot(x, l)
                          /\ \A j \in 0 .. l - 1 : order_map[ProbeSlot(x, j)].key # x
    BY <2>1 DEF KeysAreReachable
  <2>4. k \in Nat /\ l \in Nat
    BY SlotIsNat
  <2>5. order_map[ProbeSlot(x, k)].key = x /\ order_map[ProbeSlot(x, l)].key = x
    BY <2>1, <2>2, <2>3
  <2> HIDE DEF x
  <2>6. k \notin 0 .. l - 1 /\ l \notin 0 .. k - 1
    BY <2>2, <2>3, <2>5
  <2>7. k = l
    BY <2>4, <2>6
  <2>8. QED
    BY <2>2, <2>3, <2>7
<1> HIDE DEF Known
<1>5. f \in Surjection(Slot, Known) /\ f \in Injection(Slot, Known)
  <2>1. f \in [Slot -> Known]
    BY <1>2
  <2> HIDE DEF f
  <2>2. QED
    BY <1>3, <1>4, <2>1 DEF Surjection, Injection, IsInjective
<1>6. IsFiniteSet(Slot) /\ Cardinality(Slot) = MapCapacity
  <2>1. MapCapacity \in Nat \ {0}
    BY EMSAssumption DEF MapCapacity
  <2>2. QED
    BY <2>1, FS_Interval DEF Slot
<1> HIDE DEF f
<1>7. Cardinality(Known) = Cardinality(Slot)
  BY <1>5, <1>6, FS_Surjection
<1>8. QED
  BY <1>6, <1>7 DEF Known

(***************************************************************************)
(* For every size of the map and every set of ids: a lookup that does not  *)
(* return means that 2 * max_orders orders are in the map (EMS.cpp:51-62). *)
(***************************************************************************)
THEOREM LookupsReturn == Spec => []ProbesEndWhileRoom
<1>1. Init => KeysAreIds /\ StuckIsFull
  <2>1. Init => \A s \in Slot : Empty(order_map[s])
    BY DEF Init, Empty, Zeroed
  <2>2. QED
    BY <2>1 DEF Init, KeysAreIds, StuckIsFull
<1>2. TypeOK /\ KeysAreIds /\ StuckIsFull /\ [Next]_vars => (KeysAreIds /\ StuckIsFull)'
  BY StuckStep
<1>3. TypeOK /\ KeysAreReachable /\ KeysAreIds /\ StuckIsFull => ProbesEndWhileRoom
  BY FullMap DEF StuckIsFull, ProbesEndWhileRoom
<1>4. QED
  BY <1>1, <1>2, <1>3, EMSTypeCorrect, ProbePaths, PTL DEF Spec

\* A record that moves stays consistent.
LEMMA MovesConsistent ==
    ASSUME NEW r \in EMSOrder, NEW o, Moves(r, o), Consistent(r)
    PROVE  Consistent(o)
<1>1. CASE r.state = "NONE"
  BY <1>1 DEF Moves, Consistent
<1>2. CASE r.state = "PENDING_NEW" /\ o = [r EXCEPT !.state = "NEW"]
  BY <1>2 DEF Consistent, EMSOrder
<1>3. ASSUME NEW s \in {"CANCELED", "REJECTED"}, o = [r EXCEPT !.state = s]
      PROVE  Consistent(o)
  BY <1>3 DEF Consistent, EMSOrder
<1>4. ASSUME NEW q \in Quantity,
             o = [r EXCEPT !.executed_quantity = (r.executed_quantity + q) % Modulus,
                           !.state = IF (r.executed_quantity + q) % Modulus
                                            >= r.original_quantity
                                     THEN "FILLED" ELSE "PARTIALLY_FILLED"]
      PROVE  Consistent(o)
  <2> DEFINE executed == (r.executed_quantity + q) % Modulus
  <2>1. executed \in 0 .. Modulus - 1
    BY QuantityWraps DEF EMSOrder
  <2>2. o = [r EXCEPT !.executed_quantity = executed,
                      !.state = IF executed >= r.original_quantity
                                THEN "FILLED" ELSE "PARTIALLY_FILLED"]
    BY <1>4
  <2> HIDE DEF executed
  <2>3. /\ o.executed_quantity = executed /\ o.original_quantity = r.original_quantity
        /\ o.state = IF executed >= r.original_quantity
                     THEN "FILLED" ELSE "PARTIALLY_FILLED"
    BY <2>2 DEF EMSOrder
  <2>4. QED
    BY <2>1, <2>3, EMSAssumption DEF Consistent, EMSOrder
<1>5. QED
  BY <1>1, <1>2, <1>3, <1>4 DEF Moves

(***************************************************************************)
(* State and quantities of every order agree, after any reports in any     *)
(* order, with quantities of any width.                                    *)
(***************************************************************************)
THEOREM StatesMatch == Spec => []StateMatchesQuantity
<1>1. Init => StateMatchesQuantity
  BY Start DEF StateMatchesQuantity, Consistent, Zeroed
<1>2. ASSUME TypeOK, KeysAreReachable, StateMatchesQuantity, [Next]_vars
      PROVE  StateMatchesQuantity'
  <2>1. CASE Same
    BY <1>2, <2>1 DEF Same, StateMatchesQuantity, Consistent
  <2>2. CASE MovesOne
    <3>1. PICK id \in OrderId, o \in EMSOrder : Becomes(id, o) /\ Moves(Record(id), o)
      BY <2>2 DEF MovesOne
    <3>2. Consistent(o)
      BY <1>2, <3>1, RecordType, MovesConsistent DEF StateMatchesQuantity
    <3>3. ASSUME NEW x \in OrderId
          PROVE  Consistent(Record(x)')
      <4>1. CASE x = id
        BY <3>1, <3>2, <4>1 DEF Becomes
      <4>2. CASE x # id
        BY <1>2, <3>1, <4>2 DEF Becomes, StateMatchesQuantity
      <4>3. QED
        BY <4>1, <4>2
    <3>4. QED
      BY <3>3 DEF StateMatchesQuantity, Consistent
  <2>3. QED
    BY <1>2, <2>1, <2>2, Step
<1>3. QED
  BY <1>1, <1>2, EMSTypeCorrect, ProbePaths, PTL DEF Spec

(***************************************************************************)
(* No report revives an order that was canceled or rejected, or executes   *)
(* more of it.                                                             *)
(***************************************************************************)
THEOREM DeadOrders == Spec => DeadStaysDead
<1> DEFINE Stays(r, o) ==
        r.state \in {"CANCELED", "REJECTED"} =>
            /\ o.state \in {"CANCELED", "REJECTED"}
            /\ o.executed_quantity = r.executed_quantity
<1>1. ASSUME TypeOK, KeysAreReachable, [Next]_vars, NEW id \in OrderId
      PROVE  Stays(Record(id), Record(id)')
  <2>1. CASE Same
    BY <2>1 DEF Same
  <2>2. CASE MovesOne
    <3>1. PICK x \in OrderId, o \in EMSOrder : Becomes(x, o) /\ Moves(Record(x), o)
      BY <2>2 DEF MovesOne
    <3>2. Record(x) \in EMSOrder
      BY <1>1, RecordType
    <3>3. Stays(Record(x), o)
      BY <3>1, <3>2 DEF Moves, EMSOrder
    <3>4. QED
      BY <3>1, <3>3 DEF Becomes
  <2>3. QED
    BY <1>1, <2>1, <2>2, Step
<1>2. TypeOK /\ KeysAreReachable /\ [Next]_vars =>
          [\A id \in OrderId : Stays(Record(id), Record(id)')]_vars
  BY <1>1
<1>3. QED
  BY <1>2, EMSTypeCorrect, ProbePaths, PTL DEF Spec, DeadStaysDead

(***************************************************************************)
(* The hash map implements the table of independent records: every call is *)
(* a step of the table for its own id, or changes nothing.                 *)
(***************************************************************************)
THEOREM TableRefinement == Spec => ImplementsTable
<1> DEFINE orders == [id \in OrderId |-> Record(id)]
<1>1. Init => Table!Init
  BY Start DEF Table!Init, Table!Unknown, Zeroed
<1>2. ASSUME TypeOK, KeysAreReachable, [Next]_vars
      PROVE  [Table!Next]_orders
  <2>1. CASE Same
    BY <2>1 DEF Same
  <2>2. CASE MovesOne
    <3>1. PICK id \in OrderId, o \in EMSOrder : Becomes(id, o) /\ Moves(Record(id), o)
      BY <2>2 DEF MovesOne
    <3>2. orders' = [orders EXCEPT ![id] = o] /\ orders[id] = Record(id)
      BY <3>1 DEF Becomes
    <3>3. Record(id) \in EMSOrder
      BY <1>2, RecordType
    <3>4. ASSUME NEW q \in Quantity, Record(id).state = "NONE",
                 o = [state |-> "PENDING_NEW", original_quantity |-> q,
                      executed_quantity |-> 0]
          PROVE  Table!Next
      <4>1. Table!Send(id, q)
        BY <3>2, <3>4 DEF Table!Send
      <4>2. QED
        BY <4>1 DEF Table!Next
    <3>5. ASSUME Record(id).state = "PENDING_NEW", o = [Record(id) EXCEPT !.state = "NEW"]
          PROVE  Table!Next
      <4>1. Table!Accept(id)
        BY <3>2, <3>5 DEF Table!Accept
      <4>2. QED
        BY <4>1 DEF Table!Next
    <3>6. ASSUME NEW s \in {"CANCELED", "REJECTED"}, Record(id).state # "NONE",
                 o = [Record(id) EXCEPT !.state = s]
          PROVE  Table!Next
      <4>1. Table!Kill(id)
        BY <3>2, <3>6 DEF Table!Kill, Table!Dead
      <4>2. QED
        BY <4>1 DEF Table!Next
    <3>7. ASSUME NEW q \in Quantity,
                 Record(id).state \notin {"NONE", "CANCELED", "REJECTED"},
                 LET executed == (Record(id).executed_quantity + q) % Modulus
                 IN  o = [Record(id) EXCEPT
                             !.executed_quantity = executed,
                             !.state = IF executed >= Record(id).original_quantity
                                       THEN "FILLED" ELSE "PARTIALLY_FILLED"]
          PROVE  Table!Next
      <4>1. Table!Fill(id, q)
        BY <3>2, <3>3, <3>7 DEF Table!Fill, Table!Dead, EMSOrder
      <4>2. QED
        BY <4>1 DEF Table!Next
    <3>8. QED
      BY <3>1, <3>4, <3>5, <3>6, <3>7 DEF Moves
  <2>3. QED
    BY <1>2, <2>1, <2>2, Step
<1>3. QED
  BY <1>1, <1>2, EMSTypeCorrect, ProbePaths, PTL DEF Spec, ImplementsTable, Table!Spec
==============================================================================
