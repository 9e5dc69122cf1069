--------------------------- MODULE OrderBookProofs ---------------------------
(***************************************************************************)
(* Proofs about OrderBook, for every size of the pool and number of        *)
(* prices, every set of ids and quantities and every width of the volumes. *)
(***************************************************************************)
EXTENDS OrderBook, DataLemmas

------------------------------------------------------------------------------
(* Numbers and types *)

Link == Node \cup {Null}
NodeRecord == [id : Nat, price : 0 .. MaxPrice - 1, quantity : 0 .. Modulus - 1, side : Side,
               prev : Link, next : Link]
LevelRecord == [head : Link, tail : Link, total_volume : 0 .. Modulus - 1]

\* The constants, and that Null is no node.
LEMMA Sizes ==
    /\ MaxOrders \in Nat \ {0} /\ MaxPrice \in Nat \ {0} /\ Modulus \in Nat \ {0}
    /\ MapCapacity \in Nat \ {0} /\ Slot \subseteq Nat
    /\ Node \subseteq Nat /\ Null \notin Node /\ Tombstone \notin Node /\ Null # Tombstone
    /\ Tombstone \notin Link
  BY BookAssumption DEF MapCapacity, Slot, Node, Null, Tombstone, Link

\* The volumes stay within their width.
LEMMA Reduced == \A x \in Int : x % Modulus \in 0 .. Modulus - 1
<1>1. \A x \in Int, m \in Nat \ {0} : x % m \in 0 .. m - 1
  OBVIOUS
<1>2. QED
  BY <1>1, Sizes

\* Probes stay inside the map.
LEMMA ProbeInMap == \A id, k \in Nat : ProbeSlot(id, k) \in Slot
<1>1. \A x \in Nat, m \in Nat \ {0} : x % m \in 0 .. m - 1
  OBVIOUS
<1>2. QED
  BY <1>1, Sizes DEF ProbeSlot, Slot

\* TypeOK with the records named.
LEMMA TypeParts ==
    TypeOK <=> /\ order_pool \in [Node -> NodeRecord] /\ free_list_head \in Link
               /\ levels \in [Level -> LevelRecord]
               /\ order_map \in [Slot -> [key : Nat, value : Node \cup {Null, Tombstone}]]
               /\ probing_forever \in BOOLEAN
  BY Zenon DEF TypeOK, Link, NodeRecord, LevelRecord

\* The same of the next state.
LEMMA TypePartsNext ==
    TypeOK' <=> /\ order_pool' \in [Node -> NodeRecord] /\ free_list_head' \in Link
                /\ levels' \in [Level -> LevelRecord]
                /\ order_map' \in [Slot -> [key : Nat, value : Node \cup {Null, Tombstone}]]
                /\ probing_forever' \in BOOLEAN
  BY Zenon DEF TypeOK, Link, NodeRecord, LevelRecord

\* The level of an order is one.
LEMMA LevelIsLevel == \A o \in NodeRecord : LevelOf(o) \in Level
  BY DEF LevelOf, Level, NodeRecord

\* Linking and unlinking, and their types.
LEMMA LinkTypes ==
    ASSUME NEW pool \in [Node -> NodeRecord], NEW level \in LevelRecord, NEW n \in Node
    PROVE  /\ insert_order_pool(pool, level, n) \in [Node -> NodeRecord]
           /\ insert_order_level(pool, level, n) \in LevelRecord
           /\ remove_order_pool(pool, n) \in [Node -> NodeRecord]
           /\ remove_order_level(pool, level, n) \in LevelRecord
<1>1. /\ level.head \in Link /\ level.tail \in Link /\ level.total_volume \in Int
      /\ pool[n].next \in Link /\ pool[n].prev \in Link /\ pool[n].quantity \in Int
      /\ n \in Link /\ Null \in Link
  BY Sizes DEF LevelRecord, NodeRecord, Link
<1>2. /\ (level.total_volume + pool[n].quantity) % Modulus \in 0 .. Modulus - 1
      /\ (level.total_volume - pool[n].quantity) % Modulus \in 0 .. Modulus - 1
  BY <1>1, Reduced
<1>3. insert_order_level(pool, level, n) \in LevelRecord /\ remove_order_level(pool, level, n) \in LevelRecord
  BY <1>1, <1>2 DEF insert_order_level, remove_order_level, LevelRecord
<1>4. \A m \in Node, p \in Link, q \in Link :
         /\ [pool[m] EXCEPT !.prev = p, !.next = q] \in NodeRecord
         /\ [pool[m] EXCEPT !.next = q, !.prev = p] \in NodeRecord
         /\ [pool[m] EXCEPT !.next = q] \in NodeRecord
  BY DEF NodeRecord
<1>5. insert_order_pool(pool, level, n) \in [Node -> NodeRecord]
  BY <1>1, <1>4 DEF insert_order_pool
<1>6. ASSUME NEW m \in Node
      PROVE  remove_order_pool(pool, n)[m] \in NodeRecord
  BY <1>1 DEF remove_order_pool, NodeRecord
<1>7. remove_order_pool(pool, n) \in [Node -> NodeRecord]
  BY <1>6 DEF remove_order_pool
<1>8. QED
  BY <1>3, <1>5, <1>7

------------------------------------------------------------------------------
(* The map *)

\* Where a lookup ends: at the first stop.
LEMMA FindEnds ==
    ASSUME TypeOK, NEW id \in Nat, FindStops(id) # {}
    PROVE  /\ Min(FindStops(id)) \in Slot /\ Min(FindStops(id)) \in FindStops(id)
           /\ \A j \in Slot : j < Min(FindStops(id)) => j \notin FindStops(id)
           /\ ProbeSlot(id, Min(FindStops(id))) \in Slot
           /\ map_find(id) \in Link
<1>1. FindStops(id) \in SUBSET Nat /\ FindStops(id) \subseteq Slot
  BY Sizes DEF FindStops
<1>2. Min(FindStops(id)) \in FindStops(id) /\ \A x \in FindStops(id) : Min(FindStops(id)) <= x
  BY <1>1, MinIsLeast
<1> DEFINE f == Min(FindStops(id))
<1>3. f \in FindStops(id) /\ f \in Slot /\ f \in Nat
  BY <1>1, <1>2
<1> HIDE DEF f
<1>4. \A j \in Slot : j < f => j \notin FindStops(id)
  BY <1>1, <1>2, <1>3 DEF f
<1>5. ProbeSlot(id, f) \in Slot
  BY <1>3, ProbeInMap
<1>6. order_map[ProbeSlot(id, f)].value \in Link
  <2>1. order_map[ProbeSlot(id, f)].value \in Node \cup {Null, Tombstone}
    BY <1>5, TypeParts
  <2>2. order_map[ProbeSlot(id, f)].value # Tombstone
    BY <1>3, Sizes DEF FindStops
  <2>3. QED
    BY <2>1, <2>2 DEF Link
<1>7. QED
  BY <1>3, <1>4, <1>5, <1>6 DEF f, map_find

\* ... and where an insertion does.
LEMMA InsertEnds ==
    ASSUME NEW id \in Nat, InsertStops(id) # {}
    PROVE  /\ Min(InsertStops(id)) \in Slot /\ Min(InsertStops(id)) \in InsertStops(id)
           /\ \A j \in Slot : j < Min(InsertStops(id)) => j \notin InsertStops(id)
           /\ ProbeSlot(id, Min(InsertStops(id))) \in Slot
<1>1. InsertStops(id) \in SUBSET Nat /\ InsertStops(id) \subseteq Slot
  BY Sizes DEF InsertStops
<1>2. Min(InsertStops(id)) \in InsertStops(id) /\ \A x \in InsertStops(id) : Min(InsertStops(id)) <= x
  BY <1>1, MinIsLeast
<1> DEFINE f == Min(InsertStops(id))
<1>3. f \in InsertStops(id) /\ f \in Slot /\ f \in Nat
  BY <1>1, <1>2
<1> HIDE DEF f
<1>4. \A j \in Slot : j < f => j \notin InsertStops(id)
  BY <1>1, <1>2, <1>3 DEF f
<1>5. ProbeSlot(id, f) \in Slot
  BY <1>3, ProbeInMap
<1>6. QED
  BY <1>3, <1>4, <1>5 DEF f

------------------------------------------------------------------------------
(* Types *)

\* The book starts well typed.
LEMMA TypeStart == Init => TypeOK
<1> SUFFICES ASSUME Init PROVE TypeOK
  OBVIOUS
<1>1. \A n \in Node : n - 1 \in Link
  BY Sizes DEF Node, Link, Null
<1>2. order_pool \in [Node -> NodeRecord]
  BY <1>1, Sizes DEF Init, NodeRecord, Side, Link
<1>3. levels \in [Level -> LevelRecord]
  BY Sizes DEF Init, LevelRecord, Link
<1>4. free_list_head \in Link
  BY Sizes DEF Init, Link, Node
<1>5. order_map \in [Slot -> [key : Nat, value : Node \cup {Null, Tombstone}]]
  BY DEF Init
<1>6. QED
  BY <1>2, <1>3, <1>4, <1>5, TypeParts DEF Init

\* The order that a call of cancel or modify finds.
LEMMA FoundTypes ==
    ASSUME TypeOK, NEW id \in OrderId, FindStops(id) # {}, map_find(id) # Null
    PROVE  /\ id \in Nat /\ map_find(id) \in Node
           /\ order_pool[map_find(id)] \in NodeRecord /\ LevelOf(order_pool[map_find(id)]) \in Level
           /\ levels[LevelOf(order_pool[map_find(id)])] \in LevelRecord
<1>1. id \in Nat
  BY BookAssumption
<1>2. map_find(id) \in Node
  BY <1>1, FindEnds DEF Link
<1>3. QED
  BY <1>1, <1>2, TypeParts, LevelIsLevel

\* The map after a call.
LEMMA MapTypes ==
    ASSUME TypeOK, NEW id \in Nat
    PROVE  /\ \A n \in Node : map_insert(id, n) \in [Slot -> [key : Nat, value : Node \cup {Null, Tombstone}]]
           /\ FindStops(id) # {} =>
                 map_erase(id) \in [Slot -> [key : Nat, value : Node \cup {Null, Tombstone}]]
<1>1. order_map \in [Slot -> [key : Nat, value : Node \cup {Null, Tombstone}]]
  BY TypeParts
<1>2. \A n \in Node : map_insert(id, n) \in [Slot -> [key : Nat, value : Node \cup {Null, Tombstone}]]
  BY <1>1, InsertEnds DEF map_insert
<1>3. ASSUME FindStops(id) # {}
      PROVE  map_erase(id) \in [Slot -> [key : Nat, value : Node \cup {Null, Tombstone}]]
  BY <1>1, <1>3, FindEnds DEF map_erase
<1>4. QED
  BY <1>2, <1>3

\* The pool with an order's data stored in a node.
Stored(id, side, price, quantity, n) ==
    [order_pool EXCEPT ![n] = [@ EXCEPT !.id = id, !.side = side, !.price = price, !.quantity = quantity]]

\* The pool with a new order in node n, before it is linked.
LEMMA StoredTypes ==
    ASSUME TypeOK, NEW id \in OrderId, NEW side \in Side, NEW price \in Price, NEW quantity \in Quantity,
           price < MaxPrice, NEW n \in Node
    PROVE  /\ Stored(id, side, price, quantity, n) \in [Node -> NodeRecord]
           /\ \A m \in Node : m # n => Stored(id, side, price, quantity, n)[m] = order_pool[m]
           /\ Stored(id, side, price, quantity, n)[n].id = id
           /\ Stored(id, side, price, quantity, n)[n].quantity = quantity
           /\ LevelOf(Stored(id, side, price, quantity, n)[n]) = <<side, price>>
           /\ <<side, price>> \in Level
           /\ Stored(id, side, price, quantity, n)[n].next = order_pool[n].next
<1>1. order_pool \in [Node -> NodeRecord] /\ order_pool[n] \in NodeRecord
  BY TypeParts
<1>2. id \in Nat /\ price \in 0 .. MaxPrice - 1 /\ quantity \in 0 .. Modulus - 1
  BY BookAssumption
<1>3. \A o \in NodeRecord :
        LET s == [o EXCEPT !.id = id, !.side = side, !.price = price, !.quantity = quantity]
        IN  s \in NodeRecord /\ s.id = id /\ s.side = side /\ s.price = price /\ s.quantity = quantity /\ s.next = o.next
  BY <1>2 DEF NodeRecord
<1>4. QED
  BY <1>1, <1>2, <1>3 DEF Stored, LevelOf, Level

\* add keeps the types.
LEMMA AddTypes ==
    ASSUME TypeOK, NEW id \in OrderId, NEW side \in Side, NEW price \in Price, NEW quantity \in Quantity,
           Add(id, side, price, quantity)
    PROVE  TypeOK'
<1> DEFINE n == free_list_head
           l == <<side, price>>
           pool == Stored(id, side, price, quantity, n)
<1>1. /\ n \in Node /\ price < MaxPrice /\ id \in Nat
  BY TypeParts, BookAssumption DEF Add, Link
<1>2. pool \in [Node -> NodeRecord] /\ l \in Level /\ levels[l] \in LevelRecord
  BY <1>1, StoredTypes, TypeParts
<1>3. /\ free_list_head' = allocate_order
      /\ order_pool' = insert_order_pool(pool, levels[l], n)
      /\ levels' = [levels EXCEPT ![l] = insert_order_level(pool, levels[l], n)]
      /\ order_map' = map_insert(id, n)
      /\ probing_forever' = (InsertStops(id) = {})
  BY DEF Add, Stored
<1> HIDE DEF pool, l, n
<1>4. order_pool' \in [Node -> NodeRecord] /\ levels' \in [Level -> LevelRecord]
  BY <1>1, <1>2, <1>3, LinkTypes, TypeParts
<1>5. free_list_head' \in Link
  BY <1>1, <1>3, TypeParts DEF allocate_order, NodeRecord, n
<1>6. order_map' \in [Slot -> [key : Nat, value : Node \cup {Null, Tombstone}]]
  BY <1>1, <1>3, MapTypes
<1>7. probing_forever' \in BOOLEAN
  BY <1>3, Zenon
<1>8. QED
  BY <1>4, <1>5, <1>6, <1>7, TypePartsNext

\* cancel keeps the types.
LEMMA CancelTypes ==
    ASSUME TypeOK, NEW id \in OrderId, Cancel(id)
    PROVE  TypeOK'
<1> DEFINE n == map_find(id)
           l == LevelOf(order_pool[n])
<1>1. /\ FindStops(id) # {} /\ n # Null
      /\ order_pool' = deallocate_order(remove_order_pool(order_pool, n), n)
      /\ levels' = [levels EXCEPT ![l] = remove_order_level(order_pool, levels[l], n)]
      /\ order_map' = map_erase(id) /\ free_list_head' = n
      /\ UNCHANGED probing_forever
  BY DEF Cancel
<1>2. id \in Nat /\ n \in Node /\ l \in Level /\ levels[l] \in LevelRecord
  BY <1>1, FoundTypes
<1> HIDE DEF n, l
<1>3. remove_order_pool(order_pool, n) \in [Node -> NodeRecord] /\ levels' \in [Level -> LevelRecord]
  BY <1>1, <1>2, LinkTypes, TypeParts
<1>4. order_pool' \in [Node -> NodeRecord]
  <2>1. free_list_head \in Link
    BY TypeParts
  <2>2. \A o \in NodeRecord : [o EXCEPT !.next = free_list_head] \in NodeRecord
    BY <2>1 DEF NodeRecord
  <2>3. QED
    BY <1>1, <1>2, <1>3, <2>2 DEF deallocate_order
<1>5. order_map' \in [Slot -> [key : Nat, value : Node \cup {Null, Tombstone}]]
  BY <1>1, <1>2, MapTypes
<1>6. QED
  BY <1>1, <1>2, <1>3, <1>4, <1>5, TypeParts, TypePartsNext DEF Link

\* Storing a quantity in a node.
LEMMA QuantityStored ==
    ASSUME NEW pool \in [Node -> NodeRecord], NEW n \in Node, NEW quantity \in Quantity
    PROVE  /\ [pool EXCEPT ![n].quantity = quantity] \in [Node -> NodeRecord]
           /\ \A m \in Node : m # n => [pool EXCEPT ![n].quantity = quantity][m] = pool[m]
           /\ [pool EXCEPT ![n].quantity = quantity][n] = [pool[n] EXCEPT !.quantity = quantity]
           /\ [pool[n] EXCEPT !.quantity = quantity].quantity = quantity
           /\ LevelOf([pool[n] EXCEPT !.quantity = quantity]) = LevelOf(pool[n])
           /\ [pool[n] EXCEPT !.quantity = quantity].id = pool[n].id
           /\ [pool[n] EXCEPT !.quantity = quantity].next = pool[n].next
           /\ [pool[n] EXCEPT !.quantity = quantity].prev = pool[n].prev
<1>1. quantity \in 0 .. Modulus - 1
  BY BookAssumption
<1>2. QED
  BY <1>1 DEF NodeRecord, LevelOf

\* modify keeps the types.
LEMMA ModifyTypes ==
    ASSUME TypeOK, NEW id \in OrderId, NEW quantity \in Quantity,
           ModifyUp(id, quantity) \/ ModifyDown(id, quantity)
    PROVE  TypeOK'
<1> DEFINE n == map_find(id)
           l == LevelOf(order_pool[n])
<1>1. /\ FindStops(id) # {} /\ n # Null
      /\ UNCHANGED <<free_list_head, order_map, probing_forever>>
  BY DEF ModifyUp, ModifyDown
<1>2. n \in Node /\ l \in Level /\ levels[l] \in LevelRecord /\ order_pool[n] \in NodeRecord
  BY <1>1, FoundTypes
<1>3. CASE ModifyUp(id, quantity)
  <2> DEFINE level == remove_order_level(order_pool, levels[l], n)
             pool == [remove_order_pool(order_pool, n) EXCEPT ![n].quantity = quantity]
  <2>1. /\ order_pool' = insert_order_pool(pool, level, n)
        /\ levels' = [levels EXCEPT ![l] = insert_order_level(pool, level, n)]
    BY <1>3 DEF ModifyUp
  <2> HIDE DEF n, l
  <2>2. pool \in [Node -> NodeRecord] /\ level \in LevelRecord
    BY <1>2, LinkTypes, QuantityStored, TypeParts
  <2> HIDE DEF pool, level
  <2>3. order_pool' \in [Node -> NodeRecord] /\ levels' \in [Level -> LevelRecord]
    BY <1>2, <2>1, <2>2, LinkTypes, TypeParts
  <2>4. QED
    BY <1>1, <2>3, TypeParts, TypePartsNext
<1>4. CASE ModifyDown(id, quantity)
  <2> DEFINE less == order_pool[n].quantity - quantity
  <2>1. /\ order_pool' = [order_pool EXCEPT ![n].quantity = quantity]
        /\ levels' = [levels EXCEPT ![l].total_volume = (levels[l].total_volume - less) % Modulus]
    BY <1>4 DEF ModifyDown
  <2>2. less \in Int /\ levels[l].total_volume \in Int
    BY <1>2, BookAssumption DEF NodeRecord, LevelRecord
  <2> HIDE DEF n, l, less
  <2>3. (levels[l].total_volume - less) % Modulus \in 0 .. Modulus - 1
    BY <2>2, Reduced
  <2>4. levels' \in [Level -> LevelRecord]
    BY <1>2, <2>1, <2>3, TypeParts DEF LevelRecord
  <2>5. order_pool' \in [Node -> NodeRecord]
    BY <1>2, <2>1, QuantityStored, TypeParts
  <2>6. QED
    BY <1>1, <2>4, <2>5, TypeParts, TypePartsNext
<1>5. QED
  BY <1>3, <1>4

\* The calls that change nothing but the flag.
Quiet == UNCHANGED <<order_pool, free_list_head, levels, order_map>> /\ probing_forever' \in BOOLEAN

\* A step is one of these.
LEMMA Steps ==
    ASSUME TypeOK, [Next]_vars
    PROVE  \/ Quiet
           \/ \E id \in OrderId, side \in Side, price \in Price, quantity \in Quantity : Add(id, side, price, quantity)
           \/ \E id \in OrderId : Cancel(id)
           \/ \E id \in OrderId, quantity \in Quantity : ModifyUp(id, quantity)
           \/ \E id \in OrderId, quantity \in Quantity : ModifyDown(id, quantity)
<1>1. CASE UNCHANGED vars \/ Spin
  BY <1>1, TypeParts, Zenon DEF Quiet, vars, Spin
<1>2. ASSUME NEW id \in OrderId, ProbeForever(id) \/ NotFound(id) \/ \E p \in Price : AddRejected(id, p)
      PROVE  Quiet
  BY <1>2, TypeParts, Zenon DEF Quiet, vars, ProbeForever, NotFound, AddRejected
<1>3. QED
  BY <1>1, <1>2, Zenon DEF Next

\* Every step keeps the types.
LEMMA TypeStep == TypeOK /\ [Next]_vars => TypeOK'
<1> SUFFICES ASSUME TypeOK, [Next]_vars PROVE TypeOK'
  OBVIOUS
<1>1. CASE Quiet
  BY <1>1, TypeParts, TypePartsNext DEF Quiet
<1>2. QED
  BY <1>1, Steps, AddTypes, CancelTypes, ModifyTypes

\* No link, key, volume or quantity leaves its range, whatever the calls
\* (OrderBook.cpp:179-244).
THEOREM BookTypeCorrect == Spec => []TypeOK
<1>1. QED
  BY TypeStart, TypeStep, PTL DEF Spec
------------------------------------------------------------------------------
(* Lists of nodes *)

\* The node at a place of a list, Null before and behind it.
At(q, i) == IF i \in 1 .. Len(q) THEN q[i] ELSE Null

Nodes(q) == {q[i] : i \in 1 .. Len(q)}

Injective(q) == \A i, j \in 1 .. Len(q) : q[i] = q[j] => i = j

\* What At returns.
LEMMA AtPlace ==
    ASSUME NEW q \in Seq(Node)
    PROVE  /\ Len(q) \in Nat
           /\ \A i \in 1 .. Len(q) : At(q, i) = q[i] /\ At(q, i) \in Nodes(q) /\ At(q, i) # Null /\ At(q, i) \in Node
           /\ \A i \in Int : At(q, i) # Null => i \in 1 .. Len(q)
           /\ \A i \in Int : At(q, i) \in Nodes(q) \cup {Null} /\ At(q, i) \in Link
           /\ Nodes(q) \subseteq Node
           /\ Injective(q) => \A i \in 1 .. Len(q), j \in Int : At(q, i) = At(q, j) => i = j
<1>1. Len(q) \in Nat /\ \A i \in 1 .. Len(q) : q[i] \in Node
  OBVIOUS
<1>2. \A i \in 1 .. Len(q) : At(q, i) = q[i] /\ At(q, i) \in Nodes(q) /\ At(q, i) # Null /\ At(q, i) \in Node
  BY <1>1, Sizes DEF At, Nodes
<1>3. \A i \in Int : At(q, i) # Null => i \in 1 .. Len(q)
  BY DEF At
<1>4. \A i \in Int : At(q, i) \in Nodes(q) \cup {Null} /\ At(q, i) \in Link
  BY <1>2, <1>3 DEF Link
<1>5. Nodes(q) \subseteq Node
  BY <1>1 DEF Nodes
<1>6. ASSUME Injective(q), NEW i \in 1 .. Len(q), NEW j \in Int, At(q, i) = At(q, j)
      PROVE  i = j
  <2>1. j \in 1 .. Len(q)
    BY <1>2, <1>3, <1>6
  <2>2. q[i] = q[j]
    BY <1>2, <1>6, <2>1
  <2>3. QED
    BY <1>6, <2>1, <2>2 DEF Injective
<1>7. QED
  BY <1>1, <1>2, <1>3, <1>4, <1>5, <1>6

\* A node is appended.
LEMMA AppendNode ==
    ASSUME NEW q \in Seq(Node), NEW n \in Node
    PROVE  /\ Append(q, n) \in Seq(Node) /\ Len(Append(q, n)) = Len(q) + 1
           /\ \A i \in Int : At(Append(q, n), i) = IF i = Len(q) + 1 THEN n ELSE At(q, i)
           /\ Nodes(Append(q, n)) = Nodes(q) \cup {n}
           /\ Injective(q) /\ n \notin Nodes(q) => Injective(Append(q, n))
<1> DEFINE a == Append(q, n)
           k == Len(q)
<1>1. /\ a \in Seq(Node) /\ k \in Nat /\ Len(a) = k + 1
      /\ a[k + 1] = n /\ \A i \in 1 .. k : a[i] = q[i]
  OBVIOUS
<1> HIDE DEF a
<1>2. \A i \in Int : At(a, i) = IF i = k + 1 THEN n ELSE At(q, i)
  BY <1>1 DEF At
<1>3. \A i \in 1 .. k + 1 : i \in 1 .. k \/ i = k + 1
  BY <1>1
<1>4. k + 1 \in 1 .. k + 1 /\ \A i \in 1 .. k : i \in 1 .. k + 1
  BY <1>1
<1>5. Nodes(a) = Nodes(q) \cup {n}
  BY <1>1, <1>3, <1>4 DEF Nodes
<1>6. ASSUME Injective(q), n \notin Nodes(q)
      PROVE  Injective(a)
  <2>1. \A i \in 1 .. k : a[i] # n
    BY <1>1, <1>6 DEF Nodes
  <2>2. QED
    BY <1>1, <1>3, <1>6, <2>1 DEF Injective
<1>7. QED
  BY <1>1, <1>2, <1>5, <1>6 DEF a

\* A node is taken out.
LEMMA WithoutNode ==
    ASSUME NEW q \in Seq(Node), NEW i \in 1 .. Len(q), Injective(q)
    PROVE  /\ PriceTime!Without(q, i) \in Seq(Node) /\ Len(PriceTime!Without(q, i)) = Len(q) - 1
           /\ \A k \in Int : k < i => At(PriceTime!Without(q, i), k) = At(q, k)
           /\ \A k \in Int : k >= i => At(PriceTime!Without(q, i), k) = At(q, k + 1)
           /\ Nodes(PriceTime!Without(q, i)) = Nodes(q) \ {q[i]}
           /\ Injective(PriceTime!Without(q, i))
<1> DEFINE w == PriceTime!Without(q, i)
           n == Len(q)
<1>1. /\ w \in Seq(Node) /\ Len(w) = n - 1
      /\ \A k \in 1 .. n - 1 : w[k] = IF k < i THEN q[k] ELSE q[k + 1]
  <2>1. w = CutAt(q, i)
    BY DEF PriceTime!Without, CutAt
  <2>2. QED
    BY <2>1, CutOut
<1>2. n \in Nat /\ i \in 1 .. n
  OBVIOUS
<1> HIDE DEF w
<1>3. /\ \A k \in Int : k < i => At(w, k) = At(q, k)
      /\ \A k \in Int : k >= i => At(w, k) = At(q, k + 1)
  BY <1>1, <1>2 DEF At
<1> HIDE DEF n
\* Where the k-th node was.
<1> DEFINE from(k) == IF k < i THEN k ELSE k + 1
<1>4. \A k \in 1 .. n - 1 : from(k) \in 1 .. n /\ from(k) # i /\ w[k] = q[from(k)]
  BY <1>1, <1>2
<1>5. \A k, m \in 1 .. n - 1 : from(k) = from(m) => k = m
  BY <1>2
<1>6. \A k \in 1 .. n : k # i => \E m \in 1 .. n - 1 : from(m) = k
  <2> TAKE k \in 1 .. n
  <2> HAVE k # i
  <2>1. CASE k < i
    BY <1>2, <2>1
  <2>2. CASE k > i
    <3>1. k - 1 \in 1 .. n - 1 /\ from(k - 1) = k
      BY <1>2, <2>2
    <3>2. QED
      BY <3>1
  <2>3. QED
    BY <1>2, <2>1, <2>2
<1> HIDE DEF from
<1>7. Injective(w)
  BY <1>1, <1>2, <1>4, <1>5 DEF Injective, n
<1>8. ASSUME NEW x \in Nodes(w)
      PROVE  x \in Nodes(q) \ {q[i]}
  <2>1. PICK k \in 1 .. n - 1 : x = w[k]
    BY <1>1, <1>8 DEF Nodes
  <2>2. x = q[from(k)] /\ from(k) \in 1 .. n /\ from(k) # i
    BY <1>4, <2>1
  <2>3. q[from(k)] # q[i]
    BY <1>2, <2>2 DEF Injective, n
  <2>4. QED
    BY <2>2, <2>3 DEF Nodes, n
<1>9. ASSUME NEW x \in Nodes(q), x # q[i]
      PROVE  x \in Nodes(w)
  <2>1. PICK k \in 1 .. n : x = q[k]
    BY <1>9 DEF Nodes, n
  <2>2. PICK m \in 1 .. n - 1 : from(m) = k
    BY <1>6, <1>9, <2>1
  <2>3. QED
    BY <1>1, <1>4, <2>1, <2>2 DEF Nodes
<1>10. QED
  BY <1>1, <1>3, <1>7, <1>8, <1>9 DEF w, n

\* The first node is taken.
LEMMA TailNode ==
    ASSUME NEW q \in Seq(Node), Injective(q), At(q, 1) # Null
    PROVE  /\ Tail(q) \in Seq(Node) /\ Len(Tail(q)) = Len(q) - 1
           /\ \A k \in Nat \ {0} : At(Tail(q), k) = At(q, k + 1)
           /\ Nodes(Tail(q)) = Nodes(q) \ {At(q, 1)} /\ At(q, 1) \in Nodes(q)
           /\ Injective(Tail(q))
<1> DEFINE t == Tail(q)
           n == Len(q)
<1>1. n \in Nat /\ n >= 1 /\ q # << >>
  BY DEF At
<1>2. /\ t \in Seq(Node) /\ Len(t) = n - 1 /\ \A k \in 1 .. n - 1 : t[k] = q[k + 1]
  BY <1>1
<1> HIDE DEF t
<1>3. \A k \in Nat \ {0} : At(t, k) = At(q, k + 1)
  BY <1>1, <1>2 DEF At
<1> HIDE DEF n
<1>4. At(q, 1) = q[1] /\ 1 \in 1 .. n /\ \A k \in 1 .. n - 1 : k + 1 \in 1 .. n /\ k + 1 # 1
  BY <1>1 DEF At, n
<1>5. Injective(t)
  <2> SUFFICES ASSUME NEW i \in 1 .. n - 1, NEW j \in 1 .. n - 1, t[i] = t[j] PROVE i = j
    BY <1>2 DEF Injective
  <2>1. i + 1 = j + 1
    BY <1>2, <1>4 DEF Injective, n
  <2>2. QED
    BY <2>1
<1>6. ASSUME NEW x \in Nodes(t)
      PROVE  x \in Nodes(q) \ {q[1]}
  <2>1. PICK k \in 1 .. n - 1 : x = q[k + 1]
    BY <1>2 DEF Nodes
  <2>2. QED
    BY <1>4, <2>1 DEF Injective, Nodes, n
<1>7. ASSUME NEW x \in Nodes(q), x # q[1]
      PROVE  x \in Nodes(t)
  <2>1. PICK k \in 1 .. n : x = q[k]
    BY <1>7 DEF Nodes, n
  <2>2. k # 1
    BY <1>7, <2>1
  <2>3. k - 1 \in 1 .. n - 1 /\ (k - 1) + 1 = k
    BY <1>1, <2>1, <2>2
  <2>4. t[k - 1] = x
    BY <1>2, <2>1, <2>3
  <2>5. QED
    BY <1>2, <2>3, <2>4 DEF Nodes
<1>8. q[1] \in Nodes(q)
  BY <1>4 DEF Nodes, n
<1>9. QED
  BY <1>2, <1>3, <1>4, <1>5, <1>6, <1>7, <1>8 DEF t, n

\* A node is put in front.
LEMMA FrontNode ==
    ASSUME NEW q \in Seq(Node), NEW n \in Node, n \notin Nodes(q), Injective(q)
    PROVE  /\ <<n>> \o q \in Seq(Node) /\ Len(<<n>> \o q) = Len(q) + 1
           /\ \A k \in Int : At(<<n>> \o q, k) = IF k = 1 THEN n ELSE At(q, k - 1)
           /\ Nodes(<<n>> \o q) = Nodes(q) \cup {n}
           /\ Injective(<<n>> \o q)
<1> DEFINE c == <<n>> \o q
           m == Len(q)
<1>1. /\ c \in Seq(Node) /\ m \in Nat /\ Len(c) = m + 1 /\ c[1] = n
      /\ \A k \in 2 .. m + 1 : c[k] = q[k - 1]
  OBVIOUS
<1> HIDE DEF c
<1>2. \A k \in Int : At(c, k) = IF k = 1 THEN n ELSE At(q, k - 1)
  BY <1>1 DEF At
<1> HIDE DEF m
<1>3. \A k \in 1 .. m + 1 : k = 1 \/ (k \in 2 .. m + 1 /\ k - 1 \in 1 .. m /\ c[k] = q[k - 1])
  BY <1>1
<1>4. \A k \in 1 .. m + 1 : k # 1 => c[k] # n
  BY <1>3 DEF Nodes, m
<1>5. Injective(c)
  <2> SUFFICES ASSUME NEW i \in 1 .. m + 1, NEW j \in 1 .. m + 1, c[i] = c[j] PROVE i = j
    BY <1>1 DEF Injective
  <2>1. CASE i = 1 \/ j = 1
    BY <1>1, <1>4, <2>1
  <2>2. CASE i # 1 /\ j # 1
    <3>1. i - 1 = j - 1
      BY <1>3, <2>2 DEF Injective, m
    <3>2. QED
      BY <3>1
  <2>3. QED
    BY <2>1, <2>2
<1>6. ASSUME NEW x \in Nodes(c)
      PROVE  x \in Nodes(q) \cup {n}
  <2>1. PICK k \in 1 .. m + 1 : x = c[k]
    BY <1>1 DEF Nodes
  <2>2. QED
    BY <1>1, <1>3, <2>1 DEF Nodes, m
<1>7. ASSUME NEW x \in Nodes(q)
      PROVE  x \in Nodes(c)
  <2>1. PICK k \in 1 .. m : x = q[k]
    BY DEF Nodes, m
  <2>2. k + 1 \in 1 .. m + 1 /\ k + 1 \in 2 .. m + 1 /\ (k + 1) - 1 = k
    BY <1>1
  <2>3. c[k + 1] = x
    BY <1>1, <2>1, <2>2
  <2>4. QED
    BY <1>1, <2>2, <2>3 DEF Nodes
<1>8. n \in Nodes(c)
  <2>1. 1 \in 1 .. m + 1
    BY <1>1
  <2>2. QED
    BY <1>1, <2>1 DEF Nodes
<1>9. QED
  BY <1>1, <1>2, <1>5, <1>6, <1>7, <1>8 DEF c, m

------------------------------------------------------------------------------
(* Volumes *)

\* Reducing a part of a sum.
LEMMA ModularSum ==
    ASSUME NEW m \in Nat \ {0}, NEW s \in Int, NEW x \in Int
    PROVE  ((s % m) + x) % m = (s + x) % m
<1>1. \A y \in Int : y = m * (y \div m) + (y % m) /\ y \div m \in Int /\ y % m \in 0 .. m - 1
  BY Z3
<1>2. ASSUME NEW y \in Int, NEW k \in Int, NEW r \in 0 .. m - 1, y = m * k + r
      PROVE  y % m = r
  BY <1>2, Z3
<1> DEFINE r == s % m
           k == s \div m
           t == (r + x) % m
           h == (r + x) \div m
<1>3. r \in 0 .. m - 1 /\ r \in Int /\ k \in Int /\ s = m * k + r
  BY <1>1
<1> HIDE DEF r, k
<1>4. r + x \in Int
  BY <1>3
<1>5. t \in 0 .. m - 1 /\ h \in Int /\ r + x = m * h + t
  BY <1>1, <1>4
<1> HIDE DEF t, h
<1>6. s + x = m * (k + h) + t
  <2>1. m * (k + h) = m * k + m * h
    BY <1>3, <1>5, Z3
  <2>2. m * k \in Int /\ m * h \in Int
    BY <1>3, <1>5, Z3
  <2> DEFINE a == m * k
             b == m * h
  <2>3. s = a + r /\ r + x = b + t /\ a \in Int /\ b \in Int
    BY <1>3, <1>5, <2>2
  <2> HIDE DEF a, b
  <2>4. s + x = (a + b) + t
    BY <1>3, <1>5, <2>3
  <2>5. QED
    BY <2>1, <2>4 DEF a, b
<1>7. (s + x) % m = t
  <2>1. s + x \in Int /\ k + h \in Int
    BY <1>3, <1>5
  <2>2. QED
    BY <1>2, <1>5, <1>6, <2>1
<1>8. QED
  BY <1>7 DEF t, r

Quantities(pool) == [n \in Node |-> pool[n].quantity]

\* The volume that the level of the nodes in S should have.
Volume(pool, S) == SumFunctionOnSet(Quantities(pool), S) % Modulus

\* The pool is finite.
LEMMA NodesFinite ==
    /\ IsFiniteSet(Node) /\ Cardinality(Node) = MaxOrders
    /\ \A S \in SUBSET Node : IsFiniteSet(S)
<1>1. IsFiniteSet(Node) /\ Cardinality(Node) = MaxOrders
  BY Sizes, FS_Interval DEF Node
<1>2. QED
  BY <1>1, FS_Subset

\* A node comes in.
LEMMA VolumeIn ==
    ASSUME NEW pool \in [Node -> NodeRecord], NEW S \in SUBSET Node, NEW n \in Node, n \notin S
    PROVE  (Volume(pool, S) + pool[n].quantity) % Modulus = Volume(pool, S \cup {n})
<1> DEFINE f == Quantities(pool)
           s == SumFunctionOnSet(f, S)
           x == pool[n].quantity
<1>1. \A m \in Node : f[m] = pool[m].quantity /\ f[m] \in Int
  BY Sizes DEF Quantities, NodeRecord
<1>2. x \in Int /\ f[n] = x
  BY <1>1
<1>3. IsFiniteSet(S) /\ IsFiniteSet(S \cup {n}) /\ (S \cup {n}) \ {n} = S /\ n \in S \cup {n}
  BY NodesFinite
<1> HIDE DEF f
<1>4. s \in Int
  BY <1>1, <1>3, SumIsInt
<1>5. SumFunctionOnSet(f, S \cup {n}) = f[n] + s
  <2>1. \A m \in S \cup {n} : f[m] \in Int
    BY <1>1
  <2>2. SumFunctionOnSet(f, S \cup {n}) = f[n] + SumFunctionOnSet(f, (S \cup {n}) \ {n})
    BY <1>3, <2>1, SumTakeOut
  <2>3. QED
    BY <1>3, <2>2
<1> HIDE DEF s, x
<1>6. SumFunctionOnSet(f, S \cup {n}) = s + x
  BY <1>2, <1>4, <1>5
<1>7. ((s % Modulus) + x) % Modulus = (s + x) % Modulus
  BY <1>2, <1>4, Sizes, ModularSum
<1>8. QED
  BY <1>6, <1>7 DEF Volume, f, s, x

\* A node goes.
LEMMA VolumeOut ==
    ASSUME NEW pool \in [Node -> NodeRecord], NEW S \in SUBSET Node, NEW n \in S
    PROVE  (Volume(pool, S) - pool[n].quantity) % Modulus = Volume(pool, S \ {n})
<1> DEFINE f == Quantities(pool)
           s == SumFunctionOnSet(f, S)
           x == pool[n].quantity
           r == SumFunctionOnSet(f, S \ {n})
<1>1. \A m \in Node : f[m] = pool[m].quantity /\ f[m] \in Int
  BY Sizes DEF Quantities, NodeRecord
<1>2. x \in Int /\ f[n] = x
  BY <1>1
<1>3. IsFiniteSet(S) /\ IsFiniteSet(S \ {n})
  BY NodesFinite
<1> HIDE DEF f
<1>4. s \in Int /\ r \in Int
  BY <1>1, <1>3, SumIsInt
<1>5. s = f[n] + r
  BY <1>1, <1>3, SumTakeOut
<1> HIDE DEF s, x, r
<1>6. r = s + (0 - x) /\ 0 - x \in Int
  BY <1>2, <1>4, <1>5
<1>7. ((s % Modulus) + (0 - x)) % Modulus = (s + (0 - x)) % Modulus
  BY <1>4, <1>6, Sizes, ModularSum
<1>8. s % Modulus \in Int
  BY <1>4, Reduced, Sizes
<1>9. (s % Modulus) - x = (s % Modulus) + (0 - x)
  <2> DEFINE y == s % Modulus
  <2>1. y \in Int
    BY <1>8
  <2> HIDE DEF y
  <2>2. y - x = y + (0 - x)
    BY <1>2, <2>1
  <2>3. QED
    BY <2>2 DEF y
<1>10. QED
  BY <1>6, <1>7, <1>9 DEF Volume, f, s, x, r

\* Only the quantities of the nodes count.
LEMMA VolumeSame ==
    ASSUME NEW pool, NEW other, NEW S \in SUBSET Node, \A n \in S : other[n].quantity = pool[n].quantity
    PROVE  Volume(other, S) = Volume(pool, S)
<1>1. \A n \in S : Quantities(other)[n] = Quantities(pool)[n]
  BY DEF Quantities
<1>2. QED
  BY <1>1, NodesFinite, SumSameValues DEF Volume

\* A volume fits its width.
LEMMA VolumeType ==
    ASSUME NEW pool \in [Node -> NodeRecord], NEW S \in SUBSET Node
    PROVE  Volume(pool, S) \in 0 .. Modulus - 1
<1>1. \A n \in S : Quantities(pool)[n] \in Int
  BY Sizes DEF Quantities, NodeRecord
<1>2. SumFunctionOnSet(Quantities(pool), S) \in Int
  BY <1>1, NodesFinite, SumIsInt
<1>3. QED
  BY <1>2, Reduced DEF Volume

------------------------------------------------------------------------------
(* Lists in the pool *)

Forward(q, pool) == \A i \in 1 .. Len(q) : pool[At(q, i)].next = At(q, i + 1)
Backward(q, pool) == \A i \in 1 .. Len(q) : pool[At(q, i)].prev = At(q, i - 1)
AtHome(q, pool, l) == \A n \in Nodes(q) : LevelOf(pool[n]) = l

\* q is the list of level l.
LevelList(q, pool, level, l) ==
    /\ Forward(q, pool) /\ Backward(q, pool) /\ AtHome(q, pool, l)
    /\ level.head = At(q, 1) /\ level.tail = At(q, Len(q))
    /\ level.total_volume = Volume(pool, Nodes(q))

\* Nothing but the links may differ.
SameOrder(o, p) == o.id = p.id /\ o.quantity = p.quantity /\ LevelOf(o) = LevelOf(p)

\* A list is not affected by what happens to other nodes.
LEMMA ListKept ==
    ASSUME NEW q \in Seq(Node), NEW pool, NEW other, \A n \in Nodes(q) : other[n] = pool[n],
           NEW level, NEW l
    PROVE  /\ Forward(q, pool) => Forward(q, other)
           /\ LevelList(q, pool, level, l) => LevelList(q, other, level, l)
<1>1. \A i \in 1 .. Len(q) : other[At(q, i)] = pool[At(q, i)]
  BY AtPlace
<1>2. Volume(other, Nodes(q)) = Volume(pool, Nodes(q))
  BY AtPlace, VolumeSame
<1>3. QED
  BY <1>1, <1>2 DEF Forward, Backward, AtHome, LevelList

\* The pool after insert_order, node by node.
LEMMA LinkedPool ==
    ASSUME NEW pool \in [Node -> NodeRecord], NEW level \in LevelRecord, NEW n \in Node
    PROVE  /\ insert_order_pool(pool, level, n)[n].prev = level.tail
           /\ insert_order_pool(pool, level, n)[n].next = Null
           /\ \A m \in Node : m # n /\ m = level.tail =>
                 /\ insert_order_pool(pool, level, n)[m].next = n
                 /\ insert_order_pool(pool, level, n)[m].prev = pool[m].prev
           /\ \A m \in Node : m # n /\ m # level.tail => insert_order_pool(pool, level, n)[m] = pool[m]
           /\ \A m \in Node : SameOrder(insert_order_pool(pool, level, n)[m], pool[m])
<1>2. level.tail \in Link /\ Null \in Link /\ n \in Link
  BY DEF LevelRecord, Link
<1> DEFINE new == insert_order_pool(pool, level, n)
<1>3. /\ new[n] = [pool[n] EXCEPT !.prev = level.tail, !.next = Null]
      /\ \A m \in Node : m # n /\ m = level.tail => new[m] = [pool[m] EXCEPT !.next = n]
      /\ \A m \in Node : m # n /\ m # level.tail => new[m] = pool[m]
  BY DEF insert_order_pool
<1> HIDE DEF new
<1>4. new[n].prev = level.tail /\ new[n].next = Null /\ SameOrder(new[n], pool[n])
  <2>1. pool[n] \in NodeRecord
    OBVIOUS
  <2>2. QED
    BY <1>2, <1>3, <2>1 DEF NodeRecord, SameOrder, LevelOf
<1>5. ASSUME NEW m \in Node, m # n, m = level.tail
      PROVE  new[m].next = n /\ new[m].prev = pool[m].prev /\ SameOrder(new[m], pool[m])
  <2>1. new[m] = [pool[m] EXCEPT !.next = n] /\ pool[m] \in NodeRecord
    BY <1>3, <1>5
  <2>2. QED
    BY <1>2, <2>1 DEF NodeRecord, SameOrder, LevelOf
<1>6. \A m \in Node : SameOrder(new[m], pool[m])
  BY <1>3, <1>4, <1>5 DEF SameOrder
<1>7. QED
  BY <1>3, <1>4, <1>5, <1>6 DEF new

\* The pool after remove_order, node by node.
LEMMA UnlinkedPool ==
    ASSUME NEW pool \in [Node -> NodeRecord], NEW n \in Node, NEW m \in Node
    PROVE  /\ remove_order_pool(pool, n)[m].next = IF m = pool[n].prev THEN pool[n].next ELSE pool[m].next
           /\ remove_order_pool(pool, n)[m].prev = IF m = pool[n].next THEN pool[n].prev ELSE pool[m].prev
           /\ SameOrder(remove_order_pool(pool, n)[m], pool[m])
           /\ m # pool[n].prev /\ m # pool[n].next => remove_order_pool(pool, n)[m] = pool[m]
<1>2. /\ pool[n].prev \in Link /\ pool[n].next \in Link /\ pool[m].prev \in Link /\ pool[m].next \in Link
      /\ pool[m] \in NodeRecord
  BY DEF NodeRecord
<1> DEFINE y == IF m = pool[n].prev THEN pool[n].next ELSE pool[m].next
           x == IF m = pool[n].next THEN pool[n].prev ELSE pool[m].prev
<1>3. remove_order_pool(pool, n)[m] = [pool[m] EXCEPT !.next = y, !.prev = x]
  BY <1>2 DEF remove_order_pool, NodeRecord
<1> DEFINE new == remove_order_pool(pool, n)
<1>4. x \in Link /\ y \in Link
  BY <1>2
<1>5. m # pool[n].prev /\ m # pool[n].next => x = pool[m].prev /\ y = pool[m].next
  OBVIOUS
<1> HIDE DEF x, y, new
<1>6. new[m].prev = x /\ new[m].next = y /\ SameOrder(new[m], pool[m])
  BY <1>2, <1>3, <1>4 DEF NodeRecord, SameOrder, LevelOf, new
<1>7. x = pool[m].prev /\ y = pool[m].next => new[m] = pool[m]
  BY <1>2, <1>3 DEF NodeRecord, new
<1>8. QED
  BY <1>5, <1>6, <1>7 DEF x, y, new

\* insert_order makes n the last node of its level.
LEMMA LinkList ==
    ASSUME NEW pool \in [Node -> NodeRecord], NEW level \in LevelRecord, NEW q \in Seq(Node), Injective(q),
           NEW l, LevelList(q, pool, level, l), NEW n \in Node, n \notin Nodes(q), LevelOf(pool[n]) = l
    PROVE  LevelList(Append(q, n), insert_order_pool(pool, level, n), insert_order_level(pool, level, n), l)
<1> DEFINE a == Append(q, n)
           k == Len(q)
           new == insert_order_pool(pool, level, n)
           nl == insert_order_level(pool, level, n)
<1>1. /\ a \in Seq(Node) /\ Len(a) = k + 1 /\ k \in Nat
      /\ \A i \in Int : At(a, i) = IF i = k + 1 THEN n ELSE At(q, i)
      /\ Nodes(a) = Nodes(q) \cup {n}
  BY AppendNode, AtPlace
<1>2. /\ new[n].prev = level.tail /\ new[n].next = Null
      /\ \A m \in Node : m # n /\ m = level.tail => new[m].next = n /\ new[m].prev = pool[m].prev
      /\ \A m \in Node : m # n /\ m # level.tail => new[m] = pool[m]
      /\ \A m \in Node : SameOrder(new[m], pool[m])
  BY LinkedPool
<1>3. /\ nl.head = (IF level.tail = Null THEN n ELSE level.head) /\ nl.tail = n
      /\ nl.total_volume = (level.total_volume + pool[n].quantity) % Modulus
  BY DEF insert_order_level
<1>4. level.head = At(q, 1) /\ level.tail = At(q, k) /\ level.total_volume = Volume(pool, Nodes(q))
  BY DEF LevelList
<1> HIDE DEF a, k, new, nl
<1>5. /\ \A i \in 1 .. k : At(q, i) \in Node /\ At(q, i) # n /\ At(q, i) # Null
      /\ \A i \in Int : At(q, i) # Null => i \in 1 .. k
      /\ \A i \in 1 .. k, j \in Int : At(q, i) = At(q, j) => i = j
      /\ Nodes(q) \in SUBSET Node
  BY AtPlace DEF k
<1>6. \A i \in 1 .. k : pool[At(q, i)].next = At(q, i + 1) /\ pool[At(q, i)].prev = At(q, i - 1)
  BY DEF LevelList, Forward, Backward, k
<1>7. ASSUME NEW i \in 1 .. k + 1
      PROVE  new[At(a, i)].next = At(a, i + 1) /\ new[At(a, i)].prev = At(a, i - 1)
  <2>1. CASE i = k + 1
    <3>1. At(a, i) = n /\ At(a, i + 1) = At(q, i + 1) /\ At(a, i - 1) = At(q, k)
      BY <1>1, <2>1
    <3>2. At(q, i + 1) = Null
      BY <1>1, <1>5, <2>1
    <3>3. QED
      BY <1>2, <1>4, <3>1, <3>2
  <2>2. CASE i = k
    <3>1. At(a, i) = At(q, k) /\ At(a, i + 1) = n /\ At(a, i - 1) = At(q, i - 1) /\ k \in 1 .. k
      BY <1>1, <2>2
    <3>2. QED
      BY <1>2, <1>4, <1>5, <1>6, <2>2, <3>1
  <2>3. CASE i < k
    <3>1. /\ At(a, i) = At(q, i) /\ At(a, i + 1) = At(q, i + 1) /\ At(a, i - 1) = At(q, i - 1)
          /\ i \in 1 .. k /\ k \in 1 .. k /\ i # k
      BY <1>1, <2>3
    <3>2. At(q, i) # level.tail
      BY <1>4, <1>5, <3>1
    <3>3. QED
      BY <1>2, <1>5, <1>6, <3>1, <3>2
  <2>4. QED
    BY <1>1, <2>1, <2>2, <2>3
<1>8. nl.head = At(a, 1) /\ nl.tail = At(a, Len(a))
  <2>1. CASE k = 0
    <3>1. At(q, k) = Null
      BY <1>5, <2>1
    <3>2. QED
      BY <1>1, <1>3, <1>4, <2>1, <3>1
  <2>2. CASE k # 0
    <3>1. k \in 1 .. k /\ At(q, k) # Null
      BY <1>1, <1>5, <2>2
    <3>2. QED
      BY <1>1, <1>3, <1>4, <2>2, <3>1
  <2>3. QED
    BY <2>1, <2>2
<1>9. AtHome(a, new, l)
  <2>1. \A m \in Nodes(q) : LevelOf(pool[m]) = l
    BY DEF LevelList, AtHome
  <2>2. QED
    BY <1>1, <1>2, <1>5, <2>1 DEF AtHome, SameOrder
<1>10. nl.total_volume = Volume(new, Nodes(a))
  <2>1. nl.total_volume = Volume(pool, Nodes(a))
    BY <1>1, <1>3, <1>4, <1>5, VolumeIn
  <2>2. \A m \in Nodes(a) : new[m].quantity = pool[m].quantity
    BY <1>1, <1>2, <1>5 DEF SameOrder
  <2>3. Nodes(a) \in SUBSET Node
    BY <1>1, <1>5
  <2>4. QED
    BY <2>1, <2>2, <2>3, VolumeSame
<1>11. Forward(a, new) /\ Backward(a, new)
  BY <1>1, <1>7 DEF Forward, Backward
<1>12. LevelList(a, new, nl, l)
  BY <1>8, <1>9, <1>10, <1>11 DEF LevelList
<1>13. QED
  BY <1>12 DEF a, new, nl

\* remove_order takes a node out of its level.
LEMMA UnlinkList ==
    ASSUME NEW pool \in [Node -> NodeRecord], NEW level \in LevelRecord, NEW q \in Seq(Node), Injective(q),
           NEW l, LevelList(q, pool, level, l), NEW i \in 1 .. Len(q)
    PROVE  LevelList(PriceTime!Without(q, i), remove_order_pool(pool, q[i]),
                     remove_order_level(pool, level, q[i]), l)
<1> DEFINE w == PriceTime!Without(q, i)
           k == Len(q)
           n == q[i]
           new == remove_order_pool(pool, n)
           nl == remove_order_level(pool, level, n)
<1>1. /\ w \in Seq(Node) /\ Len(w) = k - 1 /\ k \in Nat
      /\ \A j \in Int : j < i => At(w, j) = At(q, j)
      /\ \A j \in Int : j >= i => At(w, j) = At(q, j + 1)
      /\ Nodes(w) = Nodes(q) \ {n}
  BY WithoutNode, AtPlace
<1>2. /\ i \in 1 .. k /\ n = At(q, i) /\ n \in Node /\ n \in Nodes(q)
      /\ \A j \in 1 .. k : At(q, j) \in Node /\ At(q, j) # Null
      /\ \A j \in Int : At(q, j) # Null => j \in 1 .. k
      /\ \A h \in 1 .. k, j \in Int : At(q, h) = At(q, j) => h = j
      /\ Nodes(q) \in SUBSET Node
  BY AtPlace
<1>3. \A j \in 1 .. k : pool[At(q, j)].next = At(q, j + 1) /\ pool[At(q, j)].prev = At(q, j - 1)
  BY DEF LevelList, Forward, Backward
<1>4. pool[n].next = At(q, i + 1) /\ pool[n].prev = At(q, i - 1)
  BY <1>2, <1>3
<1>5. \A m \in Node :
        /\ new[m].next = IF m = At(q, i - 1) THEN At(q, i + 1) ELSE pool[m].next
        /\ new[m].prev = IF m = At(q, i + 1) THEN At(q, i - 1) ELSE pool[m].prev
        /\ SameOrder(new[m], pool[m])
  BY <1>2, <1>4, UnlinkedPool
<1>6. /\ nl.head = (IF At(q, i - 1) = Null THEN At(q, i + 1) ELSE level.head)
      /\ nl.tail = (IF At(q, i + 1) = Null THEN At(q, i - 1) ELSE level.tail)
      /\ nl.total_volume = (level.total_volume - pool[n].quantity) % Modulus
  BY <1>4 DEF remove_order_level
<1>7. level.head = At(q, 1) /\ level.tail = At(q, k) /\ level.total_volume = Volume(pool, Nodes(q))
  BY DEF LevelList
<1>0. i \in Int /\ 1 <= i /\ i <= k /\ k \in Nat
  BY <1>1
<1> HIDE DEF w, k, n, new, nl
<1>8. ASSUME NEW j \in 1 .. k - 1
      PROVE  new[At(w, j)].next = At(w, j + 1) /\ new[At(w, j)].prev = At(w, j - 1)
  <2>0. j \in Int /\ 1 <= j /\ j <= k - 1
    BY <1>0
  <2>1. CASE j < i - 1
    <3>0. /\ j < i /\ j + 1 < i /\ j - 1 < i /\ j + 1 \in Int /\ j - 1 \in Int
          /\ j \in 1 .. k /\ i - 1 \in Int /\ i + 1 \in Int /\ j # i - 1 /\ j # i + 1
      BY <1>0, <2>0, <2>1
    <3>1. At(w, j) = At(q, j) /\ At(w, j + 1) = At(q, j + 1) /\ At(w, j - 1) = At(q, j - 1)
      BY <1>1, <2>0, <3>0
    <3>2. At(q, j) # At(q, i - 1) /\ At(q, j) # At(q, i + 1) /\ At(q, j) \in Node
      BY <1>2, <3>0, <3>1
    <3>3. QED
      BY <1>3, <1>5, <3>0, <3>1, <3>2
  <2>2. CASE j = i - 1
    <3>0. /\ j < i /\ j + 1 >= i /\ (j + 1) + 1 = i + 1 /\ j - 1 < i /\ j + 1 \in Int /\ j - 1 \in Int
          /\ j \in 1 .. k /\ i + 1 \in Int /\ j # i + 1
      BY <1>0, <2>0, <2>2
    <3>1. At(w, j) = At(q, i - 1) /\ At(w, j + 1) = At(q, i + 1) /\ At(w, j - 1) = At(q, j - 1)
      BY <1>1, <2>0, <2>2, <3>0
    <3>2. At(q, j) # At(q, i + 1) /\ At(q, j) \in Node
      BY <1>2, <3>0, <3>1
    <3>3. QED
      BY <1>3, <1>5, <2>2, <3>0, <3>1, <3>2
  <2>3. CASE j = i
    <3>0. /\ j >= i /\ j + 1 >= i /\ j - 1 < i /\ j + 1 \in Int /\ j - 1 \in Int
          /\ j + 1 \in 1 .. k /\ i - 1 \in Int /\ j + 1 # i - 1 /\ (j + 1) + 1 = j + 2
      BY <1>0, <2>0, <2>3
    <3>1. At(w, j) = At(q, i + 1) /\ At(w, j + 1) = At(q, j + 2) /\ At(w, j - 1) = At(q, i - 1)
      BY <1>1, <2>0, <2>3, <3>0
    <3>2. At(q, j + 1) # At(q, i - 1) /\ At(q, j + 1) \in Node
      BY <1>2, <3>0, <3>1
    <3>3. QED
      BY <1>3, <1>5, <2>3, <3>0, <3>1, <3>2
  <2>4. CASE j > i
    <3>0. /\ j >= i /\ j + 1 >= i /\ j - 1 >= i /\ j + 1 \in Int /\ j - 1 \in Int /\ (j - 1) + 1 = j
          /\ j + 1 \in 1 .. k /\ i - 1 \in Int /\ i + 1 \in Int /\ j + 1 # i - 1 /\ j + 1 # i + 1
          /\ (j + 1) + 1 = j + 2 /\ (j + 1) - 1 = j
      BY <1>0, <2>0, <2>4
    <3>1. At(w, j) = At(q, j + 1) /\ At(w, j + 1) = At(q, j + 2) /\ At(w, j - 1) = At(q, j)
      BY <1>1, <2>0, <3>0
    <3>2. At(q, j + 1) # At(q, i - 1) /\ At(q, j + 1) # At(q, i + 1) /\ At(q, j + 1) \in Node
      BY <1>2, <3>0, <3>1
    <3>3. QED
      BY <1>3, <1>5, <3>0, <3>1, <3>2
  <2>5. QED
    BY <1>0, <2>0, <2>1, <2>2, <2>3, <2>4
<1>9. nl.head = At(w, 1)
  <2>1. CASE i = 1
    <3>1. At(q, i - 1) = Null /\ At(w, 1) = At(q, 2)
      BY <1>0, <1>1, <1>2, <2>1
    <3>2. QED
      BY <1>6, <2>1, <3>1
  <2>2. CASE i # 1
    <3>1. At(q, i - 1) # Null /\ At(w, 1) = At(q, 1)
      BY <1>0, <1>1, <1>2, <2>2
    <3>2. QED
      BY <1>6, <1>7, <3>1
  <2>3. QED
    BY <2>1, <2>2
<1>10. nl.tail = At(w, Len(w))
  <2>1. CASE i = k
    <3>1. At(q, i + 1) = Null /\ At(w, k - 1) = At(q, i - 1)
      BY <1>0, <1>1, <1>2, <2>1
    <3>2. QED
      BY <1>1, <1>6, <3>1
  <2>2. CASE i # k
    <3>1. At(q, i + 1) # Null /\ At(w, k - 1) = At(q, k)
      BY <1>0, <1>1, <1>2, <2>2
    <3>2. QED
      BY <1>1, <1>6, <1>7, <3>1
  <2>3. QED
    BY <2>1, <2>2
<1>11. AtHome(w, new, l)
  <2>1. \A m \in Nodes(q) : LevelOf(pool[m]) = l
    BY DEF LevelList, AtHome
  <2>2. QED
    BY <1>1, <1>2, <1>5, <2>1 DEF AtHome, SameOrder
<1>12. nl.total_volume = Volume(new, Nodes(w))
  <2>0. (Volume(pool, Nodes(q)) - pool[n].quantity) % Modulus = Volume(pool, Nodes(q) \ {n})
    BY <1>2, VolumeOut
  <2>1. nl.total_volume = Volume(pool, Nodes(w))
    BY <1>1, <1>6, <1>7, <2>0
  <2>2. Nodes(w) \in SUBSET Node
    BY <1>1, <1>2
  <2>3. \A m \in Nodes(w) : new[m].quantity = pool[m].quantity
    BY <1>5, <2>2 DEF SameOrder
  <2>4. QED
    BY <2>1, <2>2, <2>3, VolumeSame
<1>13. Forward(w, new) /\ Backward(w, new)
  BY <1>1, <1>8 DEF Forward, Backward
<1>14. LevelList(w, new, nl, l)
  BY <1>9, <1>10, <1>11, <1>12, <1>13 DEF LevelList
<1>15. QED
  BY <1>14 DEF w, new, nl, n

------------------------------------------------------------------------------
(* All lists together *)

\* L has the lists; every node is in one of them, once, but for those in out.
Listed(L, out) ==
    /\ L \in [Anchor -> Seq(Node)]
    /\ \A a \in Anchor : Injective(L[a])
    /\ \A a, b \in Anchor : a # b => Nodes(L[a]) \cap Nodes(L[b]) = {}
    /\ \A n \in Node : n \in out <=> \A a \in Anchor : n \notin Nodes(L[a])

\* The lists of L are those that the links describe.
Threaded(L, pool, lev, free, out) ==
    /\ Listed(L, out)
    /\ Forward(L[FreeList], pool) /\ free = At(L[FreeList], 1)
    /\ \A l \in Level : LevelList(L[l], pool, lev[l], l)

\* The free list is not the list of a level.
LEMMA Anchors == FreeList \notin Level /\ Anchor = Level \cup {FreeList} /\ FreeList \in Anchor
  BY DEF FreeList, Level, Side, Anchor

\* A node comes into a list.
LEMMA ListedIn ==
    ASSUME NEW L, NEW n \in Node, Listed(L, {n}), NEW a \in Anchor, NEW q \in Seq(Node), Injective(q),
           Nodes(q) = Nodes(L[a]) \cup {n}
    PROVE  Listed([L EXCEPT ![a] = q], {})
<1> DEFINE K == [L EXCEPT ![a] = q]
<1>1. /\ K \in [Anchor -> Seq(Node)] /\ K[a] = q /\ \A b \in Anchor : b # a => K[b] = L[b]
  BY DEF Listed
<1> HIDE DEF K
<1>2. \A b \in Anchor : n \notin Nodes(L[b])
  BY DEF Listed
<1>3. \A b \in Anchor : Injective(K[b])
  BY <1>1 DEF Listed
<1>4. \A b, c \in Anchor : b # c => Nodes(K[b]) \cap Nodes(K[c]) = {}
  <2> SUFFICES ASSUME NEW b \in Anchor, NEW c \in Anchor, b # c PROVE Nodes(K[b]) \cap Nodes(K[c]) = {}
    OBVIOUS
  <2>1. \A x, y \in Anchor : x # y => Nodes(L[x]) \cap Nodes(L[y]) = {}
    BY DEF Listed
  <2>2. CASE b = a
    BY <1>1, <1>2, <2>1, <2>2
  <2>3. CASE c = a
    BY <1>1, <1>2, <2>1, <2>3
  <2>4. CASE b # a /\ c # a
    BY <1>1, <2>1, <2>4
  <2>5. QED
    BY <2>2, <2>3, <2>4
<1>5. ASSUME NEW m \in Node
      PROVE  ~ \A b \in Anchor : m \notin Nodes(K[b])
  <2>1. CASE m = n
    BY <1>1, <2>1
  <2>2. CASE m # n
    <3>1. PICK b \in Anchor : m \in Nodes(L[b])
      BY <2>2 DEF Listed
    <3>2. m \in Nodes(K[b])
      BY <1>1, <3>1
    <3>3. QED
      BY <3>2
  <2>3. QED
    BY <2>1, <2>2
<1>6. Listed(K, {})
  BY <1>1, <1>3, <1>4, <1>5 DEF Listed
<1>7. QED
  BY <1>6 DEF K

\* A node goes out of a list.
LEMMA ListedOut ==
    ASSUME NEW L, Listed(L, {}), NEW a \in Anchor, NEW n \in Nodes(L[a]), NEW q \in Seq(Node), Injective(q),
           Nodes(q) = Nodes(L[a]) \ {n}
    PROVE  Listed([L EXCEPT ![a] = q], {n})
<1> DEFINE K == [L EXCEPT ![a] = q]
<1>1. /\ K \in [Anchor -> Seq(Node)] /\ K[a] = q /\ \A b \in Anchor : b # a => K[b] = L[b]
  BY DEF Listed
<1> HIDE DEF K
<1>2. \A x, y \in Anchor : x # y => Nodes(L[x]) \cap Nodes(L[y]) = {}
  BY DEF Listed
<1>3. \A b \in Anchor : Injective(K[b]) /\ Nodes(K[b]) \subseteq Nodes(L[b])
  BY <1>1 DEF Listed
<1>4. \A b, c \in Anchor : b # c => Nodes(K[b]) \cap Nodes(K[c]) = {}
  <2> SUFFICES ASSUME NEW b \in Anchor, NEW c \in Anchor, b # c PROVE Nodes(K[b]) \cap Nodes(K[c]) = {}
    OBVIOUS
  <2>1. Nodes(L[b]) \cap Nodes(L[c]) = {}
    BY <1>2
  <2>2. QED
    BY <1>3, <2>1
<1>5. \A b \in Anchor : n \notin Nodes(K[b])
  BY <1>1, <1>2
<1>6. ASSUME NEW m \in Node, m # n
      PROVE  \E b \in Anchor : m \in Nodes(K[b])
  <2>1. PICK b \in Anchor : m \in Nodes(L[b])
    BY DEF Listed
  <2>2. m \in Nodes(K[b])
    BY <1>1, <1>6, <2>1
  <2>3. QED
    BY <2>2
<1>7. Listed(K, {n})
  BY <1>1, <1>3, <1>4, <1>5, <1>6 DEF Listed
<1>8. QED
  BY <1>7 DEF K

\* The lists that an operation on the list of a leaves alone.
LEMMA OthersKept ==
    ASSUME NEW L, NEW out, Listed(L, out), NEW pool, NEW other, NEW lev, NEW a \in Anchor,
           \A b \in Anchor : b # a => \A n \in Nodes(L[b]) : other[n] = pool[n]
    PROVE  /\ a # FreeList /\ Forward(L[FreeList], pool) => Forward(L[FreeList], other)
           /\ \A l \in Level : l # a /\ LevelList(L[l], pool, lev[l], l) => LevelList(L[l], other, lev[l], l)
<1>1. \A b \in Anchor : L[b] \in Seq(Node)
  BY DEF Listed
<1>2. QED
  BY <1>1, Anchors, ListKept

\* A node in no list may change.
LEMMA OutsideChanges ==
    ASSUME NEW L, NEW n \in Node, NEW pool, NEW other, NEW lev, NEW free, Threaded(L, pool, lev, free, {n}),
           \A m \in Node : m # n => other[m] = pool[m]
    PROVE  Threaded(L, other, lev, free, {n})
<1>1. \A a \in Anchor : L[a] \in Seq(Node) /\ \A m \in Nodes(L[a]) : other[m] = pool[m]
  <2> SUFFICES ASSUME NEW a \in Anchor, NEW m \in Nodes(L[a]) PROVE L[a] \in Seq(Node) /\ other[m] = pool[m]
    BY DEF Threaded, Listed
  <2>1. L[a] \in Seq(Node) /\ n \notin Nodes(L[a])
    BY DEF Threaded, Listed
  <2>2. m \in Node
    BY <2>1, AtPlace
  <2>3. QED
    BY <2>1, <2>2
<1>2. \A l \in Level : LevelList(L[l], pool, lev[l], l) => LevelList(L[l], other, lev[l], l)
  BY <1>1, Anchors, ListKept
<1>3. Forward(L[FreeList], pool) => Forward(L[FreeList], other)
  BY <1>1, Anchors, ListKept
<1>4. QED
  BY <1>2, <1>3 DEF Threaded

\* allocate_order takes the head of the free list.
LEMMA Allocating ==
    ASSUME NEW L, NEW pool, NEW lev, NEW free, Threaded(L, pool, lev, free, {}), free # Null
    PROVE  /\ free \in Node /\ free \in Nodes(L[FreeList])
           /\ Threaded([L EXCEPT ![FreeList] = Tail(@)], pool, lev, pool[free].next, {free})
<1> DEFINE q == L[FreeList]
           t == Tail(q)
           K == [L EXCEPT ![FreeList] = t]
<1>1. q \in Seq(Node) /\ Injective(q) /\ Forward(q, pool) /\ free = At(q, 1) /\ Listed(L, {})
  BY Anchors DEF Threaded, Listed
<1>2. /\ t \in Seq(Node) /\ Len(t) = Len(q) - 1 /\ \A k \in Nat \ {0} : At(t, k) = At(q, k + 1)
      /\ Nodes(t) = Nodes(q) \ {free} /\ free \in Nodes(q) /\ Injective(t)
  BY <1>1, TailNode
<1>3. Len(q) \in Nat /\ 1 \in 1 .. Len(q) /\ free \in Node
  BY <1>1, AtPlace
<1>4. Listed(K, {free})
  BY <1>1, <1>2, Anchors, ListedOut
<1>5. K[FreeList] = t /\ \A l \in Level : K[l] = L[l]
  BY <1>1, Anchors DEF Listed
<1> HIDE DEF q, t, K
<1>6. Forward(t, pool)
  <2> SUFFICES ASSUME NEW i \in 1 .. Len(t) PROVE pool[At(t, i)].next = At(t, i + 1)
    BY DEF Forward
  <2>0. Len(t) = Len(q) - 1 /\ Len(q) \in Nat
    BY <1>2, <1>3
  <2>1. i \in Nat \ {0} /\ i + 1 \in Nat \ {0} /\ i + 1 \in 1 .. Len(q)
    BY <2>0
  <2>2. At(t, i) = At(q, i + 1) /\ At(t, i + 1) = At(q, (i + 1) + 1)
    BY <1>2, <2>1
  <2>3. QED
    BY <1>1, <2>1, <2>2 DEF Forward
<1>7. pool[free].next = At(t, 1)
  <2>1. At(t, 1) = At(q, 1 + 1)
    BY <1>2
  <2>2. QED
    BY <1>1, <1>3, <2>1 DEF Forward
<1>8. Threaded(K, pool, lev, pool[free].next, {free})
  BY <1>4, <1>5, <1>6, <1>7 DEF Threaded
<1>9. QED
  BY <1>2, <1>3, <1>8 DEF q, t, K

\* deallocate_order puts a node in front of the free list.
LEMMA Deallocating ==
    ASSUME NEW L, NEW pool \in [Node -> NodeRecord], NEW lev, NEW n \in Node,
           Threaded(L, pool, lev, free_list_head, {n}), free_list_head \in Link
    PROVE  Threaded([L EXCEPT ![FreeList] = <<n>> \o @], deallocate_order(pool, n), lev, n, {})
<1> DEFINE q == L[FreeList]
           c == <<n>> \o q
           K == [L EXCEPT ![FreeList] = c]
           new == deallocate_order(pool, n)
<1>1. /\ q \in Seq(Node) /\ Injective(q) /\ Forward(q, pool) /\ free_list_head = At(q, 1) /\ Listed(L, {n})
      /\ n \notin Nodes(q)
  BY Anchors DEF Threaded, Listed
<1>2. /\ c \in Seq(Node) /\ Len(c) = Len(q) + 1 /\ Nodes(c) = Nodes(q) \cup {n} /\ Injective(c)
      /\ \A k \in Int : At(c, k) = IF k = 1 THEN n ELSE At(q, k - 1)
  BY <1>1, FrontNode
<1>3. new[n].next = free_list_head /\ \A m \in Node : m # n => new[m] = pool[m]
  BY DEF deallocate_order, NodeRecord
<1>4. Listed(K, {})
  BY <1>1, <1>2, Anchors, ListedIn
<1>5. K[FreeList] = c /\ \A l \in Level : K[l] = L[l]
  BY <1>1, Anchors DEF Listed
<1>6. Threaded(L, new, lev, free_list_head, {n})
  BY <1>3, OutsideChanges
<1> HIDE DEF q, c, K, new
<1>7. Forward(c, new)
  <2> SUFFICES ASSUME NEW i \in 1 .. Len(c) PROVE new[At(c, i)].next = At(c, i + 1)
    BY DEF Forward
  <2>0. Len(q) \in Nat
    BY <1>1, AtPlace
  <2>1. CASE i = 1
    <3>1. At(c, i) = n /\ At(c, i + 1) = At(q, 1)
      BY <1>2, <2>1
    <3>2. QED
      BY <1>1, <1>3, <3>1
  <2>2. CASE i # 1
    <3>1. i - 1 \in 1 .. Len(q) /\ i \in Int /\ i + 1 \in Int /\ i + 1 # 1 /\ (i + 1) - 1 = (i - 1) + 1
      BY <1>2, <2>0, <2>2
    <3>2. At(c, i) = At(q, i - 1) /\ At(c, i + 1) = At(q, (i - 1) + 1)
      BY <1>2, <2>2, <3>1
    <3>3. Forward(q, new)
      BY <1>6 DEF Threaded, q
    <3>4. QED
      BY <3>1, <3>2, <3>3 DEF Forward
  <2>3. QED
    BY <2>1, <2>2
<1>8. n = At(c, 1)
  BY <1>2
<1>9. Threaded(K, new, lev, n, {})
  BY <1>4, <1>5, <1>6, <1>7, <1>8 DEF Threaded
<1>10. QED
  BY <1>9 DEF q, c, K, new

\* insert_order links a node that is in no list.
LEMMA Linking ==
    ASSUME NEW L, NEW pool \in [Node -> NodeRecord], NEW lev \in [Level -> LevelRecord], NEW free,
           NEW n \in Node, Threaded(L, pool, lev, free, {n}), NEW l \in Level, LevelOf(pool[n]) = l
    PROVE  Threaded([L EXCEPT ![l] = Append(@, n)], insert_order_pool(pool, lev[l], n),
                    [lev EXCEPT ![l] = insert_order_level(pool, lev[l], n)], free, {})
<1> DEFINE q == L[l]
           a == Append(q, n)
           K == [L EXCEPT ![l] = a]
           new == insert_order_pool(pool, lev[l], n)
           nl == insert_order_level(pool, lev[l], n)
           nlev == [lev EXCEPT ![l] = nl]
<1>1. /\ q \in Seq(Node) /\ Injective(q) /\ n \notin Nodes(q) /\ Listed(L, {n})
      /\ LevelList(q, pool, lev[l], l) /\ l \in Anchor /\ l # FreeList
  BY Anchors DEF Threaded, Listed
<1>2. a \in Seq(Node) /\ Nodes(a) = Nodes(q) \cup {n} /\ Injective(a)
  BY <1>1, AppendNode
<1>3. Listed(K, {})
  BY <1>1, <1>2, ListedIn
<1>4. LevelList(a, new, nl, l)
  BY <1>1, LinkList
<1>5. lev[l].tail \in Nodes(q) \cup {Null}
  <2>1. lev[l].tail = At(q, Len(q)) /\ Len(q) \in Int
    BY <1>1, AtPlace DEF LevelList
  <2>2. QED
    BY <1>1, <2>1, AtPlace
<1>6. \A b \in Anchor : b # l => \A m \in Nodes(L[b]) : new[m] = pool[m]
  <2> SUFFICES ASSUME NEW b \in Anchor, b # l, NEW m \in Nodes(L[b]) PROVE new[m] = pool[m]
    OBVIOUS
  <2>1. L[b] \in Seq(Node) /\ Nodes(L[b]) \cap Nodes(q) = {} /\ n \notin Nodes(L[b])
    BY <1>1 DEF Listed
  <2>2. m \in Node /\ m # n /\ m \notin Nodes(q)
    BY <2>1, AtPlace
  <2>3. m # lev[l].tail
    BY <1>5, <2>2, Sizes
  <2>4. QED
    BY <2>2, <2>3, LinkedPool
<1> HIDE DEF q, a, new, nl
<1>7. /\ K[l] = a /\ K[FreeList] = L[FreeList] /\ \A b \in Level : b # l => K[b] = L[b]
      /\ nlev[l] = nl /\ \A b \in Level : b # l => nlev[b] = lev[b]
  BY <1>1, Anchors DEF Listed
<1> HIDE DEF K, nlev
<1>8. /\ Forward(L[FreeList], pool) => Forward(L[FreeList], new)
      /\ \A b \in Level : b # l /\ LevelList(L[b], pool, lev[b], b) => LevelList(L[b], new, lev[b], b)
  BY <1>1, <1>6, OthersKept
<1>9. \A b \in Level : LevelList(K[b], new, nlev[b], b)
  <2> TAKE b \in Level
  <2>1. CASE b = l
    BY <1>4, <1>7, <2>1
  <2>2. CASE b # l
    BY <1>7, <1>8, <2>2 DEF Threaded
  <2>3. QED
    BY <2>1, <2>2
<1>10. Threaded(K, new, nlev, free, {})
  BY <1>3, <1>7, <1>8, <1>9 DEF Threaded
<1>11. QED
  BY <1>10 DEF K, new, nlev, nl, a, q

\* remove_order unlinks a node of a level.
LEMMA Unlinking ==
    ASSUME NEW L, NEW pool \in [Node -> NodeRecord], NEW lev \in [Level -> LevelRecord], NEW free,
           Threaded(L, pool, lev, free, {}), NEW l \in Level, NEW i \in 1 .. Len(L[l])
    PROVE  Threaded([L EXCEPT ![l] = PriceTime!Without(@, i)], remove_order_pool(pool, L[l][i]),
                    [lev EXCEPT ![l] = remove_order_level(pool, lev[l], L[l][i])], free, {L[l][i]})
<1> DEFINE q == L[l]
           n == q[i]
           w == PriceTime!Without(q, i)
           K == [L EXCEPT ![l] = w]
           new == remove_order_pool(pool, n)
           nl == remove_order_level(pool, lev[l], n)
           nlev == [lev EXCEPT ![l] = nl]
<1>1. /\ q \in Seq(Node) /\ Injective(q) /\ Listed(L, {})
      /\ LevelList(q, pool, lev[l], l) /\ l \in Anchor /\ l # FreeList
  BY Anchors DEF Threaded, Listed
<1>2. w \in Seq(Node) /\ Nodes(w) = Nodes(q) \ {n} /\ Injective(w)
  BY <1>1, WithoutNode
<1>3. n \in Nodes(q) /\ n \in Node /\ n = At(q, i)
  BY <1>1, AtPlace
<1>4. Listed(K, {n})
  BY <1>1, <1>2, <1>3, ListedOut
<1>5. LevelList(w, new, nl, l)
  BY <1>1, UnlinkList
<1>6. pool[n].next \in Nodes(q) \cup {Null} /\ pool[n].prev \in Nodes(q) \cup {Null}
  <2>1. pool[n].next = At(q, i + 1) /\ pool[n].prev = At(q, i - 1) /\ i + 1 \in Int /\ i - 1 \in Int
    BY <1>1, <1>3 DEF LevelList, Forward, Backward
  <2>2. QED
    BY <1>1, <2>1, AtPlace
<1>7. \A b \in Anchor : b # l => \A m \in Nodes(L[b]) : new[m] = pool[m]
  <2> SUFFICES ASSUME NEW b \in Anchor, b # l, NEW m \in Nodes(L[b]) PROVE new[m] = pool[m]
    OBVIOUS
  <2>1. L[b] \in Seq(Node) /\ Nodes(L[b]) \cap Nodes(q) = {}
    BY <1>1 DEF Listed
  <2>2. m \in Node /\ m \notin Nodes(q)
    BY <2>1, AtPlace
  <2>3. m # pool[n].next /\ m # pool[n].prev
    BY <1>6, <2>2, Sizes
  <2>4. QED
    BY <1>3, <2>2, <2>3, UnlinkedPool
<1> HIDE DEF q, w, n, new, nl
<1>8. /\ K[l] = w /\ K[FreeList] = L[FreeList] /\ \A b \in Level : b # l => K[b] = L[b]
      /\ nlev[l] = nl /\ \A b \in Level : b # l => nlev[b] = lev[b]
  BY <1>1, Anchors DEF Listed
<1> HIDE DEF K, nlev
<1>9. /\ Forward(L[FreeList], pool) => Forward(L[FreeList], new)
      /\ \A b \in Level : b # l /\ LevelList(L[b], pool, lev[b], b) => LevelList(L[b], new, lev[b], b)
  BY <1>1, <1>7, OthersKept
<1>10. \A b \in Level : LevelList(K[b], new, nlev[b], b)
  <2> TAKE b \in Level
  <2>1. CASE b = l
    BY <1>5, <1>8, <2>1
  <2>2. CASE b # l
    BY <1>8, <1>9, <2>2 DEF Threaded
  <2>3. QED
    BY <2>1, <2>2
<1>11. Threaded(K, new, nlev, free, {n})
  BY <1>4, <1>8, <1>9, <1>10 DEF Threaded
<1>12. QED
  BY <1>11 DEF K, new, nlev, nl, w, n, q

------------------------------------------------------------------------------
(* What the map holds, R being the nodes of the resting orders *)

\* The entries are of resting orders, and of each there is one only.
EntriesRest(R, pool, map) ==
    /\ \A s \in Slot : map[s].value \in Node =>
           map[s].value \in R /\ map[s].key = pool[map[s].value].id
    /\ \A s, t \in Slot : map[s].value \in Node /\ map[s].value = map[t].value => s = t

\* The probe for the id of a resting order gets to its entry, the k-th it meets.
Reached(n, id, map, k) ==
    /\ map[ProbeSlot(id, k)].value = n
    /\ \A j \in Slot : j < k => map[ProbeSlot(id, j)].value # Null

MapInv(R, pool, map) ==
    /\ R \subseteq Node
    /\ EntriesRest(R, pool, map)
    /\ \A n \in R : \E k \in Slot : Reached(n, pool[n].id, map, k)
    /\ \A n, m \in R : pool[n].id = pool[m].id => n = m

\* A lookup finds the resting order of its id.
LEMMA FindsResting ==
    ASSUME TypeOK, NEW R, MapInv(R, order_pool, order_map), NEW n \in R, NEW id \in Nat, order_pool[n].id = id
    PROVE  FindStops(id) # {} /\ map_find(id) = n
<1>1. n \in Node /\ n # Null /\ n # Tombstone
  BY Sizes DEF MapInv
<1>2. PICK k \in Slot : Reached(n, id, order_map, k)
  BY DEF MapInv
<1>3. k \in Nat /\ ProbeSlot(id, k) \in Slot
  BY Sizes, ProbeInMap
<1>4. order_map[ProbeSlot(id, k)].value = n /\ order_map[ProbeSlot(id, k)].key = id
  <2>1. order_map[ProbeSlot(id, k)].value = n
    BY <1>2 DEF Reached
  <2>2. \A s \in Slot : order_map[s].value \in Node => order_map[s].key = order_pool[order_map[s].value].id
    BY DEF MapInv, EntriesRest
  <2>3. QED
    BY <1>1, <1>3, <2>1, <2>2
<1>5. k \in FindStops(id)
  BY <1>1, <1>4 DEF FindStops
<1> DEFINE f == Min(FindStops(id))
<1>6. f \in Slot /\ f \in FindStops(id) /\ ProbeSlot(id, f) \in Slot /\ (\A j \in Slot : j < f => j \notin FindStops(id))
  BY <1>5, FindEnds
<1>7. map_find(id) = order_map[ProbeSlot(id, f)].value /\ map_find(id) \in Link
  BY <1>5, FindEnds DEF map_find
<1> HIDE DEF f
<1>8. f <= k
  <2>1. ~ (k < f)
    BY <1>5, <1>6
  <2>2. f \in Nat
    BY <1>6, Sizes
  <2>3. QED
    BY <1>3, <2>1, <2>2
<1>9. CASE f = k
  BY <1>4, <1>5, <1>7, <1>9
<1>10. CASE f < k
  <2>1. order_map[ProbeSlot(id, f)].value # Null
    BY <1>2, <1>6, <1>10 DEF Reached
  <2>2. order_map[ProbeSlot(id, f)].key = id
    BY <1>6, <2>1 DEF FindStops
  <2>3. map_find(id) \in Node
    BY <1>7, <2>1 DEF Link
  <2>4. map_find(id) \in R /\ order_pool[map_find(id)].id = id
    BY <1>6, <1>7, <2>2, <2>3 DEF MapInv, EntriesRest
  <2>5. QED
    BY <1>5, <2>4 DEF MapInv
<1>11. QED
  <2>1. f \in Nat
    BY <1>6, Sizes
  <2>2. QED
    BY <1>3, <1>8, <1>9, <1>10, <2>1

\* What a lookup finds is the resting order of its id.
LEMMA FoundRests ==
    ASSUME TypeOK, NEW R, MapInv(R, order_pool, order_map), NEW id \in Nat, FindStops(id) # {}, map_find(id) # Null
    PROVE  map_find(id) \in R /\ order_pool[map_find(id)].id = id
<1> DEFINE f == Min(FindStops(id))
<1>1. f \in Slot /\ f \in FindStops(id) /\ ProbeSlot(id, f) \in Slot /\ map_find(id) \in Node
  BY FindEnds DEF Link
<1>2. map_find(id) = order_map[ProbeSlot(id, f)].value
  BY DEF map_find
<1> HIDE DEF f
<1>3. order_map[ProbeSlot(id, f)].key = id
  BY <1>1, <1>2 DEF FindStops
<1>4. QED
  BY <1>1, <1>2, <1>3 DEF MapInv, EntriesRest

\* Nothing but the ids of resting orders matters.
LEMMA MapKept ==
    ASSUME NEW R, NEW pool, NEW other, NEW map, MapInv(R, pool, map), \A n \in R : other[n].id = pool[n].id
    PROVE  MapInv(R, other, map)
  BY DEF MapInv, EntriesRest

\* map_insert makes an entry for an id that does not rest.
LEMMA Inserting ==
    ASSUME TypeOK, NEW R, MapInv(R, order_pool, order_map), NEW id \in Nat,
           FindStops(id) # {}, map_find(id) = Null, NEW n \in Node, n \notin R,
           NEW pool, pool[n].id = id, \A m \in R : pool[m].id = order_pool[m].id
    PROVE  InsertStops(id) # {} /\ MapInv(R \cup {n}, pool, map_insert(id, n))
<1> DEFINE f == Min(FindStops(id))
           k == Min(InsertStops(id))
           p == ProbeSlot(id, k)
           map == map_insert(id, n)
<1>1. /\ f \in Slot /\ f \in FindStops(id) /\ ProbeSlot(id, f) \in Slot
      /\ \A j \in Slot : j < f => j \notin FindStops(id)
  BY FindEnds
<1>2. order_map[ProbeSlot(id, f)].value = Null
  BY DEF map_find
<1> HIDE DEF f
<1>3. f \in InsertStops(id)
  BY <1>1, <1>2 DEF InsertStops
<1>4. /\ k \in Slot /\ k \in InsertStops(id) /\ p \in Slot
      /\ \A j \in Slot : j < k => j \notin InsertStops(id)
  BY <1>3, InsertEnds
<1>5. map = [order_map EXCEPT ![p] = [key |-> id, value |-> n]]
  BY <1>3 DEF map_insert
<1>6. p = ProbeSlot(id, k)
  OBVIOUS
<1> HIDE DEF k, p, map
<1>7. order_map[p].value \in {Null, Tombstone}
  <2>1. f \in Nat /\ k \in Nat
    BY <1>1, <1>4, Sizes
  <2>2. ~ (f < k)
    BY <1>1, <1>3, <1>4
  <2>3. CASE k = f
    BY <1>2, <1>6, <2>3
  <2>4. CASE k < f
    <3>1. k \notin FindStops(id)
      BY <1>1, <1>4, <2>4
    <3>2. QED
      BY <1>4, <1>6, <3>1 DEF FindStops, InsertStops
  <2>5. QED
    BY <2>1, <2>2, <2>3, <2>4
<1>8. /\ map[p].key = id /\ map[p].value = n /\ \A s \in Slot : s # p => map[s] = order_map[s]
  BY <1>4, <1>5, TypeParts
<1>9. n # Null /\ order_map[p].value \notin Node
  BY <1>7, Sizes
<1>10. EntriesRest(R \cup {n}, pool, map)
  <2>1. ASSUME NEW s \in Slot, map[s].value \in Node
        PROVE  map[s].value \in R \cup {n} /\ map[s].key = pool[map[s].value].id
    <3>1. CASE s = p
      BY <1>8, <3>1
    <3>2. CASE s # p
      <4>1. order_map[s].value \in R /\ order_map[s].key = order_pool[order_map[s].value].id
        BY <1>8, <2>1, <3>2 DEF MapInv, EntriesRest
      <4>2. QED
        BY <1>8, <3>2, <4>1
    <3>3. QED
      BY <3>1, <3>2
  <2>2. ASSUME NEW s \in Slot, NEW t \in Slot, map[s].value \in Node, map[s].value = map[t].value
        PROVE  s = t
    <3>1. \A x \in Slot : x # p /\ map[x].value \in Node => map[x].value \in R /\ map[x].value # n
      BY <1>8 DEF MapInv, EntriesRest
    <3>2. CASE s = p \/ t = p
      BY <1>8, <2>2, <3>1, <3>2
    <3>3. CASE s # p /\ t # p
      BY <1>8, <2>2, <3>3 DEF MapInv, EntriesRest
    <3>4. QED
      BY <3>2, <3>3
  <2>3. QED
    BY <2>1, <2>2 DEF EntriesRest
<1>11. \A s \in Slot : order_map[s].value # Null => map[s].value # Null
  BY <1>8, <1>9
<1>12. \A m \in R \cup {n} : \E h \in Slot : Reached(m, pool[m].id, map, h)
  <2> SUFFICES ASSUME NEW m \in R \cup {n} PROVE \E h \in Slot : Reached(m, pool[m].id, map, h)
    OBVIOUS
  <2>1. CASE m = n
    <3>1. \A j \in Slot : j < k => order_map[ProbeSlot(id, j)].value # Null
      BY <1>4 DEF InsertStops
    <3>2. \A j \in Slot : ProbeSlot(id, j) \in Slot
      BY Sizes, ProbeInMap
    <3>3. Reached(n, id, map, k)
      BY <1>6, <1>8, <1>11, <3>1, <3>2 DEF Reached
    <3>4. QED
      BY <1>4, <2>1, <3>3
  <2>2. CASE m # n
    <3> DEFINE d == pool[m].id
    <3>1. m \in R /\ m \in Node /\ d = order_pool[m].id
      BY <2>2 DEF MapInv
    <3>2. d \in Nat
      BY <3>1, TypeParts DEF NodeRecord
    <3>3. PICK h \in Slot : Reached(m, d, order_map, h)
      BY <3>1 DEF MapInv
    <3>4. \A j \in Slot : ProbeSlot(d, j) \in Slot
      BY <3>2, Sizes, ProbeInMap
    <3> HIDE DEF d
    <3>5. ProbeSlot(d, h) # p /\ order_map[ProbeSlot(d, h)].value = m
      BY <1>9, <3>1, <3>3 DEF Reached
    <3>6. Reached(m, d, map, h)
      BY <1>8, <1>11, <3>3, <3>4, <3>5 DEF Reached
    <3>7. QED
      BY <3>6 DEF d
  <2>3. QED
    BY <2>1, <2>2
<1>13. \A m \in R : order_pool[m].id # id
  <2> SUFFICES ASSUME NEW m \in R, order_pool[m].id = id PROVE FALSE
    OBVIOUS
  <2>1. map_find(id) = m /\ m \in Node
    BY FindsResting DEF MapInv
  <2>2. QED
    BY <2>1, Sizes
<1>14. \A x, y \in R \cup {n} : pool[x].id = pool[y].id => x = y
  <2> SUFFICES ASSUME NEW x \in R \cup {n}, NEW y \in R \cup {n}, pool[x].id = pool[y].id PROVE x = y
    OBVIOUS
  <2>1. \A z \in R : pool[z].id # id
    BY <1>13
  <2>2. CASE x \in R /\ y \in R
    BY <2>2 DEF MapInv
  <2>3. CASE x = n \/ y = n
    BY <2>1, <2>3
  <2>4. QED
    BY <2>2, <2>3
<1>15. MapInv(R \cup {n}, pool, map)
  BY <1>10, <1>12, <1>14 DEF MapInv
<1>16. QED
  BY <1>3, <1>15 DEF map

\* map_erase leaves a tombstone that cuts no probe.
LEMMA Erasing ==
    ASSUME TypeOK, NEW R, MapInv(R, order_pool, order_map), NEW id \in Nat,
           FindStops(id) # {}, map_find(id) # Null,
           NEW pool, \A m \in R : pool[m].id = order_pool[m].id
    PROVE  MapInv(R \ {map_find(id)}, pool, map_erase(id))
<1> DEFINE n == map_find(id)
           p == ProbeSlot(id, Min(FindStops(id)))
           map == map_erase(id)
<1>1. p \in Slot /\ n \in Node
  BY FindEnds DEF Link
<1>2. order_map[p].value = n
  BY DEF map_find
<1>3. map = [order_map EXCEPT ![p].value = Tombstone]
  BY DEF map_erase
<1> HIDE DEF n, p, map
<1>4. map[p].value = Tombstone /\ \A s \in Slot : s # p => map[s] = order_map[s]
  BY <1>1, <1>3, TypeParts
<1>5. \A s \in Slot : map[s].value \in Node => s # p /\ map[s] = order_map[s]
  BY <1>4, Sizes
<1>6. EntriesRest(R \ {n}, pool, map)
  <2>1. ASSUME NEW s \in Slot, map[s].value \in Node
        PROVE  map[s].value \in R \ {n} /\ map[s].key = pool[map[s].value].id
    <3>1. s # p /\ map[s] = order_map[s]
      BY <1>5, <2>1
    <3>2. order_map[s].value \in R /\ order_map[s].key = order_pool[order_map[s].value].id
      BY <2>1, <3>1 DEF MapInv, EntriesRest
    <3>3. order_map[s].value # n
      BY <1>1, <1>2, <2>1, <3>1 DEF MapInv, EntriesRest
    <3>4. QED
      BY <3>1, <3>2, <3>3
  <2>2. ASSUME NEW s \in Slot, NEW t \in Slot, map[s].value \in Node, map[s].value = map[t].value
        PROVE  s = t
    BY <1>5, <2>2 DEF MapInv, EntriesRest
  <2>3. QED
    BY <2>1, <2>2 DEF EntriesRest
<1>7. \A s \in Slot : order_map[s].value # Null => map[s].value # Null
  BY <1>4, Sizes
<1>8. ASSUME NEW m \in R \ {n}
      PROVE  \E h \in Slot : Reached(m, pool[m].id, map, h)
  <2> DEFINE d == pool[m].id
  <2>1. m \in R /\ m \in Node /\ m # n /\ d = order_pool[m].id
    BY <1>8 DEF MapInv
  <2>2. d \in Nat
    BY <2>1, TypeParts DEF NodeRecord
  <2>3. PICK h \in Slot : Reached(m, d, order_map, h)
    BY <2>1 DEF MapInv
  <2>4. \A j \in Slot : ProbeSlot(d, j) \in Slot
    BY <2>2, Sizes, ProbeInMap
  <2> HIDE DEF d
  <2>5. ProbeSlot(d, h) # p /\ order_map[ProbeSlot(d, h)].value = m
    BY <1>2, <2>1, <2>3 DEF Reached
  <2>6. Reached(m, d, map, h)
    BY <1>4, <1>7, <2>3, <2>4, <2>5 DEF Reached
  <2>7. QED
    BY <2>6 DEF d
<1>9. \A x, y \in R \ {n} : pool[x].id = pool[y].id => x = y
  BY DEF MapInv
<1>10. MapInv(R \ {n}, pool, map)
  BY <1>6, <1>8, <1>9 DEF MapInv
<1>11. QED
  BY <1>10 DEF n, map

------------------------------------------------------------------------------
(* The invariant *)

\* The nodes of the resting orders.
Resting(L) == {n \in Node : \E l \in Level : n \in Nodes(L[l])}

\* The book is sound, and L are its lists.
Held(L, pool, lev, free, map) ==
    Threaded(L, pool, lev, free, {}) /\ MapInv(Resting(L), pool, map)

BookInv == TypeOK /\ \E L : Held(L, order_pool, levels, free_list_head, order_map)

\* The lists after a call: of add, of cancel, and of modify to more.
Added(L, l, n) == [[L EXCEPT ![FreeList] = Tail(@)] EXCEPT ![l] = Append(@, n)]
Removed(L, l, i) == [[L EXCEPT ![l] = PriceTime!Without(@, i)] EXCEPT ![FreeList] = <<L[l][i]>> \o @]
Moved(L, l, i) == [[L EXCEPT ![l] = PriceTime!Without(@, i)] EXCEPT ![l] = Append(@, L[l][i])]

\* What add does to the lists of the levels.
LEMMA AddedLists ==
    ASSUME NEW L \in [Anchor -> Seq(Node)], NEW l \in Level, NEW n
    PROVE  /\ Added(L, l, n)[l] = Append(L[l], n)
           /\ \A b \in Level : b # l => Added(L, l, n)[b] = L[b]
  BY Anchors DEF Added

\* What cancel does to them.
LEMMA RemovedLists ==
    ASSUME NEW L \in [Anchor -> Seq(Node)], NEW l \in Level, NEW i
    PROVE  /\ Removed(L, l, i)[l] = PriceTime!Without(L[l], i)
           /\ \A b \in Level : b # l => Removed(L, l, i)[b] = L[b]
  BY Anchors DEF Removed

\* The order a call of cancel or modify finds is in the list of its level.
LEMMA FoundPlace ==
    ASSUME TypeOK, NEW L, Held(L, order_pool, levels, free_list_head, order_map),
           NEW id \in OrderId, FindStops(id) # {}, map_find(id) # Null
    PROVE  \E i \in 1 .. Len(L[LevelOf(order_pool[map_find(id)])]) :
               L[LevelOf(order_pool[map_find(id)])][i] = map_find(id)
<1> DEFINE n == map_find(id)
<1>1. id \in Nat
  BY BookAssumption
<1>2. n \in Resting(L)
  BY <1>1, FoundRests DEF Held
<1> HIDE DEF n
<1>3. PICK l \in Level : n \in Nodes(L[l])
  BY <1>2 DEF Resting
<1>4. LevelOf(order_pool[n]) = l
  BY <1>3 DEF Held, Threaded, LevelList, AtHome
<1>5. QED
  BY <1>3, <1>4 DEF Nodes, n

\* The order at place i of level l: what its node is, and what is left without it.
PlacedAt(L, l, i, n) ==
    /\ n \in Node /\ n \in Resting(L) /\ L \in [Anchor -> Seq(Node)] /\ L[l] \in Seq(Node) /\ n \in Nodes(L[l])
    /\ \A b \in Level : b # l => n \notin Nodes(L[b])
    /\ Nodes(PriceTime!Without(L[l], i)) = Nodes(L[l]) \ {n}
    /\ PriceTime!Without(L[l], i) \in Seq(Node)

\* Every order of a list is placed so.
LEMMA FoundOrder ==
    ASSUME NEW L, NEW out, Listed(L, out), NEW l \in Level, NEW i \in 1 .. Len(L[l])
    PROVE  PlacedAt(L, l, i, L[l][i])
<1> DEFINE n == L[l][i]
<1>1. /\ L \in [Anchor -> Seq(Node)] /\ l \in Anchor /\ Injective(L[l])
      /\ \A a, b \in Anchor : a # b => Nodes(L[a]) \cap Nodes(L[b]) = {}
  BY Anchors DEF Listed
<1>2. L[l] \in Seq(Node)
  BY <1>1
<1>3. n \in Nodes(L[l])
  BY DEF Nodes
<1>4. n \in Node
  BY <1>2, <1>3, AtPlace
<1>5. \A b \in Level : b # l => n \notin Nodes(L[b])
  BY <1>1, <1>3, Anchors
<1>6. n \in Resting(L)
  BY <1>3, <1>4 DEF Resting
<1>7. QED
  BY <1>1, <1>2, <1>3, <1>4, <1>5, <1>6, WithoutNode DEF PlacedAt

\* add.
LEMMA Adding ==
    ASSUME TypeOK, NEW L, Held(L, order_pool, levels, free_list_head, order_map),
           NEW id \in OrderId, NEW side \in Side, NEW price \in Price, NEW quantity \in Quantity,
           Add(id, side, price, quantity), NEW n, n = free_list_head
    PROVE  /\ n \in Node /\ n \notin Resting(L) /\ <<side, price>> \in Level
           /\ Held(Added(L, <<side, price>>, n), order_pool', levels', free_list_head', order_map')
           /\ order_pool'[n].id = id /\ order_pool'[n].quantity = quantity
           /\ \A m \in Node : m # n => order_pool'[m].id = order_pool[m].id /\ order_pool'[m].quantity = order_pool[m].quantity
           /\ \A m \in Resting(L) : order_pool[m].id # id
<1> DEFINE l == <<side, price>>
           pool == Stored(id, side, price, quantity, n)
           A == [L EXCEPT ![FreeList] = Tail(@)]
           K == Added(L, l, n)
<1>1. /\ n # Null /\ price < MaxPrice /\ id \in Nat /\ FindStops(id) # {} /\ map_find(id) = Null
      /\ free_list_head' = order_pool[n].next
      /\ order_pool' = insert_order_pool(pool, levels[l], n)
      /\ levels' = [levels EXCEPT ![l] = insert_order_level(pool, levels[l], n)]
      /\ order_map' = map_insert(id, n)
  BY BookAssumption DEF Add, Stored, allocate_order
<1>2. /\ n \in Node /\ n \in Nodes(L[FreeList])
      /\ Threaded(A, order_pool, levels, order_pool[n].next, {n})
  BY <1>1, Allocating DEF Held
<1>3. /\ pool \in [Node -> NodeRecord] /\ l \in Level /\ LevelOf(pool[n]) = l
      /\ \A m \in Node : m # n => pool[m] = order_pool[m]
      /\ pool[n].id = id /\ pool[n].quantity = quantity
  BY <1>1, <1>2, StoredTypes
<1>4. levels \in [Level -> LevelRecord] /\ L \in [Anchor -> Seq(Node)]
  BY TypeParts DEF Held, Threaded, Listed
<1>5. K = [A EXCEPT ![l] = Append(@, n)]
  BY DEF Added
<1> HIDE DEF pool, A, K, l
<1>6. Threaded(A, pool, levels, order_pool[n].next, {n})
  BY <1>2, <1>3, OutsideChanges
<1>7. Threaded(K, order_pool', levels', free_list_head', {})
  BY <1>1, <1>2, <1>3, <1>4, <1>5, <1>6, Linking
<1>8. \A m \in Node : SameOrder(order_pool'[m], pool[m])
  BY <1>1, <1>2, <1>3, <1>4, LinkedPool
<1>9. n \notin Resting(L)
  <2>1. \A a, b \in Anchor : a # b => Nodes(L[a]) \cap Nodes(L[b]) = {}
    BY DEF Held, Threaded, Listed
  <2>2. \A b \in Level : n \notin Nodes(L[b])
    BY <1>2, <2>1, Anchors
  <2>3. QED
    BY <2>2 DEF Resting
<1>10. Resting(K) = Resting(L) \cup {n}
  <2>1. K[l] = Append(L[l], n) /\ \A b \in Level : b # l => K[b] = L[b]
    BY <1>3, <1>4, AddedLists DEF K
  <2>2. Nodes(K[l]) = Nodes(L[l]) \cup {n}
    BY <1>2, <1>3, <1>4, <2>1, AppendNode, Anchors
  <2>3. QED
    BY <1>2, <1>3, <2>1, <2>2 DEF Resting
<1>11. /\ order_pool'[n].id = id /\ order_pool'[n].quantity = quantity
       /\ \A m \in Node : m # n => order_pool'[m].id = order_pool[m].id /\ order_pool'[m].quantity = order_pool[m].quantity
  BY <1>2, <1>3, <1>8 DEF SameOrder
<1>12. MapInv(Resting(L), order_pool, order_map) /\ Resting(L) \subseteq Node
  BY DEF Held, Resting
<1>13. \A m \in Resting(L) : order_pool'[m].id = order_pool[m].id
  BY <1>9, <1>11, <1>12
<1>14. MapInv(Resting(K), order_pool', order_map')
  BY <1>1, <1>2, <1>9, <1>10, <1>11, <1>12, <1>13, Inserting
<1>15. \A m \in Resting(L) : order_pool[m].id # id
  <2> SUFFICES ASSUME NEW m \in Resting(L), order_pool[m].id = id PROVE FALSE
    OBVIOUS
  <2>1. map_find(id) = m
    BY <1>1, <1>12, FindsResting
  <2>2. m \in Node
    BY DEF Resting
  <2>3. QED
    BY <1>1, <2>1, <2>2, Sizes
<1>16. QED
  BY <1>2, <1>3, <1>7, <1>9, <1>11, <1>14, <1>15 DEF Held, K, l

\* cancel.
LEMMA Cancelling ==
    ASSUME TypeOK, NEW L, Held(L, order_pool, levels, free_list_head, order_map),
           NEW id \in OrderId, Cancel(id), NEW n, n = map_find(id),
           NEW l \in Level, l = LevelOf(order_pool[n]), NEW i \in 1 .. Len(L[l]), L[l][i] = n
    PROVE  /\ Held(Removed(L, l, i), order_pool', levels', free_list_head', order_map')
           /\ \A m \in Node : order_pool'[m].id = order_pool[m].id /\ order_pool'[m].quantity = order_pool[m].quantity
<1> DEFINE pool == remove_order_pool(order_pool, n)
           A == [L EXCEPT ![l] = PriceTime!Without(@, i)]
           K == Removed(L, l, i)
<1>1. /\ FindStops(id) # {} /\ map_find(id) # Null /\ id \in Nat
      /\ order_pool' = deallocate_order(pool, n)
      /\ levels' = [levels EXCEPT ![l] = remove_order_level(order_pool, levels[l], n)]
      /\ order_map' = map_erase(id) /\ free_list_head' = n
  BY BookAssumption DEF Cancel
<1>2. /\ n \in Node /\ n \in Resting(L) /\ L \in [Anchor -> Seq(Node)] /\ L[l] \in Seq(Node) /\ n \in Nodes(L[l])
      /\ \A b \in Level : b # l => n \notin Nodes(L[b])
      /\ Nodes(PriceTime!Without(L[l], i)) = Nodes(L[l]) \ {n}
  <2>1. PlacedAt(L, l, i, L[l][i])
    BY FoundOrder DEF Held, Threaded
  <2>2. QED
    BY <2>1 DEF PlacedAt
<1>3. /\ order_pool \in [Node -> NodeRecord] /\ levels \in [Level -> LevelRecord] /\ free_list_head \in Link
      /\ pool \in [Node -> NodeRecord]
  <2>1. /\ order_pool \in [Node -> NodeRecord] /\ levels \in [Level -> LevelRecord] /\ free_list_head \in Link
    BY TypeParts
  <2>2. QED
    BY <1>2, <2>1, LinkTypes
<1>4. Threaded(A, pool, levels', free_list_head, {n})
  <2>1. Threaded([L EXCEPT ![l] = PriceTime!Without(@, i)], remove_order_pool(order_pool, L[l][i]),
                 [levels EXCEPT ![l] = remove_order_level(order_pool, levels[l], L[l][i])], free_list_head, {L[l][i]})
    BY <1>3, Unlinking DEF Held
  <2>2. QED
    BY <1>1, <2>1
<1>5. K = [A EXCEPT ![FreeList] = <<n>> \o @]
  BY DEF Removed
<1>6. \A m \in Node : SameOrder(pool[m], order_pool[m])
  BY <1>2, <1>3, UnlinkedPool
<1> HIDE DEF pool, A, K
<1>7. Threaded(K, order_pool', levels', free_list_head', {})
  BY <1>1, <1>2, <1>3, <1>4, <1>5, Deallocating
<1>8. \A m \in Node : order_pool'[m].id = pool[m].id /\ order_pool'[m].quantity = pool[m].quantity
  BY <1>1, <1>2, <1>3 DEF deallocate_order, NodeRecord
<1>9. \A m \in Node : order_pool'[m].id = order_pool[m].id /\ order_pool'[m].quantity = order_pool[m].quantity
  BY <1>6, <1>8 DEF SameOrder
<1>10. Resting(K) = Resting(L) \ {n}
  <2>1. K[l] = PriceTime!Without(L[l], i) /\ \A b \in Level : b # l => K[b] = L[b]
    BY <1>2, RemovedLists DEF K
  <2>2. ASSUME NEW b \in Level PROVE Nodes(K[b]) = Nodes(L[b]) \ {n}
    <3>1. CASE b = l
      BY <1>2, <2>1, <3>1
    <3>2. CASE b # l
      <4>1. K[b] = L[b] /\ n \notin Nodes(L[b])
        BY <1>2, <2>1, <3>2
      <4>2. QED
        BY <4>1
    <3>3. QED
      BY <3>1, <3>2
  <2>3. \A m \in Node : m \in Resting(K) <=> m \in Resting(L) /\ m # n
    <3> TAKE m \in Node
    <3>1. (\E b \in Level : m \in Nodes(K[b])) <=> (\E b \in Level : m \in Nodes(L[b]) \ {n})
      BY <2>2
    <3>2. QED
      BY <3>1 DEF Resting
  <2>4. Resting(K) \subseteq Node /\ Resting(L) \subseteq Node
    BY DEF Resting
  <2>5. QED
    BY <2>3, <2>4
<1>11. \A m \in Resting(L) : order_pool'[m].id = order_pool[m].id
  BY <1>9 DEF Resting
<1>12. MapInv(Resting(L) \ {map_find(id)}, order_pool', map_erase(id))
  BY <1>1, <1>11, Erasing DEF Held
<1>13. QED
  BY <1>1, <1>7, <1>9, <1>10, <1>12 DEF Held, K

\* modify to more.
LEMMA Increasing ==
    ASSUME TypeOK, NEW L, Held(L, order_pool, levels, free_list_head, order_map),
           NEW id \in OrderId, NEW quantity \in Quantity, ModifyUp(id, quantity), NEW n, n = map_find(id),
           NEW l \in Level, l = LevelOf(order_pool[n]), NEW i \in 1 .. Len(L[l]), L[l][i] = n
    PROVE  /\ Held(Moved(L, l, i), order_pool', levels', free_list_head', order_map')
           /\ \A m \in Node : order_pool'[m].id = order_pool[m].id
           /\ \A m \in Node : m # n => order_pool'[m].quantity = order_pool[m].quantity
           /\ order_pool'[n].quantity = quantity
<1> DEFINE cut == remove_order_pool(order_pool, n)
           level == remove_order_level(order_pool, levels[l], n)
           mid == [levels EXCEPT ![l] = level]
           pool == [cut EXCEPT ![n].quantity = quantity]
           A == [L EXCEPT ![l] = PriceTime!Without(@, i)]
           K == Moved(L, l, i)
<1>1. /\ order_pool' = insert_order_pool(pool, level, n)
      /\ levels' = [levels EXCEPT ![l] = insert_order_level(pool, level, n)]
      /\ UNCHANGED <<free_list_head, order_map>>
  BY DEF ModifyUp
<1>2. /\ n \in Node /\ n \in Resting(L) /\ L \in [Anchor -> Seq(Node)] /\ L[l] \in Seq(Node) /\ n \in Nodes(L[l])
      /\ \A b \in Level : b # l => n \notin Nodes(L[b])
      /\ Nodes(PriceTime!Without(L[l], i)) = Nodes(L[l]) \ {n} /\ PriceTime!Without(L[l], i) \in Seq(Node)
  <2>1. PlacedAt(L, l, i, L[l][i])
    BY FoundOrder DEF Held, Threaded
  <2>2. QED
    BY <2>1 DEF PlacedAt
<1>3. /\ order_pool \in [Node -> NodeRecord] /\ levels \in [Level -> LevelRecord]
      /\ cut \in [Node -> NodeRecord] /\ level \in LevelRecord
  <2>1. order_pool \in [Node -> NodeRecord] /\ levels \in [Level -> LevelRecord]
    BY TypeParts
  <2>2. levels[l] \in LevelRecord
    BY <2>1
  <2>3. QED
    BY <1>2, <2>1, <2>2, LinkTypes
<1>4. Threaded(A, cut, mid, free_list_head, {n})
  <2>1. Threaded([L EXCEPT ![l] = PriceTime!Without(@, i)], remove_order_pool(order_pool, L[l][i]),
                 [levels EXCEPT ![l] = remove_order_level(order_pool, levels[l], L[l][i])], free_list_head, {L[l][i]})
    BY <1>3, Unlinking DEF Held
  <2>2. QED
    BY <2>1
<1>5. K = [A EXCEPT ![l] = Append(@, n)]
  BY DEF Moved
<1>6. \A m \in Node : SameOrder(cut[m], order_pool[m])
  BY <1>2, <1>3, UnlinkedPool
<1>7. mid \in [Level -> LevelRecord] /\ mid[l] = level
      /\ \A x : [mid EXCEPT ![l] = x] = [levels EXCEPT ![l] = x]
  BY <1>3
<1> HIDE DEF cut, level, mid, A, K
<1>8. /\ pool \in [Node -> NodeRecord] /\ \A m \in Node : m # n => pool[m] = cut[m]
      /\ pool[n].quantity = quantity /\ LevelOf(pool[n]) = LevelOf(cut[n]) /\ pool[n].id = cut[n].id
  <2>1. /\ pool \in [Node -> NodeRecord] /\ \A m \in Node : m # n => pool[m] = cut[m]
        /\ pool[n] = [cut[n] EXCEPT !.quantity = quantity]
    <3>1. cut \in [Node -> NodeRecord] /\ n \in Node
      BY <1>2, <1>3
    <3>2. pool \in [Node -> NodeRecord]
      BY <3>1, QuantityStored
    <3>3. QED
      BY <3>1, <3>2
  <2>2. /\ [cut[n] EXCEPT !.quantity = quantity].quantity = quantity
        /\ LevelOf([cut[n] EXCEPT !.quantity = quantity]) = LevelOf(cut[n])
        /\ [cut[n] EXCEPT !.quantity = quantity].id = cut[n].id
    <3>1. cut[n] \in NodeRecord /\ quantity \in 0 .. Modulus - 1
      BY <1>2, <1>3, BookAssumption
    <3>2. QED
      BY <3>1 DEF NodeRecord, LevelOf
  <2> HIDE DEF pool
  <2>3. QED
    BY <2>1, <2>2
<1> HIDE DEF pool
<1>9. Threaded(A, pool, mid, free_list_head, {n}) /\ LevelOf(pool[n]) = l
  BY <1>2, <1>4, <1>6, <1>8, OutsideChanges DEF SameOrder
<1>10. Threaded(K, order_pool', levels', free_list_head', {})
  <2>1. Threaded(K, insert_order_pool(pool, mid[l], n), [mid EXCEPT ![l] = insert_order_level(pool, mid[l], n)],
                 free_list_head, {})
    BY <1>2, <1>5, <1>7, <1>8, <1>9, Linking
  <2>2. QED
    BY <1>1, <1>7, <2>1
<1>11. \A m \in Node : SameOrder(order_pool'[m], pool[m])
  BY <1>1, <1>2, <1>3, <1>8, LinkedPool
<1>12. /\ \A m \in Node : order_pool'[m].id = order_pool[m].id
       /\ \A m \in Node : m # n => order_pool'[m].quantity = order_pool[m].quantity
       /\ order_pool'[n].quantity = quantity
  <2>1. \A m \in Node : /\ order_pool'[m].id = pool[m].id /\ order_pool'[m].quantity = pool[m].quantity
                        /\ cut[m].id = order_pool[m].id /\ cut[m].quantity = order_pool[m].quantity
    BY <1>6, <1>11 DEF SameOrder
  <2>2. \A m \in Node : pool[m].id = cut[m].id
    BY <1>8
  <2>3. \A m \in Node : m # n => pool[m].quantity = cut[m].quantity
    BY <1>8
  <2>4. QED
    BY <1>2, <1>8, <2>1, <2>2, <2>3
<1>13. Resting(K) = Resting(L)
  <2>1. K[l] = Append(PriceTime!Without(L[l], i), n) /\ \A b \in Level : b # l => K[b] = L[b]
    <3>1. /\ Moved(L, l, i)[l] = Append(PriceTime!Without(L[l], i), L[l][i])
          /\ \A b \in Level : b # l => Moved(L, l, i)[b] = L[b]
      BY <1>2, Anchors DEF Moved
    <3>2. QED
      BY <3>1, Zenon DEF K
  <2>2. Nodes(K[l]) = Nodes(L[l])
    <3> DEFINE w == PriceTime!Without(L[l], i)
    <3>1. w \in Seq(Node) /\ Nodes(w) = Nodes(L[l]) \ {n} /\ K[l] = Append(w, n)
      BY <1>2, <2>1
    <3> HIDE DEF w
    <3>2. Nodes(Append(w, n)) = Nodes(w) \cup {n}
      BY <1>2, <3>1, AppendNode
    <3>3. QED
      BY <1>2, <3>1, <3>2
  <2>3. QED
    BY <2>1, <2>2 DEF Resting
<1>14. MapInv(Resting(K), order_pool', order_map')
  <2>1. \A m \in Resting(L) : order_pool'[m].id = order_pool[m].id
    BY <1>12 DEF Resting
  <2>2. QED
    BY <1>1, <1>13, <2>1, MapKept DEF Held
<1>15. QED
  BY <1>10, <1>12, <1>14 DEF Held, K

\* A smaller quantity is stored in a node of a list.
LEMMA ListReduced ==
    ASSUME NEW pool \in [Node -> NodeRecord], NEW level \in LevelRecord, NEW q \in Seq(Node),
           NEW l, LevelList(q, pool, level, l), NEW n \in Nodes(q), NEW quantity \in Quantity
    PROVE  LevelList(q, [pool EXCEPT ![n].quantity = quantity],
                     [level EXCEPT !.total_volume = (level.total_volume - (pool[n].quantity - quantity)) % Modulus], l)
<1> DEFINE new == [pool EXCEPT ![n].quantity = quantity]
           x == pool[n].quantity
           v == level.total_volume
           w == (v - (x - quantity)) % Modulus
           nl == [level EXCEPT !.total_volume = w]
           S == Nodes(q)
           R == S \ {n}
<1>1. n \in Node /\ S \in SUBSET Node /\ R \in SUBSET Node /\ n \notin R /\ R \cup {n} = S
  BY AtPlace
<1>2. quantity \in 0 .. Modulus - 1 /\ pool[n] \in NodeRecord
  BY <1>1, BookAssumption
<1>3. new \in [Node -> NodeRecord] /\ new[n].quantity = quantity /\ \A m \in Node : m # n => new[m] = pool[m]
  BY <1>1, <1>2 DEF NodeRecord
<1>4. \A m \in Node : new[m].next = pool[m].next /\ new[m].prev = pool[m].prev /\ LevelOf(new[m]) = LevelOf(pool[m])
  <2>1. new[n].next = pool[n].next /\ new[n].prev = pool[n].prev /\ LevelOf(new[n]) = LevelOf(pool[n])
    BY <1>1, <1>2 DEF NodeRecord, LevelOf
  <2>2. QED
    BY <1>3, <2>1
<1>5. /\ Modulus \in Nat \ {0} /\ v \in Int /\ x \in Int /\ quantity \in Int
      /\ nl.head = level.head /\ nl.tail = level.tail /\ nl.total_volume = w
  BY <1>2, Sizes DEF LevelRecord, NodeRecord
<1> HIDE DEF new, nl, S, R
<1>6. v = Volume(pool, S)
  BY DEF LevelList, S
<1>7. (Volume(pool, S) - x) % Modulus = Volume(pool, R)
  BY <1>1, VolumeOut DEF S, R
<1>8. Volume(new, R) = Volume(pool, R)
  <2>1. \A m \in R : new[m].quantity = pool[m].quantity
    BY <1>1, <1>3
  <2>2. QED
    BY <1>1, <2>1, VolumeSame
<1>9. (Volume(new, R) + quantity) % Modulus = Volume(new, S)
  BY <1>1, <1>3, VolumeIn
<1> HIDE DEF x, v
<1>10. (((v - x) % Modulus) + quantity) % Modulus = ((v - x) + quantity) % Modulus
  <2>1. v - x \in Int
    BY <1>5
  <2>2. QED
    BY <1>5, <2>1, ModularSum
<1>11. (v - x) + quantity = v - (x - quantity)
  BY <1>5
<1>12. w = Volume(new, S)
  BY <1>6, <1>7, <1>8, <1>9, <1>10, <1>11
<1> HIDE DEF w
<1>13. Forward(q, new) /\ Backward(q, new)
  <2>1. \A i \in 1 .. Len(q) : At(q, i) \in Node
    BY AtPlace
  <2>2. QED
    BY <1>4, <2>1 DEF LevelList, Forward, Backward
<1>14. AtHome(q, new, l)
  BY <1>1, <1>4 DEF LevelList, AtHome, S
<1>15. LevelList(q, new, nl, l)
  BY <1>5, <1>12, <1>13, <1>14 DEF LevelList, S
<1>16. QED
  BY <1>15 DEF new, nl, w, x, v

\* modify to no more.
LEMMA Reducing ==
    ASSUME TypeOK, NEW L, Held(L, order_pool, levels, free_list_head, order_map),
           NEW id \in OrderId, NEW quantity \in Quantity, ModifyDown(id, quantity), NEW n, n = map_find(id),
           NEW l \in Level, l = LevelOf(order_pool[n]), NEW i \in 1 .. Len(L[l]), L[l][i] = n
    PROVE  /\ Held(L, order_pool', levels', free_list_head', order_map')
           /\ \A m \in Node : order_pool'[m].id = order_pool[m].id
           /\ \A m \in Node : m # n => order_pool'[m].quantity = order_pool[m].quantity
           /\ order_pool'[n].quantity = quantity
<1> DEFINE pool == [order_pool EXCEPT ![n].quantity = quantity]
           nl == [levels[l] EXCEPT !.total_volume =
                     (levels[l].total_volume - (order_pool[n].quantity - quantity)) % Modulus]
<1>1. /\ order_pool' = pool /\ UNCHANGED <<free_list_head, order_map>>
      /\ levels' = [levels EXCEPT ![l] = nl]
  BY DEF ModifyDown
<1>2. /\ n \in Node /\ L[l] \in Seq(Node) /\ n \in Nodes(L[l]) /\ Listed(L, {})
  <2>1. PlacedAt(L, l, i, L[l][i]) /\ Listed(L, {})
    BY FoundOrder DEF Held, Threaded
  <2>2. QED
    BY <2>1 DEF PlacedAt
<1>3. order_pool \in [Node -> NodeRecord] /\ levels \in [Level -> LevelRecord] /\ levels[l] \in LevelRecord
  BY TypeParts
<1>4. LevelList(L[l], order_pool, levels[l], l)
  BY DEF Held, Threaded
<1>5. LevelList(L[l], pool, nl, l)
  BY <1>2, <1>3, <1>4, ListReduced
<1>6. /\ \A m \in Node : m # n => pool[m] = order_pool[m]
      /\ pool[n].quantity = quantity /\ pool[n].id = order_pool[n].id
  <2>1. order_pool[n] \in NodeRecord /\ quantity \in 0 .. Modulus - 1
    BY <1>2, <1>3, BookAssumption
  <2>2. QED
    BY <1>2, <1>3, <2>1 DEF NodeRecord
<1>7. \A b \in Anchor : b # l => \A m \in Nodes(L[b]) : pool[m] = order_pool[m]
  <2> SUFFICES ASSUME NEW b \in Anchor, b # l, NEW m \in Nodes(L[b]) PROVE pool[m] = order_pool[m]
    OBVIOUS
  <2>1. Nodes(L[b]) \cap Nodes(L[l]) = {} /\ L[b] \in Seq(Node)
    BY <1>2, Anchors DEF Listed
  <2>2. m \in Node
    BY <2>1, AtPlace
  <2>3. m # n
    BY <1>2, <2>1
  <2>4. QED
    BY <1>6, <2>2, <2>3
<1>8. levels'[l] = nl /\ \A b \in Level : b # l => levels'[b] = levels[b]
  BY <1>1, <1>3
<1> HIDE DEF pool, nl
<1>9. /\ Forward(L[FreeList], order_pool) => Forward(L[FreeList], pool)
      /\ \A b \in Level : b # l /\ LevelList(L[b], order_pool, levels[b], b) => LevelList(L[b], pool, levels[b], b)
  BY <1>2, <1>7, Anchors, OthersKept
<1>10. \A b \in Level : LevelList(L[b], pool, levels'[b], b)
  BY <1>5, <1>8, <1>9 DEF Held, Threaded
<1>11. Threaded(L, pool, levels', free_list_head, {})
  BY <1>9, <1>10 DEF Held, Threaded
<1>12. \A m \in Node : pool[m].id = order_pool[m].id
  BY <1>6
<1>13. MapInv(Resting(L), pool, order_map)
  <2>1. \A m \in Resting(L) : pool[m].id = order_pool[m].id
    BY <1>12 DEF Resting
  <2>2. QED
    BY <2>1, MapKept DEF Held
<1>14. QED
  BY <1>1, <1>6, <1>11, <1>12, <1>13 DEF Held

\* The lists of an empty book.
Empty == [a \in Anchor |-> IF a = FreeList THEN [i \in 1 .. MaxOrders |-> MaxOrders + 1 - i] ELSE << >>]

\* They are the lists after the constructor.
LEMMA EmptyBook ==
    ASSUME Init
    PROVE  Held(Empty, order_pool, levels, free_list_head, order_map)
<1> DEFINE q == [i \in 1 .. MaxOrders |-> MaxOrders + 1 - i]
           e == << >>
           K == Empty
<1>1. q \in Seq(Node) /\ Len(q) = MaxOrders /\ \A i \in 1 .. MaxOrders : q[i] = MaxOrders + 1 - i
  BY Sizes DEF Node
<1>2. Nodes(e) = {} /\ Injective(e) /\ Len(e) = 0 /\ e \in Seq(Node) /\ \A i \in Int : At(e, i) = Null
  BY DEF Nodes, Injective, At
<1>3. K \in [Anchor -> Seq(Node)] /\ K[FreeList] = q /\ \A l \in Level : K[l] = e
  <2>1. K = [a \in Anchor |-> IF a = FreeList THEN q ELSE e]
    BY DEF Empty
  <2> HIDE DEF K, q, e
  <2>2. QED
    BY <1>1, <1>2, <2>1, Anchors
<1> HIDE DEF q, e, K
<1>4. Nodes(q) = Node /\ Injective(q)
  <2>1. \A n \in Node : MaxOrders + 1 - n \in 1 .. MaxOrders /\ q[MaxOrders + 1 - n] = n
    BY <1>1, Sizes DEF Node
  <2>2. Node \subseteq Nodes(q)
    BY <1>1, <2>1 DEF Nodes
  <2>3. Nodes(q) \subseteq Node
    BY <1>1, AtPlace
  <2>4. Injective(q)
    BY <1>1, Sizes DEF Injective
  <2>5. QED
    BY <2>2, <2>3, <2>4
<1>5. Forward(q, order_pool)
  <2> SUFFICES ASSUME NEW i \in 1 .. MaxOrders PROVE order_pool[At(q, i)].next = At(q, i + 1)
    BY <1>1 DEF Forward
  <2>1. At(q, i) = MaxOrders + 1 - i /\ MaxOrders + 1 - i \in Node
    BY <1>1, Sizes DEF At, Node
  <2>2. order_pool[MaxOrders + 1 - i].next = (MaxOrders + 1 - i) - 1
    BY <2>1 DEF Init
  <2>3. At(q, i + 1) = MaxOrders - i
    BY <1>1, Sizes DEF At, Null
  <2>4. (MaxOrders + 1 - i) - 1 = MaxOrders - i
    BY Sizes
  <2>5. QED
    BY <2>1, <2>2, <2>3, <2>4
<1>6. free_list_head = At(q, 1)
  BY <1>1, Sizes DEF Init, At
<1>7. ASSUME NEW l \in Level PROVE LevelList(e, order_pool, levels[l], l)
  <2>1. levels[l].head = Null /\ levels[l].tail = Null /\ levels[l].total_volume = 0
    BY DEF Init
  <2>2. Volume(order_pool, {}) = 0
    <3>1. SumFunctionOnSet(Quantities(order_pool), {}) = 0
      BY SumEmpty
    <3>2. 0 % Modulus = 0
      BY Sizes
    <3>3. QED
      BY <3>1, <3>2 DEF Volume
  <2>3. Forward(e, order_pool) /\ Backward(e, order_pool) /\ AtHome(e, order_pool, l)
    BY <1>2 DEF Forward, Backward, AtHome
  <2>4. QED
    BY <1>2, <2>1, <2>2, <2>3 DEF LevelList
<1>8. Listed(K, {})
  <2>1. \A a \in Anchor : Injective(K[a]) /\ (a # FreeList => Nodes(K[a]) = {})
    BY <1>2, <1>3, <1>4, Anchors
  <2>2. \A a, b \in Anchor : a # b => Nodes(K[a]) \cap Nodes(K[b]) = {}
    BY <2>1
  <2>3. \A n \in Node : n \in Nodes(K[FreeList])
    BY <1>3, <1>4
  <2>4. QED
    BY <1>3, <2>1, <2>2, <2>3, Anchors DEF Listed
<1>9. Resting(K) = {}
  BY <1>2, <1>3 DEF Resting
<1>10. MapInv({}, order_pool, order_map)
  BY Sizes DEF Init, MapInv, EntriesRest
<1>11. Threaded(K, order_pool, levels, free_list_head, {})
  BY <1>3, <1>5, <1>6, <1>7, <1>8 DEF Threaded
<1>12. QED
  BY <1>9, <1>10, <1>11 DEF Held, K

\* What a call that cancels or modifies finds.
LEMMA Found ==
    ASSUME TypeOK, NEW L, Held(L, order_pool, levels, free_list_head, order_map),
           NEW id \in OrderId, FindStops(id) # {}, map_find(id) # Null
    PROVE  \E l \in Level : /\ l = LevelOf(order_pool[map_find(id)])
                            /\ \E i \in 1 .. Len(L[l]) : L[l][i] = map_find(id)
  BY FoundPlace, FoundTypes

\* Every step leaves lists that the links describe.
LEMMA BookStep == BookInv /\ [Next]_vars => BookInv'
<1> SUFFICES ASSUME BookInv, [Next]_vars PROVE BookInv'
  OBVIOUS
<1>1. TypeOK /\ TypeOK'
  BY TypeStep DEF BookInv
<1>2. PICK L : Held(L, order_pool, levels, free_list_head, order_map)
  BY DEF BookInv
<1> SUFFICES \E K : Held(K, order_pool', levels', free_list_head', order_map')
  BY <1>1 DEF BookInv
<1>3. CASE Quiet
  BY <1>2, <1>3 DEF Quiet
<1>4. ASSUME NEW id \in OrderId, NEW side \in Side, NEW price \in Price, NEW quantity \in Quantity,
             Add(id, side, price, quantity)
      PROVE  \E K : Held(K, order_pool', levels', free_list_head', order_map')
  <2>1. Held(Added(L, <<side, price>>, free_list_head), order_pool', levels', free_list_head', order_map')
    BY <1>1, <1>2, <1>4, Adding
  <2>2. QED
    BY <2>1
<1>5. ASSUME NEW id \in OrderId, Cancel(id)
      PROVE  \E K : Held(K, order_pool', levels', free_list_head', order_map')
  <2>1. FindStops(id) # {} /\ map_find(id) # Null
    BY <1>5 DEF Cancel
  <2>2. PICK l \in Level : l = LevelOf(order_pool[map_find(id)]) /\ \E i \in 1 .. Len(L[l]) : L[l][i] = map_find(id)
    BY <1>1, <1>2, <2>1, Found
  <2>3. PICK i \in 1 .. Len(L[l]) : L[l][i] = map_find(id)
    BY <2>2
  <2>4. Held(Removed(L, l, i), order_pool', levels', free_list_head', order_map')
    BY <1>1, <1>2, <1>5, <2>2, <2>3, Cancelling
  <2>5. QED
    BY <2>4
<1>6. ASSUME NEW id \in OrderId, NEW quantity \in Quantity, ModifyUp(id, quantity) \/ ModifyDown(id, quantity)
      PROVE  \E K : Held(K, order_pool', levels', free_list_head', order_map')
  <2>1. FindStops(id) # {} /\ map_find(id) # Null
    BY <1>6 DEF ModifyUp, ModifyDown
  <2>2. PICK l \in Level : l = LevelOf(order_pool[map_find(id)]) /\ \E i \in 1 .. Len(L[l]) : L[l][i] = map_find(id)
    BY <1>1, <1>2, <2>1, Found
  <2>3. PICK i \in 1 .. Len(L[l]) : L[l][i] = map_find(id)
    BY <2>2
  <2>4. CASE ModifyUp(id, quantity)
    <3>1. Held(Moved(L, l, i), order_pool', levels', free_list_head', order_map')
      BY <1>1, <1>2, <2>2, <2>3, <2>4, Increasing
    <3>2. QED
      BY <3>1
  <2>5. CASE ModifyDown(id, quantity)
    <3>1. Held(L, order_pool', levels', free_list_head', order_map')
      BY <1>1, <1>2, <2>2, <2>3, <2>5, Reducing
    <3>2. QED
      BY <3>1
  <2>6. QED
    BY <1>6, <2>4, <2>5
<1>7. QED
  BY <1>1, <1>3, <1>4, <1>5, <1>6, Steps

\* There are always lists that the links describe and the hash map knows: pool,
\* free list, levels, volumes and map stay consistent with one another through
\* every call (OrderBook.cpp:179-244).
THEOREM BookInvariant == Spec => []BookInv
<1>1. Init => BookInv
  BY TypeStart, EmptyBook DEF BookInv
<1>2. QED
  BY <1>1, BookStep, PTL DEF Spec

------------------------------------------------------------------------------
(* Following the links *)

\* f tells the nodes met from h on.
Follows(f, h) == f = [k \in 0 .. MaxOrders |-> IF k = 0 THEN h ELSE After(f[k - 1])]

\* A walk along a list.
LEMMA WalkAlong ==
    ASSUME NEW q \in Seq(Node), Forward(q, order_pool), NEW h, h = At(q, 1)
    PROVE  \A k \in 0 .. MaxOrders : Walk(h)[k] = At(q, k + 1)
<1> DEFINE f == [k \in 0 .. MaxOrders |-> At(q, k + 1)]
           g == Walk(h)
<1>1. \A k \in Nat \ {0} : After(At(q, k)) = At(q, k + 1)
  <2> TAKE k \in Nat \ {0}
  <2>1. CASE k \in 1 .. Len(q)
    BY <2>1, AtPlace DEF After, Forward
  <2>2. CASE ~ (k \in 1 .. Len(q))
    <3>1. ~ (k + 1 \in 1 .. Len(q))
      BY <2>2
    <3>2. At(q, k) = Null /\ At(q, k + 1) = Null
      BY <2>2, <3>1 DEF At
    <3>3. QED
      BY <3>2 DEF After
  <2>3. QED
    BY <2>1, <2>2
<1>2. Follows(f, h)
  <2>1. ASSUME NEW k \in 0 .. MaxOrders PROVE f[k] = IF k = 0 THEN h ELSE After(f[k - 1])
    <3>1. CASE k = 0
      BY <3>1
    <3>2. CASE k # 0
      <4>1. k \in Nat \ {0} /\ k - 1 \in 0 .. MaxOrders /\ (k - 1) + 1 = k
        BY <3>2, Sizes
      <4>2. f[k - 1] = At(q, k)
        BY <4>1
      <4>3. QED
        BY <1>1, <3>2, <4>1, <4>2
    <3>3. QED
      BY <3>1, <3>2
  <2>2. QED
    BY <2>1 DEF Follows
<1>3. g = CHOOSE w : Follows(w, h)
  BY DEF Walk, Follows
<1> HIDE DEF f, g
<1>4. Follows(g, h)
  BY <1>2, <1>3
<1> DEFINE P == {k \in Nat : k \in 0 .. MaxOrders => g[k] = At(q, k + 1)}
<1>5. 0 \in P
  <2>1. 0 \in 0 .. MaxOrders /\ 0 + 1 = 1
    BY Sizes
  <2>2. g[0] = h
    BY <1>4, <2>1 DEF Follows
  <2>3. QED
    BY <2>1, <2>2
<1>6. ASSUME NEW k \in P PROVE k + 1 \in P
  <2> SUFFICES ASSUME k + 1 \in 0 .. MaxOrders PROVE g[k + 1] = At(q, (k + 1) + 1)
    OBVIOUS
  <2>1. k \in 0 .. MaxOrders /\ k + 1 # 0 /\ (k + 1) - 1 = k /\ k + 1 \in Nat \ {0}
    BY Sizes
  <2>2. g[k + 1] = After(g[(k + 1) - 1])
    BY <1>4, <2>1 DEF Follows
  <2>3. g[k] = At(q, k + 1)
    BY <2>1
  <2>4. QED
    BY <1>1, <2>1, <2>2, <2>3
<1> HIDE DEF P
<1>7. P = Nat
  <2>1. P \in SUBSET Nat
    BY DEF P
  <2>2. QED
    BY <1>5, <1>6, <2>1, Induction
<1>8. \A k \in 0 .. MaxOrders : k \in Nat
  BY Sizes
<1>9. QED
  BY <1>7, <1>8 DEF P, g

\* A list is no longer than the pool is large.
LEMMA ListFits ==
    ASSUME NEW q \in Seq(Node), Injective(q)
    PROVE  Len(q) \in Nat /\ Len(q) <= MaxOrders
<1>1. Len(q) \in Nat /\ q \in [1 .. Len(q) -> Node]
  OBVIOUS
<1>2. q \in Injection(1 .. Len(q), Node)
  BY <1>1 DEF Injection, IsInjective, Injective
<1>3. Cardinality(1 .. Len(q)) <= MaxOrders
  BY <1>2, NodesFinite, FS_Injection
<1>4. Cardinality(1 .. Len(q)) = Len(q)
  <2> DEFINE k == Len(q)
  <2> HIDE DEF k
  <2>1. k \in Nat
    BY <1>1 DEF k
  <2>2. Cardinality(1 .. k) = IF 1 > k THEN 0 ELSE k - 1 + 1
    BY <2>1, FS_Interval
  <2>3. Cardinality(1 .. k) = k
    BY <2>1, <2>2
  <2>4. QED
    BY <2>3 DEF k
<1>5. QED
  BY <1>1, <1>3, <1>4

\* ListFrom reads a list off the links.
LEMMA ListRead ==
    ASSUME NEW q \in Seq(Node), Injective(q), Forward(q, order_pool), NEW h, h = At(q, 1)
    PROVE  ListFrom(h) = q /\ Members(h) = Nodes(q) /\ Walk(h)[MaxOrders] = Null
<1> DEFINE walk == Walk(h)
           met == {k \in 0 .. MaxOrders - 1 : walk[k] # Null}
           k == Len(q)
<1>1. \A j \in 0 .. MaxOrders : walk[j] = At(q, j + 1)
  BY WalkAlong
<1>2. k \in Nat /\ k <= MaxOrders
  BY ListFits
<1>3. ListFrom(h) = [i \in 1 .. Cardinality(met) |-> walk[i - 1]]
  BY DEF ListFrom
<1> HIDE DEF walk
<1>4. /\ \A j \in 1 .. k : At(q, j) = q[j] /\ At(q, j) # Null
      /\ \A j \in Int : At(q, j) # Null => j \in 1 .. k
  BY AtPlace
<1>5. q = [i \in 1 .. k |-> q[i]]
  OBVIOUS
<1> HIDE DEF k
<1>6. met = 0 .. k - 1
  <2>1. ASSUME NEW j \in met PROVE j \in 0 .. k - 1
    <3>1. j \in 0 .. MaxOrders /\ j + 1 \in Int /\ At(q, j + 1) # Null
      BY <1>1, Sizes
    <3>2. j + 1 \in 1 .. k
      BY <1>4, <3>1
    <3>3. QED
      BY <1>2, <3>1, <3>2
  <2>2. ASSUME NEW j \in 0 .. k - 1 PROVE j \in met
    <3>1. j \in 0 .. MaxOrders - 1 /\ j \in 0 .. MaxOrders /\ j + 1 \in 1 .. k
      BY <1>2, Sizes
    <3>2. QED
      BY <1>1, <1>4, <3>1
  <2>3. QED
    BY <2>1, <2>2
<1>7. Cardinality(met) = k
  <2>1. k - 1 \in Int /\ 0 \in Int
    BY <1>2
  <2>2. Cardinality(0 .. k - 1) = IF 0 > k - 1 THEN 0 ELSE (k - 1) - 0 + 1
    BY <2>1, FS_Interval
  <2>3. Cardinality(0 .. k - 1) = k
    BY <1>2, <2>2
  <2>4. QED
    BY <1>6, <2>3
<1> HIDE DEF met
<1>8. \A i \in 1 .. k : walk[i - 1] = q[i]
  <2> TAKE i \in 1 .. k
  <2>1. i - 1 \in 0 .. MaxOrders /\ (i - 1) + 1 = i
    BY <1>2, Sizes
  <2>2. QED
    BY <1>1, <1>4, <2>1
<1>9. ListFrom(h) = q
  BY <1>3, <1>5, <1>7, <1>8
<1>10. Members(h) = Nodes(q)
  <2>1. Members(h) = {q[i] : i \in DOMAIN q}
    BY <1>9 DEF Members
  <2>2. DOMAIN q = 1 .. Len(q)
    OBVIOUS
  <2>3. QED
    BY <2>1, <2>2 DEF Nodes
<1>11. walk[MaxOrders] = Null
  <2>1. MaxOrders \in 0 .. MaxOrders /\ MaxOrders + 1 \in Int /\ ~ (MaxOrders + 1 \in 1 .. k)
    BY <1>2, Sizes
  <2>2. QED
    BY <1>1, <1>4, <2>1
<1>12. QED
  BY <1>9, <1>10, <1>11 DEF walk

\* What is read off the links of list a is list a.
ReadsAs(L, a) == ListFrom(HeadOf(a)) = L[a] /\ Members(HeadOf(a)) = Nodes(L[a]) /\ Walk(HeadOf(a))[MaxOrders] = Null

\* The lists that ListFrom reads off the links are those of L.
LEMMA Reading ==
    \A L : Threaded(L, order_pool, levels, free_list_head, {}) => \A a \in Anchor : ReadsAs(L, a)
<1> SUFFICES ASSUME NEW L, Threaded(L, order_pool, levels, free_list_head, {}), NEW a \in Anchor
             PROVE  ReadsAs(L, a)
  OBVIOUS
<1>1. L[a] \in Seq(Node) /\ Injective(L[a])
  BY DEF Threaded, Listed
<1>2. Forward(L[a], order_pool) /\ HeadOf(a) = At(L[a], 1)
  <2>1. CASE a = FreeList
    BY <2>1 DEF Threaded, HeadOf
  <2>2. CASE a # FreeList
    <3>1. a \in Level
      BY <2>2, Anchors
    <3>2. LevelList(L[a], order_pool, levels[a], a) /\ HeadOf(a) = levels[a].head
      BY <2>2, <3>1 DEF Threaded, HeadOf
    <3>3. QED
      BY <3>2 DEF LevelList
  <2>3. QED
    BY <2>1, <2>2
<1>3. QED
  BY <1>1, <1>2, ListRead DEF ReadsAs

\* The free list and the levels partition the pool.
LEMMA Partition == BookInv => PoolIsPartitioned
<1> SUFFICES ASSUME BookInv PROVE PoolIsPartitioned
  OBVIOUS
<1>1. PICK L : Threaded(L, order_pool, levels, free_list_head, {})
  BY DEF BookInv, Held
<1>2. \A a \in Anchor : Members(HeadOf(a)) = Nodes(L[a]) /\ Walk(HeadOf(a))[MaxOrders] = Null
  BY <1>1, Reading DEF ReadsAs
<1>3. ASSUME NEW n \in Node
      PROVE  \E a \in Anchor : \A b \in Anchor : n \in Members(HeadOf(b)) <=> b = a
  <2>1. PICK a \in Anchor : n \in Nodes(L[a])
    BY <1>1 DEF Threaded, Listed
  <2>2. ASSUME NEW b \in Anchor PROVE n \in Members(HeadOf(b)) <=> b = a
    <3>1. b # a => Nodes(L[a]) \cap Nodes(L[b]) = {}
      BY <1>1 DEF Threaded, Listed
    <3>2. QED
      BY <1>2, <2>1, <3>1
  <2>3. QED
    BY <2>2
<1>4. QED
  BY <1>2, <1>3 DEF PoolIsPartitioned

\* The lists read the same in both directions.
LEMMA Consistency == BookInv => ListsAreConsistent
<1> SUFFICES ASSUME BookInv PROVE ListsAreConsistent
  OBVIOUS
<1>1. PICK L : Threaded(L, order_pool, levels, free_list_head, {})
  BY DEF BookInv, Held
<1> SUFFICES ASSUME NEW l \in Level
             PROVE  LET list == ListFrom(levels[l].head)
                    IN  /\ levels[l].tail = IF list = << >> THEN Null ELSE list[Len(list)]
                        /\ \A i \in DOMAIN list :
                            /\ order_pool[list[i]].prev = IF i = 1 THEN Null ELSE list[i - 1]
                            /\ LevelOf(order_pool[list[i]]) = l
  BY DEF ListsAreConsistent
<1> DEFINE q == L[l]
<1>2. ListFrom(levels[l].head) = q
  <2>1. l \in Anchor /\ HeadOf(l) = levels[l].head
    BY Anchors DEF HeadOf
  <2>2. QED
    BY <1>1, <2>1, Reading DEF ReadsAs
<1>3. q \in Seq(Node) /\ LevelList(q, order_pool, levels[l], l)
  BY <1>1, Anchors DEF Threaded, Listed
<1> HIDE DEF q
<1>4. Len(q) \in Nat /\ DOMAIN q = 1 .. Len(q) /\ (q = << >> <=> Len(q) = 0)
  BY <1>3
<1>5. \A i \in 1 .. Len(q) : At(q, i) = q[i] /\ q[i] \in Nodes(q)
  BY <1>3, AtPlace
<1>6. At(q, 0) = Null
  BY <1>4 DEF At
<1>7. levels[l].tail = IF q = << >> THEN Null ELSE q[Len(q)]
  BY <1>3, <1>4, <1>5, <1>6 DEF LevelList
<1>8. ASSUME NEW i \in 1 .. Len(q)
      PROVE  order_pool[q[i]].prev = (IF i = 1 THEN Null ELSE q[i - 1]) /\ LevelOf(order_pool[q[i]]) = l
  <2>1. order_pool[q[i]].prev = At(q, i - 1)
    <3>1. order_pool[At(q, i)].prev = At(q, i - 1)
      BY <1>3 DEF LevelList, Backward
    <3>2. QED
      BY <1>5, <3>1
  <2>2. LevelOf(order_pool[q[i]]) = l
    BY <1>3, <1>5 DEF LevelList, AtHome
  <2>3. CASE i = 1
    BY <1>6, <2>1, <2>2, <2>3
  <2>4. CASE i # 1
    <3>1. i - 1 \in 1 .. Len(q)
      BY <1>4, <2>4
    <3>2. At(q, i - 1) = q[i - 1]
      BY <1>5, <3>1
    <3>3. QED
      BY <2>1, <2>2, <2>4, <3>2
  <2>5. QED
    BY <2>3, <2>4
<1>9. QED
  BY <1>2, <1>4, <1>7, <1>8

\* The resting orders, as the model reads them.
LEMMA RestingRead ==
    ASSUME NEW L, Threaded(L, order_pool, levels, free_list_head, {})
    PROVE  /\ \A l \in Level : RestingAt(l) = Nodes(L[l]) /\ Nodes(L[l]) \subseteq Node
           /\ UNION {RestingAt(l) : l \in Level} = Resting(L)
<1>1. ASSUME NEW l \in Level PROVE RestingAt(l) = Nodes(L[l]) /\ Nodes(L[l]) \subseteq Node
  <2>1. l \in Anchor /\ HeadOf(l) = levels[l].head /\ L[l] \in Seq(Node)
    BY Anchors DEF HeadOf, Threaded, Listed
  <2>2. ReadsAs(L, l)
    BY <2>1, Reading
  <2>3. QED
    BY <2>1, <2>2, AtPlace DEF ReadsAs, RestingAt
<1>2. QED
  BY <1>1 DEF Resting

\* The volumes are sums.
LEMMA Volumes == BookInv => VolumeIsSum
<1> SUFFICES ASSUME BookInv, NEW l \in Level
             PROVE  get_volume_at_price(l[1], l[2]) =
                        SumFunctionOnSet([n \in Node |-> order_pool[n].quantity], RestingAt(l)) % Modulus
  BY DEF VolumeIsSum
<1>1. PICK L : Threaded(L, order_pool, levels, free_list_head, {})
  BY DEF BookInv, Held
<1>2. RestingAt(l) = Nodes(L[l])
  BY <1>1, RestingRead
<1>3. levels[l].total_volume = Volume(order_pool, Nodes(L[l]))
  BY <1>1 DEF Threaded, LevelList
<1>4. get_volume_at_price(l[1], l[2]) = levels[l].total_volume
  <2>1. <<l[1], l[2]>> = l /\ l[2] \in 0 .. MaxPrice - 1
    BY DEF Level
  <2>2. ~ (l[2] >= MaxPrice)
    BY <2>1, Sizes
  <2>3. QED
    BY <2>1, <2>2 DEF get_volume_at_price
<1>5. QED
  BY <1>2, <1>3, <1>4 DEF Volume, Quantities

\* The map knows the resting orders.
LEMMA MapKnows == BookInv => MapFindsResting
<1> SUFFICES ASSUME BookInv PROVE MapFindsResting
  OBVIOUS
<1>1. PICK L : Held(L, order_pool, levels, free_list_head, order_map)
  BY DEF BookInv
<1> DEFINE R == UNION {RestingAt(l) : l \in Level}
<1>2. R = Resting(L) /\ MapInv(R, order_pool, order_map) /\ TypeOK
  BY <1>1, RestingRead DEF BookInv, Held
<1> HIDE DEF R
<1>3. ASSUME NEW id \in OrderId, NEW nodes, nodes = {n \in R : order_pool[n].id = id}
      PROVE  IF nodes = {}
             THEN FindStops(id) = {} \/ map_find(id) = Null
             ELSE FindStops(id) # {} /\ nodes = {map_find(id)}
  <2>1. id \in Nat
    BY BookAssumption
  <2>2. CASE nodes = {}
    <3>1. FindStops(id) # {} /\ map_find(id) # Null => map_find(id) \in nodes
      BY <1>2, <1>3, <2>1, FoundRests
    <3>2. QED
      BY <2>2, <3>1
  <2>3. CASE nodes # {}
    <3>1. PICK n \in R : order_pool[n].id = id
      BY <1>3, <2>3
    <3>2. FindStops(id) # {} /\ map_find(id) = n
      BY <1>2, <2>1, <3>1, FindsResting
    <3>3. \A m \in nodes : m = n
      BY <1>2, <1>3, <3>1 DEF MapInv
    <3>4. n \in nodes
      BY <1>3, <3>1
    <3>5. QED
      BY <2>3, <3>2, <3>3, <3>4
  <2>4. QED
    BY <2>2, <2>3
<1>4. QED
  BY <1>3 DEF MapFindsResting, R

\* No node is lost, none is in two lists, and no list runs into a cycle
\* (allocate_order, deallocate_order, insert_order, remove_order).
THEOREM PoolPartitioned == Spec => []PoolIsPartitioned
<1>1. QED
  BY BookInvariant, Partition, PTL

\* The lists read the same in both directions and hold the orders of their
\* level (insert_order, remove_order).
THEOREM ListsConsistent == Spec => []ListsAreConsistent
<1>1. QED
  BY BookInvariant, Consistency, PTL

\* get_volume_at_price returns what rests, up to wrap-around.
THEOREM VolumesAreSums == Spec => []VolumeIsSum
<1>1. QED
  BY BookInvariant, Volumes, PTL

\* A lookup finds exactly the resting orders, across tombstones and
\* collisions (map_insert, map_find, map_erase).
THEOREM MapFinds == Spec => []MapFindsResting
<1>1. QED
  BY BookInvariant, MapKnows, PTL

------------------------------------------------------------------------------
(* The queues of the abstract book *)

\* What the abstract book knows of an order, and of a list of them.
Order(o) == [id |-> o.id, quantity |-> o.quantity]
OrderRecord == [id : Nat, quantity : 0 .. Modulus - 1]
Image(q, pool) == [i \in 1 .. Len(q) |-> Order(pool[q[i]])]

\* The image of a list is a queue of as many orders.
LEMMA ImageType ==
    ASSUME NEW q \in Seq(Node), NEW pool \in [Node -> NodeRecord]
    PROVE  /\ Image(q, pool) \in Seq(OrderRecord) /\ Len(Image(q, pool)) = Len(q)
           /\ \A i \in 1 .. Len(q) : Image(q, pool)[i] = Order(pool[q[i]]) /\ q[i] \in Nodes(q)
           /\ \A n \in Node : Order(pool[n]) \in OrderRecord
<1>1. \A n \in Node : Order(pool[n]) \in OrderRecord
  BY DEF Order, OrderRecord, NodeRecord
<1> DEFINE k == Len(q)
<1>2. k \in Nat /\ \A i \in 1 .. k : q[i] \in Node
  OBVIOUS
<1>3. Image(q, pool) = [i \in 1 .. k |-> Order(pool[q[i]])]
  BY DEF Image
<1> HIDE DEF k
<1>4. Image(q, pool) \in Seq(OrderRecord) /\ Len(Image(q, pool)) = k
  BY <1>1, <1>2, <1>3
<1>5. \A i \in 1 .. Len(q) : Image(q, pool)[i] = Order(pool[q[i]]) /\ q[i] \in Nodes(q)
  BY DEF Image, Nodes
<1>6. QED
  BY <1>1, <1>4, <1>5 DEF k

\* Links do not matter to it.
LEMMA ImageSame ==
    ASSUME NEW q \in Seq(Node), NEW pool, NEW other, \A m \in Nodes(q) : Order(other[m]) = Order(pool[m])
    PROVE  Image(q, other) = Image(q, pool)
<1>1. \A i \in 1 .. Len(q) : q[i] \in Nodes(q)
  BY DEF Nodes
<1>2. QED
  BY <1>1 DEF Image

\* The image of a longer list.
LEMMA ImageAppended ==
    ASSUME NEW q \in Seq(Node), NEW pool \in [Node -> NodeRecord], NEW n \in Node
    PROVE  Image(Append(q, n), pool) = Append(Image(q, pool), Order(pool[n]))
<1> DEFINE a == Append(q, n)
           k == Len(q)
           m == Image(q, pool)
           o == Order(pool[n])
<1>1. a \in Seq(Node) /\ k \in Nat /\ Len(a) = k + 1 /\ a[k + 1] = n /\ \A i \in 1 .. k : a[i] = q[i]
  OBVIOUS
<1>2. m \in Seq(OrderRecord) /\ Len(m) = k /\ o \in OrderRecord /\ \A i \in 1 .. k : m[i] = Order(pool[q[i]])
  BY ImageType
<1> HIDE DEF a, m, o, k
<1>3. /\ Image(a, pool) \in Seq(OrderRecord) /\ Len(Image(a, pool)) = k + 1
      /\ \A i \in 1 .. k + 1 : Image(a, pool)[i] = Order(pool[a[i]])
  BY <1>1, ImageType
<1>4. /\ Append(m, o) \in Seq(OrderRecord) /\ Len(Append(m, o)) = k + 1
      /\ Append(m, o)[k + 1] = o /\ \A i \in 1 .. k : Append(m, o)[i] = m[i]
  BY <1>1, <1>2
<1>5. \A i \in 1 .. k + 1 : Image(a, pool)[i] = Append(m, o)[i]
  <2> TAKE i \in 1 .. k + 1
  <2>1. CASE i = k + 1
    BY <1>1, <1>3, <1>4, <2>1 DEF o
  <2>2. CASE i # k + 1
    <3>1. i \in 1 .. k
      BY <1>1, <2>2
    <3>2. QED
      BY <1>1, <1>2, <1>3, <1>4, <3>1
  <2>3. QED
    BY <2>1, <2>2
<1>6. Image(a, pool) = Append(m, o)
  BY <1>3, <1>4, <1>5, SeqEqual
<1>7. QED
  BY <1>6 DEF a, m, o

\* The image of a list with an order taken out.
LEMMA ImageCut ==
    ASSUME NEW q \in Seq(Node), Injective(q), NEW i \in 1 .. Len(q), NEW pool \in [Node -> NodeRecord],
           NEW other \in [Node -> NodeRecord], \A m \in Nodes(q) : m # q[i] => Order(other[m]) = Order(pool[m])
    PROVE  Image(PriceTime!Without(q, i), other) = PriceTime!Without(Image(q, pool), i)
<1> DEFINE w == PriceTime!Without(q, i)
           k == Len(q)
           m == Image(q, pool)
           v == PriceTime!Without(m, i)
<1>1. /\ w \in Seq(Node) /\ Len(w) = k - 1 /\ k \in Nat /\ i \in 1 .. k
      /\ \A j \in 1 .. k - 1 : w[j] = IF j < i THEN q[j] ELSE q[j + 1]
  <2>1. w = CutAt(q, i)
    BY DEF PriceTime!Without, CutAt
  <2>2. QED
    BY <2>1, CutOut
<1>2. m \in Seq(OrderRecord) /\ Len(m) = k /\ \A j \in 1 .. k : m[j] = Order(pool[q[j]]) /\ q[j] \in Nodes(q)
  BY ImageType
<1>3. /\ v \in Seq(OrderRecord) /\ Len(v) = k - 1
      /\ \A j \in 1 .. k - 1 : v[j] = IF j < i THEN m[j] ELSE m[j + 1]
  <2> HIDE DEF m
  <2>1. v = CutAt(m, i)
    BY DEF PriceTime!Without, CutAt
  <2>2. i \in 1 .. Len(m)
    BY <1>2
  <2>3. /\ CutAt(m, i) \in Seq(OrderRecord) /\ Len(CutAt(m, i)) = Len(m) - 1
        /\ \A j \in 1 .. Len(m) - 1 : CutAt(m, i)[j] = IF j < i THEN m[j] ELSE m[j + 1]
    BY <1>2, <2>2, CutOut
  <2> HIDE DEF v
  <2>4. QED
    BY <1>2, <2>1, <2>3
<1>4. \A j \in 1 .. k : j # i => q[j] # q[i]
  BY DEF Injective
<1> HIDE DEF w, m, v, k
<1>5. /\ Image(w, other) \in Seq(OrderRecord) /\ Len(Image(w, other)) = k - 1
      /\ \A j \in 1 .. k - 1 : Image(w, other)[j] = Order(other[w[j]])
  BY <1>1, ImageType
<1>6. \A j \in 1 .. k : j # i => Order(other[q[j]]) = m[j]
  BY <1>2, <1>4
<1>7. \A j \in 1 .. k - 1 : Image(w, other)[j] = v[j]
  <2> TAKE j \in 1 .. k - 1
  <2>1. CASE j < i
    <3>1. j \in 1 .. k /\ j # i
      BY <1>1, <2>1
    <3>2. w[j] = q[j] /\ v[j] = m[j]
      BY <1>1, <1>3, <2>1
    <3>3. QED
      BY <1>5, <1>6, <3>1, <3>2
  <2>2. CASE ~ (j < i)
    <3>1. j + 1 \in 1 .. k /\ j + 1 # i
      BY <1>1, <2>2
    <3>2. w[j] = q[j + 1] /\ v[j] = m[j + 1]
      BY <1>1, <1>3, <2>2
    <3>3. QED
      BY <1>5, <1>6, <3>1, <3>2
  <2>3. QED
    BY <2>1, <2>2
<1>8. Image(w, other) = v
  BY <1>3, <1>5, <1>7, SeqEqual
<1>9. QED
  BY <1>8 DEF w, v, m

\* The image of a list with a quantity changed.
LEMMA ImageReduced ==
    ASSUME NEW q \in Seq(Node), Injective(q), NEW i \in 1 .. Len(q), NEW pool \in [Node -> NodeRecord],
           NEW other, \A m \in Nodes(q) : m # q[i] => Order(other[m]) = Order(pool[m]),
           other[q[i]].id = pool[q[i]].id
    PROVE  Image(q, other) = [Image(q, pool) EXCEPT ![i].quantity = other[q[i]].quantity]
<1> DEFINE k == Len(q)
           quantity == other[q[i]].quantity
           m == Image(q, pool)
<1>1. m = [j \in 1 .. k |-> Order(pool[q[j]])] /\ Image(q, other) = [j \in 1 .. k |-> Order(other[q[j]])]
  BY DEF Image
<1>2. i \in 1 .. k
  OBVIOUS
<1>3. \A j \in 1 .. k : j # i => q[j] # q[i] /\ q[j] \in Nodes(q)
  BY DEF Injective, Nodes
<1> HIDE DEF k, m
<1>4. Order(other[q[i]]) = [Order(pool[q[i]]) EXCEPT !.quantity = quantity]
  BY DEF Order
<1>5. \A j \in 1 .. k : j # i => Order(other[q[j]]) = Order(pool[q[j]])
  BY <1>3
<1>6. [m EXCEPT ![i].quantity = quantity] =
          [j \in 1 .. k |-> IF j = i THEN [Order(pool[q[i]]) EXCEPT !.quantity = quantity] ELSE Order(pool[q[j]])]
  BY <1>1, <1>2
<1>7. Image(q, other) = [m EXCEPT ![i].quantity = quantity]
  <2> DEFINE f(j) == Order(other[q[j]])
             g(j) == IF j = i THEN [Order(pool[q[i]]) EXCEPT !.quantity = quantity] ELSE Order(pool[q[j]])
  <2>1. \A j \in 1 .. k : f(j) = g(j)
    BY <1>4, <1>5
  <2> HIDE DEF f, g
  <2>2. [j \in 1 .. k |-> f(j)] = [j \in 1 .. k |-> g(j)]
    BY <2>1
  <2>3. QED
    BY <1>1, <1>6, <2>2 DEF f, g
<1>8. QED
  BY <1>7 DEF m

\* The queues are the lists, and their orders the abstract ones.
QueuesRead ==
    \A L : Threaded(L, order_pool, levels, free_list_head, {}) => \A l \in Level : Orders(l) = Image(L[l], order_pool)

\* It holds of every state ...
LEMMA QueuesAreRead == QueuesRead
<1> SUFFICES ASSUME NEW L, Threaded(L, order_pool, levels, free_list_head, {}), NEW l \in Level
             PROVE  Orders(l) = Image(L[l], order_pool)
  BY DEF QueuesRead
<1>1. ListFrom(levels[l].head) = L[l] /\ L[l] \in Seq(Node)
  <2>1. l \in Anchor /\ HeadOf(l) = levels[l].head /\ L[l] \in Seq(Node)
    BY Anchors DEF HeadOf, Threaded, Listed
  <2>2. QED
    BY <2>1, Reading DEF ReadsAs
<1>2. DOMAIN L[l] = 1 .. Len(L[l])
  BY <1>1
<1>3. QED
  BY <1>1, <1>2 DEF Orders, Image, Order

\* ... and so of the next one.
LEMMA QueuesAreReadNext == QueuesRead'
  BY QueuesAreRead, PTL

\* A place of the abstract book is one of a list.
LEMMA PlaceRead ==
    ASSUME TypeOK, NEW L, Threaded(L, order_pool, levels, free_list_head, {}), NEW p \in PriceTime!Places
    PROVE  /\ p[1] \in Level /\ p[2] \in 1 .. Len(L[p[1]]) /\ p = <<p[1], p[2]>>
           /\ L[p[1]] \in Seq(Node) /\ L[p[1]][p[2]] \in Nodes(L[p[1]]) /\ L[p[1]][p[2]] \in Node
           /\ Orders(p[1])[p[2]] = Order(order_pool[L[p[1]][p[2]]])
<1> DEFINE l == p[1]
           i == p[2]
<1>1. l \in Level /\ p = <<p[1], p[2]>> /\ i \in DOMAIN Orders(l)
  BY DEF Queue, PriceTime!Places, PriceTime!Level, PriceTime!Side, Level, Side
<1>2. Orders(l) = Image(L[l], order_pool) /\ L[l] \in Seq(Node) /\ order_pool \in [Node -> NodeRecord]
  BY <1>1, QueuesAreRead, Anchors, TypeParts DEF QueuesRead, Threaded, Listed
<1> HIDE DEF l, i
<1>3. DOMAIN Image(L[l], order_pool) = 1 .. Len(L[l])
  BY DEF Image
<1>4. i \in 1 .. Len(L[l])
  BY <1>1, <1>2, <1>3
<1>5. L[l][i] \in Nodes(L[l]) /\ Orders(l)[i] = Order(order_pool[L[l][i]])
  BY <1>2, <1>4, ImageType
<1>6. L[l][i] \in Node
  BY <1>2, <1>4
<1>7. QED
  BY <1>1, <1>2, <1>4, <1>5, <1>6 DEF l, i

\* While a node is free, the abstract book has room.
LEMMA RoomLeft ==
    ASSUME TypeOK, NEW L, Threaded(L, order_pool, levels, free_list_head, {}), free_list_head # Null
    PROVE  Cardinality(PriceTime!Places) < MaxOrders
<1> DEFINE P == PriceTime!Places
           n == free_list_head
           T == Node \ {n}
           f == [p \in P |-> L[p[1]][p[2]]]
<1>1. n \in Node /\ n \in Nodes(L[FreeList])
  BY Allocating
<1>2. /\ \A a \in Anchor : Injective(L[a])
      /\ \A a, b \in Anchor : a # b => Nodes(L[a]) \cap Nodes(L[b]) = {}
  BY DEF Threaded, Listed
<1>3. ASSUME NEW p \in P
      PROVE  /\ p[1] \in Level /\ p[1] \in Anchor /\ p[2] \in 1 .. Len(L[p[1]]) /\ p = <<p[1], p[2]>>
             /\ f[p] = L[p[1]][p[2]] /\ f[p] \in Nodes(L[p[1]]) /\ f[p] \in Node
  BY PlaceRead, Anchors
<1> HIDE DEF P, n, f
<1>4. f \in [P -> T]
  <2>1. ASSUME NEW p \in P PROVE f[p] \in T
    <3>1. Nodes(L[p[1]]) \cap Nodes(L[FreeList]) = {}
      BY <1>2, <1>3, Anchors
    <3>2. QED
      BY <1>1, <1>3, <3>1
  <2>2. QED
    BY <2>1 DEF f
<1>5. ASSUME NEW p \in P, NEW r \in P, f[p] = f[r] PROVE p = r
  <2>1. /\ p[1] \in Anchor /\ f[p] \in Nodes(L[p[1]]) /\ f[p] = L[p[1]][p[2]]
        /\ p[2] \in 1 .. Len(L[p[1]]) /\ p = <<p[1], p[2]>>
    BY <1>3
  <2>2. /\ r[1] \in Anchor /\ f[r] \in Nodes(L[r[1]]) /\ f[r] = L[r[1]][r[2]]
        /\ r[2] \in 1 .. Len(L[r[1]]) /\ r = <<r[1], r[2]>>
    BY <1>3
  <2>3. p[1] = r[1]
    <3>1. p[1] # r[1] => Nodes(L[p[1]]) \cap Nodes(L[r[1]]) = {}
      BY <1>2, <2>1, <2>2
    <3>2. QED
      BY <1>5, <2>1, <2>2, <3>1
  <2>4. p[2] = r[2]
    <3>1. Injective(L[p[1]])
      BY <1>2, <2>1
    <3>2. QED
      BY <1>5, <2>1, <2>2, <2>3, <3>1 DEF Injective
  <2>5. QED
    BY <2>1, <2>2, <2>3, <2>4
<1>6. f \in Injection(P, T)
  <2>1. DOMAIN f = P
    BY DEF f
  <2>2. QED
    BY <1>4, <1>5, <2>1 DEF Injection, IsInjective
<1>7. IsFiniteSet(T) /\ Cardinality(T) = MaxOrders - 1
  BY <1>1, NodesFinite, FS_RemoveElement
<1>8. Cardinality(P) <= Cardinality(T) /\ IsFiniteSet(P)
  BY <1>6, <1>7, FS_Injection
<1>9. Cardinality(P) \in Nat
  BY <1>8, FS_CardinalityType
<1>10. QED
  BY <1>7, <1>8, <1>9, Sizes DEF P

\* What a step of the book does to one queue is a step of the abstract book.
LEMMA AbstractStep ==
    ASSUME NEW l \in Level, \A b \in Level : b # l => Orders(b)' = Orders(b),
           Orders(l)' \in PriceTime!Allowed(Orders(l))
    PROVE  PriceTime!Next
<1>0. Queue = [b \in Level |-> Orders(b)] /\ Queue' = [b \in Level |-> Orders(b)']
  BY DEF Queue
<1>1. Queue' = [Queue EXCEPT ![l] = Queue'[l]] /\ Queue[l] = Orders(l) /\ Queue'[l] = Orders(l)'
  BY <1>0
<1>2. l \in PriceTime!Level
  BY DEF PriceTime!Level, PriceTime!Side, Level, Side
<1>3. Queue'[l] \in PriceTime!Allowed(Queue[l])
  BY <1>1
<1>4. QED
  BY <1>1, <1>2, <1>3 DEF PriceTime!Next

\* The queues before and after a call, and the nodes they are read from.
LEMMA QueuesOf ==
    ASSUME TypeOK, TypeOK', NEW L, Held(L, order_pool, levels, free_list_head, order_map),
           NEW K, Held(K, order_pool', levels', free_list_head', order_map')
    PROVE  /\ order_pool \in [Node -> NodeRecord] /\ order_pool' \in [Node -> NodeRecord]
           /\ \A b \in Level : Orders(b) = Image(L[b], order_pool) /\ Orders(b)' = Image(K[b], order_pool')
           /\ L \in [Anchor -> Seq(Node)] /\ \A b \in Level : L[b] \in Seq(Node) /\ Injective(L[b])
           /\ \A b \in Level : Nodes(L[b]) \subseteq Node /\ Nodes(L[b]) \subseteq Resting(L)
<1>1. order_pool \in [Node -> NodeRecord] /\ order_pool' \in [Node -> NodeRecord]
  BY TypeParts, TypePartsNext
<1>2. \A b \in Level : Orders(b) = Image(L[b], order_pool)
  BY QueuesAreRead DEF QueuesRead, Held
<1>3. \A b \in Level : Orders(b)' = Image(K[b], order_pool')
  BY QueuesAreReadNext DEF QueuesRead, Held
<1>4. L \in [Anchor -> Seq(Node)] /\ \A b \in Level : L[b] \in Seq(Node) /\ Injective(L[b])
  BY Anchors DEF Held, Threaded, Listed
<1>5. \A b \in Level : Nodes(L[b]) \subseteq Node
  BY <1>4, AtPlace
<1>6. \A b \in Level : Nodes(L[b]) \subseteq Resting(L)
  BY <1>5 DEF Resting
<1>7. QED
  BY <1>1, <1>2, <1>3, <1>4, <1>5, <1>6

\* add appends to the queue of its level.
LEMMA AddRefines ==
    ASSUME TypeOK, TypeOK', NEW L, Held(L, order_pool, levels, free_list_head, order_map),
           NEW id \in OrderId, NEW side \in Side, NEW price \in Price, NEW quantity \in Quantity,
           Add(id, side, price, quantity)
    PROVE  PriceTime!Next
<1> DEFINE n == free_list_head
           l == <<side, price>>
           K == Added(L, l, n)
<1>1. /\ n \in Node /\ n \notin Resting(L) /\ l \in Level
      /\ Held(K, order_pool', levels', free_list_head', order_map')
      /\ order_pool'[n].id = id /\ order_pool'[n].quantity = quantity
      /\ \A m \in Node : m # n => order_pool'[m].id = order_pool[m].id /\ order_pool'[m].quantity = order_pool[m].quantity
      /\ \A m \in Resting(L) : order_pool[m].id # id
  BY Adding
<1> HIDE DEF n, l
<1>2. K[l] = Append(L[l], n) /\ \A b \in Level : b # l => K[b] = L[b]
  <2>1. L \in [Anchor -> Seq(Node)]
    BY DEF Held, Threaded, Listed
  <2>2. QED
    BY <1>1, <2>1, AddedLists
<1> HIDE DEF K
<1>3. /\ order_pool \in [Node -> NodeRecord] /\ order_pool' \in [Node -> NodeRecord]
      /\ \A b \in Level : Orders(b) = Image(L[b], order_pool) /\ Orders(b)' = Image(K[b], order_pool')
      /\ \A b \in Level : L[b] \in Seq(Node)
      /\ \A b \in Level : Nodes(L[b]) \subseteq Node /\ Nodes(L[b]) \subseteq Resting(L)
  BY <1>1, QueuesOf
<1>4. \A b \in Level : \A m \in Nodes(L[b]) : Order(order_pool'[m]) = Order(order_pool[m])
  BY <1>1, <1>3 DEF Order
<1>5. \A b \in Level : Image(L[b], order_pool') = Image(L[b], order_pool)
  BY <1>3, <1>4, ImageSame
<1>6. \A b \in Level : b # l => Orders(b)' = Orders(b)
  BY <1>2, <1>3, <1>5
<1>7. Orders(l)' = Append(Orders(l), [id |-> id, quantity |-> quantity])
  <2>1. Orders(l)' = Append(Image(L[l], order_pool'), Order(order_pool'[n]))
    <3>1. Orders(l)' = Image(Append(L[l], n), order_pool') /\ L[l] \in Seq(Node)
      BY <1>1, <1>2, <1>3
    <3>2. Image(Append(L[l], n), order_pool') = Append(Image(L[l], order_pool'), Order(order_pool'[n]))
      BY <1>1, <1>3, <3>1, ImageAppended
    <3>3. QED
      BY <3>1, <3>2
  <2>2. Order(order_pool'[n]) = [id |-> id, quantity |-> quantity]
    BY <1>1 DEF Order
  <2>3. QED
    BY <1>1, <1>3, <1>5, <2>1, <2>2
<1>8. Cardinality(PriceTime!Places) < MaxOrders
  <2>1. free_list_head # Null
    BY DEF Add
  <2>2. QED
    BY <2>1, RoomLeft DEF Held
<1>9. id \notin PriceTime!Ids
  <2> SUFFICES ASSUME NEW p \in PriceTime!Places PROVE Queue[p[1]][p[2]].id # id
    BY DEF PriceTime!Ids
  <2>1. /\ p[1] \in Level /\ L[p[1]][p[2]] \in Nodes(L[p[1]])
        /\ Orders(p[1])[p[2]] = Order(order_pool[L[p[1]][p[2]]])
    BY PlaceRead DEF Held
  <2>2. Queue[p[1]][p[2]].id = order_pool[L[p[1]][p[2]]].id
    BY <2>1 DEF Queue, Order
  <2>3. L[p[1]][p[2]] \in Resting(L)
    BY <1>3, <2>1
  <2>4. QED
    BY <1>1, <2>2, <2>3
<1>10. Orders(l)' \in PriceTime!Add(Orders(l))
  <2> DEFINE S == IF Cardinality(PriceTime!Places) < MaxOrders THEN OrderId \ PriceTime!Ids ELSE {}
  <2>1. id \in S
    BY <1>8, <1>9
  <2>2. PriceTime!Add(Orders(l)) = {Append(Orders(l), [id |-> x, quantity |-> y]) : y \in Quantity, x \in S}
    <3>1. PriceTime!Cardinality(PriceTime!Places) = Cardinality(PriceTime!Places)
      BY DEF PriceTime!Cardinality, Cardinality
    <3>2. QED
      BY <3>1 DEF PriceTime!Add
  <2> HIDE DEF S
  <2>3. Append(Orders(l), [id |-> id, quantity |-> quantity]) \in PriceTime!Add(Orders(l))
    BY <2>1, <2>2
  <2>4. QED
    BY <1>7, <2>3
<1>11. QED
  BY <1>1, <1>6, <1>10, AbstractStep DEF PriceTime!Allowed

\* cancel takes the order out of its queue.
LEMMA CancelRefines ==
    ASSUME TypeOK, TypeOK', NEW L, Held(L, order_pool, levels, free_list_head, order_map),
           NEW id \in OrderId, Cancel(id)
    PROVE  PriceTime!Next
<1> DEFINE n == map_find(id)
<1>1. FindStops(id) # {} /\ n # Null
  BY DEF Cancel
<1>2. PICK l \in Level : l = LevelOf(order_pool[n]) /\ \E i \in 1 .. Len(L[l]) : L[l][i] = n
  BY <1>1, Found
<1>3. PICK i \in 1 .. Len(L[l]) : L[l][i] = n
  BY <1>2
<1> DEFINE K == Removed(L, l, i)
<1>4. /\ Held(K, order_pool', levels', free_list_head', order_map')
      /\ \A m \in Node : order_pool'[m].id = order_pool[m].id /\ order_pool'[m].quantity = order_pool[m].quantity
  BY <1>2, <1>3, Cancelling
<1>5. K[l] = PriceTime!Without(L[l], i) /\ \A b \in Level : b # l => K[b] = L[b]
  <2>1. L \in [Anchor -> Seq(Node)]
    BY DEF Held, Threaded, Listed
  <2>2. QED
    BY <2>1, RemovedLists
<1> HIDE DEF K, n
<1>6. /\ order_pool \in [Node -> NodeRecord] /\ order_pool' \in [Node -> NodeRecord]
      /\ \A b \in Level : Orders(b) = Image(L[b], order_pool) /\ Orders(b)' = Image(K[b], order_pool')
      /\ \A b \in Level : L[b] \in Seq(Node) /\ Injective(L[b])
      /\ \A b \in Level : Nodes(L[b]) \subseteq Node
  BY <1>4, QueuesOf
<1>7. \A b \in Level : \A m \in Nodes(L[b]) : Order(order_pool'[m]) = Order(order_pool[m])
  BY <1>4, <1>6 DEF Order
<1>8. \A b \in Level : b # l => Orders(b)' = Orders(b)
  <2>1. \A b \in Level : Image(L[b], order_pool') = Image(L[b], order_pool)
    BY <1>6, <1>7, ImageSame
  <2>2. QED
    BY <1>5, <1>6, <2>1
<1>9. Orders(l)' = PriceTime!Without(Orders(l), i) /\ i \in DOMAIN Orders(l)
  <2>1. Image(PriceTime!Without(L[l], i), order_pool') = PriceTime!Without(Image(L[l], order_pool), i)
    BY <1>6, <1>7, ImageCut
  <2>2. DOMAIN Image(L[l], order_pool) = 1 .. Len(L[l])
    BY DEF Image
  <2>3. QED
    BY <1>5, <1>6, <2>1, <2>2
<1>10. Orders(l)' \in PriceTime!Cancel(Orders(l))
  BY <1>9 DEF PriceTime!Cancel
<1>11. QED
  BY <1>8, <1>10, AbstractStep DEF PriceTime!Allowed

\* modify sends the order to the back or leaves it in its place.
LEMMA ModifyRefines ==
    ASSUME TypeOK, TypeOK', NEW L, Held(L, order_pool, levels, free_list_head, order_map),
           NEW id \in OrderId, NEW quantity \in Quantity, ModifyUp(id, quantity) \/ ModifyDown(id, quantity)
    PROVE  PriceTime!Next
<1> DEFINE n == map_find(id)
<1>1. FindStops(id) # {} /\ n # Null
  BY DEF ModifyUp, ModifyDown
<1>2. PICK l \in Level : l = LevelOf(order_pool[n]) /\ \E i \in 1 .. Len(L[l]) : L[l][i] = n
  BY <1>1, Found
<1>3. PICK i \in 1 .. Len(L[l]) : L[l][i] = n
  BY <1>2
<1>4. PICK K : /\ Held(K, order_pool', levels', free_list_head', order_map')
               /\ \/ ModifyUp(id, quantity) /\ K = Moved(L, l, i)
                  \/ ModifyDown(id, quantity) /\ K = L
               /\ \A m \in Node : order_pool'[m].id = order_pool[m].id
               /\ \A m \in Node : m # n => order_pool'[m].quantity = order_pool[m].quantity
               /\ order_pool'[n].quantity = quantity
  <2>1. CASE ModifyUp(id, quantity)
    <3>1. /\ Held(Moved(L, l, i), order_pool', levels', free_list_head', order_map')
          /\ \A m \in Node : order_pool'[m].id = order_pool[m].id
          /\ \A m \in Node : m # n => order_pool'[m].quantity = order_pool[m].quantity
          /\ order_pool'[n].quantity = quantity
      BY <1>2, <1>3, <2>1, Increasing
    <3>2. QED
      BY <2>1, <3>1
  <2>2. CASE ModifyDown(id, quantity)
    <3>1. /\ Held(L, order_pool', levels', free_list_head', order_map')
          /\ \A m \in Node : order_pool'[m].id = order_pool[m].id
          /\ \A m \in Node : m # n => order_pool'[m].quantity = order_pool[m].quantity
          /\ order_pool'[n].quantity = quantity
      BY <1>2, <1>3, <2>2, Reducing
    <3>2. QED
      BY <2>2, <3>1
  <2>3. QED
    BY <2>1, <2>2
<1>5. /\ order_pool \in [Node -> NodeRecord] /\ order_pool' \in [Node -> NodeRecord]
      /\ \A b \in Level : Orders(b) = Image(L[b], order_pool) /\ Orders(b)' = Image(K[b], order_pool')
      /\ \A b \in Level : L[b] \in Seq(Node) /\ Injective(L[b])
      /\ \A b \in Level : Nodes(L[b]) \subseteq Node
      /\ L \in [Anchor -> Seq(Node)]
  BY <1>4, QueuesOf
<1>6. PlacedAt(L, l, i, n)
  BY <1>3, FoundOrder DEF Held, Threaded
<1>7. /\ n \in Node /\ \A b \in Level : b # l => n \notin Nodes(L[b])
      /\ PriceTime!Without(L[l], i) \in Seq(Node)
  BY <1>6 DEF PlacedAt
<1>8. quantity # 0 /\ (ModifyUp(id, quantity) => quantity > order_pool[n].quantity)
      /\ (ModifyDown(id, quantity) => quantity <= order_pool[n].quantity) /\ quantity \in Nat
      /\ order_pool[n].quantity \in Nat
  <2>1. quantity \in Nat /\ order_pool[n].quantity \in Nat
    BY <1>5, <1>7, BookAssumption DEF NodeRecord
  <2>2. /\ ModifyUp(id, quantity) => quantity > order_pool[n].quantity
        /\ ModifyDown(id, quantity) => quantity # 0 /\ quantity <= order_pool[n].quantity
    BY DEF ModifyUp, ModifyDown
  <2> HIDE DEF n
  <2>3. QED
    BY <2>1, <2>2
<1> HIDE DEF n
<1>9. \A b \in Level : \A m \in Nodes(L[b]) : m # n => Order(order_pool'[m]) = Order(order_pool[m])
  BY <1>4, <1>5 DEF Order
<1>10. \A b \in Level : b # l => Orders(b)' = Orders(b)
  <2> SUFFICES ASSUME NEW b \in Level, b # l PROVE Orders(b)' = Orders(b)
    OBVIOUS
  <2>1. \A m \in Nodes(L[b]) : Order(order_pool'[m]) = Order(order_pool[m])
    BY <1>7, <1>9
  <2>2. Image(L[b], order_pool') = Image(L[b], order_pool)
    BY <1>5, <2>1, ImageSame
  <2>3. Moved(L, l, i)[b] = L[b]
    BY <1>5, Anchors DEF Moved
  <2>4. QED
    BY <1>4, <1>5, <2>2, <2>3
<1>11. i \in DOMAIN Orders(l) /\ Orders(l)[i] = Order(order_pool[n])
  <2>1. DOMAIN Image(L[l], order_pool) = 1 .. Len(L[l])
    BY DEF Image
  <2>2. Image(L[l], order_pool)[i] = Order(order_pool[L[l][i]])
    BY DEF Image
  <2>3. QED
    BY <1>3, <1>5, <2>1, <2>2
<1>12. Orders(l)[i].quantity = order_pool[n].quantity
  BY <1>11 DEF Order
<1>13. CASE ModifyUp(id, quantity) /\ K = Moved(L, l, i)
  <2> DEFINE w == PriceTime!Without(L[l], i)
  <2>1. K[l] = Append(w, n)
    <3>1. K[l] = Append(w, L[l][i])
      BY <1>5, <1>13, Anchors DEF Moved
    <3>2. QED
      BY <1>3, <3>1
  <2>2. Image(w, order_pool') = PriceTime!Without(Image(L[l], order_pool), i)
    <3>1. \A m \in Nodes(L[l]) : m # L[l][i] => Order(order_pool'[m]) = Order(order_pool[m])
      BY <1>3, <1>9
    <3>2. QED
      BY <1>5, <3>1, ImageCut
  <2> HIDE DEF w
  <2>3. Image(Append(w, n), order_pool') = Append(Image(w, order_pool'), Order(order_pool'[n]))
    BY <1>5, <1>7, ImageAppended DEF w
  <2>4. Order(order_pool'[n]) = [Orders(l)[i] EXCEPT !.quantity = quantity]
    BY <1>4, <1>7, <1>11 DEF Order
  <2>5. Orders(l)' = Append(PriceTime!Without(Orders(l), i), [Orders(l)[i] EXCEPT !.quantity = quantity])
    BY <1>5, <2>1, <2>2, <2>3, <2>4
  <2>6. ~ (quantity <= Orders(l)[i].quantity)
    BY <1>8, <1>12, <1>13
  <2>7. Orders(l)' = PriceTime!Modify(Orders(l), i, quantity)
    BY <2>5, <2>6 DEF PriceTime!Modify
  <2>8. QED
    BY <1>8, <1>10, <1>11, <2>7, AbstractStep DEF PriceTime!Allowed
<1>14. CASE ModifyDown(id, quantity) /\ K = L
  <2>1. Image(L[l], order_pool') = [Image(L[l], order_pool) EXCEPT ![i].quantity = quantity]
    <3>1. /\ \A m \in Nodes(L[l]) : m # L[l][i] => Order(order_pool'[m]) = Order(order_pool[m])
          /\ order_pool'[L[l][i]].id = order_pool[L[l][i]].id /\ order_pool'[L[l][i]].quantity = quantity
      BY <1>3, <1>4, <1>7, <1>9
    <3>2. L[l] \in Seq(Node) /\ Injective(L[l]) /\ order_pool \in [Node -> NodeRecord]
      BY <1>5
    <3>3. Image(L[l], order_pool') = [Image(L[l], order_pool) EXCEPT ![i].quantity = order_pool'[L[l][i]].quantity]
      BY <3>1, <3>2, ImageReduced
    <3>4. QED
      BY <3>1, <3>3
  <2>2. Orders(l)' = [Orders(l) EXCEPT ![i].quantity = quantity]
    BY <1>5, <1>14, <2>1
  <2>3. quantity <= Orders(l)[i].quantity
    BY <1>8, <1>12, <1>14
  <2>4. Orders(l)' = PriceTime!Modify(Orders(l), i, quantity)
    BY <2>2, <2>3 DEF PriceTime!Modify
  <2>5. QED
    BY <1>8, <1>10, <1>11, <2>4, AbstractStep DEF PriceTime!Allowed
<1>15. QED
  BY <1>4, <1>13, <1>14

\* Every step is one of the abstract book, or leaves its queues alone.
LEMMA BookRefines == BookInv /\ BookInv' /\ [Next]_vars => [PriceTime!Next]_Queue
<1> SUFFICES ASSUME BookInv, BookInv', [Next]_vars PROVE [PriceTime!Next]_Queue
  OBVIOUS
<1>1. TypeOK /\ TypeOK'
  BY DEF BookInv
<1>2. PICK L : Held(L, order_pool, levels, free_list_head, order_map)
  BY DEF BookInv
<1>3. CASE Quiet
  <2>1. Held(L, order_pool', levels', free_list_head', order_map')
    BY <1>2, <1>3 DEF Quiet
  <2>2. \A b \in Level : Orders(b) = Image(L[b], order_pool) /\ Orders(b)' = Image(L[b], order_pool')
    BY <1>1, <1>2, <2>1, QueuesOf
  <2>3. \A b \in Level : Orders(b)' = Orders(b)
    BY <1>3, <2>2 DEF Quiet
  <2>4. Queue' = Queue
    BY <2>3 DEF Queue
  <2>5. QED
    BY <2>4
<1>4. QED
  BY <1>1, <1>2, <1>3, Steps, AddRefines, CancelRefines, ModifyRefines

\* Every call does to the queues what price-time priority asks for, whatever the
\* sizes, ids, prices and quantities (add, cancel, modify: OrderBook.cpp:179-244).
THEOREM BookRefinement == Spec => ImplementsPriceTime
<1>1. Init => PriceTime!Init
  <2> SUFFICES ASSUME Init PROVE PriceTime!Init
    OBVIOUS
  <2>1. Threaded(Empty, order_pool, levels, free_list_head, {})
    BY EmptyBook DEF Held
  <2>2. \A b \in Level : Orders(b) = Image(Empty[b], order_pool)
    BY <2>1, QueuesAreRead DEF QueuesRead
  <2>3. \A b \in Level : Empty[b] = << >>
    BY Anchors DEF Empty
  <2>4. Image(<< >>, order_pool) = << >>
    BY DEF Image
  <2>5. \A b \in Level : Orders(b) = << >>
    BY <2>2, <2>3, <2>4
  <2>6. QED
    BY <2>5 DEF PriceTime!Init, PriceTime!Level, PriceTime!Side, Level, Side, Queue
<1>2. QED
  BY <1>1, BookInvariant, BookRefines, PTL DEF Spec, ImplementsPriceTime, PriceTime!Spec
==============================================================================
