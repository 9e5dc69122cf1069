--------------------------- MODULE PipelineProofs ----------------------------
(***************************************************************************)
(* Proofs about Pipeline, for every length of the feed, every set of       *)
(* prices and every size of the socket's buffer and of the queue.          *)
(***************************************************************************)
EXTENDS Pipeline, DataLemmas

------------------------------------------------------------------------------
(* Queues of orders *)

\* No order is twice in a queue.
Distinct(q) == \A i, j \in DOMAIN q : q[i].id = q[j].id => i = j

\* The parts of an order.
LEMMA OrderParts ==
    ASSUME NEW o \in Order
    PROVE  o.id \in 1 .. MaxDatagrams /\ o.quantity \in 1 .. MaxShares
BY DEF Order

\* What Without returns, order by order.
LEMMA WithoutOrders ==
    ASSUME NEW S, NEW q \in Seq(S), NEW i \in 1 .. Len(q)
    PROVE  /\ PriceTime!Without(q, i) \in Seq(S)
           /\ Len(PriceTime!Without(q, i)) = Len(q) - 1
           /\ \A k \in 1 .. Len(q) - 1 :
                 PriceTime!Without(q, i)[k] = IF k < i THEN q[k] ELSE q[k + 1]
<1>1. PriceTime!Without(q, i) = CutAt(q, i)
  BY DEF PriceTime!Without, CutAt
<1>2. QED
  BY <1>1, CutOut

\* Place finds an order of the queue, and Ids are what is found.
LEMMA PlaceFinds ==
    ASSUME NEW q \in Seq(Order), NEW id \in Ids(q)
    PROVE  Place(q, id) \in 1 .. Len(q) /\ q[Place(q, id)].id = id
<1>1. \E i \in DOMAIN q : q[i].id = id
  BY DEF Ids
<1>2. QED
  BY <1>1 DEF Place

\* An order is appended.
LEMMA AppendOrder ==
    ASSUME NEW q \in Seq(Order), NEW o \in Order
    PROVE  /\ Append(q, o) \in Seq(Order)
           /\ Ids(Append(q, o)) = Ids(q) \cup {o.id}
           /\ Distinct(q) /\ o.id \notin Ids(q) => Distinct(Append(q, o))
<1> DEFINE a == Append(q, o)
           n == Len(q)
<1>1. /\ a \in Seq(Order) /\ n \in Nat /\ DOMAIN q = 1 .. n /\ DOMAIN a = 1 .. n + 1
      /\ a[n + 1] = o /\ \A i \in 1 .. n : a[i] = q[i]
  OBVIOUS
<1> HIDE DEF a, n
<1>2. \A i \in 1 .. n + 1 : i \in 1 .. n \/ i = n + 1
  BY <1>1
<1>3. n + 1 \in 1 .. n + 1 /\ \A i \in 1 .. n : i \in 1 .. n + 1
  BY <1>1
<1>4. Ids(a) = Ids(q) \cup {o.id}
  BY <1>1, <1>2, <1>3 DEF Ids
<1>5. ASSUME Distinct(q), o.id \notin Ids(q)
      PROVE  Distinct(a)
  <2>1. \A i \in 1 .. n : a[i].id # o.id
    BY <1>1, <1>5 DEF Ids
  <2>2. QED
    BY <1>1, <1>2, <1>5, <2>1 DEF Distinct
<1>6. QED
  BY <1>1, <1>4, <1>5 DEF a

\* An order is taken out.
LEMMA RemoveOrder ==
    ASSUME NEW q \in Seq(Order), NEW i \in 1 .. Len(q)
    PROVE  /\ PriceTime!Without(q, i) \in Seq(Order)
           /\ Ids(PriceTime!Without(q, i)) \subseteq Ids(q)
           /\ Ids(q) \ {q[i].id} \subseteq Ids(PriceTime!Without(q, i))
           /\ Distinct(q) => /\ Distinct(PriceTime!Without(q, i))
                             /\ q[i].id \notin Ids(PriceTime!Without(q, i))
<1> DEFINE w == PriceTime!Without(q, i)
           n == Len(q)
<1>1. /\ w \in Seq(Order) /\ Len(w) = n - 1
      /\ \A k \in 1 .. n - 1 : w[k] = IF k < i THEN q[k] ELSE q[k + 1]
  BY WithoutOrders
<1>2. n \in Nat /\ i \in 1 .. n /\ DOMAIN q = 1 .. n
  OBVIOUS
<1> HIDE DEF n, w
<1>3. DOMAIN w = 1 .. n - 1
  BY <1>1, <1>2, LenProperties
\* Where the k-th order was, and where the k-th one now is.
<1> DEFINE from(k) == IF k < i THEN k ELSE k + 1
<1>4. \A k \in 1 .. n - 1 : from(k) \in 1 .. n /\ from(k) # i /\ w[k] = q[from(k)]
  BY <1>1, <1>2
<1>5. \A k, m \in 1 .. n - 1 : from(k) = from(m) => k = m
  BY <1>2
<1>6. \A k \in 1 .. n : k # i => \E m \in 1 .. n - 1 : from(m) = k
  <2> TAKE k \in 1 .. n
  <2> HAVE k # i
  <2>1. CASE k < i
    BY <1>2, <2>1
  <2>2. CASE k > i
    <3>1. k - 1 \in 1 .. n - 1 /\ from(k - 1) = k
      BY <1>2, <2>2
    <3>2. QED
      BY <3>1
  <2>3. QED
    BY <1>2, <2>1, <2>2
<1> HIDE DEF from
<1>7. Ids(w) \subseteq Ids(q)
  BY <1>2, <1>3, <1>4 DEF Ids
<1>8. ASSUME NEW x \in Ids(q), x # q[i].id
      PROVE  x \in Ids(w)
  <2>1. PICK k \in 1 .. n : q[k].id = x
    BY <1>2 DEF Ids
  <2>2. PICK m \in 1 .. n - 1 : from(m) = k
    BY <1>6, <1>8, <2>1
  <2>3. w[m].id = x
    BY <1>4, <2>1, <2>2
  <2>4. QED
    BY <1>3, <2>3 DEF Ids
<1>9. ASSUME Distinct(q)
      PROVE  Distinct(w) /\ q[i].id \notin Ids(w)
  <2>1. Distinct(w)
    BY <1>2, <1>3, <1>4, <1>5, <1>9 DEF Distinct
  <2>2. \A k \in 1 .. n - 1 : w[k].id # q[i].id
    BY <1>2, <1>4, <1>9 DEF Distinct
  <2>3. QED
    BY <1>3, <2>1, <2>2 DEF Ids
<1>10. QED
  BY <1>1, <1>7, <1>8, <1>9 DEF w

\* The quantity of an order changes, in its place or at the back.
LEMMA ModifyOrder ==
    ASSUME NEW q \in Seq(Order), NEW i \in 1 .. Len(q), NEW n \in 1 .. MaxShares
    PROVE  /\ PriceTime!Modify(q, i, n) \in Seq(Order)
           /\ Ids(PriceTime!Modify(q, i, n)) = Ids(q)
           /\ Distinct(q) => Distinct(PriceTime!Modify(q, i, n))
<1>0. q[i] \in Order /\ DOMAIN q = 1 .. Len(q)
  OBVIOUS
<1> DEFINE o == [q[i] EXCEPT !.quantity = n]
<1>1. o \in Order /\ o.id = q[i].id
  BY <1>0 DEF Order
<1>2. CASE n <= q[i].quantity
  <2> DEFINE e == [q EXCEPT ![i].quantity = n]
  <2>1. e \in Seq(Order) /\ DOMAIN e = DOMAIN q /\ \A k \in DOMAIN q : e[k].id = q[k].id
    <3>1. e = [q EXCEPT ![i] = o]
      BY <1>0
    <3> HIDE DEF e, o
    <3>2. e \in Seq(Order) /\ DOMAIN e = DOMAIN q /\ e[i] = o /\ \A k \in DOMAIN q : k # i => e[k] = q[k]
      BY <1>0, <1>1, <3>1
    <3>3. QED
      BY <1>1, <3>2
  <2> HIDE DEF e
  <2>2. Ids(e) = Ids(q) /\ (Distinct(q) => Distinct(e))
    BY <2>1 DEF Ids, Distinct
  <2>3. PriceTime!Modify(q, i, n) = e
    BY <1>2 DEF PriceTime!Modify, e
  <2>4. QED
    BY <2>1, <2>2, <2>3
<1>3. CASE ~ n <= q[i].quantity
  <2> DEFINE w == PriceTime!Without(q, i)
  <2>1. PriceTime!Modify(q, i, n) = Append(w, o)
    BY <1>3 DEF PriceTime!Modify
  <2> HIDE DEF w, o
  <2>2. /\ w \in Seq(Order) /\ Ids(w) \subseteq Ids(q) /\ Ids(q) \ {q[i].id} \subseteq Ids(w)
        /\ Distinct(q) => Distinct(w) /\ q[i].id \notin Ids(w)
    BY RemoveOrder DEF w
  <2>3. /\ Append(w, o) \in Seq(Order) /\ Ids(Append(w, o)) = Ids(w) \cup {o.id}
        /\ Distinct(w) /\ o.id \notin Ids(w) => Distinct(Append(w, o))
    BY <1>1, <2>2, AppendOrder
  <2>4. q[i].id \in Ids(q)
    BY <1>0 DEF Ids
  <2>5. QED
    BY <1>1, <2>1, <2>2, <2>3, <2>4
<1>4. QED
  BY <1>2, <1>3
------------------------------------------------------------------------------
(* Books *)

\* Order id is taken out, wherever it is.
LEMMA CancelBook ==
    ASSUME NEW L, NEW b \in [L -> Seq(Order)], NEW id
    PROVE  /\ cancel(b, id) \in [L -> Seq(Order)]
           /\ \A l \in L : /\ Ids(cancel(b, id)[l]) \subseteq Ids(b[l])
                           /\ Ids(b[l]) \ {id} \subseteq Ids(cancel(b, id)[l])
                           /\ Distinct(b[l]) => /\ Distinct(cancel(b, id)[l])
                                                /\ id \notin Ids(cancel(b, id)[l])
<1> DEFINE c(l) == IF id \notin Ids(b[l]) THEN b[l] ELSE PriceTime!Without(b[l], Place(b[l], id))
<1>1. cancel(b, id) = [l \in L |-> c(l)]
  BY DEF cancel
<1>2. ASSUME NEW l \in L
      PROVE  /\ c(l) \in Seq(Order) /\ Ids(c(l)) \subseteq Ids(b[l]) /\ Ids(b[l]) \ {id} \subseteq Ids(c(l))
             /\ Distinct(b[l]) => Distinct(c(l)) /\ id \notin Ids(c(l))
  <2>1. b[l] \in Seq(Order)
    OBVIOUS
  <2>2. CASE id \notin Ids(b[l])
    BY <2>1, <2>2
  <2>3. CASE id \in Ids(b[l])
    <3>1. Place(b[l], id) \in 1 .. Len(b[l]) /\ b[l][Place(b[l], id)].id = id
      BY <2>1, <2>3, PlaceFinds
    <3>2. c(l) = PriceTime!Without(b[l], Place(b[l], id))
      BY <2>3
    <3> HIDE DEF c
    <3>3. QED
      BY <2>1, <3>1, <3>2, RemoveOrder
  <2>4. QED
    BY <2>2, <2>3
<1> HIDE DEF c
<1>3. QED
  BY <1>1, <1>2

\* Order id gets another quantity, wherever it is.
LEMMA ModifyBook ==
    ASSUME NEW L, NEW b \in [L -> Seq(Order)], NEW id, NEW n \in 1 .. MaxShares
    PROVE  /\ modify(b, id, n) \in [L -> Seq(Order)]
           /\ \A l \in L : /\ Ids(modify(b, id, n)[l]) = Ids(b[l])
                           /\ Distinct(b[l]) => Distinct(modify(b, id, n)[l])
<1> DEFINE c(l) == IF id \notin Ids(b[l]) THEN b[l] ELSE PriceTime!Modify(b[l], Place(b[l], id), n)
<1>0. n # 0
  OBVIOUS
<1>1. modify(b, id, n) = [l \in L |-> c(l)]
  BY <1>0 DEF modify
<1>2. ASSUME NEW l \in L
      PROVE  /\ c(l) \in Seq(Order) /\ Ids(c(l)) = Ids(b[l])
             /\ Distinct(b[l]) => Distinct(c(l))
  <2>1. b[l] \in Seq(Order)
    OBVIOUS
  <2>2. CASE id \notin Ids(b[l])
    BY <2>1, <2>2
  <2>3. CASE id \in Ids(b[l])
    <3>1. Place(b[l], id) \in 1 .. Len(b[l])
      BY <2>1, <2>3, PlaceFinds
    <3>2. c(l) = PriceTime!Modify(b[l], Place(b[l], id), n)
      BY <2>3
    <3> HIDE DEF c
    <3>3. QED
      BY <2>1, <3>1, <3>2, ModifyOrder
  <2>4. QED
    BY <2>2, <2>3
<1> HIDE DEF c
<1>3. QED
  BY <1>1, <1>2
------------------------------------------------------------------------------
(* The invariant *)

\* The datagrams that are not applied yet, in the order of the feed.
InFlight == queue \o InHand \o socket

IsAdd(m) == m.type = "A"

\* A message that is being pushed is one, and an order that the strategy has
\* sent took its position.
InHandIsMessage ==
    /\ npc = "push" => parsed_msg \in Message
    /\ ~ position_taken => orders = << >>

\* The exchange has an order once.
ExchangeIds ==
    /\ \A l \in DOMAIN exchange : Distinct(exchange[l])
    /\ \A k, l \in DOMAIN exchange : k # l => Ids(exchange[k]) \cap Ids(exchange[l]) = {}

\* Every id is one that the exchange has given out.
IdsAreFed ==
    /\ \A l \in DOMAIN exchange : \A id \in Ids(exchange[l]) : id <= fed
    /\ \A l \in DOMAIN lob : \A id \in Ids(lob[l]) : id <= fed
    /\ \A i \in DOMAIN InFlight : Parses(InFlight[i]) => InFlight[i].id <= fed

\* An order that is still to be added is not in the book, and is added once.
AddsAreFresh ==
    \A i \in DOMAIN InFlight : IsAdd(InFlight[i]) =>
        /\ \A l \in DOMAIN lob : InFlight[i].id \notin Ids(lob[l])
        /\ \A j \in DOMAIN InFlight : IsAdd(InFlight[j]) /\ InFlight[j].id = InFlight[i].id => i = j

\* If nothing was lost, what stands at the exchange rests in the book or will be
\* added to it, at the same level, and nothing in flight deletes it.
StandingIsCovered ==
    ~ lost => \A l \in DOMAIN exchange : \A id \in Ids(exchange[l]) :
        /\ \A i \in DOMAIN InFlight :
               InFlight[i].type \in {"A", "D"} /\ InFlight[i].id = id =>
                   IsAdd(InFlight[i]) /\ <<InFlight[i].side, InFlight[i].price>> = l
        /\ l \in PriceTime!Level =>
               id \in Ids(lob[l]) \/ \E i \in DOMAIN InFlight : IsAdd(InFlight[i]) /\ InFlight[i].id = id

BooksInv == ExchangeIds /\ IdsAreFed /\ AddsAreFresh /\ StandingIsCovered

PipelineInv == TypeOK /\ InHandIsMessage /\ AppliedInOrder /\ BooksInv
------------------------------------------------------------------------------
(* Messages and datagrams *)

\* What a socket may hold.
Raw == Message \cup [type : {"?"}]

LEMMA MessageParts ==
    ASSUME NEW m \in Message
    PROVE  /\ m.type \in {"A", "X", "D", "E"} /\ Parses(m) /\ m.id \in 1 .. MaxDatagrams
           /\ m.type = "A" => /\ m.side \in Side /\ m.price \in Price /\ m.quantity \in 1 .. MaxShares
                              /\ DOMAIN m = {"type", "id", "side", "price", "quantity"}
           /\ m.type = "X" => m.quantity \in 1 .. MaxShares /\ "quantity" \in DOMAIN m
           /\ "type" \in DOMAIN m /\ "id" \in DOMAIN m
<1>1. CASE m \in [type : {"A"}, id : 1 .. MaxDatagrams, side : Side, price : Price,
                  quantity : 1 .. MaxShares]
  BY <1>1 DEF Parses
<1>2. CASE m \in [type : {"X", "E"}, id : 1 .. MaxDatagrams, quantity : 1 .. MaxShares]
  BY <1>2 DEF Parses
<1>3. CASE m \in [type : {"D"}, id : 1 .. MaxDatagrams]
  BY <1>3 DEF Parses
<1>4. QED
  BY <1>1, <1>2, <1>3 DEF Message

LEMMA RawParts ==
    ASSUME NEW m \in Raw
    PROVE  /\ m.type \in {"A", "X", "D", "E", "?"}
           /\ Parses(m) => m \in Message
<1>1. CASE m \in Message
  BY <1>1, MessageParts
<1>2. CASE m \in [type : {"?"}]
  BY <1>2 DEF Parses
<1>3. QED
  BY <1>1, <1>2 DEF Raw

\* What a reader finds in a message.
LEMMA ValueParts ==
    ASSUME NEW m \in Message, NEW v \in Values(m)
    PROVE  /\ v \in InternalMessage /\ v.type = m.type /\ v.id = m.id
           /\ m.type = "A" => v.side = m.side /\ v.price = m.price /\ v.quantity = m.quantity
           /\ m.type = "X" => v.quantity = m.quantity
<1>1. v \in InternalMessage /\ \A f \in DOMAIN m : v[f] = m[f]
  BY DEF Values
<1>2. v["type"] = m["type"] /\ v["id"] = m["id"]
  BY <1>1, MessageParts
<1>3. m.type = "A" => v["side"] = m["side"] /\ v["price"] = m["price"] /\ v["quantity"] = m["quantity"]
  BY <1>1, MessageParts
<1>4. m.type = "X" => v["quantity"] = m["quantity"]
  BY <1>1, MessageParts
<1>5. QED
  BY <1>1, <1>2, <1>3, <1>4

LEMMA InternalParts ==
    ASSUME NEW v \in InternalMessage
    PROVE  /\ v.type \in {"A", "X", "D", "E"} /\ v.id \in 1 .. MaxDatagrams /\ v.side \in Side
           /\ v.price \in Price /\ v.quantity \in 1 .. MaxShares
BY DEF InternalMessage

\* An order that stands is at some level of the exchange, and only once.
LEMMA StandingParts ==
    ASSUME TypeOK, ExchangeIds
    PROVE  /\ \A o \in Standing : o \in Order /\ \E l \in Side \X Price : o.id \in Ids(exchange[l])
           /\ \A o, p \in Standing : o.id = p.id => o = p
<1>1. exchange \in [Side \X Price -> Seq(Order)]
  BY Zenon DEF TypeOK
<1>2. ASSUME NEW o \in Standing
      PROVE  \E l \in Side \X Price : \E i \in DOMAIN exchange[l] : o = exchange[l][i]
  BY <1>1 DEF Standing
<1>3. ASSUME NEW o \in Standing
      PROVE  o \in Order /\ \E l \in Side \X Price : o.id \in Ids(exchange[l])
  <2>1. PICK l \in Side \X Price : \E i \in DOMAIN exchange[l] : o = exchange[l][i]
    BY <1>2
  <2>2. exchange[l] \in Seq(Order)
    BY <1>1
  <2>3. QED
    BY <2>1, <2>2 DEF Ids
<1>4. ASSUME NEW o \in Standing, NEW p \in Standing, o.id = p.id
      PROVE  o = p
  <2>1. PICK k \in Side \X Price : \E i \in DOMAIN exchange[k] : o = exchange[k][i]
    BY <1>2
  <2>2. PICK l \in Side \X Price : \E j \in DOMAIN exchange[l] : p = exchange[l][j]
    BY <1>2
  <2>3. o.id \in Ids(exchange[k]) /\ p.id \in Ids(exchange[l])
    BY <2>1, <2>2 DEF Ids
  <2>4. k = l
    BY <1>1, <1>4, <2>3 DEF ExchangeIds
  <2>5. QED
    BY <1>1, <1>4, <2>1, <2>2, <2>4 DEF ExchangeIds, Distinct
<1>5. QED
  BY <1>3, <1>4

\* A datagram of the feed is a new order, or about one that stands, or not decoded.
LEMMA DatagramParts ==
    ASSUME TypeOK, ExchangeIds, NEW d \in Datagram, MayFollow(d)
    PROVE  /\ d \in Raw
           /\ \/ /\ d.type = "A" /\ d.id = fed + 1 /\ d.side \in Side /\ d.price \in Price
                 /\ d.quantity \in 1 .. MaxShares /\ d.id \in 1 .. MaxDatagrams
              \/ /\ d.type \in {"X", "E"} /\ Remaining(d) \in 0 .. MaxShares
                 /\ \E l \in Side \X Price : d.id \in Ids(exchange[l])
                 /\ \E o \in Standing : d.id = o.id /\ d.quantity \in 1 .. o.quantity
              \/ d.type = "D" /\ \E l \in Side \X Price : d.id \in Ids(exchange[l])
              \/ d.type = "?"
<1>1. /\ fed \in Nat /\ MaxDatagrams \in Nat /\ MaxShares \in Nat \ {0}
      /\ OrderShares \subseteq 1 .. MaxShares
  BY PipelineAssumption DEF TypeOK
<1>2. d.type = "A" => fed + 1 \in 1 .. MaxDatagrams
  BY <1>1 DEF MayFollow
<1>3. CASE d \in [type : {"A"}, id : {fed + 1}, side : Side, price : Price, quantity : OrderShares]
  <2>1. d \in [type : {"A"}, id : 1 .. MaxDatagrams, side : Side, price : Price,
               quantity : 1 .. MaxShares]
    BY <1>1, <1>2, <1>3
  <2>2. QED
    BY <1>2, <1>3, <2>1 DEF Raw, Message
<1>4. ASSUME NEW o \in Standing, d \in [type : {"X", "E"}, id : {o.id}, quantity : 1 .. o.quantity]
      PROVE  /\ d \in Raw /\ d.type \in {"X", "E"} /\ Remaining(d) \in 0 .. MaxShares
             /\ \E l \in Side \X Price : d.id \in Ids(exchange[l])
             /\ d.id = o.id /\ d.quantity \in 1 .. o.quantity
  <2>1. /\ o \in Order /\ o.quantity \in 1 .. MaxShares /\ o.id \in 1 .. MaxDatagrams
        /\ \E l \in Side \X Price : o.id \in Ids(exchange[l])
    BY StandingParts, OrderParts
  <2>2. /\ d.type \in {"X", "E"} /\ d.id = o.id /\ d.quantity \in 1 .. o.quantity
        /\ d.quantity \in 1 .. MaxShares
    BY <1>1, <1>4, <2>1
  <2>3. d \in [type : {"X", "E"}, id : 1 .. MaxDatagrams, quantity : 1 .. MaxShares]
    BY <1>4, <2>1, <2>2
  <2>4. Remaining(d) = o.quantity - d.quantity
    <3>1. (CHOOSE p \in Standing : p.id = d.id) = o
      BY <2>2, StandingParts
    <3>2. QED
      BY <3>1 DEF Remaining
  <2>5. o.quantity - d.quantity \in 0 .. MaxShares
    BY <1>1, <2>1, <2>2
  <2>6. QED
    BY <2>1, <2>2, <2>3, <2>4, <2>5 DEF Raw, Message
<1>5. ASSUME NEW o \in Standing, d \in [type : {"D"}, id : {o.id}]
      PROVE  d \in Raw /\ d.type = "D" /\ \E l \in Side \X Price : d.id \in Ids(exchange[l])
  <2>1. o \in Order /\ o.id \in 1 .. MaxDatagrams /\ \E l \in Side \X Price : o.id \in Ids(exchange[l])
    BY StandingParts, OrderParts
  <2>2. d \in [type : {"D"}, id : 1 .. MaxDatagrams] /\ d.id = o.id /\ d.type = "D"
    BY <1>5, <2>1
  <2>3. QED
    BY <2>1, <2>2 DEF Raw, Message
<1>6. CASE d \in [type : {"?"}]
  BY <1>6 DEF Raw
<1>7. \/ d \in [type : {"A"}, id : {fed + 1}, side : Side, price : Price, quantity : OrderShares]
      \/ \E o \in Standing : d \in [type : {"X", "E"}, id : {o.id}, quantity : 1 .. o.quantity]
      \/ \E o \in Standing : d \in [type : {"D"}, id : {o.id}]
      \/ d \in [type : {"?"}]
  <2>1. CASE d \in UNION {[type : {"X", "E"}, id : {o.id}, quantity : 1 .. o.quantity] : o \in Standing}
    BY <2>1, Zenon
  <2>2. CASE d \in [type : {"D"}, id : {o.id : o \in Standing}]
    <3>1. PICK o \in Standing : d.id = o.id
      BY <2>2
    <3>2. d \in [type : {"D"}, id : {o.id}]
      BY <2>2, <3>1
    <3>3. QED
      BY <3>2
  <2>3. QED
    BY <2>1, <2>2, Zenon DEF Datagram
<1>8. QED
  BY <1>3, <1>4, <1>5, <1>6, <1>7
------------------------------------------------------------------------------
(* What the steps do to the datagrams in flight *)

\* r is s without its p-th element.
Removed(s, p, r) ==
    /\ p \in DOMAIN s
    /\ \A i \in DOMAIN r : \E k \in DOMAIN s : k # p /\ r[i] = s[k]
    /\ \A i, j \in DOMAIN r : i # j =>
          \E k, h \in DOMAIN s :
              k # p /\ h # p /\ k # h /\ (i < j => k < h) /\ r[i] = s[k] /\ r[j] = s[h]
    /\ \A k \in DOMAIN s : k # p => \E i \in DOMAIN r : r[i] = s[k]

LEMMA RemovedAt ==
    ASSUME NEW S, NEW s \in Seq(S), NEW r \in Seq(S), NEW p \in 1 .. Len(s), Len(r) = Len(s) - 1,
           \A k \in 1 .. Len(s) - 1 : r[k] = IF k < p THEN s[k] ELSE s[k + 1]
    PROVE  Removed(s, p, r)
<1> DEFINE n == Len(s)
           from(k) == IF k < p THEN k ELSE k + 1
<1>1. n \in Nat /\ p \in 1 .. n /\ DOMAIN s = 1 .. n /\ DOMAIN r = 1 .. n - 1
  OBVIOUS
<1>2. \A k \in 1 .. n - 1 : from(k) \in 1 .. n /\ from(k) # p /\ r[k] = s[from(k)]
  BY <1>1
<1>3. \A k, m \in 1 .. n - 1 : k # m => from(k) # from(m) /\ (k < m => from(k) < from(m))
  BY <1>1
<1>4. \A k \in 1 .. n : k # p => \E m \in 1 .. n - 1 : from(m) = k
  <2> TAKE k \in 1 .. n
  <2> HAVE k # p
  <2>1. CASE k < p
    BY <1>1, <2>1
  <2>2. CASE k > p
    <3>1. k - 1 \in 1 .. n - 1 /\ from(k - 1) = k
      BY <1>1, <2>2
    <3>2. QED
      BY <3>1
  <2>3. QED
    BY <1>1, <2>1, <2>2
<1> HIDE DEF n, from
<1>5. \A i, j \in 1 .. n - 1 : i # j =>
         \E k, h \in 1 .. n :
             k # p /\ h # p /\ k # h /\ (i < j => k < h) /\ r[i] = s[k] /\ r[j] = s[h]
  BY <1>2, <1>3
<1>6. \A k \in 1 .. n : k # p => \E i \in 1 .. n - 1 : r[i] = s[k]
  BY <1>2, <1>4
<1>7. \A i \in 1 .. n - 1 : \E k \in 1 .. n : k # p /\ r[i] = s[k]
  BY <1>2
<1>8. \A i \in DOMAIN r : \E k \in DOMAIN s : k # p /\ r[i] = s[k]
  BY <1>1, <1>7
<1>9. \A i, j \in DOMAIN r : i # j =>
         \E k, h \in DOMAIN s :
             k # p /\ h # p /\ k # h /\ (i < j => k < h) /\ r[i] = s[k] /\ r[j] = s[h]
  <2> TAKE i, j \in DOMAIN r
  <2> HAVE i # j
  <2>1. i \in 1 .. n - 1 /\ j \in 1 .. n - 1
    BY <1>1
  <2>2. PICK k \in 1 .. n, h \in 1 .. n :
            k # p /\ h # p /\ k # h /\ (i < j => k < h) /\ r[i] = s[k] /\ r[j] = s[h]
    BY <1>5, <2>1
  <2>3. k \in DOMAIN s /\ h \in DOMAIN s
    BY <1>1
  <2>4. QED
    BY <2>2, <2>3
<1>10. p \in DOMAIN s /\ \A k \in DOMAIN s : k # p => \E i \in DOMAIN r : r[i] = s[k]
  BY <1>1, <1>6
<1>11. QED
  BY <1>8, <1>9, <1>10, Zenon DEF Removed

\* The first datagram in the socket is not decoded.
LEMMA DropFromSocket ==
    ASSUME NEW S, NEW q \in Seq(S), NEW t \in Seq(S), t # << >>
    PROVE  /\ Removed(q \o t, Len(q) + 1, q \o Tail(t))
           /\ (q \o t)[Len(q) + 1] = Head(t)
<1> DEFINE s == q \o t
           r == q \o Tail(t)
           n == Len(q)
           m == Len(t)
<1>1. n \in Nat /\ m \in Nat /\ m # 0
  OBVIOUS
<1>2. /\ s \in Seq(S) /\ Len(s) = n + m
      /\ \A k \in 1 .. n + m : s[k] = IF k <= n THEN q[k] ELSE t[k - n]
  OBVIOUS
<1>3. Tail(t) \in Seq(S) /\ Len(Tail(t)) = m - 1 /\ \A k \in 1 .. m - 1 : Tail(t)[k] = t[k + 1]
  OBVIOUS
<1>4. /\ r \in Seq(S) /\ Len(r) = n + (m - 1)
      /\ \A k \in 1 .. n + (m - 1) : r[k] = IF k <= n THEN q[k] ELSE Tail(t)[k - n]
  BY <1>3
<1>5. Head(t) = t[1]
  OBVIOUS
<1> HIDE DEF s, r, n, m
<1>6. ASSUME NEW k \in 1 .. (n + m) - 1
      PROVE  r[k] = IF k < n + 1 THEN s[k] ELSE s[k + 1]
  <2>0. k \in 1 .. n + (m - 1) /\ k \in 1 .. n + m /\ k + 1 \in 1 .. n + m
    BY <1>1
  <2>1. CASE k <= n
    BY <1>1, <1>2, <1>4, <2>0, <2>1, SMTT(30)
  <2>2. CASE ~ k <= n
    <3>1. k - n \in 1 .. m - 1 /\ (k - n) + 1 = (k + 1) - n /\ ~ k + 1 <= n /\ ~ k < n + 1
      BY <1>1, <2>2
    <3>2. r[k] = Tail(t)[k - n]
      BY <1>4, <2>0, <2>2
    <3>3. s[k + 1] = t[(k + 1) - n]
      BY <1>2, <2>0, <3>1
    <3>4. Tail(t)[k - n] = t[(k - n) + 1]
      BY <1>3, <3>1
    <3>5. QED
      BY <3>1, <3>2, <3>3, <3>4
  <2>3. QED
    BY <2>1, <2>2
<1>7. n + 1 \in 1 .. n + m /\ Len(r) = (n + m) - 1
  BY <1>1, <1>4
<1>8. Removed(s, n + 1, r)
  BY <1>2, <1>4, <1>6, <1>7, RemovedAt
<1>9. s[n + 1] = t[1]
  <2>1. (n + 1) - n = 1 /\ ~ n + 1 <= n
    BY <1>1
  <2>2. QED
    BY <1>2, <1>7, <2>1
<1>10. QED
  BY <1>5, <1>8, <1>9 DEF s, r, n

\* The first message of the queue is taken.
LEMMA TakeFromQueue ==
    ASSUME NEW S, NEW q \in Seq(S), NEW t \in Seq(S), q # << >>
    PROVE  /\ Removed(q \o t, 1, Tail(q) \o t)
           /\ (q \o t)[1] = Head(q)
<1> DEFINE s == q \o t
           r == Tail(q) \o t
           n == Len(q)
           m == Len(t)
<1>1. n \in Nat /\ m \in Nat /\ n # 0
  OBVIOUS
<1>2. /\ s \in Seq(S) /\ Len(s) = n + m
      /\ \A k \in 1 .. n + m : s[k] = IF k <= n THEN q[k] ELSE t[k - n]
  OBVIOUS
<1>3. Tail(q) \in Seq(S) /\ Len(Tail(q)) = n - 1 /\ \A k \in 1 .. n - 1 : Tail(q)[k] = q[k + 1]
  OBVIOUS
<1>4. /\ r \in Seq(S) /\ Len(r) = (n - 1) + m
      /\ \A k \in 1 .. (n - 1) + m : r[k] = IF k <= n - 1 THEN Tail(q)[k] ELSE t[k - (n - 1)]
  BY <1>1, <1>3
<1>5. Head(q) = q[1]
  OBVIOUS
<1> HIDE DEF s, r, n, m
<1>6. ASSUME NEW k \in 1 .. (n + m) - 1
      PROVE  r[k] = s[k + 1]
  <2>0. k \in 1 .. (n - 1) + m /\ k + 1 \in 1 .. n + m
    BY <1>1
  <2>1. CASE k <= n - 1
    <3>1. k \in 1 .. n - 1 /\ k + 1 <= n
      BY <1>1, <2>1
    <3>2. QED
      BY <1>2, <1>3, <1>4, <2>0, <2>1, <3>1
  <2>2. CASE ~ k <= n - 1
    <3>1. k - (n - 1) = (k + 1) - n /\ ~ k + 1 <= n
      BY <1>1, <2>2
    <3>2. QED
      BY <1>2, <1>4, <2>0, <2>2, <3>1
  <2>3. QED
    BY <2>1, <2>2
<1>7. 1 \in 1 .. n + m /\ Len(r) = (n + m) - 1 /\ 1 <= n
  BY <1>1, <1>4
<1>8. \A k \in 1 .. (n + m) - 1 : r[k] = IF k < 1 THEN s[k] ELSE s[k + 1]
  BY <1>1, <1>6
<1>9. Removed(s, 1, r)
  BY <1>2, <1>4, <1>7, <1>8, RemovedAt
<1>10. QED
  BY <1>2, <1>5, <1>7, <1>9 DEF s, r

\* Concatenation.
LEMMA Concatenation ==
    ASSUME NEW S, NEW a \in Seq(S), NEW b \in Seq(S), NEW c \in Seq(S), NEW e \in S
    PROVE  /\ a \o b \o c = a \o (b \o c) /\ a \o << >> = a /\ << >> \o a = a
           /\ a \o Append(b, e) = Append(a \o b, e) /\ Append(a, e) = a \o <<e>>
           /\ a # << >> => a = <<Head(a)>> \o Tail(a)
<1>1. a \o b \o c = a \o (b \o c)
  OBVIOUS
<1>2. a \o << >> = a /\ << >> \o a = a
  OBVIOUS
<1>3. a \o Append(b, e) = Append(a \o b, e) /\ Append(a, e) = a \o <<e>>
  <2>1. <<e>> \in Seq(S) /\ a \o b \in Seq(S)
    OBVIOUS
  <2>2. Append(a, e) = a \o <<e>> /\ Append(b, e) = b \o <<e>> /\ Append(a \o b, e) = (a \o b) \o <<e>>
    BY <2>1, AppendIsConcat
  <2>3. (a \o b) \o <<e>> = a \o (b \o <<e>>)
    BY <2>1, ConcatAssociative
  <2>4. QED
    BY <2>2, <2>3
<1>4. a # << >> => a = <<Head(a)>> \o Tail(a)
  OBVIOUS
<1>5. QED
  BY <1>1, <1>2, <1>3, <1>4

\* The sequences have the types they need.
LEMMA SequencesTyped ==
    ASSUME TypeOK, InHandIsMessage
    PROVE  /\ queue \in Seq(Message) /\ InHand \in Seq(Message) /\ socket \in Seq(Raw)
           /\ received \in Seq(Message) /\ applied \in Seq(Message)
           /\ queue \in Seq(Raw) /\ InHand \in Seq(Raw) /\ InFlight \in Seq(Raw)
           /\ InFlight = queue \o (InHand \o socket)
           /\ DOMAIN InFlight = 1 .. Len(InFlight) /\ Len(InFlight) \in Nat
           /\ \A i \in DOMAIN InFlight : InFlight[i] \in Raw
<1>1. queue \in Seq(Message) /\ received \in Seq(Message) /\ applied \in Seq(Message)
  BY DEF TypeOK
<1>2. socket \in Seq(Raw)
  BY Zenon DEF TypeOK, Raw
<1>3. InHand \in Seq(Message)
  BY DEF InHand, InHandIsMessage
<1>4. Message \subseteq Raw
  BY Zenon DEF Raw
<1>5. queue \in Seq(Raw) /\ InHand \in Seq(Raw)
  BY <1>1, <1>3, <1>4
<1>6. InFlight \in Seq(Raw) /\ InFlight = queue \o (InHand \o socket)
  BY <1>2, <1>5 DEF InFlight
<1>7. QED
  BY <1>1, <1>2, <1>3, <1>5, <1>6

\* TypeOK, what it says of the threads' places apart from the data.
ControlTyped ==
    /\ ready \in BOOLEAN /\ npc \in {"start", "wait", "recv", "push", "ended"} /\ listening \in BOOLEAN
    /\ spc \in {"test", "poll", "ended"} /\ is_running \in BOOLEAN
    /\ main \in {"running", "joining", "joined", "freed", "exited", "crashed"}

DataTyped ==
    /\ exchange \in [Side \X Price -> Seq(Order)] /\ lob \in [PriceTime!Level -> Seq(Order)]
    /\ fed \in 0 .. MaxDatagrams + MaxCancels /\ lost \in BOOLEAN
    /\ socket \in Seq(Raw) /\ Len(socket) <= Backlog
    /\ {parsed_msg, msg} \subseteq Message \cup {NoMessage}
    /\ {received, applied, queue} \subseteq Seq(Message) /\ Len(queue) <= Bound
    /\ position_taken \in BOOLEAN /\ orders \in Seq(Price)

LEMMA TypeParts == TypeOK <=> ControlTyped /\ DataTyped
  BY Zenon DEF TypeOK, ControlTyped, DataTyped, Raw

LEMMA TypePartsNext == TypeOK' <=> ControlTyped' /\ DataTyped'
  BY Zenon DEF TypeOK, ControlTyped, DataTyped, Raw

\* Push moves the message from the thread's hand to the queue.
LEMMA PushFlight ==
    ASSUME TypeOK, InHandIsMessage, AppliedInOrder, Push
    PROVE  InFlight' = InFlight /\ AppliedInOrder'
<1>1. /\ npc = "push" /\ npc' = "wait" /\ queue' = Append(queue, parsed_msg)
      /\ UNCHANGED <<socket, received, applied>>
  BY DEF Push, Fifo!Put, strategy
<1>2. parsed_msg \in Message /\ InHand = <<parsed_msg>> /\ InHand' = << >>
  BY <1>1 DEF InHandIsMessage, InHand
<1>3. queue \in Seq(Message) /\ applied \in Seq(Message)
  BY SequencesTyped
<1>4. queue' = queue \o InHand /\ queue' \in Seq(Message)
  BY <1>1, <1>2, <1>3, AppendIsConcat
<1>5. queue' \o InHand' = queue \o InHand
  BY <1>2, <1>4
<1>6. InFlight' = InFlight
  BY <1>1, <1>5 DEF InFlight
<1>7. applied \o queue \o InHand = applied \o (queue \o InHand)
  <2>1. InHand \in Seq(Message)
    BY SequencesTyped
  <2>2. QED
    BY <1>3, <2>1, ConcatAssociative
<1>8. applied \o queue' \o InHand' = applied \o (queue' \o InHand')
  BY <1>2, <1>3, <1>4
<1>9. QED
  BY <1>1, <1>5, <1>6, <1>7, <1>8 DEF AppliedInOrder

\* Recv moves a datagram from the socket to the thread's hand, or drops it.
LEMMA RecvFlight ==
    ASSUME TypeOK, InHandIsMessage, AppliedInOrder, Recv
    PROVE  /\ AppliedInOrder' /\ Head(socket) \in Raw
           /\ \/ InFlight' = InFlight
              \/ \E p \in DOMAIN InFlight : /\ ~ Parses(InFlight[p])
                                            /\ Removed(InFlight, p, InFlight')
<1>1. /\ npc = "recv" /\ socket # << >> /\ socket' = Tail(socket)
      /\ UNCHANGED <<queue, applied>>
  BY DEF Recv, strategy
<1>2. /\ queue \in Seq(Message) /\ applied \in Seq(Message) /\ received \in Seq(Message)
      /\ socket \in Seq(Raw) /\ queue \in Seq(Raw)
  BY SequencesTyped
<1>3. Head(socket) \in Raw /\ Tail(socket) \in Seq(Raw) /\ socket = <<Head(socket)>> \o Tail(socket)
  BY <1>1, <1>2, Concatenation
<1>4. InHand = << >>
  BY <1>1 DEF InHand
<1>5. InFlight = queue \o socket
  BY <1>2, <1>4 DEF InFlight
<1>6. received = applied \o queue
  <2>1. applied \o queue \in Seq(Message)
    BY <1>2
  <2>2. QED
    BY <1>4, <2>1 DEF AppliedInOrder
<1>7. CASE /\ Parses(Head(socket)) /\ npc' = "push" /\ parsed_msg' = Head(socket)
           /\ received' = Append(received, Head(socket))
  <2>1. Head(socket) \in Message
    BY <1>3, <1>7, RawParts
  <2>2. InHand' = <<Head(socket)>>
    BY <1>7 DEF InHand
  <2>3. received' = received \o <<Head(socket)>>
    BY <1>2, <1>7, <2>1, AppendIsConcat
  <2>4. AppliedInOrder'
    BY <1>1, <1>6, <2>2, <2>3 DEF AppliedInOrder
  <2>5. (queue \o <<Head(socket)>>) \o Tail(socket) = queue \o (<<Head(socket)>> \o Tail(socket))
    <3> DEFINE h == <<Head(socket)>>
               t == Tail(socket)
    <3>1. h \in Seq(Raw) /\ t \in Seq(Raw) /\ queue \in Seq(Raw)
      BY <1>2, <1>3
    <3> HIDE DEF h, t
    <3>2. (queue \o h) \o t = queue \o (h \o t)
      BY <3>1, ConcatAssociative
    <3>3. QED
      BY <3>2 DEF h, t
  <2>6. InFlight' = InFlight
    BY <1>1, <1>3, <1>5, <2>2, <2>5 DEF InFlight
  <2>7. QED
    BY <1>3, <2>4, <2>6
<1>8. CASE ~ Parses(Head(socket)) /\ npc' = "wait" /\ UNCHANGED <<parsed_msg, received>>
  <2>1. InHand' = << >>
    BY <1>8 DEF InHand
  <2>2. InFlight' = queue \o Tail(socket)
    BY <1>1, <1>2, <2>1 DEF InFlight
  <2>3. AppliedInOrder'
    BY <1>1, <1>4, <1>8, <2>1 DEF AppliedInOrder
  <2>4. /\ Removed(InFlight, Len(queue) + 1, InFlight')
        /\ InFlight[Len(queue) + 1] = Head(socket)
    BY <1>1, <1>2, <1>5, <2>2, DropFromSocket
  <2>5. Len(queue) + 1 \in DOMAIN InFlight
    BY <2>4, Zenon DEF Removed
  <2>6. QED
    BY <1>3, <1>8, <2>3, <2>4, <2>5
<1>9. QED
  BY <1>7, <1>8 DEF Recv

\* StrategyPop takes the oldest datagram in flight, which is a message.
LEMMA PopFlight ==
    ASSUME TypeOK, InHandIsMessage, AppliedInOrder, StrategyPop
    PROVE  /\ Removed(InFlight, 1, InFlight') /\ InFlight[1] = msg' /\ msg' \in Message
           /\ AppliedInOrder'
<1>1. /\ queue # << >> /\ msg' = Head(queue) /\ queue' = Tail(queue)
      /\ applied' = Append(applied, msg') /\ UNCHANGED <<npc, parsed_msg, socket, received>>
  BY DEF StrategyPop, Fifo!Get, network
<1>2. InHand' = InHand
  BY <1>1 DEF InHand
<1>3. /\ queue \in Seq(Message) /\ InHand \in Seq(Message) /\ socket \in Seq(Raw)
      /\ applied \in Seq(Message) /\ queue \in Seq(Raw) /\ InHand \in Seq(Raw)
      /\ InFlight = queue \o (InHand \o socket)
  BY SequencesTyped
<1>4. /\ Head(queue) \in Message /\ Tail(queue) \in Seq(Message) /\ Tail(queue) \in Seq(Raw)
      /\ queue = <<Head(queue)>> \o Tail(queue)
  BY <1>1, <1>3, Concatenation
<1>5. InHand \o socket \in Seq(Raw)
  BY <1>3
<1>6. InFlight' = Tail(queue) \o (InHand \o socket)
  <2>1. (Tail(queue) \o InHand) \o socket = Tail(queue) \o (InHand \o socket)
    <3> DEFINE q == Tail(queue)
    <3>1. q \in Seq(Raw) /\ InHand \in Seq(Raw) /\ socket \in Seq(Raw)
      BY <1>3, <1>4
    <3> HIDE DEF q
    <3>2. (q \o InHand) \o socket = q \o (InHand \o socket)
      BY <3>1, ConcatAssociative
    <3>3. QED
      BY <3>2 DEF q
  <2>2. QED
    BY <1>1, <1>2, <2>1 DEF InFlight
<1>7. /\ Removed(queue \o (InHand \o socket), 1, Tail(queue) \o (InHand \o socket))
      /\ (queue \o (InHand \o socket))[1] = Head(queue)
  BY <1>1, <1>3, <1>5, TakeFromQueue
<1>8. applied' = applied \o <<Head(queue)>>
  BY <1>1, <1>3, <1>4, AppendIsConcat
<1>9. applied' \o Tail(queue) = applied \o queue
  <2>1. <<Head(queue)>> \in Seq(Message)
    BY <1>4
  <2>2. (applied \o <<Head(queue)>>) \o Tail(queue) = applied \o (<<Head(queue)>> \o Tail(queue))
    <3> DEFINE h == <<Head(queue)>>
               q == Tail(queue)
    <3>1. applied \in Seq(Message) /\ h \in Seq(Message) /\ q \in Seq(Message)
      BY <1>3, <1>4, <2>1
    <3> HIDE DEF h, q
    <3>2. (applied \o h) \o q = applied \o (h \o q)
      BY <3>1, ConcatAssociative
    <3>3. QED
      BY <3>2 DEF h, q
  <2>3. QED
    BY <1>4, <1>8, <2>2
<1>10. AppliedInOrder'
  BY <1>1, <1>2, <1>9 DEF AppliedInOrder
<1>11. QED
  BY <1>1, <1>3, <1>4, <1>6, <1>7, <1>10

\* Publish puts a datagram behind the others, or loses it.
LEMMA PublishFlight ==
    ASSUME TypeOK, InHandIsMessage, NEW d \in Raw, Publish(d)
    PROVE  /\ InHand' = InHand
           /\ \/ lost' = lost /\ InFlight' = Append(InFlight, d)
              \/ lost' = TRUE /\ InFlight' = InFlight
<1>1. UNCHANGED <<npc, parsed_msg, queue>>
  BY DEF Publish, network
<1>2. InHand' = InHand
  BY <1>1 DEF InHand
<1>3. queue \o InHand \in Seq(Raw) /\ socket \in Seq(Raw)
  BY SequencesTyped
<1>4. CASE socket' = Append(socket, d) /\ UNCHANGED lost
  <2>1. (queue \o InHand) \o Append(socket, d) = Append((queue \o InHand) \o socket, d)
    BY <1>3, Concatenation
  <2>2. QED
    BY <1>1, <1>2, <1>4, <2>1 DEF InFlight
<1>5. CASE lost' = TRUE /\ UNCHANGED socket
  BY <1>1, <1>2, <1>5 DEF InFlight
<1>6. QED
  BY <1>2, <1>4, <1>5 DEF Publish, Arrives
------------------------------------------------------------------------------
(* The two books *)

\* A datagram that is not decoded leaves the flight: nothing else changes.
LEMMA BooksAfterDrop ==
    ASSUME BooksInv, NEW p \in DOMAIN InFlight, ~ Parses(InFlight[p]),
           Removed(InFlight, p, InFlight'), UNCHANGED <<exchange, fed, lost, lob>>
    PROVE  BooksInv'
<1>1. /\ \A i \in DOMAIN InFlight' : \E k \in DOMAIN InFlight : k # p /\ InFlight'[i] = InFlight[k]
      /\ \A i, j \in DOMAIN InFlight' : i # j =>
            \E k, h \in DOMAIN InFlight :
                k # p /\ h # p /\ k # h /\ (i < j => k < h) /\ InFlight'[i] = InFlight[k]
                    /\ InFlight'[j] = InFlight[h]
      /\ \A k \in DOMAIN InFlight : k # p => \E i \in DOMAIN InFlight' : InFlight'[i] = InFlight[k]
  BY Zenon DEF Removed
<1>2. InFlight[p].type = "?"
  BY DEF Parses
<1>3. ExchangeIds'
  BY DEF BooksInv, ExchangeIds
<1>4. IdsAreFed'
  BY <1>1 DEF BooksInv, IdsAreFed, Parses
<1>5. AddsAreFresh'
  <2> SUFFICES ASSUME NEW i \in DOMAIN InFlight', IsAdd(InFlight'[i])
               PROVE  /\ \A l \in DOMAIN lob : InFlight'[i].id \notin Ids(lob[l])
                      /\ \A j \in DOMAIN InFlight' :
                            IsAdd(InFlight'[j]) /\ InFlight'[j].id = InFlight'[i].id => i = j
    BY DEF AddsAreFresh, IsAdd
  <2>1. \A l \in DOMAIN lob : InFlight'[i].id \notin Ids(lob[l])
    BY <1>1 DEF BooksInv, AddsAreFresh
  <2>2. ASSUME NEW j \in DOMAIN InFlight', IsAdd(InFlight'[j]), InFlight'[j].id = InFlight'[i].id, i # j
        PROVE  FALSE
    <3>1. PICK k \in DOMAIN InFlight, h \in DOMAIN InFlight :
              k # h /\ InFlight'[i] = InFlight[k] /\ InFlight'[j] = InFlight[h]
      BY <1>1, <2>2
    <3>2. QED
      BY <2>2, <3>1 DEF BooksInv, AddsAreFresh
  <2>3. QED
    BY <2>1, <2>2
<1>6. StandingIsCovered'
  <2> SUFFICES ASSUME ~ lost, NEW l \in DOMAIN exchange, NEW id \in Ids(exchange[l])
               PROVE  /\ \A i \in DOMAIN InFlight' :
                            InFlight'[i].type \in {"A", "D"} /\ InFlight'[i].id = id =>
                                IsAdd(InFlight'[i]) /\ <<InFlight'[i].side, InFlight'[i].price>> = l
                      /\ l \in PriceTime!Level =>
                            \/ id \in Ids(lob[l])
                            \/ \E i \in DOMAIN InFlight' : IsAdd(InFlight'[i]) /\ InFlight'[i].id = id
    BY DEF StandingIsCovered, IsAdd
  <2>1. \A i \in DOMAIN InFlight' :
            InFlight'[i].type \in {"A", "D"} /\ InFlight'[i].id = id =>
                IsAdd(InFlight'[i]) /\ <<InFlight'[i].side, InFlight'[i].price>> = l
    BY <1>1 DEF BooksInv, StandingIsCovered
  <2>2. ASSUME l \in PriceTime!Level, id \notin Ids(lob[l])
        PROVE  \E i \in DOMAIN InFlight' : IsAdd(InFlight'[i]) /\ InFlight'[i].id = id
    <3>1. PICK k \in DOMAIN InFlight : IsAdd(InFlight[k]) /\ InFlight[k].id = id
      BY <2>2 DEF BooksInv, StandingIsCovered
    <3>2. k # p
      BY <1>2, <3>1 DEF IsAdd
    <3>3. QED
      BY <1>1, <3>1, <3>2
  <2>3. QED
    BY <2>1, <2>2
<1>7. QED
  BY <1>3, <1>4, <1>5, <1>6 DEF BooksInv

\* Nothing changes.
LEMMA BooksStay ==
    ASSUME BooksInv, UNCHANGED <<InFlight, exchange, fed, lost, lob>>
    PROVE  BooksInv'
<1>1. ExchangeIds' /\ IdsAreFed' /\ AddsAreFresh'
  BY DEF BooksInv, ExchangeIds, IdsAreFed, AddsAreFresh, Parses, IsAdd
<1>2. StandingIsCovered'
  BY DEF BooksInv, StandingIsCovered, IsAdd
<1>3. QED
  BY <1>1, <1>2 DEF BooksInv

\* What message m makes of book b: it deletes its own order at most, adds its own
\* order at most, and adds it when its level exists and the book does not have it.
Applied(b, m, c) ==
    /\ \A l \in PriceTime!Level : \A id \in Ids(b[l]) : id \in Ids(c[l]) \/ (m.type = "D" /\ m.id = id)
    /\ \A l \in PriceTime!Level : \A id \in Ids(c[l]) : id \in Ids(b[l]) \/ (IsAdd(m) /\ m.id = id)
    /\ /\ IsAdd(m) /\ <<m.side, m.price>> \in PriceTime!Level
       /\ \A l \in PriceTime!Level : m.id \notin Ids(b[l])
       => m.id \in Ids(c[<<m.side, m.price>>])

LEMMA ApplyBook ==
    ASSUME TypeOK, NEW m \in Message, NEW v \in Values(m)
    PROVE  Apply(lob, v) \in [PriceTime!Level -> Seq(Order)] /\ Applied(lob, m, Apply(lob, v))
<1>1. lob \in [PriceTime!Level -> Seq(Order)]
  BY Zenon DEF TypeOK
<1>2. /\ v.type = m.type /\ v.id = m.id
      /\ m.type = "A" => v.side = m.side /\ v.price = m.price /\ v.quantity = m.quantity
      /\ v.id \in 1 .. MaxDatagrams /\ v.side \in Side /\ v.price \in Price
      /\ v.quantity \in 1 .. MaxShares /\ m.type \in {"A", "X", "D", "E"}
  BY ValueParts, InternalParts
<1>3. CASE m.type = "A"
  <2>1. Apply(lob, v) = add(lob, v)
    BY <1>2, <1>3 DEF Apply
  <2>2. CASE v.price < MaxPrice /\ \A l \in DOMAIN lob : v.id \notin Ids(lob[l])
    <3>1. add(lob, v) = Insert(lob, v)
      BY <2>2 DEF add
    <3> DEFINE at == <<v.side, v.price>>
               o == [id |-> v.id, quantity |-> v.quantity]
    <3>2. at \in PriceTime!Level
      <4>1. v.price \in Nat /\ MaxPrice \in Nat
        BY <1>2, PipelineAssumption
      <4>2. v.price \in 0 .. MaxPrice - 1
        BY <2>2, <4>1
      <4>3. QED
        BY <1>2, <4>2 DEF PriceTime!Level, PriceTime!Side, Side
    <3>3. o \in Order /\ o.id = v.id
      BY <1>2 DEF Order
    <3>4. Insert(lob, v) = [lob EXCEPT ![at] = Append(@, o)]
      BY DEF Insert
    <3> HIDE DEF o
    <3>5. /\ Insert(lob, v) \in [PriceTime!Level -> Seq(Order)]
          /\ Ids(Insert(lob, v)[at]) = Ids(lob[at]) \cup {v.id}
          /\ \A l \in PriceTime!Level : l # at => Insert(lob, v)[l] = lob[l]
      <4> HIDE DEF at
      <4>1. lob[at] \in Seq(Order)
        BY <1>1, <3>2
      <4>2. /\ Append(lob[at], o) \in Seq(Order)
            /\ Ids(Append(lob[at], o)) = Ids(lob[at]) \cup {v.id}
        BY <3>3, <4>1, AppendOrder
      <4>3. /\ Insert(lob, v) \in [PriceTime!Level -> Seq(Order)]
            /\ Insert(lob, v)[at] = Append(lob[at], o)
            /\ \A l \in PriceTime!Level : l # at => Insert(lob, v)[l] = lob[l]
        BY <1>1, <3>2, <3>4, <4>2
      <4>4. QED
        BY <4>2, <4>3
    <3>6. QED
      BY <1>2, <1>3, <2>1, <3>1, <3>5 DEF IsAdd, Applied
  <2>3. CASE ~ (v.price < MaxPrice /\ \A l \in DOMAIN lob : v.id \notin Ids(lob[l]))
    <3>1. add(lob, v) = lob
      BY <2>3 DEF add
    <3>2. <<v.side, v.price>> \in PriceTime!Level => v.price < MaxPrice
      BY <1>2, PipelineAssumption DEF PriceTime!Level
    <3>3. QED
      BY <1>1, <1>2, <1>3, <2>1, <2>3, <3>1, <3>2 DEF Applied
  <2>4. QED
    BY <2>2, <2>3
<1>4. CASE m.type = "D"
  <2>1. Apply(lob, v) = cancel(lob, v.id)
    BY <1>2, <1>4 DEF Apply
  <2>2. /\ cancel(lob, v.id) \in [PriceTime!Level -> Seq(Order)]
        /\ \A l \in PriceTime!Level : /\ Ids(cancel(lob, v.id)[l]) \subseteq Ids(lob[l])
                                      /\ Ids(lob[l]) \ {v.id} \subseteq Ids(cancel(lob, v.id)[l])
    BY <1>1, CancelBook
  <2>3. QED
    BY <1>2, <1>4, <2>1, <2>2 DEF IsAdd, Applied
<1>5. CASE m.type = "X"
  <2>1. Apply(lob, v) = modify(lob, v.id, v.quantity)
    BY <1>2, <1>5 DEF Apply
  <2>2. QED
    BY <1>1, <1>2, <1>5, <2>1, ModifyBook DEF IsAdd, Applied
<1>6. CASE m.type = "E"
  <2>1. Apply(lob, v) = lob
    BY <1>2, <1>6 DEF Apply
  <2>2. QED
    BY <1>1, <1>6, <2>1 DEF IsAdd, Applied
<1>7. QED
  BY <1>2, <1>3, <1>4, <1>5, <1>6

\* The oldest message in flight is applied to the book.
LEMMA BooksAfterPop ==
    ASSUME TypeOK, BooksInv, NEW m \in Message, NEW v \in Values(m), lob' = Apply(lob, v),
           Removed(InFlight, 1, InFlight'), InFlight[1] = m, UNCHANGED <<exchange, fed, lost>>
    PROVE  BooksInv'
<1>1. /\ 1 \in DOMAIN InFlight
      /\ \A i \in DOMAIN InFlight' : \E k \in DOMAIN InFlight : k # 1 /\ InFlight'[i] = InFlight[k]
      /\ \A i, j \in DOMAIN InFlight' : i # j =>
            \E k, h \in DOMAIN InFlight :
                k # 1 /\ h # 1 /\ k # h /\ (i < j => k < h) /\ InFlight'[i] = InFlight[k]
                    /\ InFlight'[j] = InFlight[h]
      /\ \A k \in DOMAIN InFlight : k # 1 => \E i \in DOMAIN InFlight' : InFlight'[i] = InFlight[k]
  BY Zenon DEF Removed
<1>2. /\ DOMAIN lob = PriceTime!Level /\ DOMAIN lob' = PriceTime!Level
      /\ \A l \in PriceTime!Level : \A id \in Ids(lob[l]) :
            id \in Ids(lob'[l]) \/ (m.type = "D" /\ m.id = id)
      /\ \A l \in PriceTime!Level : \A id \in Ids(lob'[l]) :
            id \in Ids(lob[l]) \/ (IsAdd(m) /\ m.id = id)
      /\ /\ IsAdd(m) /\ <<m.side, m.price>> \in PriceTime!Level
         /\ \A l \in PriceTime!Level : m.id \notin Ids(lob[l])
         => m.id \in Ids(lob'[<<m.side, m.price>>])
  <2>1. lob \in [PriceTime!Level -> Seq(Order)]
    BY Zenon DEF TypeOK
  <2>2. lob' \in [PriceTime!Level -> Seq(Order)] /\ Applied(lob, m, lob')
    BY ApplyBook, Zenon
  <2>3. QED
    BY <2>1, <2>2 DEF Applied
<1>3. ExchangeIds'
  BY DEF BooksInv, ExchangeIds
<1>4. IdsAreFed'
  <2>1. \A l \in DOMAIN lob : \A id \in Ids(lob[l]) : id <= fed
    BY DEF BooksInv, IdsAreFed
  <2>2. m.id <= fed
    BY <1>1, MessageParts DEF BooksInv, IdsAreFed
  <2>3. \A l \in DOMAIN lob' : \A id \in Ids(lob'[l]) : id <= fed
    BY <1>2, <2>1, <2>2
  <2>4. \A i \in DOMAIN InFlight' : Parses(InFlight'[i]) => InFlight'[i].id <= fed
    BY <1>1 DEF BooksInv, IdsAreFed
  <2>5. QED
    BY <2>3, <2>4 DEF BooksInv, IdsAreFed, Parses
<1>5. AddsAreFresh'
  <2> SUFFICES ASSUME NEW i \in DOMAIN InFlight', IsAdd(InFlight'[i])
               PROVE  /\ \A l \in DOMAIN lob' : InFlight'[i].id \notin Ids(lob'[l])
                      /\ \A j \in DOMAIN InFlight' :
                            IsAdd(InFlight'[j]) /\ InFlight'[j].id = InFlight'[i].id => i = j
    BY DEF AddsAreFresh, IsAdd
  <2>1. PICK k \in DOMAIN InFlight : k # 1 /\ InFlight'[i] = InFlight[k]
    BY <1>1
  <2>2. /\ \A l \in DOMAIN lob : InFlight[k].id \notin Ids(lob[l])
        /\ IsAdd(m) => m.id # InFlight[k].id
    BY <1>1, <2>1 DEF BooksInv, AddsAreFresh
  <2>3. \A l \in DOMAIN lob' : InFlight'[i].id \notin Ids(lob'[l])
    BY <1>2, <2>1, <2>2
  <2>4. ASSUME NEW j \in DOMAIN InFlight', IsAdd(InFlight'[j]), InFlight'[j].id = InFlight'[i].id, i # j
        PROVE  FALSE
    <3>1. PICK g \in DOMAIN InFlight, h \in DOMAIN InFlight :
              g # h /\ InFlight'[i] = InFlight[g] /\ InFlight'[j] = InFlight[h]
      BY <1>1, <2>4
    <3>2. QED
      BY <2>4, <3>1 DEF BooksInv, AddsAreFresh
  <2>5. QED
    BY <2>3, <2>4
<1>6. StandingIsCovered'
  <2> SUFFICES ASSUME ~ lost, NEW l \in DOMAIN exchange, NEW id \in Ids(exchange[l])
               PROVE  /\ \A i \in DOMAIN InFlight' :
                            InFlight'[i].type \in {"A", "D"} /\ InFlight'[i].id = id =>
                                IsAdd(InFlight'[i]) /\ <<InFlight'[i].side, InFlight'[i].price>> = l
                      /\ l \in PriceTime!Level =>
                            \/ id \in Ids(lob'[l])
                            \/ \E i \in DOMAIN InFlight' : IsAdd(InFlight'[i]) /\ InFlight'[i].id = id
    BY DEF StandingIsCovered, IsAdd
  <2>1. /\ \A i \in DOMAIN InFlight :
               InFlight[i].type \in {"A", "D"} /\ InFlight[i].id = id =>
                   IsAdd(InFlight[i]) /\ <<InFlight[i].side, InFlight[i].price>> = l
        /\ l \in PriceTime!Level =>
               id \in Ids(lob[l]) \/ \E i \in DOMAIN InFlight : IsAdd(InFlight[i]) /\ InFlight[i].id = id
    BY DEF BooksInv, StandingIsCovered
  <2>2. \A i \in DOMAIN InFlight' :
            InFlight'[i].type \in {"A", "D"} /\ InFlight'[i].id = id =>
                IsAdd(InFlight'[i]) /\ <<InFlight'[i].side, InFlight'[i].price>> = l
    BY <1>1, <2>1
  <2>3. ASSUME l \in PriceTime!Level
        PROVE  \/ id \in Ids(lob'[l])
               \/ \E i \in DOMAIN InFlight' : IsAdd(InFlight'[i]) /\ InFlight'[i].id = id
    \* The message does not delete the order.
    <3>1. CASE id \in Ids(lob[l])
      <4>1. ~ (m.type = "D" /\ m.id = id)
        BY <1>1, <2>1 DEF IsAdd
      <4>2. QED
        BY <1>2, <2>3, <3>1, <4>1
    <3>2. ASSUME NEW k \in DOMAIN InFlight, IsAdd(InFlight[k]), InFlight[k].id = id
          PROVE  \/ id \in Ids(lob'[l])
                 \/ \E i \in DOMAIN InFlight' : IsAdd(InFlight'[i]) /\ InFlight'[i].id = id
      <4>1. CASE k # 1
        BY <1>1, <3>2, <4>1
      \* The message adds the order.
      <4>2. CASE k = 1
        <5>1. IsAdd(m) /\ m.id = id /\ <<m.side, m.price>> = l
          BY <2>1, <3>2, <4>2 DEF IsAdd
        <5>2. \A h \in PriceTime!Level : m.id \notin Ids(lob[h])
          BY <1>1, <1>2, <5>1 DEF BooksInv, AddsAreFresh
        <5>3. QED
          BY <1>2, <2>3, <5>1, <5>2
      <4>3. QED
        BY <4>1, <4>2
    <3>3. QED
      BY <2>1, <2>3, <3>1, <3>2
  <2>4. QED
    BY <2>2, <2>3
<1>7. QED
  BY <1>3, <1>4, <1>5, <1>6 DEF BooksInv

\* What a datagram makes of the exchange's book.
LEMMA ExchangeBook ==
    ASSUME TypeOK, BooksInv, NEW d \in Datagram, Publish(d)
    PROVE  /\ exchange' \in [Side \X Price -> Seq(Order)] /\ ExchangeIds'
           /\ \A l \in Side \X Price : \A id \in Ids(exchange'[l]) :
                 \/ id \in Ids(exchange[l])
                 \/ IsAdd(d) /\ id = d.id /\ l = <<d.side, d.price>>
           /\ d.type = "D" => \A l \in Side \X Price : d.id \notin Ids(exchange'[l])
<1>1. exchange \in [Side \X Price -> Seq(Order)]
  BY Zenon DEF TypeOK
<1>2. /\ \A l \in Side \X Price : Distinct(exchange[l])
      /\ \A k, l \in Side \X Price : k # l => Ids(exchange[k]) \cap Ids(exchange[l]) = {}
      /\ \A l \in Side \X Price : \A id \in Ids(exchange[l]) : id <= fed
  BY <1>1 DEF BooksInv, ExchangeIds, IdsAreFed
<1>3. MayFollow(d) /\ fed \in Nat
  BY PipelineAssumption DEF Publish, TypeOK
<1>4. /\ d.type = "A" => exchange' = Insert(exchange, d)
      /\ d.type = "D" => exchange' = cancel(exchange, d.id)
      /\ d.type \in {"X", "E"} => exchange' = modify(exchange, d.id, Remaining(d))
      /\ d.type = "?" => exchange' = exchange
  BY DEF Publish
\* A book whose levels only lost orders.
<1>5. ASSUME NEW b \in [Side \X Price -> Seq(Order)], exchange' = b,
             \A l \in Side \X Price : Ids(b[l]) \subseteq Ids(exchange[l]) /\ Distinct(b[l])
      PROVE  /\ exchange' \in [Side \X Price -> Seq(Order)] /\ ExchangeIds'
             /\ \A l \in Side \X Price : \A id \in Ids(exchange'[l]) : id \in Ids(exchange[l])
  <2>1. \A k, l \in Side \X Price : k # l => Ids(b[k]) \cap Ids(b[l]) = {}
    BY <1>2, <1>5
  <2>2. QED
    BY <1>5, <2>1 DEF ExchangeIds
<1>6. CASE d.type = "A"
  <2> DEFINE at == <<d.side, d.price>>
             o == [id |-> d.id, quantity |-> d.quantity]
  <2>1. /\ d.id = fed + 1 /\ d.side \in Side /\ d.price \in Price
        /\ d.quantity \in 1 .. MaxShares /\ d.id \in 1 .. MaxDatagrams
    BY <1>3, <1>6, DatagramParts DEF BooksInv
  <2>2. at \in Side \X Price /\ o \in Order /\ o.id = d.id
    BY <2>1 DEF Order
  <2>3. exchange' = [exchange EXCEPT ![at] = Append(@, o)]
    BY <1>4, <1>6 DEF Insert
  <2>4. \A l \in Side \X Price : d.id \notin Ids(exchange[l])
    <3>1. ~ d.id <= fed
      BY <1>3, <2>1
    <3>2. QED
      BY <1>2, <3>1
  <2> HIDE DEF at, o
  <2>5. exchange[at] \in Seq(Order) /\ Distinct(exchange[at]) /\ o.id \notin Ids(exchange[at])
    BY <1>1, <1>2, <2>2, <2>4
  <2>6. /\ Append(exchange[at], o) \in Seq(Order)
        /\ Ids(Append(exchange[at], o)) = Ids(exchange[at]) \cup {d.id}
        /\ Distinct(Append(exchange[at], o))
    BY <2>2, <2>5, AppendOrder
  <2>7. /\ exchange' \in [Side \X Price -> Seq(Order)] /\ exchange'[at] = Append(exchange[at], o)
        /\ \A l \in Side \X Price : l # at => exchange'[l] = exchange[l]
    BY <1>1, <2>2, <2>3, <2>6
  <2>8. \A l \in Side \X Price : Distinct(exchange'[l])
    BY <1>2, <2>6, <2>7
  <2>9. \A l \in Side \X Price : \A id \in Ids(exchange'[l]) :
            id \in Ids(exchange[l]) \/ (id = d.id /\ l = at)
    BY <2>6, <2>7
  <2>10. \A k, l \in Side \X Price : k # l => Ids(exchange'[k]) \cap Ids(exchange'[l]) = {}
    BY <1>2, <2>4, <2>9
  <2>11. ExchangeIds'
    BY <2>7, <2>8, <2>10 DEF ExchangeIds
  <2>12. QED
    BY <1>6, <2>7, <2>9, <2>11 DEF at, IsAdd
<1>7. CASE d.type = "D"
  <2>1. /\ cancel(exchange, d.id) \in [Side \X Price -> Seq(Order)]
        /\ \A l \in Side \X Price : /\ Ids(cancel(exchange, d.id)[l]) \subseteq Ids(exchange[l])
                                    /\ Distinct(cancel(exchange, d.id)[l])
                                    /\ d.id \notin Ids(cancel(exchange, d.id)[l])
    BY <1>1, <1>2, CancelBook, ZenonT(30)
  <2>2. QED
    BY <1>4, <1>5, <1>7, <2>1
<1>8. CASE d.type \in {"X", "E"}
  <2>1. Remaining(d) \in 0 .. MaxShares
    BY <1>3, <1>8, DatagramParts DEF BooksInv
  <2>2. CASE Remaining(d) = 0
    <3>1. exchange' = cancel(exchange, d.id)
      BY <1>4, <1>8, <2>2 DEF modify
    <3>2. /\ cancel(exchange, d.id) \in [Side \X Price -> Seq(Order)]
          /\ \A l \in Side \X Price : /\ Ids(cancel(exchange, d.id)[l]) \subseteq Ids(exchange[l])
                                      /\ Distinct(cancel(exchange, d.id)[l])
      BY <1>1, <1>2, CancelBook, ZenonT(30)
    <3>3. QED
      BY <1>5, <1>8, <3>1, <3>2
  <2>3. CASE Remaining(d) # 0
    <3>1. Remaining(d) \in 1 .. MaxShares /\ exchange' = modify(exchange, d.id, Remaining(d))
      BY <1>4, <1>8, <2>1, <2>3, PipelineAssumption
    <3>2. /\ modify(exchange, d.id, Remaining(d)) \in [Side \X Price -> Seq(Order)]
          /\ \A l \in Side \X Price :
                /\ Ids(modify(exchange, d.id, Remaining(d))[l]) = Ids(exchange[l])
                /\ Distinct(modify(exchange, d.id, Remaining(d))[l])
      BY <1>1, <1>2, <3>1, ModifyBook
    <3>3. QED
      BY <1>5, <1>8, <3>1, <3>2
  <2>4. QED
    BY <2>2, <2>3
<1>9. CASE d.type = "?"
  BY <1>1, <1>2, <1>4, <1>5, <1>9
<1>10. QED
  BY <1>3, <1>6, <1>7, <1>8, <1>9, DatagramParts DEF BooksInv

\* The exchange publishes a datagram.
LEMMA BooksAfterPublish ==
    ASSUME TypeOK, InHandIsMessage, BooksInv, NEW d \in Datagram, Publish(d)
    PROVE  BooksInv'
<1> DEFINE n == Len(InFlight)
<1>1. /\ fed \in Nat /\ MayFollow(d) /\ fed' = fed + 1 /\ UNCHANGED lob
      /\ exchange \in [Side \X Price -> Seq(Order)] /\ lob \in [PriceTime!Level -> Seq(Order)]
  BY PipelineAssumption DEF Publish, strategy, TypeOK
<1>2. /\ exchange' \in [Side \X Price -> Seq(Order)] /\ ExchangeIds'
      /\ \A l \in Side \X Price : \A id \in Ids(exchange'[l]) :
            \/ id \in Ids(exchange[l])
            \/ IsAdd(d) /\ id = d.id /\ l = <<d.side, d.price>>
      /\ d.type = "D" => \A l \in Side \X Price : d.id \notin Ids(exchange'[l])
  BY ExchangeBook
<1>3. /\ d \in Raw
      /\ IsAdd(d) => d.id = fed + 1
      /\ Parses(d) /\ ~ IsAdd(d) => \E l \in Side \X Price : d.id \in Ids(exchange[l])
  BY <1>1, DatagramParts DEF BooksInv, IsAdd, Parses
<1>4. DOMAIN InFlight = 1 .. n /\ n \in Nat /\ InFlight \in Seq(Raw)
  BY SequencesTyped
<1>5. /\ \A l \in Side \X Price : \A id \in Ids(exchange[l]) : id \in Nat /\ id <= fed
      /\ \A l \in PriceTime!Level : \A id \in Ids(lob[l]) : id \in Nat /\ id <= fed
      /\ \A i \in DOMAIN InFlight : Parses(InFlight[i]) => InFlight[i].id \in Nat /\ InFlight[i].id <= fed
  <2>1. ASSUME NEW q \in Seq(Order), NEW id \in Ids(q)
        PROVE  id \in Nat
    <3>1. PICK i \in DOMAIN q : id = q[i].id
      BY DEF Ids
    <3>2. q[i] \in Order
      OBVIOUS
    <3>3. QED
      BY <3>1, <3>2, OrderParts
  <2>2. \A i \in DOMAIN InFlight : Parses(InFlight[i]) => InFlight[i].id \in Nat
    BY SequencesTyped, RawParts, MessageParts
  <2>3. QED
    BY <1>1, <2>1, <2>2 DEF BooksInv, IdsAreFed
<1>6. Parses(d) => d.id \in Nat /\ d.id <= fed + 1
  <2>1. CASE IsAdd(d)
    BY <1>1, <1>3, <2>1
  <2>2. CASE Parses(d) /\ ~ IsAdd(d)
    BY <1>1, <1>3, <1>5, <2>2
  <2>3. QED
    BY <2>1, <2>2
\* A new order is new everywhere.
<1>7. IsAdd(d) => /\ \A l \in Side \X Price : d.id \notin Ids(exchange[l])
                  /\ \A l \in PriceTime!Level : d.id \notin Ids(lob[l])
                  /\ \A i \in DOMAIN InFlight : Parses(InFlight[i]) => InFlight[i].id # d.id
  <2>1. \A k \in Nat : k <= fed => k # fed + 1
    BY <1>1
  <2>2. QED
    BY <1>3, <1>5, <2>1
<1>8. \/ lost' = lost /\ InFlight' = Append(InFlight, d)
      \/ lost' = TRUE /\ InFlight' = InFlight
  BY <1>3, PublishFlight
\* What is in flight now: what was, and perhaps d.
<1>9. \A i \in DOMAIN InFlight' : \/ i \in DOMAIN InFlight /\ InFlight'[i] = InFlight[i]
                                  \/ i = n + 1 /\ InFlight'[i] = d
  BY <1>3, <1>4, <1>8
<1> HIDE DEF n
<1>10. IdsAreFed'
  <2>1. \A k \in Nat : k <= fed => k <= fed'
    BY <1>1
  <2>2. \A l \in DOMAIN exchange' : \A id \in Ids(exchange'[l]) : id <= fed'
    BY <1>1, <1>2, <1>3, <1>5, <2>1
  <2>3. \A l \in DOMAIN lob' : \A id \in Ids(lob'[l]) : id <= fed'
    BY <1>1, <1>5, <2>1
  <2>4. \A i \in DOMAIN InFlight' : Parses(InFlight'[i]) => InFlight'[i].id <= fed'
    BY <1>1, <1>5, <1>6, <1>9, <2>1
  <2>5. QED
    BY <2>2, <2>3, <2>4 DEF IdsAreFed, Parses
<1>11. AddsAreFresh'
  <2> SUFFICES ASSUME NEW i \in DOMAIN InFlight', IsAdd(InFlight'[i])
               PROVE  /\ \A l \in DOMAIN lob : InFlight'[i].id \notin Ids(lob[l])
                      /\ \A j \in DOMAIN InFlight' :
                            IsAdd(InFlight'[j]) /\ InFlight'[j].id = InFlight'[i].id => i = j
    BY <1>1 DEF AddsAreFresh, IsAdd
  <2>1. \A k \in DOMAIN InFlight : IsAdd(InFlight[k]) =>
            /\ \A l \in DOMAIN lob : InFlight[k].id \notin Ids(lob[l])
            /\ \A j \in DOMAIN InFlight : IsAdd(InFlight[j]) /\ InFlight[j].id = InFlight[k].id => k = j
    BY DEF BooksInv, AddsAreFresh
  <2>2. \A m : IsAdd(m) => Parses(m)
    BY DEF IsAdd, Parses
  <2>3. \A l \in DOMAIN lob : InFlight'[i].id \notin Ids(lob[l])
    BY <1>1, <1>7, <1>9, <2>1
  <2>4. ASSUME NEW j \in DOMAIN InFlight', IsAdd(InFlight'[j]), InFlight'[j].id = InFlight'[i].id
        PROVE  i = j
    BY <1>7, <1>9, <2>1, <2>2, <2>4
  <2>5. QED
    BY <2>3, <2>4
<1>12. StandingIsCovered'
  <2> SUFFICES ASSUME ~ lost', NEW l \in Side \X Price, NEW id \in Ids(exchange'[l])
               PROVE  /\ \A i \in DOMAIN InFlight' :
                            InFlight'[i].type \in {"A", "D"} /\ InFlight'[i].id = id =>
                                IsAdd(InFlight'[i]) /\ <<InFlight'[i].side, InFlight'[i].price>> = l
                      /\ l \in PriceTime!Level =>
                            \/ id \in Ids(lob[l])
                            \/ \E i \in DOMAIN InFlight' : IsAdd(InFlight'[i]) /\ InFlight'[i].id = id
    BY <1>1, <1>2 DEF StandingIsCovered, IsAdd
  <2>1. ~ lost /\ InFlight' = Append(InFlight, d)
    BY <1>8
  <2>2. /\ n + 1 \in DOMAIN InFlight' /\ InFlight'[n + 1] = d
        /\ \A i \in DOMAIN InFlight : i \in DOMAIN InFlight' /\ InFlight'[i] = InFlight[i]
    BY <1>3, <1>4, <2>1 DEF n
  <2>3. CASE id \in Ids(exchange[l])
    <3>1. /\ \A i \in DOMAIN InFlight :
                 InFlight[i].type \in {"A", "D"} /\ InFlight[i].id = id =>
                     IsAdd(InFlight[i]) /\ <<InFlight[i].side, InFlight[i].price>> = l
          /\ l \in PriceTime!Level =>
                 id \in Ids(lob[l]) \/ \E i \in DOMAIN InFlight : IsAdd(InFlight[i]) /\ InFlight[i].id = id
      BY <1>1, <2>1, <2>3 DEF BooksInv, StandingIsCovered
    <3>2. ~ (d.type \in {"A", "D"} /\ d.id = id)
      <4>1. CASE d.type = "A"
        BY <1>7, <2>3, <4>1 DEF IsAdd
      <4>2. CASE d.type = "D"
        BY <1>2, <4>2
      <4>3. QED
        BY <4>1, <4>2
    <3>3. \A i \in DOMAIN InFlight' :
              InFlight'[i].type \in {"A", "D"} /\ InFlight'[i].id = id =>
                  IsAdd(InFlight'[i]) /\ <<InFlight'[i].side, InFlight'[i].price>> = l
      BY <1>9, <3>1, <3>2
    <3>4. l \in PriceTime!Level =>
              \/ id \in Ids(lob[l])
              \/ \E i \in DOMAIN InFlight' : IsAdd(InFlight'[i]) /\ InFlight'[i].id = id
      BY <2>2, <3>1
    <3>5. QED
      BY <3>3, <3>4
  <2>4. CASE IsAdd(d) /\ id = d.id /\ l = <<d.side, d.price>>
    <3>1. ASSUME NEW i \in DOMAIN InFlight', InFlight'[i].type \in {"A", "D"}, InFlight'[i].id = id
          PROVE  InFlight'[i] = d
      <4>1. Parses(InFlight'[i])
        BY <3>1 DEF Parses
      <4>2. QED
        BY <1>7, <1>9, <2>4, <3>1, <4>1
    <3>2. QED
      BY <2>2, <2>4, <3>1
  <2>5. QED
    BY <1>2, <2>3, <2>4
<1>13. QED
  BY <1>2, <1>10, <1>11, <1>12 DEF BooksInv
------------------------------------------------------------------------------
(* The steps *)

LEMMA InitInvariant ==
    ASSUME Init
    PROVE  PipelineInv
<1>1. /\ exchange = [l \in Side \X Price |-> << >>] /\ fed = 0 /\ lost = FALSE /\ socket = << >>
      /\ npc = "start" /\ received = << >> /\ queue = << >> /\ applied = << >> /\ orders = << >>
      /\ lob = [l \in PriceTime!Level |-> << >>]
  BY DEF Init, Fifo!Init, PriceTime!Init
<1>2. \A S : << >> \in Seq(S) /\ Len(<< >>) = 0
  OBVIOUS
<1>3. TypeOK
  <2>1. exchange \in [Side \X Price -> Seq(Order)] /\ lob \in [PriceTime!Level -> Seq(Order)]
    BY <1>1, <1>2
  <2>2. 0 <= Backlog /\ 0 <= Bound /\ 0 \in 0 .. MaxDatagrams + MaxCancels
    BY PipelineAssumption
  <2>3. QED
    BY <1>1, <1>2, <2>1, <2>2 DEF TypeOK, Init, Fifo!Init
<1>4. InHand = << >>
  BY <1>1 DEF InHand
<1>5. InFlight = << >> /\ DOMAIN InFlight = {}
  BY <1>1, <1>4 DEF InFlight
<1>6. AppliedInOrder
  BY <1>1, <1>4 DEF AppliedInOrder
<1>7. InHandIsMessage
  BY <1>1 DEF InHandIsMessage
<1>8. /\ \A l \in DOMAIN exchange : Ids(exchange[l]) = {} /\ Distinct(exchange[l])
      /\ \A l \in DOMAIN lob : Ids(lob[l]) = {}
  BY <1>1 DEF Ids, Distinct
<1>9. BooksInv
  BY <1>5, <1>8 DEF BooksInv, ExchangeIds, IdsAreFed, AddsAreFresh, StandingIsCovered
<1>10. QED
  BY <1>3, <1>6, <1>7, <1>9 DEF PipelineInv

\* A step that leaves the messages and the books alone.
LEMMA QuietStep ==
    ASSUME PipelineInv, ControlTyped', npc' = "push" <=> npc = "push",
           UNCHANGED <<exchange, fed, lost, socket, parsed_msg, msg, received, queue, lob,
                       position_taken, orders, applied>>
    PROVE  PipelineInv'
<1>0. TypeOK'
  <2>1. DataTyped
    BY TypeParts DEF PipelineInv
  <2>2. DataTyped'
    BY <2>1, Zenon DEF DataTyped
  <2>3. QED
    BY <2>2, TypePartsNext
<1>1. InHand' = InHand
  BY DEF InHand
<1>2. InFlight' = InFlight
  BY <1>1 DEF InFlight
<1>3. AppliedInOrder' /\ InHandIsMessage'
  BY <1>1 DEF PipelineInv, AppliedInOrder, InHandIsMessage
<1>4. BooksInv'
  BY <1>2, BooksStay DEF PipelineInv
<1>5. QED
  BY <1>0, <1>3, <1>4 DEF PipelineInv

LEMMA PublishStep ==
    ASSUME PipelineInv, NEW d \in Datagram, Publish(d)
    PROVE  PipelineInv'
<1> USE DEF PipelineInv
<1>1. /\ MayFollow(d) /\ fed' = fed + 1
      /\ UNCHANGED <<network, queue, msg, strategy, control>>
      /\ \/ Len(socket) < Backlog /\ socket' = Append(socket, d) /\ ready' = TRUE /\ UNCHANGED lost
         \/ lost' = TRUE /\ UNCHANGED <<socket, ready>>
  BY DEF Publish, Arrives
<1>2. d \in Raw /\ exchange' \in [Side \X Price -> Seq(Order)]
  BY <1>1, DatagramParts, ExchangeBook DEF BooksInv
<1>3. socket' \in Seq(Raw) /\ Len(socket') <= Backlog
  <2>1. socket \in Seq(Raw) /\ Len(socket) \in Nat /\ Len(socket) <= Backlog /\ Backlog \in Nat
    BY SequencesTyped, PipelineAssumption DEF TypeOK
  <2>2. QED
    BY <1>1, <1>2, <2>1
<1>4. fed' \in 0 .. MaxDatagrams + MaxCancels
  BY <1>1, PipelineAssumption DEF TypeOK, MayFollow
<1>5. TypeOK'
  <2>1. ControlTyped /\ DataTyped
    BY TypeParts
  <2>2. ControlTyped'
    BY <1>1, <2>1, Zenon DEF ControlTyped, network, strategy, control
  <2>3. lost' \in BOOLEAN
    BY <1>1, <2>1, Zenon DEF DataTyped
  <2>4. DataTyped'
    BY <1>1, <1>2, <1>3, <1>4, <2>1, <2>3, Zenon DEF DataTyped, network, strategy
  <2>5. QED
    BY <2>2, <2>4, TypePartsNext
<1>6. InHand' = InHand
  BY <1>2, PublishFlight
<1>7. AppliedInOrder' /\ InHandIsMessage'
  BY <1>1, <1>6 DEF AppliedInOrder, InHandIsMessage, network, strategy
<1>8. QED
  BY <1>5, <1>7, BooksAfterPublish

LEMMA NetworkStep ==
    ASSUME PipelineInv, NetworkStart \/ EpollWait
    PROVE  PipelineInv'
<1>0. ControlTyped
  BY TypeParts DEF PipelineInv
<1>1. ControlTyped'
  BY <1>0, Zenon DEF ControlTyped, NetworkStart, EpollWait, addUDPMulticastListener, strategy, control
<1>2. /\ npc' = "push" <=> npc = "push"
      /\ UNCHANGED <<exchange, fed, lost, socket, parsed_msg, msg, received, queue, lob,
                     position_taken, orders, applied>>
  BY DEF NetworkStart, EpollWait, feed, strategy
<1>3. QED
  BY <1>1, <1>2, QuietStep

LEMMA RecvStep ==
    ASSUME PipelineInv, Recv
    PROVE  PipelineInv'
<1> USE DEF PipelineInv
<1>1. /\ socket # << >> /\ socket' = Tail(socket)
      /\ UNCHANGED <<feed, ready, listening, queue, msg, strategy, control>>
      /\ \/ /\ Parses(Head(socket)) /\ npc' = "push" /\ parsed_msg' = Head(socket)
            /\ received' = Append(received, Head(socket))
         \/ npc' = "wait" /\ UNCHANGED <<parsed_msg, received>>
  BY DEF Recv
<1>2. Head(socket) \in Raw /\ AppliedInOrder'
  BY RecvFlight
<1>3. socket' \in Seq(Raw) /\ Len(socket') <= Backlog
  <2>1. socket \in Seq(Raw) /\ Len(socket) \in Nat /\ Len(socket) <= Backlog /\ Backlog \in Nat
    BY SequencesTyped, PipelineAssumption DEF TypeOK
  <2>2. QED
    BY <1>1, <2>1
<1>4. /\ received' \in Seq(Message) /\ parsed_msg' \in Message \cup {NoMessage}
      /\ npc' = "push" => parsed_msg' \in Message
  <2>1. Parses(Head(socket)) => Head(socket) \in Message
    BY <1>2, RawParts
  <2>2. received \in Seq(Message) /\ parsed_msg \in Message \cup {NoMessage}
    BY DEF TypeOK
  <2>3. QED
    BY <1>1, <2>1, <2>2, SMTT(30)
<1>5. TypeOK'
  BY <1>1, <1>3, <1>4 DEF TypeOK, Raw, feed, strategy, control
<1>6. InHandIsMessage'
  BY <1>1, <1>4 DEF InHandIsMessage, strategy
<1>7. UNCHANGED <<exchange, fed, lost, lob>>
  BY <1>1 DEF feed, strategy
<1>8. BooksInv'
  BY <1>7, RecvFlight, BooksStay, BooksAfterDrop
<1>9. QED
  BY <1>2, <1>5, <1>6, <1>8

LEMMA PushStep ==
    ASSUME PipelineInv, Push
    PROVE  PipelineInv'
<1> USE DEF PipelineInv
<1>1. /\ npc = "push" /\ npc' = "wait" /\ Len(queue) < Bound /\ queue' = Append(queue, parsed_msg)
      /\ UNCHANGED <<feed, socket, ready, listening, parsed_msg, received, msg, strategy, control>>
  BY DEF Push, Fifo!Put
<1>2. queue' \in Seq(Message) /\ Len(queue') <= Bound
  <2>1. queue \in Seq(Message) /\ parsed_msg \in Message
    BY <1>1, SequencesTyped DEF InHandIsMessage
  <2>2. QED
    BY <1>1, <2>1, PipelineAssumption
<1>3. TypeOK'
  BY <1>1, <1>2 DEF TypeOK, feed, strategy, control
<1>4. InHandIsMessage'
  BY <1>1 DEF InHandIsMessage, strategy
<1>5. AppliedInOrder' /\ UNCHANGED <<InFlight, exchange, fed, lost, lob>>
  BY <1>1, PushFlight DEF feed, strategy
<1>6. QED
  BY <1>3, <1>4, <1>5, BooksStay

\* StrategyPop applies the oldest message in flight, and sends an order only for
\* a bid that it adds.
LEMMA PopStep ==
    ASSUME PipelineInv, StrategyPop
    PROVE  /\ PipelineInv'
           /\ orders' # orders =>
                 /\ orders = << >> /\ Len(orders') = 1
                 /\ orders'[1] < MaxPrice => lob'[<<"BUY", orders'[1]>>] # << >>
<1> USE DEF PipelineInv
<1>1. /\ queue # << >> /\ queue' = Tail(queue) /\ applied' = Append(applied, msg') /\ spc' = "test"
      /\ UNCHANGED <<feed, socket, ready, network, control>>
  BY DEF StrategyPop, Fifo!Get
<1>2. PICK v \in Values(msg') : lob' = Apply(lob, v) /\ onMarketDataUpdate(v)
  BY DEF StrategyPop
<1>3. /\ Removed(InFlight, 1, InFlight') /\ InFlight[1] = msg' /\ msg' \in Message
      /\ AppliedInOrder'
  BY PopFlight
<1>4. lob' \in [PriceTime!Level -> Seq(Order)] /\ Applied(lob, msg', lob')
  BY <1>2, <1>3, ApplyBook
<1>5. /\ queue' \in Seq(Message) /\ Len(queue') <= Bound /\ applied' \in Seq(Message)
  <2>1. /\ queue \in Seq(Message) /\ Len(queue) <= Bound /\ Len(queue) \in Nat /\ Bound \in Nat
        /\ applied \in Seq(Message)
    BY PipelineAssumption DEF TypeOK
  <2>2. QED
    BY <1>1, <1>3, <2>1
<1>6. /\ \/ ~ position_taken /\ IsTrigger(v) /\ position_taken' = TRUE /\ orders' = Append(orders, v.price)
         \/ UNCHANGED <<position_taken, orders>>
      /\ v \in InternalMessage /\ v.type = msg'.type /\ v.price \in Price
      /\ msg'.type = "A" => v.side = msg'.side /\ v.price = msg'.price
  BY <1>2, <1>3, ValueParts, InternalParts DEF onMarketDataUpdate
<1>7. orders' \in Seq(Price) /\ position_taken' \in BOOLEAN
  <2>1. orders \in Seq(Price) /\ position_taken \in BOOLEAN
    BY Zenon DEF TypeOK
  <2>2. orders' \in Seq(Price)
    BY <1>6, <2>1
  <2>3. position_taken' \in BOOLEAN
    BY <1>6, <2>1, Zenon
  <2>4. QED
    BY <2>2, <2>3
<1>8. TypeOK'
  BY <1>1, <1>3, <1>4, <1>5, <1>7 DEF TypeOK, feed, network, control
<1>9. InHandIsMessage'
  BY <1>1, <1>6 DEF InHandIsMessage, network
<1>10. BooksInv'
  BY <1>1, <1>2, <1>3, BooksAfterPop DEF feed
<1>11. ASSUME orders' # orders
       PROVE  /\ orders = << >> /\ Len(orders') = 1
              /\ orders'[1] < MaxPrice => lob'[<<"BUY", orders'[1]>>] # << >>
  <2>1. orders = << >> /\ IsTrigger(v) /\ orders' = Append(orders, v.price)
    BY <1>6, <1>11 DEF InHandIsMessage
  <2>2. Len(orders') = 1 /\ orders'[1] = v.price
    BY <1>6, <2>1
  <2>3. IsAdd(msg') /\ msg'.side = "BUY" /\ msg'.price = v.price
    BY <1>6, <2>1 DEF IsTrigger, IsAdd
  <2>4. ASSUME v.price < MaxPrice
        PROVE  lob'[<<"BUY", v.price>>] # << >>
    <3>1. <<msg'.side, msg'.price>> \in PriceTime!Level
      <4>1. v.price \in Nat /\ MaxPrice \in Nat
        BY <1>6, PipelineAssumption
      <4>2. v.price \in 0 .. MaxPrice - 1
        BY <2>4, <4>1
      <4>3. QED
        BY <2>3, <4>2 DEF PriceTime!Level, PriceTime!Side
    <3>2. \A l \in PriceTime!Level : msg'.id \notin Ids(lob[l])
      <4>1. 1 \in DOMAIN InFlight
        BY <1>3, Zenon DEF Removed
      <4>2. DOMAIN lob = PriceTime!Level
        BY DEF TypeOK
      <4>3. QED
        BY <1>3, <2>3, <4>1, <4>2 DEF BooksInv, AddsAreFresh
    <3>3. msg'.id \in Ids(lob'[<<msg'.side, msg'.price>>])
      BY <1>4, <2>3, <3>1, <3>2 DEF Applied
    <3>4. Ids(<< >>) = {}
      BY DEF Ids
    <3>5. QED
      BY <2>3, <3>3, <3>4
  <2>5. QED
    BY <2>1, <2>2, <2>4
<1>12. QED
  BY <1>3, <1>8, <1>9, <1>10, <1>11

\* The other steps of the strategy thread and those of the main thread.
LEMMA OtherStep ==
    ASSUME PipelineInv,
           \/ PushFreed \/ StrategyLeaves \/ StrategyStays \/ StrategyMiss
           \/ Stop \/ Join \/ FreeQueue \/ Exit
    PROVE  PipelineInv'
<1>0. ControlTyped
  BY TypeParts DEF PipelineInv
<1>1. ControlTyped'
  <2>1. CASE PushFreed \/ StrategyLeaves \/ StrategyStays \/ StrategyMiss
    BY <1>0, <2>1, Zenon DEF ControlTyped, PushFreed, StrategyLeaves, StrategyStays, StrategyMiss,
                             network, strategy, control
  <2>2. CASE Stop \/ Join \/ FreeQueue \/ Exit
    BY <1>0, <2>2, Zenon DEF ControlTyped, Stop, Join, FreeQueue, Exit, MainStep, network, strategy
  <2>3. QED
    BY <2>1, <2>2
<1>2. /\ UNCHANGED npc
      /\ UNCHANGED <<exchange, fed, lost, socket, parsed_msg, msg, received, queue, lob,
                     position_taken, orders, applied>>
  BY DEF PushFreed, StrategyLeaves, StrategyStays, StrategyMiss, Stop, Join,
         FreeQueue, Exit, MainStep, feed, network, strategy, control
<1>3. QED
  BY <1>1, <1>2, QuietStep

LEMMA PipelineStep ==
    ASSUME PipelineInv, [Next]_vars
    PROVE  PipelineInv'
<1>1. CASE UNCHANGED vars
  <2>1. ControlTyped
    BY TypeParts DEF PipelineInv
  <2>2. ControlTyped'
    BY <1>1, <2>1, Zenon DEF ControlTyped, vars, network, strategy, control
  <2>3. QED
    BY <1>1, <2>2, QuietStep DEF vars, feed, network, strategy
<1>2. QED
  BY <1>1, PublishStep, NetworkStep, RecvStep, PushStep, PopStep, OtherStep DEF Next

\* Only StrategyPop sends an order.
LEMMA OrdersStep ==
    ASSUME PipelineInv, [Next]_vars, orders' # orders
    PROVE  StrategyPop
BY DEF Next, Publish, NetworkStart, EpollWait, Recv, Push, PushFreed, StrategyLeaves,
       StrategyStays, StrategyMiss, Stop, Join, FreeQueue, Exit, MainStep, vars, strategy
------------------------------------------------------------------------------
(* Theorems *)

\* PipelineInv is an invariant of the program.
THEOREM PipelineInvariant == Spec => []PipelineInv
<1>1. Init => PipelineInv
  BY InitInvariant
<1>2. PipelineInv /\ [Next]_vars => PipelineInv'
  BY PipelineStep
<1>3. QED
  BY <1>1, <1>2, PTL DEF Spec

(***************************************************************************)
(* The program keeps its types: both books are queues of orders with       *)
(* positive quantities, the queue and the socket stay in their bounds      *)
(* (Main.cpp:52-172).                                                      *)
(***************************************************************************)
THEOREM PipelineTypeCorrect == Spec => []TypeOK
<1>1. PipelineInv => TypeOK
  BY DEF PipelineInv
<1>2. QED
  BY <1>1, PipelineInvariant, PTL

(***************************************************************************)
(* For every feed, every queue size and every interleaving of the threads, *)
(* the messages are applied once and in the order in which they were       *)
(* decoded (Main.cpp:67-83 and 129-136).                                   *)
(***************************************************************************)
THEOREM MessagesInOrder == Spec => []AppliedInOrder
<1>1. PipelineInv => AppliedInOrder
  BY DEF PipelineInv
<1>2. QED
  BY <1>1, PipelineInvariant, PTL

(***************************************************************************)
(* When nothing was lost and nothing is in flight, the book has every      *)
(* order that stands at the exchange (Main.cpp:70-80).                     *)
(***************************************************************************)
THEOREM NothingIsMissing == Spec => []NothingMissing
<1>1. PipelineInv => NothingMissing
  <2> SUFFICES ASSUME PipelineInv, CaughtUp, NEW l \in Shared, NEW id \in Ids(exchange[l])
               PROVE  id \in Ids(lob[l])
    BY DEF NothingMissing
  <2>1. ~ lost /\ DOMAIN InFlight = {}
    BY DEF CaughtUp, InFlight, InHand
  <2>2. QED
    BY <2>1 DEF PipelineInv, BooksInv, StandingIsCovered, Shared
<1>2. QED
  BY <1>1, PipelineInvariant, PTL

(***************************************************************************)
(* The strategy sends one order at most, for a bid that is in the book     *)
(* when it does (MarketMakerStrategy.cpp:14-27).                           *)
(***************************************************************************)
THEOREM RestingBidHit == Spec => HitsRestingBid
<1>1. PipelineInv /\ [Next]_vars =>
          [orders' # orders =>
              /\ orders = << >> /\ Len(orders') = 1
              /\ orders'[1] < MaxPrice => lob'[<<"BUY", orders'[1]>>] # << >>]_vars
  BY OrdersStep, PopStep
<1>2. QED
  BY <1>1, PipelineInvariant, PTL DEF Spec, HitsRestingBid
------------------------------------------------------------------------------
(* The bytes of a message *)

\* The bytes of an integer are its digits.
LEMMA BytesAreDigits ==
    /\ Wire!Weight = PlaceValues(Base)
    /\ \A x, b : Wire!Memory(x, b) = Digits(Wire!Weight, Base, Bytes[b], x)
    /\ \A x, b : Wire!BigEndian(x, b) = Highest(Wire!Weight, Base, Bytes[b], x)
    /\ \A d : Wire!Value(d) = Number(Wire!Weight, d)
    /\ \A d : Wire!Reverse(d) = Backwards(d)
<1>1. Wire!Weight = PlaceValues(Base)
  BY DEF Wire!Weight, PlaceValues, Powers
<1>2. ASSUME NEW x, NEW b PROVE Wire!Memory(x, b) = Digits(Wire!Weight, Base, Bytes[b], x)
  BY DEF Wire!Memory, Digits
<1>3. ASSUME NEW x, NEW b PROVE Wire!BigEndian(x, b) = Highest(Wire!Weight, Base, Bytes[b], x)
  BY DEF Wire!BigEndian, Highest
<1>4. ASSUME NEW d PROVE Wire!Value(d) = Number(Wire!Weight, d)
  BY DEF Wire!Value, Number, Totals
<1>5. ASSUME NEW d PROVE Wire!Reverse(d) = Backwards(d)
  BY DEF Wire!Reverse, Backwards
<1>6. QED
  BY <1>1, <1>2, <1>3, <1>4, <1>5

\* The swapped integer has its highest byte first.
LEMMA Stored ==
    ASSUME NEW x \in Nat, NEW b \in {16, 32, 48, 64}
    PROVE  Wire!Store(x, b) = Wire!BigEndian(x, b)
<1> DEFINE w == Wire!Weight
           n == Bytes[b]
<1>1. IsPlaceValues(w, Base) /\ Base \in Nat \ {0}
  BY BytesAreDigits, PlaceValuesExist, WidthAssumption DEF WidthAssumption
<1>2. n \in Nat
  BY WidthAssumption DEF WidthAssumption
<1> HIDE DEF w, n
<1>3. Digits(w, Base, n, Number(w, Backwards(Digits(w, Base, n, x)))) = Highest(w, Base, n, x)
  BY <1>1, <1>2, SwappedStore
<1>4. Wire!Store(x, b) = Digits(w, Base, n, Number(w, Backwards(Digits(w, Base, n, x))))
  BY BytesAreDigits DEF Wire!Store, Wire!bswap, w, n
<1>5. QED
  BY <1>3, <1>4, BytesAreDigits DEF w, n

\* A text in its field.
LEMMA TextStored ==
    ASSUME NEW size \in Nat, NEW n \in Nat, NEW S, NEW text \in [1 .. n -> S]
    PROVE  Wire!IsText(Wire!copy_string_padded(text, size), text, size)
<1> DEFINE c == " "
<1>1. Wire!copy_string_padded(text, size) = Padded(text, size, c)
  BY DEF Wire!copy_string_padded, Padded
<1>2. \A f : Wire!IsText(f, text, size) <=>
                /\ Len(f) = size
                /\ \A i \in 1 .. size : f[i] = IF i \in DOMAIN text THEN text[i] ELSE c
  BY DEF Wire!IsText
<1> HIDE DEF c
<1>3. /\ Len(Padded(text, size, c)) = size
      /\ \A i \in 1 .. size : Padded(text, size, c)[i] = IF i \in DOMAIN text THEN text[i] ELSE c
  BY PaddedText
<1>4. QED
  BY <1>1, <1>2, <1>3

\* The values of an integer type are natural numbers.
LEMMA WidthType == \A b \in {16, 32, 48, 64} : Wire!UInt(b) \subseteq Nat
<1> TAKE b \in {16, 32, 48, 64}
<1> DEFINE m == Wire!Weight[Bytes[b]]
<1>1. IsPlaceValues(Wire!Weight, Base)
  BY BytesAreDigits, PlaceValuesExist, WidthAssumption DEF WidthAssumption
<1>2. Bytes[b] \in Nat
  BY WidthAssumption DEF WidthAssumption
<1>3. m \in Nat
  BY <1>1, <1>2 DEF IsPlaceValues
<1>4. Wire!UInt(b) = 0 .. m - 1
  BY DEF Wire!UInt
<1> HIDE DEF m
<1>5. QED
  BY <1>3, <1>4

\* What is loaded from bytes that have the highest first.
LEMMA Loaded ==
    ASSUME NEW b \in {16, 32, 48, 64}, NEW x \in Wire!UInt(b)
    PROVE  Wire!Load(Wire!BigEndian(x, b), b) = x
<1> DEFINE w == Wire!Weight
           n == Bytes[b]
<1>1. IsPlaceValues(w, Base) /\ Base \in Nat \ {0}
  BY BytesAreDigits, PlaceValuesExist, WidthAssumption DEF WidthAssumption
<1>2. n \in Nat
  BY WidthAssumption DEF WidthAssumption
<1>3. x \in Nat
  BY WidthType
<1>4. x \in 0 .. w[n] - 1
  BY DEF Wire!UInt
<1>5. Wire!Load(Wire!BigEndian(x, b), b)
        = Number(w, Backwards(Digits(w, Base, n, Number(w, Highest(w, Base, n, x)))))
  BY BytesAreDigits DEF Wire!Load, Wire!bswap
<1> HIDE DEF w, n
<1>6. Number(w, Backwards(Digits(w, Base, n, Number(w, Highest(w, Base, n, x))))) = x % w[n]
  BY <1>1, <1>2, <1>3, SwappedLoad
<1>7. w[n] \in Nat \ {0}
  BY <1>1, <1>2 DEF IsPlaceValues
<1> DEFINE m == w[n]
<1>8. x % m = x
  <2>1. m \in Nat \ {0} /\ x \in 0 .. m - 1
    BY <1>4, <1>7
  <2> HIDE DEF m
  <2>2. QED
    BY <2>1
<1>9. QED
  BY <1>5, <1>6, <1>8

\* Of the time that is written, the low bits are read.
LEMMA TimeRead ==
    ASSUME NEW ts \in Nat
    PROVE  Wire!parse_timestamp(Wire!write_timestamp(ts)) = ts % Wire!Weight[Bytes[48]]
<1> DEFINE w == Wire!Weight
           n == Bytes[48]
<1>1. IsPlaceValues(w, Base) /\ Base \in Nat \ {0}
  BY BytesAreDigits, PlaceValuesExist, WidthAssumption DEF WidthAssumption
<1>2. n \in Nat
  BY WidthAssumption DEF WidthAssumption
<1>3. Wire!parse_timestamp(Wire!write_timestamp(ts)) = Number(w, Backwards(Highest(w, Base, n, ts)))
  BY BytesAreDigits DEF Wire!parse_timestamp, Wire!write_timestamp, Highest
<1> HIDE DEF w, n
<1>4. Number(w, Backwards(Highest(w, Base, n, ts))) = ts % w[n]
  BY <1>1, <1>2, HighestRead
<1>5. QED
  BY <1>3, <1>4 DEF w, n

\* The numbers of a message have the widths of their fields.
LEMMA Widths ==
    /\ 1 .. MaxDatagrams \subseteq Wire!UInt(64)
    /\ 1 .. MaxShares \subseteq Wire!UInt(32)
    /\ Price \subseteq Wire!UInt(32)
<1> DEFINE u == Wire!Weight[Bytes[64]]
           v == Wire!Weight[Bytes[32]]
<1>1. IsPlaceValues(Wire!Weight, Base)
  BY BytesAreDigits, PlaceValuesExist, WidthAssumption DEF WidthAssumption
<1>2. Bytes[64] \in Nat /\ Bytes[32] \in Nat
  BY WidthAssumption DEF WidthAssumption
<1>3. u \in Nat /\ v \in Nat
  BY <1>1, <1>2 DEF IsPlaceValues
<1>4. Wire!UInt(64) = 0 .. u - 1 /\ Wire!UInt(32) = 0 .. v - 1
  BY DEF Wire!UInt
<1> HIDE DEF u, v
<1>5. MaxDatagrams \in 0 .. u - 1 /\ MaxShares \in 0 .. v - 1 /\ Price \subseteq Wire!UInt(32)
  BY <1>4, WidthAssumption DEF WidthAssumption
<1>6. QED
  BY <1>3, <1>4, <1>5

\* What the parser reads, message by message.
LEMMA Decoded ==
    ASSUME NEW m \in Message
    PROVE  Wire!IsDecoded(m)
<1> DEFINE id == Wire!BigEndian(m.id, 64)
           shares == Wire!BigEndian(m.quantity, 32)
           price == Wire!BigEndian(m.price, 32)
<1>1. m.type \in {"A", "X", "E", "D"} /\ m.id \in 1 .. MaxDatagrams
  BY DEF Message
<1>2. Wire!Load(id, 64) = m.id
  BY <1>1, Widths, Loaded
<1>3. CASE m.type = "D"
  <2>1. m = [type |-> "D", id |-> m.id]
    BY <1>3 DEF Message
  <2>2. Wire!Datagram(m) = [msg_type |-> "D", order_ref_number |-> id]
    BY <1>3 DEF Wire!Datagram
  <2> HIDE DEF id, shares, price
  <2>3. Wire!parse(Wire!Datagram(m)) = [type |-> "D", id |-> m.id]
    BY <1>2, <2>2 DEF Wire!parse
  <2>4. QED
    BY <2>1, <2>3 DEF Wire!IsDecoded
<1>4. ASSUME m.type # "D" PROVE m.quantity \in 1 .. MaxShares
  BY <1>4 DEF Message
<1>5. ASSUME m.type # "D" PROVE Wire!Load(shares, 32) = m.quantity
  BY <1>4, <1>5, Widths, Loaded
<1>6. CASE m.type = "X"
  <2>1. m = [type |-> "X", id |-> m.id, quantity |-> m.quantity]
    BY <1>6 DEF Message
  <2>2. Wire!Datagram(m) = [msg_type |-> "X", order_ref_number |-> id, canceled_shares |-> shares]
    BY <1>6 DEF Wire!Datagram
  <2> HIDE DEF id, shares, price
  <2>3. Wire!parse(Wire!Datagram(m)) = [type |-> "X", id |-> m.id, quantity |-> m.quantity]
    BY <1>2, <1>5, <1>6, <2>2 DEF Wire!parse
  <2>4. QED
    BY <2>1, <2>3 DEF Wire!IsDecoded
<1>7. CASE m.type = "E"
  <2>1. m = [type |-> "E", id |-> m.id, quantity |-> m.quantity]
    BY <1>7 DEF Message
  <2>2. Wire!Datagram(m) = [msg_type |-> "E", order_ref_number |-> id, executed_shares |-> shares]
    BY <1>7 DEF Wire!Datagram
  <2> HIDE DEF id, shares, price
  <2>3. Wire!parse(Wire!Datagram(m)) = [type |-> "E", id |-> m.id, quantity |-> m.quantity]
    BY <1>2, <1>5, <1>7, <2>2 DEF Wire!parse
  <2>4. QED
    BY <2>1, <2>3 DEF Wire!IsDecoded
<1>8. CASE m.type = "A"
  <2>1. /\ m = [type |-> "A", id |-> m.id, quantity |-> m.quantity, price |-> m.price, side |-> m.side]
        /\ m.price \in Price /\ m.side \in Side
    BY <1>8 DEF Message
  <2>2. Wire!Load(price, 32) = m.price
    BY <2>1, Widths, Loaded
  <2>3. Wire!Datagram(m) = [msg_type |-> "A", order_ref_number |-> id,
                            buy_sell_indicator |-> IF m.side = "BUY" THEN "B" ELSE "S",
                            shares |-> shares, price |-> price]
    BY <1>8 DEF Wire!Datagram
  <2>4. Wire!SideOf(IF m.side = "BUY" THEN "B" ELSE "S") = m.side
    BY <2>1 DEF Wire!SideOf, Side
  <2> HIDE DEF id, shares, price
  <2>5. Wire!parse(Wire!Datagram(m))
          = [type |-> "A", id |-> m.id, quantity |-> m.quantity, price |-> m.price, side |-> m.side]
    BY <1>2, <1>5, <1>8, <2>2, <2>3, <2>4 DEF Wire!parse, Wire!parse_add
  <2>6. QED
    BY <2>1, <2>5 DEF Wire!IsDecoded
<1>9. QED
  BY <1>1, <1>3, <1>6, <1>7, <1>8

\* An execution with a price.
LEMMA PricedDecoded ==
    ASSUME NEW id \in 1 .. MaxDatagrams, NEW quantity \in 1 .. MaxShares, NEW price \in Price
    PROVE  Wire!IsDecoded([type |-> "C", id |-> id, quantity |-> quantity, price |-> price])
<1> DEFINE m == [type |-> "C", id |-> id, quantity |-> quantity, price |-> price]
           r == Wire!BigEndian(id, 64)
           s == Wire!BigEndian(quantity, 32)
           p == Wire!BigEndian(price, 32)
<1>1. Wire!Load(r, 64) = id
  BY Widths, Loaded
<1>2. Wire!Load(s, 32) = quantity
  BY Widths, Loaded
<1>3. Wire!Load(p, 32) = price
  BY Widths, Loaded
<1>4. Wire!Datagram(m) = [msg_type |-> "C", order_ref_number |-> r, executed_shares |-> s,
                          execution_price |-> p]
  BY DEF Wire!Datagram
<1> HIDE DEF r, s, p
<1>5. Wire!parse(Wire!Datagram(m)) = m
  BY <1>1, <1>2, <1>3, <1>4 DEF Wire!parse
<1>6. QED
  BY <1>5 DEF Wire!IsDecoded

\* The symbol is the same in the fields of both formats.
LEMMA SymbolRelayed ==
    ASSUME NEW text \in Wire!Text(StockLen)
    PROVE  Wire!IsText(Wire!copy_string_padded(Wire!copy_string_padded(text, StockLen), StockLen),
                       text, StockLen)
<1> DEFINE c == " "
           f == Wire!copy_string_padded(text, StockLen)
<1>1. PICK n \in 0 .. StockLen + 1 : text \in [1 .. n -> {"a"}]
  BY DEF Wire!Text
<1>2. StockLen \in Nat /\ n \in Nat
  BY WidthAssumption DEF WidthAssumption
<1>3. Wire!IsText(f, text, StockLen)
  BY <1>1, <1>2, TextStored
<1>4. f = Padded(text, StockLen, c) /\ Wire!copy_string_padded(f, StockLen) = Padded(f, StockLen, c)
  BY DEF Wire!copy_string_padded, Padded
<1> HIDE DEF c, f
<1>5. f \in [1 .. StockLen -> {"a"} \cup {c}]
  BY <1>1, <1>2, <1>4, PaddedText
<1>6. Padded(f, StockLen, c) = f
  BY <1>2, <1>5, PaddedTwice
<1>7. QED
  BY <1>3, <1>4, <1>6 DEF f

\* An order through both formats.
LEMMA Relayed ==
    ASSUME NEW side \in {"B", "S", "T"}, NEW shares \in Wire!UInt(32), NEW price \in Wire!UInt(32),
           NEW o \in Wire!Order(side, shares, price), NEW n \in Wire!UInt(64)
    PROVE  Wire!IsRelayed(o, n)
<1> DEFINE m == Wire!relay(Wire!build_enter_order(o), n, n)
           f == Wire!copy_string_padded(o.stock, StockLen)
           token == Wire!copy_string_padded(o.token, TokenLen)
           time == Wire!write_timestamp(n)
           one == Wire!Store(1, 16)
           r == Wire!Store(n, 64)
           s == Wire!Store(shares, 32)
           p == Wire!Store(price, 32)
           tif == Wire!Store(o.time_in_force, 32)
           least == Wire!Store(o.min_qty, 32)
<1>1. o.side = side /\ o.shares = shares /\ o.price = price /\ o.stock \in Wire!Text(StockLen)
  BY DEF Wire!Order
<1>2. n \in Nat /\ shares \in Nat /\ price \in Nat
  BY WidthType
<1>3. Wire!Load(r, 64) = n
  BY <1>2, Stored, Loaded
<1>4. Wire!Load(s, 32) = shares
  BY <1>2, Stored, Loaded
<1>5. Wire!Load(p, 32) = price
  BY <1>2, Stored, Loaded
<1>6. LET q == Wire!parse_enter_order(Wire!build_enter_order(o))
      IN  q.buy_sell_indicator = side /\ q.shares = shares /\ q.stock = f /\ q.price = price
  <2> DEFINE e == [msg_type |-> "O", order_token |-> token, buy_sell_indicator |-> side,
                   shares |-> s, stock |-> f, price |-> p,
                   time_in_force |-> tif, minimum_quantity |-> least]
             q == [e EXCEPT !.shares = shares, !.price = price,
                            !.time_in_force = Wire!Load(@, 32),
                            !.minimum_quantity = Wire!Load(@, 32)]
  <2> HIDE DEF f, token, tif, least
  <2>1. Wire!build_enter_order(o) = e
    BY <1>1 DEF Wire!build_enter_order, f, token, tif, least
  <2>2. Wire!parse_enter_order(e)
          = [e EXCEPT !.shares = Wire!Load(e.shares, 32), !.price = Wire!Load(e.price, 32),
                      !.time_in_force = Wire!Load(@, 32), !.minimum_quantity = Wire!Load(@, 32)]
    BY DEF Wire!parse_enter_order
  <2>3. Wire!Load(e.shares, 32) = shares /\ Wire!Load(e.price, 32) = price
    BY <1>4, <1>5
  <2>4. Wire!parse_enter_order(e) = q
    BY <2>2, <2>3
  <2> HIDE DEF s, p
  <2>5. q.buy_sell_indicator = side /\ q.shares = shares /\ q.stock = f /\ q.price = price
    OBVIOUS
  <2> HIDE DEF q
  <2>6. QED
    BY <2>1, <2>4, <2>5
<1>7. m = [msg_type |-> "A", stock_locate |-> one, tracking_number |-> one, timestamp |-> time,
           order_ref_number |-> r, buy_sell_indicator |-> side, shares |-> s,
           stock |-> Wire!copy_string_padded(f, StockLen), price |-> p]
  BY <1>6 DEF Wire!relay, Wire!build_add_order
<1>8. Wire!IsText(Wire!copy_string_padded(f, StockLen), o.stock, StockLen)
  BY <1>1, SymbolRelayed
<1>9. Wire!parse_timestamp(time) = n % Wire!Weight[Bytes[48]]
  BY <1>2, TimeRead
<1> HIDE DEF m, f, time, one, r, s, p
<1>10. Wire!parse(m) = [type |-> "A", id |-> n, quantity |-> shares, price |-> price,
                        side |-> IF side = "B" THEN "BUY" ELSE "SELL"]
  BY <1>3, <1>4, <1>5, <1>7 DEF Wire!parse, Wire!parse_add, Wire!SideOf
<1>11. m.stock = Wire!copy_string_padded(f, StockLen) /\ m.timestamp = time
  BY <1>7
<1>12. /\ Wire!parse(m) = [type |-> "A", id |-> n, quantity |-> o.shares, price |-> o.price,
                           side |-> IF o.side = "B" THEN "BUY" ELSE "SELL"]
       /\ Wire!IsText(m.stock, o.stock, StockLen)
       /\ Wire!parse_timestamp(m.timestamp) = n % Wire!Weight[Bytes[48]]
  BY <1>1, <1>8, <1>9, <1>10, <1>11
<1>13. QED
  BY <1>12 DEF Wire!IsRelayed, m

(***************************************************************************)
(* For every base and width of the integers and every size of the texts,   *)
(* a decoded message is the one that the bytes of its datagram tell, and   *)
(* an order that the emulator has relayed comes back as that order         *)
(* (ITCH5Parser.cpp:13-112 and ExchangeEmulator.cpp:73-98).                *)
(***************************************************************************)
THEOREM FeedDecoded == Spec => []FeedIsDecoded
<1>1. PipelineInv => FeedIsDecoded
  <2> SUFFICES ASSUME PipelineInv, npc = "push"
               PROVE  /\ Wire!IsDecoded(parsed_msg)
                      /\ parsed_msg.type = "A" =>
                            \A side \in IF parsed_msg.side = "BUY" THEN {"B"} ELSE {"S", "T"} :
                                \A o \in Wire!Order(side, parsed_msg.quantity, parsed_msg.price) :
                                    Wire!IsRelayed(o, parsed_msg.id)
                      /\ parsed_msg.type = "E" =>
                            \A v \in Values(parsed_msg) :
                                Wire!IsDecoded([type |-> "C", id |-> v.id, quantity |-> v.quantity,
                                                price |-> v.price])
    BY DEF FeedIsDecoded
  <2>1. parsed_msg \in Message
    BY DEF PipelineInv, InHandIsMessage
  <2>2. Wire!IsDecoded(parsed_msg)
    BY <2>1, Decoded
  <2>3. ASSUME parsed_msg.type = "A",
               NEW side \in IF parsed_msg.side = "BUY" THEN {"B"} ELSE {"S", "T"},
               NEW o \in Wire!Order(side, parsed_msg.quantity, parsed_msg.price)
        PROVE  Wire!IsRelayed(o, parsed_msg.id)
    <3>1. /\ parsed_msg.id \in Wire!UInt(64) /\ parsed_msg.quantity \in Wire!UInt(32)
          /\ parsed_msg.price \in Wire!UInt(32)
      BY <2>1, <2>3, MessageParts, Widths
    <3>2. side \in {"B", "S", "T"}
      OBVIOUS
    <3>3. QED
      BY <3>1, <3>2, Relayed
  <2>4. ASSUME NEW v \in Values(parsed_msg)
        PROVE  Wire!IsDecoded([type |-> "C", id |-> v.id, quantity |-> v.quantity, price |-> v.price])
    <3>1. v.id \in 1 .. MaxDatagrams /\ v.quantity \in 1 .. MaxShares /\ v.price \in Price
      BY <2>1, ValueParts, InternalParts
    <3>2. QED
      BY <3>1, PricedDecoded
  <2>5. QED
    BY <2>2, <2>3, <2>4
<1>2. QED
  BY <1>1, PipelineInvariant, PTL
------------------------------------------------------------------------------
(* The order within the queues *)

Orders(q) == {q[i] : i \in DOMAIN q}

\* Only orders of G stand behind a younger one.
InOrder(q, G) == \A i, j \in DOMAIN q : i < j /\ q[i].id > q[j].id => q[j].id \in G

\* An order that is younger than the others, or one of G, is appended.
LEMMA AppendInOrder ==
    ASSUME NEW q \in Seq(Order), NEW o \in Order, NEW G, InOrder(q, G),
           o.id \in G \/ \A i \in DOMAIN q : q[i].id < o.id
    PROVE  /\ InOrder(Append(q, o), G)
           /\ Orders(Append(q, o)) = Orders(q) \cup {o}
<1> DEFINE a == Append(q, o)
           n == Len(q)
<1>1. /\ n \in Nat /\ DOMAIN q = 1 .. n /\ DOMAIN a = 1 .. n + 1
      /\ a[n + 1] = o /\ \A i \in 1 .. n : a[i] = q[i]
  OBVIOUS
<1> HIDE DEF a, n
<1>2. \A i \in 1 .. n + 1 : i \in 1 .. n \/ i = n + 1
  BY <1>1
<1>3. n + 1 \in 1 .. n + 1 /\ \A i \in 1 .. n : i \in 1 .. n + 1
  BY <1>1
<1>4. Orders(a) = Orders(q) \cup {o}
  BY <1>1, <1>2, <1>3 DEF Orders
<1>5. ASSUME NEW i \in 1 .. n + 1, NEW j \in 1 .. n + 1, i < j, a[i].id > a[j].id
      PROVE  a[j].id \in G
  <2>1. i \in 1 .. n
    BY <1>1, <1>5
  <2>2. CASE j \in 1 .. n
    BY <1>1, <1>5, <2>1, <2>2 DEF InOrder
  <2>3. CASE j = n + 1
    <3>1. a[i] = q[i] /\ a[j] = o
      BY <1>1, <2>1, <2>3
    <3>2. q[i].id \in Nat /\ o.id \in Nat
      <4>1. q[i] \in Order
        BY <1>1, <2>1
      <4>2. QED
        BY <4>1, OrderParts
    <3>3. ~ q[i].id < o.id
      BY <1>5, <3>1, <3>2
    <3>4. QED
      BY <1>1, <2>1, <3>1, <3>3
  <2>4. QED
    BY <1>2, <2>2, <2>3
<1>6. InOrder(a, G)
  BY <1>1, <1>5 DEF InOrder
<1>7. QED
  BY <1>4, <1>6 DEF a

\* An order is taken out.
LEMMA WithoutInOrder ==
    ASSUME NEW q \in Seq(Order), NEW i \in 1 .. Len(q), NEW G, InOrder(q, G)
    PROVE  /\ InOrder(PriceTime!Without(q, i), G)
           /\ Orders(PriceTime!Without(q, i)) \subseteq Orders(q)
<1> DEFINE w == PriceTime!Without(q, i)
           n == Len(q)
<1>1. /\ w \in Seq(Order) /\ Len(w) = n - 1
      /\ \A k \in 1 .. n - 1 : w[k] = IF k < i THEN q[k] ELSE q[k + 1]
  BY WithoutOrders
<1>2. n \in Nat /\ i \in 1 .. n /\ DOMAIN q = 1 .. n
  OBVIOUS
<1> HIDE DEF n, w
<1>3. DOMAIN w = 1 .. n - 1
  BY <1>1, <1>2, LenProperties
<1> DEFINE from(k) == IF k < i THEN k ELSE k + 1
<1>4. \A k \in 1 .. n - 1 : from(k) \in 1 .. n /\ w[k] = q[from(k)]
  BY <1>1, <1>2
<1>5. \A k, m \in 1 .. n - 1 : k < m => from(k) < from(m)
  BY <1>2
<1> HIDE DEF from
<1>6. InOrder(w, G)
  <2> SUFFICES ASSUME NEW k \in 1 .. n - 1, NEW m \in 1 .. n - 1, k < m, w[k].id > w[m].id
               PROVE  w[m].id \in G
    BY <1>3 DEF InOrder
  <2>1. /\ from(k) \in DOMAIN q /\ from(m) \in DOMAIN q /\ from(k) < from(m)
        /\ w[k] = q[from(k)] /\ w[m] = q[from(m)]
    BY <1>2, <1>4, <1>5
  <2>2. QED
    BY <2>1 DEF InOrder
<1>7. Orders(w) \subseteq Orders(q)
  BY <1>2, <1>3, <1>4 DEF Orders
<1>8. QED
  BY <1>6, <1>7 DEF w

\* The quantity of an order changes; it grows only if it is one of G.
LEMMA ModifyInOrder ==
    ASSUME NEW q \in Seq(Order), NEW i \in 1 .. Len(q), NEW n \in 1 .. MaxShares, NEW G,
           InOrder(q, G), n <= q[i].quantity \/ q[i].id \in G
    PROVE  /\ InOrder(PriceTime!Modify(q, i, n), G)
           /\ Orders(PriceTime!Modify(q, i, n)) \subseteq Orders(q) \cup {[id |-> q[i].id, quantity |-> n]}
<1>0. q[i] \in Order /\ DOMAIN q = 1 .. Len(q)
  OBVIOUS
<1> DEFINE o == [id |-> q[i].id, quantity |-> n]
<1>1. o \in Order /\ o.id = q[i].id /\ [q[i] EXCEPT !.quantity = n] = o
  BY <1>0 DEF Order
<1>2. CASE n <= q[i].quantity
  <2> DEFINE e == [q EXCEPT ![i].quantity = n]
  <2>1. DOMAIN e = DOMAIN q /\ e[i] = o /\ \A k \in DOMAIN q : k # i => e[k] = q[k]
    <3>1. e = [q EXCEPT ![i] = o]
      BY <1>0, <1>1
    <3> HIDE DEF e, o
    <3>2. QED
      BY <1>0, <3>1
  <2>2. \A k \in DOMAIN q : e[k].id = q[k].id
    <3> HIDE DEF e, o
    <3>1. QED
      BY <1>1, <2>1
  <2> HIDE DEF e, o
  <2>3. InOrder(e, G)
    BY <2>1, <2>2 DEF InOrder
  <2>4. Orders(e) \subseteq Orders(q) \cup {o}
    BY <2>1 DEF Orders
  <2>5. PriceTime!Modify(q, i, n) = e
    BY <1>2 DEF PriceTime!Modify, e
  <2>6. QED
    BY <2>3, <2>4, <2>5 DEF o
<1>3. CASE ~ n <= q[i].quantity
  <2> DEFINE w == PriceTime!Without(q, i)
  <2>1. PriceTime!Modify(q, i, n) = Append(w, o)
    BY <1>1, <1>3 DEF PriceTime!Modify
  <2> HIDE DEF w
  <2>2. w \in Seq(Order) /\ InOrder(w, G) /\ Orders(w) \subseteq Orders(q)
    BY RemoveOrder, WithoutInOrder DEF w
  <2>3. o.id \in G
    BY <1>1, <1>3
  <2> HIDE DEF o
  <2>4. InOrder(Append(w, o), G) /\ Orders(Append(w, o)) = Orders(w) \cup {o}
    BY <1>1, <2>2, <2>3, AppendInOrder
  <2>5. QED
    BY <2>1, <2>2, <2>4 DEF o
<1>4. QED
  BY <1>2, <1>3

\* The same for a whole book.
LEMMA CancelInOrder ==
    ASSUME NEW L, NEW b \in [L -> Seq(Order)], NEW id, NEW G
    PROVE  \A l \in L : /\ InOrder(b[l], G) => InOrder(cancel(b, id)[l], G)
                        /\ Orders(cancel(b, id)[l]) \subseteq Orders(b[l])
<1> SUFFICES ASSUME NEW l \in L
             PROVE  /\ InOrder(b[l], G) => InOrder(cancel(b, id)[l], G)
                    /\ Orders(cancel(b, id)[l]) \subseteq Orders(b[l])
  OBVIOUS
<1>1. b[l] \in Seq(Order) /\ DOMAIN b = L
  OBVIOUS
<1>2. CASE id \notin Ids(b[l])
  <2>1. cancel(b, id)[l] = b[l]
    BY <1>1, <1>2 DEF cancel
  <2>2. QED
    BY <2>1
<1>3. CASE id \in Ids(b[l])
  <2>1. cancel(b, id)[l] = PriceTime!Without(b[l], Place(b[l], id))
    BY <1>1, <1>3 DEF cancel
  <2>2. Place(b[l], id) \in 1 .. Len(b[l])
    BY <1>1, <1>3, PlaceFinds
  <2>3. Orders(PriceTime!Without(b[l], Place(b[l], id))) \subseteq Orders(b[l])
    <3>1. InOrder(b[l], Nat)
      <4>1. \A j \in DOMAIN b[l] : b[l][j].id \in Nat
        <5>1. \A j \in DOMAIN b[l] : b[l][j] \in Order
          BY <1>1
        <5>2. QED
          BY <5>1, OrderParts
      <4>2. QED
        BY <4>1 DEF InOrder
    <3>2. QED
      BY <1>1, <2>2, <3>1, WithoutInOrder
  <2>4. QED
    BY <1>1, <2>1, <2>2, <2>3, WithoutInOrder
<1>4. QED
  BY <1>2, <1>3

LEMMA ModifyInOrderBook ==
    ASSUME NEW L, NEW b \in [L -> Seq(Order)], NEW id, NEW n \in 1 .. MaxShares, NEW G,
           NEW l \in L, InOrder(b[l], G),
           \A o \in Orders(b[l]) : o.id = id => n <= o.quantity \/ id \in G
    PROVE  /\ InOrder(modify(b, id, n)[l], G)
           /\ \A o \in Orders(modify(b, id, n)[l]) :
                 o \in Orders(b[l]) \/ (o = [id |-> id, quantity |-> n] /\ id \in Ids(b[l]))
<1>1. b[l] \in Seq(Order) /\ DOMAIN b = L /\ n # 0
  OBVIOUS
<1>2. CASE id \notin Ids(b[l])
  <2>1. modify(b, id, n)[l] = b[l]
    BY <1>1, <1>2 DEF modify
  <2>2. QED
    BY <2>1
<1>3. CASE id \in Ids(b[l])
  <2> DEFINE i == Place(b[l], id)
  <2>1. modify(b, id, n)[l] = PriceTime!Modify(b[l], i, n)
    BY <1>1, <1>3 DEF modify
  <2>2. i \in 1 .. Len(b[l]) /\ b[l][i].id = id
    BY <1>1, <1>3, PlaceFinds
  <2> HIDE DEF i
  <2>3. b[l][i] \in Orders(b[l])
    BY <1>1, <2>2 DEF Orders
  <2>4. n <= b[l][i].quantity \/ b[l][i].id \in G
    BY <2>2, <2>3
  <2>5. /\ InOrder(PriceTime!Modify(b[l], i, n), G)
        /\ Orders(PriceTime!Modify(b[l], i, n))
              \subseteq Orders(b[l]) \cup {[id |-> b[l][i].id, quantity |-> n]}
    BY <1>1, <2>2, <2>4, ModifyInOrder
  <2>6. QED
    BY <1>3, <2>1, <2>2, <2>5
<1>4. QED
  BY <1>2, <1>3
------------------------------------------------------------------------------
(* The places of the orders *)

\* What reached the socket.
Told == {received[i] : i \in DOMAIN received} \cup {socket[i] : i \in DOMAIN socket}

\* Nothing tells more shares of an order than the datagram that added it.
SharesShrink ==
    /\ \A m \in Told : Parses(m) => m.id <= fed
    /\ \A a \in Told : IsAdd(a) =>
          /\ \A x \in Told : x.type = "X" /\ x.id = a.id => x.quantity <= a.quantity
          /\ \A o \in Standing : o.id = a.id => o.quantity <= a.quantity

\* The shares of an order in the book are those that an applied message has told.
SharesAreTold ==
    \A l \in DOMAIN lob : \A o \in Orders(lob[l]) :
        \E i \in DOMAIN applied : /\ applied[i].type \in {"A", "X"} /\ applied[i].id = o.id
                                  /\ applied[i].quantity = o.quantity

\* An order that is still to be added is younger than those in the book and
\* those that are added before it.
AddsAscend ==
    \A i \in DOMAIN InFlight : IsAdd(InFlight[i]) =>
        /\ \A l \in DOMAIN lob : \A id \in Ids(lob[l]) : id < InFlight[i].id
        /\ \A j \in DOMAIN InFlight : i < j /\ IsAdd(InFlight[j]) => InFlight[i].id < InFlight[j].id

PlacesInv == SharesShrink /\ SharesAreTold /\ AddsAscend /\ OvertakenOnlyAfterGrowth

\* CancelGrows, for a given sequence of messages.
Grows(s, id) ==
    \E i, j \in DOMAIN s :
        /\ i < j /\ s[i].type = "X" /\ s[j].type = "X" /\ s[i].id = id /\ s[j].id = id
        /\ s[i].quantity < s[j].quantity

Grown(s) == {id \in 1 .. MaxDatagrams : Grows(s, id)}

\* The last invariant, in terms of the queues.
LEMMA GrownInOrder ==
    ASSUME lob \in [PriceTime!Level -> Seq(Order)]
    PROVE  OvertakenOnlyAfterGrowth <=> \A l \in PriceTime!Level : InOrder(lob[l], Grown(applied))
<1>1. ASSUME NEW l \in PriceTime!Level, NEW j \in DOMAIN lob[l]
      PROVE  lob[l][j].id \in Grown(applied) <=> Grows(applied, lob[l][j].id)
  <2>1. lob[l][j] \in Order
    OBVIOUS
  <2>2. lob[l][j].id \in 1 .. MaxDatagrams
    BY <2>1, OrderParts
  <2>3. QED
    BY <2>2 DEF Grown
<1>2. OvertakenOnlyAfterGrowth <=>
          \A l \in DOMAIN lob : \A i, j \in DOMAIN lob[l] :
              i < j /\ lob[l][i].id > lob[l][j].id => Grows(applied, lob[l][j].id)
  BY DEF OvertakenOnlyAfterGrowth, CancelGrows, Grows
<1>3. DOMAIN lob = PriceTime!Level
  OBVIOUS
<1>4. QED
  BY <1>1, <1>2, <1>3 DEF InOrder

LEMMA GrownInOrderNext ==
    ASSUME lob' \in [PriceTime!Level -> Seq(Order)]
    PROVE  OvertakenOnlyAfterGrowth' <=> \A l \in PriceTime!Level : InOrder(lob'[l], Grown(applied'))
<1>1. ASSUME NEW l \in PriceTime!Level, NEW j \in DOMAIN lob'[l]
      PROVE  lob'[l][j].id \in Grown(applied') <=> Grows(applied', lob'[l][j].id)
  <2>1. lob'[l][j] \in Order
    OBVIOUS
  <2>2. lob'[l][j].id \in 1 .. MaxDatagrams
    BY <2>1, OrderParts
  <2>3. QED
    BY <2>2 DEF Grown
<1>2. OvertakenOnlyAfterGrowth' <=>
          \A l \in DOMAIN lob' : \A i, j \in DOMAIN lob'[l] :
              i < j /\ lob'[l][i].id > lob'[l][j].id => Grows(applied', lob'[l][j].id)
  BY DEF OvertakenOnlyAfterGrowth, CancelGrows, Grows
<1>3. DOMAIN lob' = PriceTime!Level
  OBVIOUS
<1>4. QED
  BY <1>1, <1>2, <1>3 DEF InOrder

\* What was applied and what is queued has been told.
LEMMA ToldParts ==
    ASSUME TypeOK, InHandIsMessage, AppliedInOrder
    PROVE  /\ \A i \in DOMAIN applied : applied[i] \in Told
           /\ \A i \in DOMAIN queue : queue[i] \in Told
           /\ \A m \in Told : m \in Raw
<1>1. /\ queue \in Seq(Message) /\ InHand \in Seq(Message) /\ applied \in Seq(Message)
      /\ received \in Seq(Message) /\ socket \in Seq(Raw)
  BY SequencesTyped
<1>2. \A m \in Told : m \in Raw
  BY <1>1 DEF Told, Raw
<1> DEFINE a == Len(applied)
           n == Len(queue)
           h == Len(InHand)
<1>3. /\ a \in Nat /\ n \in Nat /\ h \in Nat /\ DOMAIN applied = 1 .. a /\ DOMAIN queue = 1 .. n
  BY <1>1
<1>4. /\ DOMAIN received = 1 .. a + n + h
      /\ \A i \in 1 .. a : received[i] = applied[i]
      /\ \A i \in 1 .. n : received[a + i] = queue[i]
  <2>1. /\ applied \o queue \in Seq(Message) /\ Len(applied \o queue) = a + n
        /\ \A i \in 1 .. a : (applied \o queue)[i] = applied[i]
        /\ \A i \in 1 .. n : (applied \o queue)[a + i] = queue[i]
    BY <1>1
  <2> DEFINE s == applied \o queue
  <2>2. received = s \o InHand
    BY DEF AppliedInOrder
  <2>3. s \in Seq(Message) /\ Len(s) = a + n
    BY <2>1
  <2> HIDE DEF s
  <2>4. DOMAIN received = 1 .. a + n + h /\ \A i \in 1 .. a + n : received[i] = s[i]
    <3>1. /\ Len(s \o InHand) = Len(s) + Len(InHand) /\ s \o InHand \in Seq(Message)
          /\ \A i \in 1 .. Len(s) : (s \o InHand)[i] = s[i]
      <4>1. Len(s) \in Nat /\ Len(InHand) \in Nat /\ InHand \in Seq(Message)
        BY <1>1, <2>3
      <4>2. \A i \in 1 .. Len(s) : i \in 1 .. Len(s) + Len(InHand) /\ i <= Len(s)
        BY <4>1
      <4>3. QED
        BY <2>3, <4>1, <4>2, ConcatProperties
    <3>2. DOMAIN received = 1 .. Len(received)
      BY <1>1
    <3>3. QED
      BY <2>2, <2>3, <3>1, <3>2
  <2>5. \A i \in 1 .. a : i \in 1 .. a + n
    BY <1>3
  <2>6. \A i \in 1 .. n : a + i \in 1 .. a + n
    BY <1>3
  <2>7. QED
    BY <2>1, <2>4, <2>5, <2>6 DEF s
<1> HIDE DEF a, n, h
<1>5. /\ \A i \in 1 .. a : i \in 1 .. a + n + h
      /\ \A i \in 1 .. n : a + i \in 1 .. a + n + h
  BY <1>3
<1>6. QED
  BY <1>2, <1>3, <1>4, <1>5 DEF Told

\* What a datagram makes of the orders that stand.
LEMMA StandingAfterPublish ==
    ASSUME TypeOK, BooksInv, NEW d \in Datagram, Publish(d), NEW p \in Standing'
    PROVE  \/ IsAdd(d) /\ p.id = d.id /\ p.quantity = d.quantity
           \/ \E o \in Standing : o.id = p.id /\ p.quantity <= o.quantity
<1>1. exchange \in [Side \X Price -> Seq(Order)] /\ exchange' \in [Side \X Price -> Seq(Order)]
  BY ExchangeBook, Zenon DEF TypeOK
<1>2. PICK l \in Side \X Price : p \in Orders(exchange'[l])
  BY <1>1 DEF Standing, Orders
<1>3. /\ \A o \in Orders(exchange[l]) : o \in Standing /\ o \in Order
      /\ exchange[l] \in Seq(Order)
  <2>1. exchange[l] \in Seq(Order) /\ DOMAIN exchange = Side \X Price
    BY <1>1
  <2>2. QED
    BY <2>1 DEF Standing, Orders
<1>4. ASSUME p \in Orders(exchange[l]) PROVE \E o \in Standing : o.id = p.id /\ p.quantity <= o.quantity
  <2>1. p \in Standing /\ p.quantity \in Nat
    BY <1>3, <1>4, OrderParts
  <2>2. QED
    BY <2>1
<1>5. /\ d.type = "A" => exchange' = Insert(exchange, d)
      /\ d.type = "D" => exchange' = cancel(exchange, d.id)
      /\ d.type \in {"X", "E"} => exchange' = modify(exchange, d.id, Remaining(d))
      /\ d.type = "?" => exchange' = exchange
      /\ MayFollow(d)
  BY DEF Publish
<1>6. CASE d.type = "A"
  <2> DEFINE at == <<d.side, d.price>>
             o == [id |-> d.id, quantity |-> d.quantity]
  <2>1. exchange' = [exchange EXCEPT ![at] = Append(@, o)]
    BY <1>5, <1>6 DEF Insert
  <2> HIDE DEF at
  <2>2. CASE l = at
    <3>1. exchange'[l] = Append(exchange[l], o)
      BY <1>1, <2>1, <2>2
    <3>2. \A i \in DOMAIN Append(exchange[l], o) : Append(exchange[l], o)[i] \in Orders(exchange[l]) \cup {o}
      <4> HIDE DEF o
      <4> DEFINE q == exchange[l]
                 n == Len(exchange[l])
      <4>1. /\ DOMAIN Append(q, o) = 1 .. n + 1 /\ n \in Nat /\ DOMAIN q = 1 .. n
            /\ Append(q, o)[n + 1] = o /\ \A i \in 1 .. n : Append(q, o)[i] = q[i]
        BY <1>3
      <4>2. \A i \in 1 .. n + 1 : i \in 1 .. n \/ i = n + 1
        BY <4>1
      <4>3. QED
        BY <4>1, <4>2 DEF Orders
    <3>3. p \in Orders(exchange[l]) \/ p = o
      BY <1>2, <3>1, <3>2 DEF Orders
    <3>4. QED
      BY <1>4, <1>6, <3>3 DEF IsAdd
  <2>3. CASE l # at
    <3>1. exchange'[l] = exchange[l]
      BY <1>1, <2>1, <2>3
    <3>2. QED
      BY <1>2, <1>4, <3>1
  <2>4. QED
    BY <2>2, <2>3
<1>7. ASSUME exchange' = cancel(exchange, d.id)
      PROVE  \E o \in Standing : o.id = p.id /\ p.quantity <= o.quantity
  BY <1>1, <1>2, <1>4, <1>7, CancelInOrder
<1>8. CASE d.type \in {"X", "E"}
  <2>1. PICK o \in Standing : d.id = o.id /\ d.quantity \in 1 .. o.quantity
    BY <1>5, <1>8, DatagramParts DEF BooksInv
  <2>2. o \in Order /\ \A r \in Standing : r.id = d.id => r = o
    BY <2>1, StandingParts DEF BooksInv
  <2>3. Remaining(d) = o.quantity - d.quantity
    <3>1. (CHOOSE r \in Standing : r.id = d.id) = o
      BY <2>1, <2>2
    <3>2. QED
      BY <3>1 DEF Remaining
  <2>4. /\ Remaining(d) \in 0 .. MaxShares /\ Remaining(d) <= o.quantity
    BY <2>1, <2>2, <2>3, OrderParts, PipelineAssumption
  <2>5. CASE Remaining(d) = 0
    BY <1>5, <1>7, <1>8, <2>5 DEF modify
  <2>6. CASE Remaining(d) # 0
    <3> DEFINE n == Remaining(d)
    <3>1. n \in 1 .. MaxShares /\ n <= o.quantity
      BY <2>4, <2>6, PipelineAssumption
    <3> HIDE DEF n
    <3>2. \A r \in Orders(exchange[l]) : r.id = d.id => n <= r.quantity
      BY <1>3, <2>2, <3>1
    <3>3. InOrder(exchange[l], Nat)
      <4>1. \A j \in DOMAIN exchange[l] : exchange[l][j].id \in Nat
        BY <1>3, OrderParts DEF Orders
      <4>2. QED
        BY <4>1 DEF InOrder
    <3>4. \A r \in Orders(modify(exchange, d.id, n)[l]) :
              r \in Orders(exchange[l]) \/ (r = [id |-> d.id, quantity |-> n] /\ d.id \in Ids(exchange[l]))
      BY <1>1, <3>1, <3>2, <3>3, ModifyInOrderBook
    <3>5. p \in Orders(exchange[l]) \/ p = [id |-> d.id, quantity |-> n]
      BY <1>2, <1>5, <1>8, <3>4 DEF n
    <3>6. QED
      BY <1>4, <2>1, <3>1, <3>5
  <2>7. QED
    BY <2>5, <2>6
<1>9. CASE d.type = "?"
  BY <1>2, <1>4, <1>5, <1>9
<1>10. QED
  BY <1>5, <1>6, <1>7, <1>8, <1>9, DatagramParts DEF BooksInv

\* The feed, the book and the messages applied stay; what was told may be less.
LEMMA PlacesStay ==
    ASSUME PlacesInv, Told' \subseteq Told, UNCHANGED <<exchange, fed, lob, applied>>,
           \A i \in DOMAIN InFlight' : IsAdd(InFlight'[i]) =>
               \E k \in DOMAIN InFlight : InFlight'[i] = InFlight[k],
           \A i, j \in DOMAIN InFlight' : i < j =>
               \E k, h \in DOMAIN InFlight : k < h /\ InFlight'[i] = InFlight[k] /\ InFlight'[j] = InFlight[h]
    PROVE  PlacesInv'
<1>1. Standing' = Standing
  BY DEF Standing
<1>2. SharesShrink'
  <2>1. \A m \in Told' : Parses(m) => m.id <= fed'
    BY DEF PlacesInv, SharesShrink
  <2>2. ASSUME NEW a \in Told', IsAdd(a)
        PROVE  /\ \A x \in Told' : x.type = "X" /\ x.id = a.id => x.quantity <= a.quantity
               /\ \A o \in Standing' : o.id = a.id => o.quantity <= a.quantity
    BY <1>1, <2>2 DEF PlacesInv, SharesShrink
  <2>3. QED
    BY <2>1, <2>2 DEF SharesShrink, IsAdd, Parses
<1>3. SharesAreTold' /\ OvertakenOnlyAfterGrowth'
  BY DEF PlacesInv, SharesAreTold, Orders, OvertakenOnlyAfterGrowth, CancelGrows
<1>4. AddsAscend'
  <2> SUFFICES ASSUME NEW i \in DOMAIN InFlight', IsAdd(InFlight'[i])
               PROVE  /\ \A l \in DOMAIN lob : \A id \in Ids(lob[l]) : id < InFlight'[i].id
                      /\ \A j \in DOMAIN InFlight' :
                            i < j /\ IsAdd(InFlight'[j]) => InFlight'[i].id < InFlight'[j].id
    BY DEF AddsAscend, IsAdd
  <2>1. \A l \in DOMAIN lob : \A id \in Ids(lob[l]) : id < InFlight'[i].id
    BY DEF PlacesInv, AddsAscend
  <2>2. ASSUME NEW j \in DOMAIN InFlight', i < j, IsAdd(InFlight'[j])
        PROVE  InFlight'[i].id < InFlight'[j].id
    <3>1. PICK k \in DOMAIN InFlight, h \in DOMAIN InFlight :
              k < h /\ InFlight'[i] = InFlight[k] /\ InFlight'[j] = InFlight[h]
      BY <2>2
    <3>2. QED
      BY <2>2, <3>1 DEF PlacesInv, AddsAscend
  <2>3. QED
    BY <2>1, <2>2
<1>5. QED
  BY <1>2, <1>3, <1>4 DEF PlacesInv

\* The same when also nothing moves.
LEMMA PlacesQuiet ==
    ASSUME PipelineInv, PlacesInv, Told' \subseteq Told, InFlight' = InFlight,
           UNCHANGED <<exchange, fed, lob, applied>>
    PROVE  PlacesInv'
<1>1. \A i \in DOMAIN InFlight' : \E k \in DOMAIN InFlight : InFlight'[i] = InFlight[k]
  OBVIOUS
<1>2. \A i, j \in DOMAIN InFlight' : i < j =>
          \E k, h \in DOMAIN InFlight : k < h /\ InFlight'[i] = InFlight[k] /\ InFlight'[j] = InFlight[h]
  OBVIOUS
<1>3. QED
  BY <1>1, <1>2, PlacesStay

\* The exchange publishes a datagram.
LEMMA PlacesAfterPublish ==
    ASSUME PipelineInv, PlacesInv, NEW d \in Datagram, Publish(d)
    PROVE  PlacesInv'
<1> USE DEF PipelineInv
<1>1. /\ fed \in Nat /\ MayFollow(d) /\ fed' = fed + 1 /\ UNCHANGED <<lob, applied, received>>
      /\ exchange \in [Side \X Price -> Seq(Order)] /\ lob \in [PriceTime!Level -> Seq(Order)]
      /\ socket' = Append(socket, d) \/ socket' = socket
  <2>1. /\ fed \in Nat
        /\ exchange \in [Side \X Price -> Seq(Order)] /\ lob \in [PriceTime!Level -> Seq(Order)]
    BY PipelineAssumption DEF TypeOK
  <2>2. /\ MayFollow(d) /\ fed' = fed + 1 /\ UNCHANGED <<lob, applied, received>>
        /\ socket' = Append(socket, d) \/ socket' = socket
    BY DEF Publish, Arrives, network, strategy
  <2>3. QED
    BY <2>1, <2>2
<1>2. /\ d \in Raw
      /\ IsAdd(d) => d.id = fed + 1
      /\ Parses(d) /\ ~ IsAdd(d) => \E l \in Side \X Price : d.id \in Ids(exchange[l])
      /\ d.type = "X" => \E o \in Standing : o.id = d.id /\ d.quantity \in 1 .. o.quantity
  BY <1>1, DatagramParts DEF BooksInv, IsAdd, Parses
<1>3. ASSUME NEW m \in Told' PROVE m \in Told \/ m = d
  <2>1. socket \in Seq(Raw) /\ Len(socket) \in Nat /\ DOMAIN socket = 1 .. Len(socket)
    BY SequencesTyped
  <2> DEFINE n == Len(socket)
  <2>2. \A i \in DOMAIN Append(socket, d) :
            (i \in DOMAIN socket /\ Append(socket, d)[i] = socket[i]) \/ Append(socket, d)[i] = d
    <3>1. /\ DOMAIN Append(socket, d) = 1 .. n + 1 /\ Append(socket, d)[n + 1] = d
          /\ \A i \in 1 .. n : Append(socket, d)[i] = socket[i]
      BY <1>2, <2>1
    <3>2. \A i \in 1 .. n + 1 : i \in 1 .. n \/ i = n + 1
      BY <2>1
    <3>3. QED
      BY <2>1, <3>1, <3>2
  <2>3. m \in {received[i] : i \in DOMAIN received} \/ \E i \in DOMAIN socket' : m = socket'[i]
    BY <1>1 DEF Told
  <2>4. QED
    BY <1>1, <2>2, <2>3 DEF Told
<1>4. /\ \A m \in Told : Parses(m) => m \in Message /\ m.id \in Nat /\ m.id <= fed
      /\ \A o \in Standing : o.id \in Nat /\ o.id <= fed /\ o.quantity \in Nat
      /\ \A m \in Told : m.type \in {"A", "X"} => m.quantity \in Nat
  <2>1. \A m \in Told : Parses(m) => m \in Message
    BY ToldParts, RawParts
  <2>2. \A m \in Told : m.type \in {"A", "X"} => Parses(m)
    BY DEF Parses
  <2>3. \A o \in Standing : o \in Order /\ \E l \in Side \X Price : o.id \in Ids(exchange[l])
    BY StandingParts DEF BooksInv
  <2>4. \A o \in Standing : o.id <= fed
    BY <1>1, <2>3 DEF BooksInv, IdsAreFed
  <2>5. QED
    BY <2>1, <2>2, <2>3, <2>4, MessageParts, OrderParts DEF PlacesInv, SharesShrink
<1>5. Parses(d) => d.id \in Nat /\ d.id <= fed + 1
  <2>1. Parses(d) => d.id \in Nat
    BY <1>2, RawParts, MessageParts
  <2>2. \A l \in Side \X Price : \A id \in Ids(exchange[l]) : id <= fed
    BY <1>1 DEF BooksInv, IdsAreFed
  <2>3. QED
    BY <1>1, <1>2, <2>1, <2>2
<1>6. SharesShrink'
  <2>1. \A m \in Told' : Parses(m) => m.id <= fed'
    BY <1>1, <1>3, <1>4, <1>5
  <2>2. ASSUME NEW a \in Told', IsAdd(a), NEW x \in Told', x.type = "X", x.id = a.id
        PROVE  x.quantity <= a.quantity
    <3>1. Parses(a) /\ Parses(x) /\ ~ IsAdd(x)
      BY <2>2 DEF Parses, IsAdd
    <3>2. CASE a \in Told /\ x \in Told
      BY <2>2, <3>2 DEF PlacesInv, SharesShrink
    \* A partial cancel of an order that stands.
    <3>3. CASE a \in Told /\ x = d
      <4>1. PICK o \in Standing : o.id = d.id /\ d.quantity \in 1 .. o.quantity
        BY <1>2, <2>2, <3>3
      <4>2. o.quantity <= a.quantity
        BY <2>2, <3>3, <4>1 DEF PlacesInv, SharesShrink
      <4>3. a.quantity \in Nat /\ o.quantity \in Nat
        BY <1>4, <2>2, <3>3, <4>1 DEF IsAdd
      <4>4. QED
        BY <3>3, <4>1, <4>2, <4>3
    \* Nothing was told of a new order.
    <3>4. CASE a = d /\ x \in Told
      BY <1>1, <1>2, <1>4, <2>2, <3>1, <3>4
    <3>5. QED
      BY <1>3, <2>2, <3>1, <3>2, <3>3, <3>4
  <2>3. ASSUME NEW a \in Told', IsAdd(a), NEW p \in Standing', p.id = a.id
        PROVE  p.quantity <= a.quantity
    <3>1. Parses(a)
      BY <2>3 DEF Parses, IsAdd
    <3>2. p.quantity \in Nat
      <4>1. exchange' \in [Side \X Price -> Seq(Order)]
        BY ExchangeBook
      <4>2. PICK l \in Side \X Price : \E i \in DOMAIN exchange'[l] : p = exchange'[l][i]
        BY <4>1 DEF Standing
      <4>3. p \in Order
        BY <4>1, <4>2
      <4>4. QED
        BY <4>3, OrderParts
    <3>3. \/ IsAdd(d) /\ p.id = d.id /\ p.quantity = d.quantity
          \/ \E o \in Standing : o.id = p.id /\ p.quantity <= o.quantity
      BY StandingAfterPublish
    <3>4. CASE IsAdd(d) /\ p.id = d.id /\ p.quantity = d.quantity
      <4>1. a \notin Told
        <5>1. a.id = fed + 1
          BY <1>2, <2>3, <3>4
        <5>2. a \in Told => a.id \in Nat /\ a.id <= fed
          BY <1>4, <3>1
        <5>3. QED
          BY <1>1, <5>1, <5>2
      <4>2. QED
        BY <1>3, <2>3, <3>2, <3>4, <4>1
    <3>5. ASSUME NEW o \in Standing, o.id = p.id, p.quantity <= o.quantity
          PROVE  p.quantity <= a.quantity
      <4>1. a # d
        <5>1. o.id # fed + 1
          BY <1>1, <1>4
        <5>2. QED
          BY <1>2, <2>3, <3>5, <5>1
      <4>2. a \in Told /\ o.quantity <= a.quantity
        BY <1>3, <2>3, <3>5, <4>1 DEF PlacesInv, SharesShrink
      <4>3. a.quantity \in Nat /\ o.quantity \in Nat
        BY <1>4, <2>3, <3>5, <4>2 DEF IsAdd
      <4>4. QED
        BY <3>2, <3>5, <4>2, <4>3
    <3>6. QED
      BY <3>3, <3>4, <3>5
  <2>4. QED
    BY <2>1, <2>2, <2>3 DEF SharesShrink, IsAdd, Parses
<1>7. SharesAreTold' /\ OvertakenOnlyAfterGrowth'
  BY <1>1 DEF PlacesInv, SharesAreTold, Orders, OvertakenOnlyAfterGrowth, CancelGrows
<1>8. AddsAscend'
  <2> DEFINE n == Len(InFlight)
  <2>1. DOMAIN InFlight = 1 .. n /\ n \in Nat /\ InFlight \in Seq(Raw)
    BY SequencesTyped
  <2>2. InFlight' = Append(InFlight, d) \/ InFlight' = InFlight
    BY <1>2, PublishFlight
  <2>3. \A i \in DOMAIN InFlight' : \/ i \in 1 .. n /\ InFlight'[i] = InFlight[i]
                                    \/ i = n + 1 /\ InFlight'[i] = d
    BY <1>2, <2>1, <2>2
  <2> HIDE DEF n
  <2> SUFFICES ASSUME NEW i \in DOMAIN InFlight', IsAdd(InFlight'[i])
               PROVE  /\ \A l \in DOMAIN lob : \A id \in Ids(lob[l]) : id < InFlight'[i].id
                      /\ \A j \in DOMAIN InFlight' :
                            i < j /\ IsAdd(InFlight'[j]) => InFlight'[i].id < InFlight'[j].id
    BY <1>1 DEF AddsAscend, IsAdd
  <2>4. \A l \in DOMAIN lob : \A id \in Ids(lob[l]) : id \in Nat /\ id <= fed
    <3>1. ASSUME NEW q \in Seq(Order), NEW id \in Ids(q) PROVE id \in Nat
      <4>1. PICK k \in DOMAIN q : id = q[k].id
        BY DEF Ids
      <4>2. q[k] \in Order
        OBVIOUS
      <4>3. QED
        BY <4>1, <4>2, OrderParts
    <3>2. QED
      BY <1>1, <3>1 DEF BooksInv, IdsAreFed
  <2>5. \A k \in 1 .. n : IsAdd(InFlight[k]) => InFlight[k].id \in Nat /\ InFlight[k].id <= fed
    <3>1. \A k \in 1 .. n : IsAdd(InFlight[k]) => Parses(InFlight[k]) /\ InFlight[k] \in Raw
      BY <2>1, SequencesTyped DEF IsAdd, Parses
    <3>2. QED
      BY <2>1, <3>1, RawParts, MessageParts DEF BooksInv, IdsAreFed
  <2>6. \A l \in DOMAIN lob : \A id \in Ids(lob[l]) : id < InFlight'[i].id
    <3>1. CASE i \in 1 .. n /\ InFlight'[i] = InFlight[i]
      BY <2>1, <3>1 DEF PlacesInv, AddsAscend
    <3>2. CASE InFlight'[i] = d
      <4>1. \A id \in Nat : id <= fed => id < fed + 1
        BY <1>1
      <4>2. QED
        BY <1>2, <2>4, <3>2, <4>1
    <3>3. QED
      BY <2>3, <3>1, <3>2
  <2>7. ASSUME NEW j \in DOMAIN InFlight', i < j, IsAdd(InFlight'[j])
        PROVE  InFlight'[i].id < InFlight'[j].id
    <3>1. i \in 1 .. n /\ InFlight'[i] = InFlight[i]
      BY <2>1, <2>3, <2>7
    <3>2. CASE j \in 1 .. n /\ InFlight'[j] = InFlight[j]
      BY <2>1, <2>7, <3>1, <3>2 DEF PlacesInv, AddsAscend
    <3>3. CASE InFlight'[j] = d
      BY <1>1, <1>2, <2>5, <2>7, <3>1, <3>3
    <3>4. QED
      BY <2>3, <3>2, <3>3
  <2>8. QED
    BY <2>6, <2>7
<1>9. QED
  BY <1>6, <1>7, <1>8 DEF PlacesInv

\* The oldest message in flight is applied to the book.
LEMMA PlacesAfterPop ==
    ASSUME PipelineInv, PlacesInv, StrategyPop
    PROVE  PlacesInv'
<1> USE DEF PipelineInv
<1>1. /\ queue # << >> /\ msg' = Head(queue) /\ applied' = Append(applied, msg')
      /\ UNCHANGED <<exchange, fed, socket, received>>
  BY DEF StrategyPop, Fifo!Get, feed, network
<1>2. /\ Removed(InFlight, 1, InFlight') /\ InFlight[1] = msg' /\ msg' \in Message
  BY PopFlight
<1>3. PICK v \in Values(msg') : lob' = Apply(lob, v)
  BY DEF StrategyPop
<1>4. /\ v.type = msg'.type /\ v.id = msg'.id /\ v.type \in {"A", "X", "D", "E"}
      /\ v.type \in {"A", "X"} => v.quantity = msg'.quantity
      /\ v.id \in 1 .. MaxDatagrams /\ v.quantity \in 1 .. MaxShares
  BY <1>2, <1>3, ValueParts, InternalParts
<1>5. /\ lob \in [PriceTime!Level -> Seq(Order)] /\ lob' \in [PriceTime!Level -> Seq(Order)]
      /\ Applied(lob, msg', lob')
  BY <1>2, <1>3, ApplyBook, Zenon DEF TypeOK
<1> DEFINE n == Len(applied)
           G == Grown(applied')
<1>6. /\ n \in Nat /\ DOMAIN applied = 1 .. n /\ DOMAIN applied' = 1 .. n + 1
      /\ applied'[n + 1] = msg' /\ \A i \in 1 .. n : applied'[i] = applied[i]
  <2>1. applied \in Seq(Message)
    BY SequencesTyped
  <2>2. QED
    BY <1>1, <1>2, <2>1
<1>7. \A i \in 1 .. n : i \in 1 .. n + 1
  BY <1>6
<1> HIDE DEF n
\* What has grown has grown for good.
<1>8. Grown(applied) \subseteq G
  <2> SUFFICES ASSUME NEW id \in 1 .. MaxDatagrams, Grows(applied, id) PROVE Grows(applied', id)
    BY DEF Grown
  <2>1. PICK i \in 1 .. n, j \in 1 .. n :
            /\ i < j /\ applied[i].type = "X" /\ applied[j].type = "X"
            /\ applied[i].id = id /\ applied[j].id = id /\ applied[i].quantity < applied[j].quantity
    BY <1>6 DEF Grows
  <2>2. i \in DOMAIN applied' /\ j \in DOMAIN applied' /\ applied'[i] = applied[i] /\ applied'[j] = applied[j]
    BY <1>6, <1>7
  <2>3. QED
    BY <2>1, <2>2 DEF Grows
<1>9. \A l \in PriceTime!Level : InOrder(lob[l], G)
  <2>1. \A l \in PriceTime!Level : InOrder(lob[l], Grown(applied))
    BY <1>5, GrownInOrder DEF PlacesInv
  <2>2. QED
    BY <1>8, <2>1 DEF InOrder
<1>10. msg' \in Told /\ \A i \in DOMAIN applied : applied[i] \in Told
  <2>1. queue \in Seq(Message)
    BY SequencesTyped
  <2>2. 1 \in DOMAIN queue /\ Head(queue) = queue[1]
    BY <1>1, <2>1
  <2>3. QED
    BY <1>1, <2>2, ToldParts
\* What an order that rests was told to have, it is told again at most, or grows.
<1>11. ASSUME v.type = "X", NEW l \in PriceTime!Level, NEW o \in Orders(lob[l]), o.id = v.id
       PROVE  v.quantity <= o.quantity \/ v.id \in G
  <2>1. PICK i \in DOMAIN applied : /\ applied[i].type \in {"A", "X"} /\ applied[i].id = o.id
                                    /\ applied[i].quantity = o.quantity
    BY <1>5, <1>11 DEF PlacesInv, SharesAreTold
  <2>2. o.quantity \in Nat
    <3>1. o \in Order
      BY <1>5 DEF Orders
    <3>2. QED
      BY <3>1, OrderParts
  <2>3. CASE applied[i].type = "A"
    BY <1>4, <1>10, <1>11, <2>1, <2>3 DEF PlacesInv, SharesShrink, IsAdd
  <2>4. CASE applied[i].type = "X" /\ ~ v.quantity <= o.quantity
    <3>1. i < n + 1 /\ i \in DOMAIN applied' /\ n + 1 \in DOMAIN applied' /\ applied'[i] = applied[i]
      BY <1>6, <1>7
    <3>2. applied'[i].quantity < applied'[n + 1].quantity
      BY <1>4, <1>6, <1>11, <2>1, <2>2, <2>4, <3>1
    <3>3. Grows(applied', v.id)
      BY <1>4, <1>6, <1>11, <2>1, <2>4, <3>1, <3>2 DEF Grows
    <3>4. QED
      BY <1>4, <3>3 DEF Grown
  <2>5. QED
    BY <2>1, <2>3, <2>4
<1> DEFINE new == [id |-> v.id, quantity |-> v.quantity]
<1> HIDE DEF G
\* The queues stay in order, and their orders are the old ones or the one told.
<1>12. ASSUME NEW l \in PriceTime!Level
       PROVE  /\ InOrder(lob'[l], G)
              /\ \A o \in Orders(lob'[l]) : o \in Orders(lob[l]) \/ (o = new /\ v.type \in {"A", "X"})
  <2>0. InOrder(lob[l], G) /\ DOMAIN lob = PriceTime!Level /\ lob[l] \in Seq(Order)
    BY <1>5, <1>9
  <2>1. CASE v.type = "A"
    <3>1. lob' = Insert(lob, v) \/ lob' = lob
      BY <1>3, <2>1 DEF Apply, add
    <3>2. CASE lob' = Insert(lob, v)
      <4> DEFINE at == <<v.side, v.price>>
      <4>1. lob' = [lob EXCEPT ![at] = Append(@, new)]
        BY <3>2 DEF Insert
      <4> HIDE DEF at
      <4>2. new \in Order /\ new.id = v.id
        BY <1>4 DEF Order
      <4>3. \A id \in Ids(lob[l]) : id < v.id
        <5>1. 1 \in DOMAIN InFlight
          BY <1>2, Zenon DEF Removed
        <5>2. IsAdd(InFlight[1]) /\ InFlight[1].id = v.id
          BY <1>2, <1>4, <2>1 DEF IsAdd
        <5>3. QED
          BY <2>0, <5>1, <5>2 DEF PlacesInv, AddsAscend
      <4>4. \A i \in DOMAIN lob[l] : lob[l][i].id < v.id
        BY <4>3 DEF Ids
      <4> HIDE DEF new
      <4>5. CASE l = at
        <5>1. lob'[l] = Append(lob[l], new)
          BY <1>5, <4>1, <4>5
        <5>2. InOrder(Append(lob[l], new), G) /\ Orders(Append(lob[l], new)) = Orders(lob[l]) \cup {new}
          BY <2>0, <4>2, <4>4, AppendInOrder
        <5>3. QED
          BY <2>1, <5>1, <5>2
      <4>6. CASE l # at
        <5>1. lob'[l] = lob[l]
          BY <1>5, <4>1, <4>6
        <5>2. QED
          BY <2>0, <5>1
      <4>7. QED
        BY <4>5, <4>6
    <3>3. CASE lob' = lob
      BY <2>0, <3>3
    <3>4. QED
      BY <3>1, <3>2, <3>3
  <2>2. CASE v.type = "D"
    <3>1. lob' = cancel(lob, v.id)
      BY <1>3, <2>2 DEF Apply
    <3>2. QED
      BY <1>5, <2>0, <3>1, CancelInOrder
  <2>3. CASE v.type = "X"
    <3>1. lob' = modify(lob, v.id, v.quantity)
      BY <1>3, <2>3 DEF Apply
    <3>2. \A o \in Orders(lob[l]) : o.id = v.id => v.quantity <= o.quantity \/ v.id \in G
      BY <1>11, <2>3 DEF G
    <3>3. /\ InOrder(modify(lob, v.id, v.quantity)[l], G)
          /\ \A o \in Orders(modify(lob, v.id, v.quantity)[l]) :
                o \in Orders(lob[l]) \/ (o = new /\ v.id \in Ids(lob[l]))
      BY <1>4, <1>5, <2>0, <3>2, ModifyInOrderBook
    <3> HIDE DEF new
    <3>4. QED
      BY <2>3, <3>1, <3>3
  <2>4. CASE v.type = "E"
    <3>1. lob' = lob
      BY <1>3, <2>4 DEF Apply
    <3>2. QED
      BY <2>0, <3>1
  <2>5. QED
    BY <1>4, <2>1, <2>2, <2>3, <2>4
<1>13. OvertakenOnlyAfterGrowth'
  BY <1>5, <1>12, GrownInOrderNext DEF G
<1>14. SharesAreTold'
  <2> SUFFICES ASSUME NEW l \in PriceTime!Level, NEW o \in Orders(lob'[l])
               PROVE  \E i \in DOMAIN applied' : /\ applied'[i].type \in {"A", "X"} /\ applied'[i].id = o.id
                                                 /\ applied'[i].quantity = o.quantity
    <3>1. DOMAIN lob' = PriceTime!Level
      BY <1>5
    <3>2. QED
      BY <3>1, Zenon DEF SharesAreTold, Orders
  <2>1. CASE o \in Orders(lob[l])
    <3>1. PICK i \in DOMAIN applied : /\ applied[i].type \in {"A", "X"} /\ applied[i].id = o.id
                                      /\ applied[i].quantity = o.quantity
      BY <1>5, <2>1 DEF PlacesInv, SharesAreTold
    <3>2. i \in DOMAIN applied' /\ applied'[i] = applied[i]
      BY <1>6, <1>7
    <3>3. QED
      BY <3>1, <3>2
  <2>2. CASE o = new /\ v.type \in {"A", "X"}
    <3>1. n + 1 \in DOMAIN applied'
      BY <1>6
    <3>2. o.id = v.id /\ o.quantity = v.quantity
      BY <2>2
    <3>3. QED
      BY <1>4, <1>6, <2>2, <3>1, <3>2
  <2>3. QED
    BY <1>12, <2>1, <2>2
<1>15. SharesShrink'
  <2>1. Told' = Told /\ Standing' = Standing
    BY <1>1 DEF Told, Standing
  <2>2. QED
    BY <1>1, <2>1 DEF PlacesInv, SharesShrink, IsAdd, Parses
<1>16. AddsAscend'
  <2>1. /\ 1 \in DOMAIN InFlight
        /\ \A i \in DOMAIN InFlight' : \E k \in DOMAIN InFlight : k # 1 /\ InFlight'[i] = InFlight[k]
        /\ \A i, j \in DOMAIN InFlight' : i # j =>
              \E k, h \in DOMAIN InFlight :
                  k # 1 /\ h # 1 /\ k # h /\ (i < j => k < h) /\ InFlight'[i] = InFlight[k]
                      /\ InFlight'[j] = InFlight[h]
    BY <1>2, Zenon DEF Removed
  <2>2. DOMAIN InFlight = 1 .. Len(InFlight) /\ Len(InFlight) \in Nat
    BY SequencesTyped
  <2> SUFFICES ASSUME NEW i \in DOMAIN InFlight', IsAdd(InFlight'[i])
               PROVE  /\ \A l \in DOMAIN lob' : \A id \in Ids(lob'[l]) : id < InFlight'[i].id
                      /\ \A j \in DOMAIN InFlight' :
                            i < j /\ IsAdd(InFlight'[j]) => InFlight'[i].id < InFlight'[j].id
    BY DEF AddsAscend, IsAdd
  <2>3. PICK k \in DOMAIN InFlight : k # 1 /\ InFlight'[i] = InFlight[k]
    BY <2>1
  <2>4. 1 < k
    BY <2>2, <2>3
  <2>5. ASSUME NEW l \in DOMAIN lob', NEW id \in Ids(lob'[l]) PROVE id < InFlight'[i].id
    <3>1. id \in Ids(lob[l]) \/ (IsAdd(msg') /\ msg'.id = id)
      BY <1>5 DEF Applied
    <3>2. DOMAIN lob = DOMAIN lob'
      BY <1>5
    <3>3. CASE id \in Ids(lob[l])
      BY <2>3, <3>2, <3>3 DEF PlacesInv, AddsAscend
    <3>4. CASE IsAdd(msg') /\ msg'.id = id
      BY <1>2, <2>1, <2>3, <2>4, <3>4 DEF PlacesInv, AddsAscend
    <3>5. QED
      BY <3>1, <3>3, <3>4
  <2>6. ASSUME NEW j \in DOMAIN InFlight', i < j, IsAdd(InFlight'[j])
        PROVE  InFlight'[i].id < InFlight'[j].id
    <3>1. i # j
      <4>1. InFlight' \in Seq(Raw)
        <5>1. TypeOK' /\ InHandIsMessage'
          BY PopStep
        <5>2. InHand' \in Seq(Message)
          BY <5>1 DEF InHand, InHandIsMessage
        <5>3. queue' \in Seq(Message) /\ socket' \in Seq(Raw)
          BY <5>1, Zenon DEF TypeOK, Raw
        <5>4. QED
          BY <5>2, <5>3 DEF InFlight, Raw
      <4>2. i \in Nat /\ j \in Nat
        BY <4>1
      <4>3. QED
        BY <2>6, <4>2
    <3>2. PICK g \in DOMAIN InFlight, h \in DOMAIN InFlight :
              g < h /\ InFlight'[i] = InFlight[g] /\ InFlight'[j] = InFlight[h]
      BY <2>1, <2>6, <3>1
    <3>3. QED
      BY <2>6, <3>2 DEF PlacesInv, AddsAscend
  <2>7. QED
    BY <2>5, <2>6
<1>17. QED
  BY <1>13, <1>14, <1>15, <1>16 DEF PlacesInv

LEMMA PlacesAfterRecv ==
    ASSUME PipelineInv, PlacesInv, Recv
    PROVE  PlacesInv'
<1> USE DEF PipelineInv
<1>1. /\ socket # << >> /\ socket' = Tail(socket) /\ UNCHANGED <<exchange, fed, lob, applied>>
      /\ received' = Append(received, Head(socket)) \/ received' = received
  BY DEF Recv, feed, strategy
<1>2. Told' \subseteq Told
  <2>1. socket \in Seq(Raw) /\ received \in Seq(Message)
    BY SequencesTyped
  <2>2. /\ 1 \in DOMAIN socket /\ Head(socket) = socket[1]
        /\ \A i \in DOMAIN socket' : i + 1 \in DOMAIN socket /\ socket'[i] = socket[i + 1]
    BY <1>1, <2>1
  <2>3. \A i \in DOMAIN Append(received, Head(socket)) :
            \/ i \in DOMAIN received /\ Append(received, Head(socket))[i] = received[i]
            \/ Append(received, Head(socket))[i] = Head(socket)
    <3> DEFINE n == Len(received)
               h == Head(socket)
    <3>1. n \in Nat /\ DOMAIN received = 1 .. n /\ DOMAIN Append(received, h) = 1 .. n + 1
      BY <2>1
    <3>2. Append(received, h)[n + 1] = h /\ \A i \in 1 .. n : Append(received, h)[i] = received[i]
      BY <2>1
    <3> HIDE DEF n, h
    <3>3. \A i \in 1 .. n + 1 : i \in 1 .. n \/ i = n + 1
      BY <3>1
    <3>4. QED
      BY <3>1, <3>2, <3>3 DEF h
  <2>4. \A i \in DOMAIN received' : received'[i] \in Told
    BY <1>1, <2>2, <2>3 DEF Told
  <2>5. \A i \in DOMAIN socket' : socket'[i] \in Told
    BY <2>2 DEF Told
  <2>6. QED
    BY <2>4, <2>5 DEF Told
<1>3. CASE InFlight' = InFlight
  BY <1>1, <1>2, <1>3, PlacesQuiet
<1>4. ASSUME NEW p \in DOMAIN InFlight, Removed(InFlight, p, InFlight')
      PROVE  PlacesInv'
  <2>1. /\ \A i \in DOMAIN InFlight' : \E k \in DOMAIN InFlight : k # p /\ InFlight'[i] = InFlight[k]
        /\ \A i, j \in DOMAIN InFlight' : i # j =>
              \E k, h \in DOMAIN InFlight :
                  k # p /\ h # p /\ k # h /\ (i < j => k < h) /\ InFlight'[i] = InFlight[k]
                      /\ InFlight'[j] = InFlight[h]
    BY <1>4, Zenon DEF Removed
  <2>2. \A i \in DOMAIN InFlight' : i \in Nat
    <3>1. TypeOK' /\ InHandIsMessage'
      BY RecvStep
    <3>2. InHand' \in Seq(Message)
      BY <3>1 DEF InHand, InHandIsMessage
    <3>3. queue' \in Seq(Message) /\ socket' \in Seq(Raw)
      BY <3>1, Zenon DEF TypeOK, Raw
    <3>4. InFlight' \in Seq(Raw)
      BY <3>2, <3>3 DEF InFlight, Raw
    <3>5. QED
      BY <3>4
  <2>3. \A i, j \in DOMAIN InFlight' : i < j => i # j
    BY <2>2
  <2>4. \A i, j \in DOMAIN InFlight' : i < j =>
            \E k, h \in DOMAIN InFlight : k < h /\ InFlight'[i] = InFlight[k] /\ InFlight'[j] = InFlight[h]
    BY <2>1, <2>3
  <2>5. QED
    BY <1>1, <1>2, <2>1, <2>4, PlacesStay
<1>5. QED
  BY <1>3, <1>4, RecvFlight

LEMMA PlacesStep ==
    ASSUME PipelineInv, PlacesInv, [Next]_vars
    PROVE  PlacesInv'
<1>1. CASE Push
  <2>1. UNCHANGED <<exchange, fed, lob, applied, received, socket>>
    BY <1>1 DEF Push, feed, strategy
  <2>2. Told' = Told /\ InFlight' = InFlight
    BY <1>1, <2>1, PushFlight DEF Told, PipelineInv
  <2>3. QED
    BY <2>1, <2>2, PlacesQuiet
<1>2. CASE \/ NetworkStart \/ EpollWait \/ PushFreed
           \/ StrategyLeaves \/ StrategyStays \/ StrategyMiss
           \/ Stop \/ Join \/ FreeQueue \/ Exit \/ UNCHANGED vars
  <2>1. /\ npc' = "push" <=> npc = "push"
        /\ UNCHANGED <<exchange, fed, lob, applied, received, socket, queue, parsed_msg>>
    BY <1>2 DEF NetworkStart, EpollWait, PushFreed, StrategyLeaves, StrategyStays, StrategyMiss,
                Stop, Join, FreeQueue, Exit, MainStep, vars, feed, network, strategy
  <2>2. Told' = Told /\ InHand' = InHand
    BY <2>1 DEF Told, InHand
  <2>3. InFlight' = InFlight
    BY <2>1, <2>2 DEF InFlight
  <2>4. QED
    BY <2>1, <2>2, <2>3, PlacesQuiet
<1>3. QED
  BY <1>1, <1>2, PlacesAfterPublish, PlacesAfterRecv, PlacesAfterPop DEF Next

(***************************************************************************)
(* For every feed that is legal for the exchange's own book, also when     *)
(* datagrams of it are lost, a younger order gets ahead of an older one of *)
(* its price only when a partial cancel of the older one told more shares  *)
(* than an earlier one (Main.cpp:78, OrderBook.cpp:220-244).  The argument *)
(* is that the exchange never cancels more shares of an order than it told *)
(* when it added it (SharesShrink), and that the shares of an order in the *)
(* book are those an applied message told (SharesAreTold): a partial       *)
(* cancel can exceed only what an earlier partial cancel told.             *)
(***************************************************************************)
THEOREM OvertakingIsExplained == Spec => []OvertakenOnlyAfterGrowth
<1>1. Init => PlacesInv
  <2> SUFFICES ASSUME Init PROVE PlacesInv
    OBVIOUS
  <2>1. /\ exchange = [l \in Side \X Price |-> << >>] /\ received = << >> /\ socket = << >>
        /\ queue = << >> /\ npc = "start" /\ lob = [l \in PriceTime!Level |-> << >>]
    BY DEF Init, Fifo!Init, PriceTime!Init
  <2>2. Told = {} /\ InHand = << >>
    BY <2>1 DEF Told, InHand
  <2>3. InFlight = << >>
    BY <2>1, <2>2 DEF InFlight
  <2>4. \A l \in DOMAIN lob : lob[l] = << >>
    BY <2>1
  <2>5. SharesShrink /\ AddsAscend
    BY <2>2, <2>3 DEF SharesShrink, AddsAscend
  <2>6. SharesAreTold /\ OvertakenOnlyAfterGrowth
    BY <2>4 DEF SharesAreTold, OvertakenOnlyAfterGrowth, Orders
  <2>7. QED
    BY <2>5, <2>6 DEF PlacesInv
<1>2. PipelineInv /\ PlacesInv /\ [Next]_vars => PlacesInv'
  BY PlacesStep
<1>3. PlacesInv => OvertakenOnlyAfterGrowth
  BY DEF PlacesInv
<1>4. QED
  BY <1>1, <1>2, <1>3, PipelineInvariant, PTL DEF Spec
==============================================================================
