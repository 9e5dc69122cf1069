------------------------------ MODULE Pipeline -------------------------------
(***************************************************************************)
(* The program of Main.cpp: the exchange's ITCH feed comes in over UDP,    *)
(* the network thread decodes it and pushes it to the strategy thread,     *)
(* which applies it to the order book and shows it to the strategy; the    *)
(* main thread starts the others, waits for a key and shuts down.          *)
(*                                                                         *)
(* The parts are used by what they promise: the SPSCQueue as BoundedFifo,  *)
(* the levels of the LimitOrderBook as the queues of PriceTimeBook (with a *)
(* pool and a map that do not run out), sendOrder by what it returns.      *)
(* The TCP socket, whose callback reads and forgets, and the log are left  *)
(* out.  Message type "E" stands for E and C, which differ in a price that *)
(* nobody reads; "?" is a datagram that Parser::parse does not decode.     *)
(***************************************************************************)
EXTENDS Naturals, Sequences

CONSTANTS Price,         \* prices that occur in the feed
          MaxShares,     \* bound: shares of an order
          OrderShares,   \* bound: the shares that new orders have
          MaxPrice,      \* max_price of the book
          Threshold,     \* threshold_price_ of the strategy
          Bound,         \* what the queue between the threads holds
          Backlog,       \* datagrams the kernel keeps for the UDP socket
          Base, Bytes,   \* of the wire formats, and the sizes of their
          TokenLen,      \* texts
          StockLen,
          MaxDatagrams,  \* bound: length of the feed
          MaxCancels,    \* bound: partial cancels that may follow it
          NoMessage      \* content of msg and parsed_msg before the first one

ASSUME PipelineAssumption ==
    /\ Price \subseteq Nat /\ MaxPrice \in Nat /\ Threshold \in Nat
    /\ MaxShares \in Nat \ {0} /\ OrderShares \subseteq 1 .. MaxShares
    /\ MaxDatagrams \in Nat /\ MaxCancels \in Nat
    /\ Bound \in Nat \ {0} /\ Backlog \in Nat \ {0}

Wire == INSTANCE WireFormat

\* The numbers of the feed fit into the fields of its format.
ASSUME WidthAssumption ==
    /\ Base \in Nat \ {0, 1} /\ Bytes \in [{16, 32, 48, 64} -> Nat \ {0}]
    /\ TokenLen \in Nat /\ StockLen \in Nat
    /\ Price \subseteq Wire!UInt(32) /\ MaxShares \in Wire!UInt(32)
    /\ MaxDatagrams \in Wire!UInt(64)

VARIABLES
    \* the exchange and the kernel
    exchange,    \* the exchange's book: at each level, the standing orders
    fed,         \* how many datagrams it has sent
    lost,        \* whether one of them did not reach the socket
    socket,      \* the datagrams the UDP socket holds
    ready,       \* whether epoll has an event for it
    \* the network thread
    npc,         \* start, wait (epoll_wait), recv, push, ended
    listening,   \* whether the UDP socket was set up
    parsed_msg,  \* the message being pushed
    received,    \* history: the messages decoded
    \* the queue
    queue,
    \* the strategy thread
    spc,         \* test (the loop condition), poll, ended
    msg,         \* the message popped last
    lob,         \* at each level, the resting orders
    position_taken,
    orders,      \* history: the prices at which it sent an order
    applied,     \* history: the messages applied
    \* the main thread
    is_running,
    main         \* running, joining, joined, freed, exited, crashed

feed == <<exchange, fed, lost>>
network == <<npc, listening, parsed_msg, received>>
strategy == <<spc, lob, position_taken, orders, applied>>
control == <<is_running, main>>
vars == <<feed, socket, ready, network, queue, msg, strategy, control>>

Side == {"BUY", "SELL"}

\* Parser::InternalMessage
InternalMessage ==
    [type : {"A", "X", "D", "E"}, id : 1 .. MaxDatagrams, side : Side,
     price : Price, quantity : 1 .. MaxShares]

\* An InternalMessage in which Parser::parse has assigned only the fields that
\* the ITCH message has.
Message ==
    [type : {"A"}, id : 1 .. MaxDatagrams, side : Side, price : Price, quantity : 1 .. MaxShares]
        \cup [type : {"X", "E"}, id : 1 .. MaxDatagrams, quantity : 1 .. MaxShares]
        \cup [type : {"D"}, id : 1 .. MaxDatagrams]

\* What a reader may find in m: unassigned fields hold what was on the stack.
Values(m) == {v \in InternalMessage : \A f \in DOMAIN m : v[f] = m[f]}

Fifo == INSTANCE BoundedFifo
            WITH Item <- Message, NoItem <- NoMessage, delivered <- msg

PriceTime == INSTANCE PriceTimeBook
                 WITH MaxOrders <- MaxDatagrams, OrderId <- 1 .. MaxDatagrams,
                      Quantity <- 1 .. MaxShares, queue <- lob

\* The process still runs.
Alive == main \notin {"exited", "crashed"}

Init ==
    /\ exchange = [l \in Side \X Price |-> << >>] /\ fed = 0 /\ lost = FALSE
    /\ socket = << >> /\ ready = FALSE
    /\ npc = "start" /\ listening = FALSE
    /\ parsed_msg = NoMessage /\ received = << >>
    /\ Fifo!Init
    /\ spc = "test" /\ PriceTime!Init
    /\ position_taken = FALSE /\ orders = << >> /\ applied = << >>
    /\ is_running = TRUE /\ main = "running"
------------------------------------------------------------------------------
(* Books, the exchange's and ours: a queue of orders at each level *)

Ids(q) == {q[i].id : i \in DOMAIN q}

\* Mutant: the newest order comes first.
InsertInFront(b, m) ==
    [b EXCEPT ![<<m.side, m.price>>] =
        <<[id |-> m.id, quantity |-> m.quantity]>> \o @]

Insert(b, m) ==
    [b EXCEPT ![<<m.side, m.price>>] =
        Append(@, [id |-> m.id, quantity |-> m.quantity])]

\* LimitOrderBook::add, cancel and modify.
add(b, m) ==
    IF m.price < MaxPrice /\ \A l \in DOMAIN b : m.id \notin Ids(b[l])
    THEN Insert(b, m) ELSE b

\* The place of order id in q.
Place(q, id) == CHOOSE i \in DOMAIN q : q[i].id = id

cancel(b, id) ==
    [l \in DOMAIN b |->
        IF id \notin Ids(b[l]) THEN b[l] ELSE PriceTime!Without(b[l], Place(b[l], id))]

modify(b, id, n) ==
    IF n = 0 THEN cancel(b, id)
    ELSE [l \in DOMAIN b |->
             IF id \notin Ids(b[l]) THEN b[l]
             ELSE PriceTime!Modify(b[l], Place(b[l], id), n)]
------------------------------------------------------------------------------
(* The exchange: a feed that is legal for its own book *)

Standing == UNION {{exchange[l][i] : i \in DOMAIN exchange[l]} : l \in DOMAIN exchange}

\* A datagram has the fields of its message.  New orders have fresh ids, in the
\* order of time.
Datagram ==
    [type : {"A"}, id : {fed + 1}, side : Side, price : Price, quantity : OrderShares]
        \cup (UNION {[type : {"X", "E"}, id : {o.id}, quantity : 1 .. o.quantity] : o \in Standing})
        \cup [type : {"D"}, id : {o.id : o \in Standing}]
        \cup [type : {"?"}]

\* X and E carry the shares by which the order shrinks.
Remaining(d) ==
    (CHOOSE o \in Standing : o.id = d.id).quantity - d.quantity

\* registerFd asks for edge-triggered events: an arrival raises one.
Arrives(d) == socket' = Append(socket, d) /\ ready' = TRUE

\* The feed is bounded; partial cancels may follow when nothing was lost.
MayFollow(d) ==
    \/ fed < MaxDatagrams
    \/ d.type = "X" /\ ~ lost /\ fed < MaxDatagrams + MaxCancels

Publish(d) ==
    /\ Alive /\ MayFollow(d)
    /\ fed' = fed + 1
    /\ exchange' = CASE d.type = "A" -> Insert(exchange, d)
                     [] d.type = "D" -> cancel(exchange, d.id)
                     [] d.type \in {"X", "E"} -> modify(exchange, d.id, Remaining(d))
                     [] OTHER -> exchange
    /\ \/ /\ listening /\ Len(socket) < Backlog
          /\ Arrives(d)
          /\ UNCHANGED lost
       \/ lost' = TRUE /\ UNCHANGED <<socket, ready>>
    /\ UNCHANGED <<network, queue, msg, strategy, control>>
------------------------------------------------------------------------------
(* The network thread *)

\* Parser::parse returns true: a known type and enough bytes for it.
Parses(d) == d.type # "?"

\* The socket is created, bound, joined to the group and registered, or one of
\* these fails.
addUDPMulticastListener == listening' \in BOOLEAN

\* The event loop is set up and run, with or without the UDP listener, or
\* loop.init fails and the thread ends.
NetworkStart ==
    /\ Alive /\ npc = "start"
    /\ \/ npc' = "wait" /\ addUDPMulticastListener
       \/ npc' = "ended" /\ UNCHANGED listening
    /\ UNCHANGED <<feed, socket, ready, parsed_msg, received, queue, msg, strategy, control>>

\* epoll_wait returns and consumes the event, whatever the callback then leaves
\* in the socket.
EpollWait ==
    /\ Alive /\ npc = "wait" /\ ready
    /\ ready' = FALSE
    /\ npc' = "recv"
    /\ UNCHANGED <<feed, socket, listening, parsed_msg, received, queue, msg, strategy, control>>

\* The callback reads one datagram and decodes it.
Recv ==
    /\ Alive /\ npc = "recv" /\ socket # << >>
    /\ socket' = Tail(socket)
    /\ \/ /\ Parses(Head(socket))
          /\ npc' = "push"
          /\ parsed_msg' = Head(socket)
          /\ received' = Append(received, Head(socket))
       \/ /\ ~ Parses(Head(socket))
          /\ npc' = "wait"
          /\ UNCHANGED <<parsed_msg, received>>
    /\ UNCHANGED <<feed, ready, listening, queue, msg, strategy, control>>

\* Mutant: a full queue is not noticed.
PushUnchecked ==
    /\ Alive /\ npc = "push" /\ main # "freed"
    /\ queue' = Append(queue, parsed_msg)
    /\ npc' = "wait"
    /\ UNCHANGED <<feed, socket, ready, listening, parsed_msg, received, msg, strategy, control>>

\* Mutant: the message is dropped when the queue is full.
PushOnce ==
    /\ Alive /\ npc = "push" /\ main # "freed"
    /\ Fifo!Put(parsed_msg) \/ (Len(queue) = Bound /\ UNCHANGED <<queue, msg>>)
    /\ npc' = "wait"
    /\ UNCHANGED <<feed, socket, ready, listening, parsed_msg, received, strategy, control>>

\* The push that returns true; the ones before it change nothing.
Push ==
    /\ Alive /\ npc = "push" /\ main # "freed"
    /\ Fifo!Put(parsed_msg)
    /\ npc' = "wait"
    /\ UNCHANGED <<feed, socket, ready, listening, parsed_msg, received, strategy, control>>

\* The main thread has unmapped the queue under the detached network thread.
PushFreed ==
    /\ npc = "push" /\ main = "freed"
    /\ main' = "crashed"
    /\ UNCHANGED <<feed, socket, ready, network, queue, msg, strategy, is_running>>
------------------------------------------------------------------------------
(* The strategy thread *)

\* Mutant: a partial cancel is taken for a delete.
ApplyXAsDelete(b, m) ==
    CASE m.type = "A" -> add(b, m)
      [] m.type \in {"D", "X"} -> cancel(b, m.id)
      [] OTHER -> b

\* The switch: executions are not applied.
Apply(b, m) ==
    CASE m.type = "A" -> add(b, m)
      [] m.type = "D" -> cancel(b, m.id)
      [] m.type = "X" -> modify(b, m.id, m.quantity)
      [] OTHER -> b

\* Mutant: the strategy does not look at the type of the message.
IsTriggerAnyType(m) == m.side = "BUY" /\ m.price >= Threshold

\* Somebody bids at or above the threshold.
IsTrigger(m) == m.type = "A" /\ m.side = "BUY" /\ m.price >= Threshold

\* MarketMakerStrategy: sell to the first such bidder for whom sendOrder
\* returns true.
onMarketDataUpdate(m) ==
    \/ /\ ~ position_taken /\ IsTrigger(m)
       /\ position_taken' = TRUE
       /\ orders' = Append(orders, m.price)
    \/ UNCHANGED <<position_taken, orders>>  \* not interested, or sendOrder fails

\* Mutant: the thread never looks at is_running.
StrategyLeavesNever == FALSE /\ UNCHANGED vars

\* The relaxed load of is_running returns false; or true, which is or was its
\* value.
StrategyLeaves ==
    /\ Alive /\ spc = "test" /\ ~ is_running
    /\ spc' = "ended"
    /\ UNCHANGED <<feed, socket, ready, network, queue, msg, lob, position_taken, orders, applied, control>>

StrategyStays ==
    /\ Alive /\ spc = "test"
    /\ spc' = "poll"
    /\ UNCHANGED <<feed, socket, ready, network, queue, msg, lob, position_taken, orders, applied, control>>

\* pop succeeds; the book and then the strategy see the message.
StrategyPop ==
    /\ Alive /\ spc = "poll"
    /\ Fifo!Get
    /\ \E v \in Values(msg') : lob' = Apply(lob, v) /\ onMarketDataUpdate(v)
    /\ applied' = Append(applied, msg')
    /\ spc' = "test"
    /\ UNCHANGED <<feed, socket, ready, network, control>>

\* Mutant: the thread ends when it finds the queue empty.
StrategyMissEnds ==
    /\ Alive /\ spc = "poll"
    /\ spc' = IF queue = << >> THEN "ended" ELSE "test"
    /\ UNCHANGED <<feed, socket, ready, network, queue, msg, lob, position_taken, orders, applied, control>>

\* pop finds nothing; it may not see a message that was just pushed.
StrategyMiss ==
    /\ Alive /\ spc = "poll"
    /\ spc' = "test"
    /\ UNCHANGED <<feed, socket, ready, network, queue, msg, lob, position_taken, orders, applied, control>>
------------------------------------------------------------------------------
(* The main thread *)

MainStep(from, to) ==
    /\ main = from /\ main' = to
    /\ UNCHANGED <<feed, socket, ready, network, queue, msg, strategy>>

\* Enter was pressed.
Stop == MainStep("running", "joining") /\ is_running' = FALSE

\* strategy_thread.join() returns; the network thread is detached.
Join == MainStep("joining", "joined") /\ spc = "ended" /\ UNCHANGED is_running

FreeQueue == MainStep("joined", "freed") /\ UNCHANGED is_running

\* The logger is shut down and the process ends, with all its threads.
Exit == MainStep("freed", "exited") /\ UNCHANGED is_running

Next ==
    \/ \E d \in Datagram : Publish(d)
    \/ NetworkStart \/ EpollWait \/ Recv \/ Push \/ PushFreed
    \/ StrategyLeaves \/ StrategyStays \/ StrategyPop \/ StrategyMiss
    \/ Stop \/ Join \/ FreeQueue \/ Exit

\* Every thread goes on.  Loads of is_running and of the queue's index see the
\* new value in the end.  Nobody has to publish or to press Enter.
Fairness ==
    /\ WF_vars(NetworkStart) /\ WF_vars(EpollWait) /\ WF_vars(Recv) /\ WF_vars(Push)
    /\ SF_vars(StrategyLeaves) /\ SF_vars(StrategyPop)
    /\ WF_vars(StrategyStays) /\ WF_vars(StrategyMiss)
    /\ WF_vars(Join) /\ WF_vars(FreeQueue) /\ WF_vars(Exit)

Spec == Init /\ [][Next]_vars /\ Fairness
------------------------------------------------------------------------------
Order == [id : 1 .. MaxDatagrams, quantity : 1 .. MaxShares]

TypeOK ==
    /\ exchange \in [Side \X Price -> Seq(Order)]
    /\ lob \in [PriceTime!Level -> Seq(Order)]
    /\ fed \in 0 .. MaxDatagrams + MaxCancels /\ lost \in BOOLEAN
    /\ socket \in Seq(Message \cup [type : {"?"}]) /\ Len(socket) <= Backlog /\ ready \in BOOLEAN
    /\ npc \in {"start", "wait", "recv", "push", "ended"} /\ listening \in BOOLEAN
    /\ {parsed_msg, msg} \subseteq Message \cup {NoMessage}
    /\ {received, applied, queue} \subseteq Seq(Message) /\ Len(queue) <= Bound
    /\ spc \in {"test", "poll", "ended"} /\ position_taken \in BOOLEAN
    /\ orders \in Seq(Price) /\ is_running \in BOOLEAN
    /\ main \in {"running", "joining", "joined", "freed", "exited", "crashed"}

InHand == IF npc = "push" THEN <<parsed_msg>> ELSE << >>

(***************************************************************************)
(* Between recv and the book no message is lost, repeated or overtaken:    *)
(* what was decoded is what was applied, then what is queued, then what    *)
(* the network thread is pushing, also during shutdown (Main.cpp:67-83 and *)
(* 129-136).                                                               *)
(***************************************************************************)
AppliedInOrder == received = applied \o queue \o InHand

\* Everything the exchange has sent went through the pipeline.
CaughtUp == ~ lost /\ socket = << >> /\ npc # "push" /\ queue = << >>

\* The levels that both books have.
Shared == PriceTime!Level \cap DOMAIN exchange

(***************************************************************************)
(* When the pipeline has caught up with a feed of which nothing was lost,  *)
(* every order that stands at the exchange, at a price the book has, rests *)
(* in the book at its level, whatever partial cancels and executions came  *)
(* (Main.cpp:70-80).                                                       *)
(***************************************************************************)
NothingMissing ==
    CaughtUp => \A l \in Shared : Ids(exchange[l]) \subseteq Ids(lob[l])

\* A partial cancel of the order told more shares than an earlier one.
CancelGrows(id) ==
    \E i, j \in DOMAIN applied :
        /\ i < j /\ applied[i].type = "X" /\ applied[j].type = "X"
        /\ applied[i].id = id /\ applied[j].id = id
        /\ applied[i].quantity < applied[j].quantity

(***************************************************************************)
(* The exchange gives out its ids in the order of time.  In the book a     *)
(* younger order stands ahead of an older one of its price only if the     *)
(* older one was cancelled in part more than once, later by more shares:   *)
(* the strategy thread takes the shares that X removes for those that      *)
(* remain, and modify moves an order that grows to the back (Main.cpp:78,  *)
(* OrderBook.cpp:220-244).  No other message and no delay costs an order   *)
(* its place.  docs-site/docs/itch-pipeline-architecture.md:95 promises    *)
(* more: "Because the quantity is strictly decreasing, the order *retains  *)
(* its time priority*".                                                    *)
(***************************************************************************)
OvertakenOnlyAfterGrowth ==
    \A l \in DOMAIN lob : \A i, j \in DOMAIN lob[l] :
        i < j /\ lob[l][i].id > lob[l][j].id => CancelGrows(lob[l][j].id)

(***************************************************************************)
(* The strategy sends one order at most, and hits a bid that rests in the  *)
(* book at that moment, unless the price is one the book does not have.    *)
(* Fields that parse leaves unassigned never lead to an order              *)
(* (MarketMakerStrategy.cpp:14-27).                                        *)
(***************************************************************************)
HitsRestingBid ==
    [][orders' # orders =>
        /\ orders = << >> /\ Len(orders') = 1
        /\ orders'[1] < MaxPrice => lob'[<<"BUY", orders'[1]>>] # << >>]_vars

(***************************************************************************)
(* A message that the network thread has decoded is the one that the bytes *)
(* of its datagram tell, and when it tells an order that the emulator has  *)
(* relayed, it is that order (ITCH5Parser.cpp:13-112 and                   *)
(* ExchangeEmulator.cpp:73-98).                                            *)
(***************************************************************************)
FeedIsDecoded ==
    npc = "push" =>
        /\ Wire!IsDecoded(parsed_msg)
        /\ parsed_msg.type = "A" =>
              \A side \in IF parsed_msg.side = "BUY" THEN {"B"} ELSE {"S", "T"} :
                  \A o \in Wire!Order(side, parsed_msg.quantity, parsed_msg.price) :
                      Wire!IsRelayed(o, parsed_msg.id)
        /\ parsed_msg.type = "E" =>
              \A v \in Values(parsed_msg) :  \* an execution with a price
                  Wire!IsDecoded([type |-> "C", id |-> v.id, quantity |-> v.quantity,
                                  price |-> v.price])

(***************************************************************************)
(* While the system is not being stopped, a push of the network thread     *)
(* gets its message into the queue: the strategy thread makes room         *)
(* (Main.cpp:133).                                                         *)
(***************************************************************************)
PushReturnsWhileRunning == npc = "push" ~> npc # "push" \/ ~ is_running

(***************************************************************************)
(* After Enter was pressed the strategy thread sees it and ends, so that   *)
(* join returns, whatever the network thread goes on to push               *)
(* (Main.cpp:156-162).                                                     *)
(***************************************************************************)
StopEnds == main = "joining" ~> main = "joined"

(***************************************************************************)
(* No thread uses the queue after the main thread has freed it             *)
(* (Main.cpp:164-171).                                                     *)
(***************************************************************************)
ShutdownIsGraceful == main # "crashed"

(***************************************************************************)
(* The network thread drains the UDP socket: datagrams that have arrived   *)
(* do not stay there.                                                      *)
(***************************************************************************)
SocketIsDrained == socket # << >> /\ is_running ~> socket = << >> \/ ~ is_running
==============================================================================
