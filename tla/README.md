# Formal verification of the tick-to-trade engine

TLA+ models of the C++ trading engine in this repository, the TLC runs that
check them on small instances, and the TLAPS proofs that lift the core results to
every instance. `PROJECT.json` lists components, runs, mutants, the
correspondence between definitions and source lines, findings, hazards and
theorems.

Run a model with `tlc -config MCSPSCQueue.cfg MCSPSCQueue`, check a proof with
`tlapm SPSCQueueProofs.tla`.

## 1. The system

`src/Main.cpp` starts three threads and a logger thread:

    exchange --UDP--> network thread --SPSCQueue--> strategy thread --TCP--> exchange
                       (epoll, ITCH                 (order book, strategy,
                        parser)                      risk engine, EMS, OUCH)
                              \                        /
                               SPSCQueue per thread --> AsyncLogger's thread --> mmap file

| Component | State | Operations | Interaction |
|---|---|---|---|
| `SPSCQueue` | two atomic indices, slot array | `push`, `pop` | shared by one producer and one consumer thread without locks |
| `LimitOrderBook` | node pool, free list, intrusive list per price level, hash map with tombstones | `add`, `cancel`, `modify`, `get_order`, `get_volume_at_price` | strategy thread only |
| `ExecutionManagementSystem` | hash map of order records | `onOrderSent`, `onOrderAccepted`, `onOrderRejected`, `onOrderExecuted`, `onOrderCanceled`, two getters | `sendOrder` and the reports of the exchange |
| `AsyncLogger` | `running_`, list of queues, mapping, offset, file | `init`, `shutdown`, `registerThread`, `log`, background loop | every thread logs; one thread drains |
| `PreTradeRiskEngine` | relaxed atomic position | `check_order`, `update_position`, `reset_position` | shared by strategy threads |
| `StrategyEngine` | strategies, next order id | `addStrategy`, `onMarketDataUpdate`, `sendOrder` | calls risk engine, EMS, OUCH builder, gateway |
| `TCPEgressGateway` | socket descriptor | `setSocketFd`, `send` | descriptor set by the network thread, used by the strategy thread |
| `MarketMakerStrategy` | `position_taken_` | `onMarketDataUpdate` | reads the book, calls `sendOrder` |
| `NetworkEventLoop` | epoll descriptor, callback table, `running_` | `init`, three `add...`, `run`, `stop`, destructor | calls the callbacks of `Main` and `ExchangeEmulator`, which add and close sockets |
| `ExchangeEmulator` | reference counter | accept, read orders, publish | a program of its own over the event loop; peer of the engine |
| `ITCH5Parser`, `OUCH42` | none | decoding, encoding | network thread, `sendOrder`, emulator |
| `NumaAllocator`, `ThreadAffinity`, `TSCUtils`, `Payload`, benchmarks | none of their own | wrappers around system calls, measurements | |

What is hard about it, and what each part has to guarantee:

* **SPSCQueue**: acquire loads may return old indices, slots are plain memory.
  No slot may be read and written at a time; items come out once, in order; a
  spinning push must end when there is room.
* **LimitOrderBook**: a node lives in the free list or in one level's list, and
  is recycled with the links of its previous life still in it; erased map slots
  lie on the probe paths of other ids. Volumes must stay the sum of what rests;
  the queues must follow price-time priority; what rests must be found.
* **ExecutionManagementSystem**: reports arrive late, twice or out of order; ids
  collide in the map; quantities wrap at 32 bits. State and quantities must
  agree, dead orders stay dead, a report reaches the order it names.
* **AsyncLogger**: shutdown races with the loop of the background thread, with
  calls of `log`, with registration and with a restart; system calls fail.
  Records stay in order, nothing is written through a mapping that is gone, and
  neither `log` nor `shutdown` may hang.
* **Order entry**: check and update of the position are two steps; the socket
  takes messages in pieces or not at all. The position limit, the order of the
  bytes on the wire and the return of the call are at stake, and the position has to
  account for everything that may be executed, also when an order is given up
  half-way or the position is reset.
* **NetworkEventLoop**: events are edge-triggered, so an edge that is dropped never
  comes again; the table of callbacks grows while a callback executes; closing a
  descriptor leaves its callback in the table and the kernel gives the number to the
  next socket; `stop` only clears a flag. An event must reach the callback of the
  socket it is of, every arrival must be followed by a call, and `stop` has to work.
* **The protocols**: every integer is swapped on the way out and on the way in, by
  different code for the two protocols; a test that uses the code at both ends
  does not notice when both swaps are missing.
* **ExchangeEmulator**: what a client sends has to be read.
* **The whole pipeline**: a message passes the kernel's socket, the network
  thread, the queue and the strategy thread, while the main thread may shut down at
  any moment. No message may be lost or overtaken on the way, the book has to follow the
  exchange's, arrivals must not be forgotten in the socket, and stopping must
  succeed.

The list `hazards` of `PROJECT.json` has each of these at its line, with the
properties that guard it.

## 2. The modules

`BoundedFifo`, `PriceTimeBook` and `OrderTable` are abstract: they state what a
component promises without its mechanism. `SPSCQueue`, `OrderBook` and `EMS` are
shown to implement them, by a refinement mapping, for every size of instance (section 4). Definitions whose comment
begins with "Mutant:" are broken variants of the definition behind them; no
specification uses them, they serve to show that a property can fail.

### SPSCQueue (refines BoundedFifo)

A step is one access to shared memory. `push` is `PushCall`, `PushCheck` (load of
`read_index_` and test for full), `PushWrite` (the slot) and `PushPublish` (release
store of `write_index_`); `pop` is `PopCheck`, `PopRead`, `PopRelease`. A load of the
index a thread itself owns is not a step of its own, nobody else writes it. An
acquire load returns any value the other index has held since the thread last
loaded it: C++ coherence allows no older one. `delivered` is the caller's copy.
A push that returns false is called again with the same item, as both callers do.

### OrderBook (refines PriceTimeBook)

Nodes are numbers, links are `prev`/`next` fields as in the code, so a stale
link is as stale as in the code. The hash map is the array of the code with
`Null` and `Tombstone` values; a probe is modelled by the turns at which its loop
may stop, and takes the first. When there is none, the call never returns: that
is the action `ProbeForever`, after which the thread only spins. One thread uses
the book, so a call is one action. `Modulus` stands for 2^64.

### EMS (refines OrderTable)

The same for the EMS's map, which never erases. `Modulus` stands for 2^32.
`Refused` collects the calls that change nothing. The price is stored and never
used, and left out.

### AsyncLogger

Producers, the background thread and the thread that calls `init` and `shutdown`
interleave at their accesses to shared state: the push of `log`, the loop
condition, the refresh of the list under the mutex, each pop, the final test of
`running_`, the two halves of `shutdown`. The queues are used as `BoundedFifo`
describes them, plus that a `pop` may miss a record just pushed. `open`,
`ftruncate`, `mmap`, `mremap` may fail. A record takes one unit of the file. Every
thread registers under an id of its own.

### OrderEntry

`StrategyEngine::sendOrder` with the risk engine and the gateway. The atomic position
is its modification order; a relaxed load returns any value not older than the
last one the thread has seen, `fetch_add` acts on the newest. A message is
`MsgUnits` units; `::send` takes some of the rest of it, or reports that the buffer is
full, or an error. `Transmit` and `Disconnect` are the kernel and the network. `reset_position` is a
store of zero by any thread at any time. `counted` and `forgotten` are history: what each order has
added to the position, and which orders a reset has dropped from it.

### NetworkEventLoop

The kernel's side is the table of descriptors, epoll's interest set and its ready list, in
which a descriptor is once at most; a new socket gets the lowest free number. The loop's
side is `fd_callbacks_`, `running_` and the thread: `LoopTest` (the `while`), `EpollWait` (takes up to
`MaxEvents` of the ready list), `Dispatch` (one event), `BatchDone`. A callback in the table is
the descriptor's "own", or "stale" when its socket was closed since or its registration failed, since
the code removes none. The three `add...` functions differ in the socket calls that set a
socket up and share `registerFd`; any of these calls may fail, and the socket is then closed again. A
callback that is in execution is not affected by growth of the table: the closures of the repository
are too large for the small buffer of `std::function`, so that the vector's move leaves them where
they are. `running_` is a plain `bool` that `stop` may write in another thread, a data race; the
loop calls functions the compiler cannot see through between two reads of it, so that it is read
again in each turn and the outcome is the old or the new value.

The program around the loop is any that follows the rule that the callers in the repository
follow: a callback may read, accept, add sockets, close connections it has accepted and call `stop`, and if
it closes its own descriptor it returns; it closes no other socket of the loop.
The mutant `CloseOwnOther` shows that the rule is needed: without it a callback runs for a
closed descriptor.

### ExchangeEmulator (composes NetworkEventLoop and WireFormat)

The two callbacks of `ExchangeEmulator.cpp` with the loop of the module before: each action
is an action of the loop and what the program does with its own state. The listener's callback accepts one client
for each event and calls `addTCPClient("0.0.0.0", 0, ...)`. The kernel refuses this connection, at once
or later; then the new socket becomes readable, `recv` reports the error, and the end of the stream if
it is called again. The callback would relay an order that it reads (`RecvOrder`); no
connection of a client is ever the socket of that callback, which is the finding.

### WireFormat

Pure operators on the bytes of the messages: the builders of OUCH and ITCH, both parsers, byte
swaps, timestamps and padded text. `Store` is an assignment of a swapped integer and `Load`
the swap of a field that is read, both on a little-endian host; `BigEndian` and `IsText` are the
reference, written from the protocol and not from the code. `relay` is the
emulator's way from an order to the message it broadcasts. `Weight` is what a byte is worth by its place, as
a recursive function, so that the proofs can reason about it. The operators are used on the
orders and messages of the other modules, which have the module's constants and an instance `Wire` of it:
`OrdersAreEncoded` of `OrderEntry` encodes every order that is approved, and `FeedIsDecoded` of
`Pipeline` decodes the bytes of every message that the network thread gets, and of the relay of every order among them.

### Pipeline (composes BoundedFifo and PriceTimeBook)

`Main.cpp` with its three threads. The queue is `BoundedFifo`, which `SPSCQueue` is proved
to implement, and the levels of the book are the queues of `PriceTimeBook`, which `OrderBook`
is proved to implement; the endless probe and the exhausted pool of the book are questions of
`OrderBook` and left out here, so the pipeline says nothing about a book that runs out of nodes. Because `main` passes the shares
that an X message cancels to `modify` as the new quantity, a second partial cancel can look like an increase and
send the order to the back; `OvertakenOnlyAfterGrowth` says that this is the only way an order loses its place. The network thread goes through `EpollWait`, `Recv`, `Push`:
`ready` is the edge-triggered event, raised by each arrival and consumed by `epoll_wait`, and
`Recv` reads one datagram as the callback does. The strategy thread tests `is_running`
(a relaxed load, which may return the old value), pops, applies the message by the
`switch` of `Main.cpp` and shows it to `MarketMakerStrategy`; nobody else sees its
book, so pop to `onMarketDataUpdate` is one step. `sendOrder` may return true or false.
The main thread's steps are `Stop`, `Join` (with the detach), `FreeQueue`, `Exit`; a push into
the freed queue crashes (`ShutdownIsGraceful` denies that this happens, and is violated). A decoded message has the fields that `parse` assigns; a reader of
any other field finds an arbitrary value (`Values`). Outside is an exchange with a
book of its own, whose feed is legal for that book, and a network that may lose datagrams.

## 3. The runs

Twelve runs; "violation" runs check one statement of a doc or a comment that the
code does not keep, and TLC's trace shows how.

| Run | Expect | Shows |
|---|---|---|
| `spsc_queue` | pass | `NoDataRace`, `RingInv`, refinement of the FIFO with liveness (`ImplementsFifo`), `PushReturns` |
| `order_book` | pass | `PoolIsPartitioned`, `ListsAreConsistent`, `VolumeIsSum`, `MapFindsResting`, `ImplementsPriceTime`, with collisions, tombstones, reuse, an exhausted pool and a map without empty slots |
| `order_map_probe` | violation | `ProbesEnd`: tombstones fill the map and a lookup never ends |
| `ems` | pass | `TypeOK`, `KeysAreReachable`, `ProbesEndWhileRoom`, `StateMatchesQuantity`, `DeadStaysDead`, `ImplementsTable` |
| `async_logger` | pass | `TypeOK`, `InOrderAtMostOnce`, `MappedWhileDraining`, `LogReturnsWhileRunning`, `ShutdownReturns` |
| `async_logger_flush` | violation | `ShutdownFlushes`: a record logged before shutdown stays in its queue |
| `order_entry` | pass | `TypeOK`, `OvershootIsBounded`, `UnitsInOrder`, `WireIsCounted`, `OrdersAreEncoded`, `SendOrderReturns`, with two strategy threads and a reset |
| `pipeline` | pass | `TypeOK`, `AppliedInOrder`, `NothingMissing`, `FeedIsDecoded`, `OvertakenOnlyAfterGrowth`, `HitsRestingBid`, `PushReturnsWhileRunning`, `StopEnds` |
| `event_loop` | pass | `TypeOK`, `InterestHasCallback`, `BatchIsLive`, `UnseenIsPending`, `ArrivalIsDispatched`, `StopReturns` |
| `exchange_orders` | violation | `OrdersAreRead`: the orders of an accepted client stay unread |
| `pipeline_drain` | violation | `SocketIsDrained`: a datagram that arrives with another stays in the socket |
| `pipeline_shutdown` | violation | `ShutdownIsGraceful`: the detached network thread pushes into the queue that `main` has freed |

The runs of the queue and the book do not check their type invariants, which are proved for every
instance (section 4).

Deadlock is checked in the queue, book and EMS runs. In the logger and order entry
runs the bounds on the number of calls end the behaviours, the pipeline ends when its process
does, and the event loop when it was destroyed or waits for events that do not come, so there it is not.

### Bounds

* `spsc_queue`: 4 slots and 3 items: the ring fills, empties and wraps with every
  lag between the indices and their views; 3 items tell order, loss and
  duplication apart. Nothing else is bounded; the state space is complete.
* `order_book`: 3 nodes let an order be removed at the head, in the middle and at
  the tail; one valid and one invalid price on two sides; quantities 0, 1, 3
  modulo 4 make volumes wrap; ids 5 and 11 collide in the last of 6 slots, so that the probe wraps round, and the second
  of them lands where id 0 belongs. Behaviours start with a new book, or with one after some use (`UsedInit`: three
  other orders have come and gone and left tombstones), so that slots are reused and the map gets to have no
  empty slot. No bound on the number of calls.
* `order_map_probe`: 2 nodes, 4 slots and 5 ids, so that tombstones fill the map.
* The runs of the book use the view `LiveState` of `MCOrderBook`, which identifies states that differ
  only in data no call reads before writing it: the fields other than `next` of a free
  node (`add` assigns id, side, price and quantity, `insert_order` assigns
  `prev` and `next`), and the key of a tombstone (`map_find` compares it only in slots
  that are not tombstones, `map_insert` stops at a tombstone whatever its key).
* `ems`: 2 slots, 3 ids of which two collide and that do not all fit, quantities
  0, 1, 3 modulo 4. No bound on the number of calls.
* `async_logger`: two producers with two records each, queues of one record, two
  starts, one failure: full queues, restarts with leftovers and a failed
  extension all occur. The bound on the records ends all logging, which no code does: a thread that logs without end
  can keep the background thread at its queue, so the two liveness properties exclude it by name (`KeepsLogging`).
* `order_entry`: two threads with three approved orders in total and one reset, limit 2, orders up to
  2 (3 is tried and rejected), messages of two units and a buffer of three: partial writes, a buffer that
  fills within a message, interleaved messages, and a reset between a check and its update all occur.
* `event_loop`: three descriptor numbers, of which the last does not fit into the initial table of three
  entries, so that the table grows, also inside a callback; batches of two with three
  sockets ready; numbers are closed and used again without limit, and one item
  waits in a socket at most. No bound on the number of steps.
* `OrdersAreEncoded` and `FeedIsDecoded` use bytes of one bit and integers of one or two bytes: ids,
  shares and prices take values whose bytes differ, so a missing swap or a wrong width shows. Symbols
  are empty, shorter than their field, as long, and longer.
* `exchange_orders`: one client with one order; one is enough to be ignored.
* `pipeline`: a feed of two datagrams, followed, when nothing was lost, by up to two partial cancels (`MaxCancels`), a
  queue of one, a socket of two: one message in the queue makes a push wait while another datagram is in the
  socket. Orders of three shares can be cancelled or executed in part; two orders and two cancels of the
  first, of one share and then of two, are the shortest feed in which an order is overtaken. One price is inside the book's range and one outside, and
  both trigger the strategy. `pipeline_drain` needs two datagrams, `pipeline_shutdown` one.

### Fairness

Threads are pinned to cores of their own and none of the modelled loops blocks, so a
thread inside an operation takes its next step (weak fairness per step). A store
becomes visible to a thread that keeps loading: weak fairness of
`PushCheck(read_index)` and `PopCheck(write_index)`, and strong fairness of
`bg_pop` of a queue and of `log_push`, whose loops see room or a record only at
the instants they look. No fairness makes anybody call `push`, `log`, `init`,
`shutdown` or `sendOrder`. `LogReturnsWhileRunning` and `ShutdownReturns` hold unless a thread's calls of `log` go on without
end: the background thread's inner loop (`AsyncLogger.cpp:189`) need not end then, and no scheduling excludes it. In `OrderEntry` only a thread inside `sendOrder`
has to go on; the kernel need not make room. In `Pipeline` every thread goes on, and the loads
of `is_running` and of the queue's index see the new value in the end (strong fairness of
`StrategyLeaves` and `StrategyPop`, whose loop looks only now and then); nobody has to
publish, and nobody has to press Enter. `StopEnds` is about the `join` in `main`: it returns, also when the network thread
waits for room in the queue. In `NetworkEventLoop` the thread goes on (weak
fairness of each of its steps: `epoll_wait` returns when the list is not empty) and callbacks return;
nothing has to arrive and nobody has to call `run` or `stop`. `StopReturns` is therefore said only of a stop
that comes while events are handled: a thread that blocks in `epoll_wait` is not woken. `ExchangeEmulator`
adds that its `main` gets to `run` and that its callbacks go through their statements.

## 4. Proofs

`SPSCQueueProofs` proves, for every `Capacity >= 2` and every set of items
(`CapacityAssumption`, `ItemAssumption`):

* `TypeCorrect`: the type invariant;
* `RingInvariant`: `RingInv`, the inductive invariant. `NoDataRace` by itself is not
  inductive: it needs to know why the slot a thread holds cannot be the other's.
  `RingInv` says it: going round the ring one meets, in this order, the producer's view
  of the read index, the read index, the consumer's view of the write index and the
  write index, without a full turn; a thread past its test has seen room or an item; and
  a slot keeps its content while it is in hand. `Distance` turns the order
  into linear arithmetic the SMT solver can decide;
* `RaceFreedom`: `NoDataRace`, from `TypeOK` and `RingInv`;
* `Refinement`: `Safety => Fifo!Safety`. `PushPublish` maps to `Put`, `PopRelease` to
  `Get`, every other step to a stutter; `SlotBehind` and `TailIsShifted` describe how
  the sequence of pending items moves.

`EMSProofs` proves, for every size of the map, every set of ids and every width of the
quantities (`EMSAssumption`):

* `EMSTypeCorrect` and `ProbePaths`: `TypeOK /\ KeysAreReachable` is inductive. `KeysAreReachable`
  says that the probe for the key of an occupied entry gets to it, over entries that are
  occupied by other keys. Without it a new entry could land in front of an old one of the same id
  and hide it, and a record could appear when a gap on its path is filled;
* `LookupsReturn`: `ProbesEndWhileRoom`. A probe looks at every slot in one turn round the map (`AroundTheMap`), so one
  that does not end has found no slot empty; this stays so, since entries are never freed (`StuckIsFull`). The
  keys are ids that calls were made with (`KeysAreIds`) and, by `ProbePaths`, all different, so that a map without an empty slot
  has as many orders as slots (`FullMap`): no collision of ids makes a call hang before that;
* `StatesMatch`, `DeadOrders` and `TableRefinement`: `StateMatchesQuantity`,
  `DeadStaysDead` and `ImplementsTable`. The lemma `Storing` is the heart of it: storing an order where
  the probe for its id ends makes it the record of that id, and leaves the record of every other
  id alone. `Step` goes through the calls once and reduces each to a move of one record; the
  theorems then argue about single records. The least element that the probe loop stops at
  comes from the well-foundedness of the natural numbers (`MinIsLeast` of `DataLemmas`).

`NetworkEventLoopProofs` proves, for every range of descriptor numbers, initial size of the table,
size of a batch and backlog (`LoopAssumption`), from the invariant `LoopInv`:

* `LoopTypeCorrect`, `CallbacksFound`, `BatchLive` and `EdgesKept`: `TypeOK`, `InterestHasCallback`,
  `BatchIsLive` and `UnseenIsPending`. Together they are not inductive: a new socket could have a
  number that is still in epoll's list or noted as unseen, and a callback that closes its
  descriptor could leave it in the rest of the batch. `Bookkeeping` excludes this: epoll's set holds
  open sockets of the loop only, its list is part of the set and without repetition, as
  is the batch, which does not hold the descriptor whose callback executes. `Growing` says
  that storing a callback keeps all others, whether the table grows or not; `Appending`,
  `Taking`, `Cutting` and `Removing` say how sequences without repetition move;
  then there is a lemma for each kind of step.

The same module, which extends the emulator's, proves `EmulatorBatchLive`: every step of the emulator is to the loop a step of its
specification or none (`EmulatorSteps`), so that the emulator keeps to the rule above and inherits what
was proved; and `NothingRelayed`: the emulator's feed stays empty. This is the finding of `exchange_orders` for every number of
clients and orders: the connection of a client is a socket that the loop does not know (`ClientsUnheard`), so it is
never the descriptor of a callback, and no order is read or relayed.

`AsyncLoggerProofs` proves, for every number of threads, records, starts and failures, every capacity of the
queues and every size of the file (`LoggerAssumption`), from the invariant `LoggerInv`:

* `LoggerTypeCorrect`, `RecordsInOrder` and `MappingHeld`: `TypeOK`, `InOrderAtMostOnce` and `MappedWhileDraining`.
  What the file holds of a thread is in order only because its queue is in order behind it: the invariant is
  about the file followed by the queue, and says in addition that no number in either
  exceeds what the thread has logged. The mapping is held because the main thread leaves it alone until the
  background thread has ended (`ControlKept`).

`OrderEntryProofs` proves, for every set of strategy threads, every limit and every size of the messages and of
the send buffer (`EntryAssumption`), from the invariant `EntryInv`:

* `EntryTypeCorrect`: `TypeOK`;
* `OvershootBounded`: `OvershootIsBounded`. The bound follows from `Headroom`, which holds on both sides
  of the position: one thread may still find room for some rest, every other one that can still
  load a value below the limit may add a whole order, and together this stays within the
  bound. An addition makes its thread aware of the new value, which pays for the next one;
* `WireCounted`: `WireIsCounted`, from `CountedOnce` and `SendingIsCounted`: an order is counted before it is
  handed to `send`, once, unless a reset has dropped it;
* `UnitsOrdered`: `UnitsInOrder`, from the invariant that the units on the wire and in the buffer
  are rising and that none is beyond what its `send` has handed over;
* `OrdersEncoded`: `OrdersAreEncoded`, for every number of values of a byte, every width of the integers and every size of
  the text fields (`WireAssumption`; the code's are 256, `b \div 8`, 14 and 8). A swap and a store are the digits of a number
  turned round twice (`SwappedStore` of `DataLemmas`).

`DataLemmas` has the facts about data that several of these modules cite: the least element of a set of numbers,
induction over the natural numbers and over finite subsets, as facts about
sets rather than operators, and from them that `SumFunctionOnSet` of the community modules is
the sum of what remains and what is taken out, in whatever order the fold goes; what is left of a sequence
from which one element is cut; and what the wire formats rest on. `Recursion` gives, for a function that takes a value to the
next, the recursive function on the natural numbers, so that a definition like `Weight` equals its unfolding;
`Division`, `DivisionUnique` and `DivisionChain` are the arithmetic of quotient and remainder;
`NumberOfDigits` and `DigitsOfNumber` say that taking the digits of a number to any base and adding them up by their
place values are inverse to each other, from which follow a store and a load in swapped order (`SwappedStore`,
`SwappedLoad`, `HighestRead`); and `PaddedText`, `PaddedBlank` and `PaddedTwice` are about texts in fields.

`PipelineProofs` proves, for every length of the feed, every set of prices and every size of the socket's buffer
and of the queue (`PipelineAssumption`), from the invariant `PipelineInv`:

* `PipelineTypeCorrect`, `MessagesInOrder` and `NothingIsMissing`: `TypeOK`, `AppliedInOrder` and `NothingMissing`. The
  books of the two sides differ by what is under way: in the queue, in the hand of the network thread and in the
  socket. `BooksInv` says so: the orders of the exchange's book are distinct and were fed, the messages under way
  that add an order are of orders the strategy's book does not have yet, and an order that stands at the exchange and has not been
  lost is in the strategy's book or under way. There is a lemma for each way the sequence of what is under way
  moves (`PushFlight`, `RecvFlight`, `PopFlight`, `PublishFlight`), and then one for what the move does to the books;
* `RestingBidHit`: the action property `HitsRestingBid`;
* `FeedDecoded`: `FeedIsDecoded`, for every base, width and size of text, provided that the ids, shares and prices of the feed
  fit into their fields (`WidthAssumption`). `Stored` and `Loaded` say that what is written highest byte first and what is
  read with a swap agree; `Decoded` goes through the types of messages, and `Relayed` follows an order through the builder
  of OUCH, its parser, the builder of ITCH and its parser;
* `OvertakingIsExplained`: `OvertakenOnlyAfterGrowth`, also for feeds of which datagrams are lost. Not inductive by itself: that
  a cancel found the order at fewer shares than it tells has to come from an earlier cancel and not from the message that added it.
  `PlacesInv` says why: no message tells more shares of an order than the one that added it (`SharesShrink`), the shares in the
  book are those that some applied message told (`SharesAreTold`), and the orders that are under way are younger than those in the book
  and come in their order (`AddsAscend`), so that a new order never has to be placed ahead. `WithoutInOrder`, `ModifyInOrder` and
  `CancelInOrder` say what the operations do to the order of a queue.

`OrderBookProofs` proves, for every size of the pool and of the price range, every set of ids and quantities and every width
of the volumes (`BookAssumption`):

* `BookTypeCorrect`: `TypeOK`, which is inductive by itself;
* `BookInvariant`: `BookInv` holds. It says that there are lists, one for each level and one of the free nodes (the set `Anchor`),
  which are sequences of nodes without repetition that share no node and cover the pool; that the links of
  the pool, the heads and tails and the volumes of the levels describe them (`Threaded`); and that the map knows the
  nodes of the levels (`MapInv`): an entry with a node is of a resting order, there is one for each, the ids
  are distinct, and the probe for a resting id gets to its entry without meeting an empty slot. None of the four invariants below is
  inductive without the others: `remove_order` is right only when the links of both neighbours agree, `cancel`
  reaches the node of its id only through the map, the map stays right only when the node is not in
  use elsewhere, and a volume stays a sum only when the node that leaves is one of the list;
* the argument has one lemma for what each helper does to the lists (`Allocating`, `Deallocating`, `Linking`, `Unlinking`),
  to the map (`Inserting`, `Erasing`) and to the volumes (`VolumeIn`, `VolumeOut`, over `ModularSum`), and one for each
  call (`Adding`, `Cancelling`, `Increasing`, `Reducing`), which puts them together in the order of the code;
* `PoolPartitioned`, `ListsConsistent`, `VolumesAreSums` and `MapFinds`: `PoolIsPartitioned`, `ListsAreConsistent`, `VolumeIsSum` and
  `MapFindsResting`. These read the lists off the links by a walk from the head; `WalkAlong` and `ListRead` say that
  the walk reads the list of the invariant;
* `BookRefinement`: `ImplementsPriceTime`. The queue of a level is the `Image` of its list, so that linking at the tail
  appends an order, unlinking cuts it out and `modify` downwards replaces it in its place. `RoomLeft`
  says that the abstract book is not full when a node is free: its orders map one to one into the pool without the
  head of the free list.

`BookInv` quantifies over all lists, which TLC cannot enumerate; the run `order_book` checks what it is for, the four invariants.

Only model-checked: liveness (`PushReturns`, the fairness part of
`ImplementsFifo`, `LogReturnsWhileRunning`, `ShutdownReturns`,
`SendOrderReturns`, `PushReturnsWhileRunning`, `StopEnds`, `ArrivalIsDispatched`,
`StopReturns`), which is out of the prover's reach. Every safety property of a passing run has its theorem.

## 5. Findings

Each is the result of a violation run; `PROJECT.json` quotes the line the code
disagrees with.

* The book's map never turns a tombstone back into an empty slot: after enough
  distinct ids, a lookup of an id that does not rest never returns
  (`OrderBook.cpp:108`).
* Records logged before `shutdown` can stay in their queues (`AsyncLogger.cpp:202`
  and the loop condition at 173).
* The emulator registers a socket of its own in place of the client it has accepted,
  and the orders of the client are never read (`ExchangeEmulator.cpp:60`).
* One `recv` for each edge-triggered event leaves datagrams of a burst in the socket
  (`Main.cpp:126`, `NetworkEventLoop.cpp:51`).
* `main` frees the queue while the detached network thread still runs, and a push then writes into freed
  memory, where `main` prints "System shut down gracefully." and the sequence diagram ends with "Graceful shutdown complete"
  (`Main.cpp:168`, action `PushFreed`).

Seen in the models, without a run of their own: a message cut off by a full buffer is not
completed, and the next one follows it directly (`TCPEgress.cpp:28`); the shares that an X message
cancels become the quantity of the order, and E and C messages are not applied
(`Main.cpp:78`); the emulator accepts one client for each edge-triggered event, so of two that connect
together one waits for a third (`ExchangeEmulator.cpp:51`), and it closes no accepted descriptor; `stop`
before `run` is lost, since `run` sets the flag, and `stop` does not wake `epoll_wait`
(`NetworkEventLoop.cpp:182` and 204); what is on the wire may exceed what the position says after a reset, and
falls short of it by the orders that `send` has given up; a late reject or cancel, or a further fill that wraps the
executed quantity, moves an order out of FILLED, which the state diagram in `docs-site/docs/uml` shows as final
(`EMS.cpp:100`); `sendOrder` returns true and has counted the order in the position although
`send` gave it up, where `StrategyEngine.hpp:42` says "approved and sent"
(`StrategyEngine.cpp:58`); the strategy sells to a bid whose price the
book does not have (hence the exception in `HitsRestingBid`); the EMS's map has the same endless
probe once 2 * max_orders ids have been sent (action `ProbeForever`; `ProbesEndWhileRoom` says that it
does not come earlier); `log` on a full
queue waits forever when the logger is down (hence "WhileRunning"), and may wait forever while another thread logs without
end, since the background thread leaves a queue only when it is empty (`AsyncLogger.cpp:189`); a second `init`
keeps the offset of the first file; with several strategy threads the position
exceeds `max_position` by what `OvershootIsBounded` allows.

Where a document says something else than the code and the models follow the code:

* `docs-site/docs/execution-management-system.md:28`: "The EMS frees the slot for future use" of a canceled order. The EMS frees no
  slot (`EMS.cpp:128`): a canceled order stays in the map, `DeadStaysDead` is about it, and the map fills with such orders.
* `docs-site/docs/pre-trade-risk-engine.md:44`: "Once an order is approved and successfully sent to the network buffer, the position is
  updated". `sendOrder` updates the position first, sends then, and does not take the update back when
  sending fails (`StrategyEngine.cpp:52-59`). `WireIsCounted` states the order of the code: an order on the wire has been counted.
  With the order of the document it would fail, since parts of an order could be on the wire before it is counted.
* `docs-site/docs/tcp-egress-networking.md:36`: `TCPEgress` "includes lightweight spin-retry logic to guarantee transmission". It
  returns false at the first `EAGAIN` and drops the rest of the message (`TCPEgress.cpp:28-32`, as the comment there says).
  `SendOrderReturns` holds because of that: with a retry, `sendOrder` would wait for as long as the peer reads nothing.
* `docs-site/docs/itch-pipeline-architecture.md:95`: "Because the quantity is strictly decreasing, the order *retains its time
  priority*". Executions are not applied, and the shares of a partial cancel become the quantity, which may grow, so that the order
  goes to the back of its level (`Main.cpp:78`). `OvertakenOnlyAfterGrowth` says exactly when.

## 6. Not modelled

* `NumaAllocator`, `ThreadAffinity`, `TSCUtils`, `Payload`, the benchmarks: wrappers
  around one system call or measurement code without a protocol of their own.
* The text of log records; of OUCH messages, the `firm` text and the one-character fields that are always the same.
* Several strategies in one `StrategyEngine`: `main` registers one.
* Two threads that register with the logger under one id, and calls of `init` and `shutdown` by
  several threads.
* A callback that closes a descriptor of another callback, or its own and then goes on: no
  caller does, and the loop has no defence against it.

## 7. Plan

Done, in this order: the queue and its proof, since every other thread boundary rests
on it; the book; the EMS and its proof; the logger; order entry; the pipeline that composes them;
the event loop and its proof; the emulator over it; the wire formats; the proofs about the logger, order entry
and the pipeline; the proof about the book; the proofs about the wire formats and about the places of orders in the
strategy's book.

Next, models: two producers on one `SPSCQueue`, which is what two threads that register under one
logger id are; several strategies in one engine.

Next, proofs: those of these two models.
