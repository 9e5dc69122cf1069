------------------------------ MODULE SPSCQueue ------------------------------
(***************************************************************************)
(* include/SPSCQueue.hpp: the lock-free single-producer single-consumer    *)
(* ring that carries market data (Main.cpp) and log records                *)
(* (AsyncLogger.cpp) between threads.                                      *)
(*                                                                         *)
(* A step is one access to memory the two threads share; a load of the     *)
(* index a thread owns is part of the step that follows it.  An acquire    *)
(* load may return an old value of the other thread's index: any value     *)
(* that index has held since the last value this thread has read           *)
(* (`seen_read', `seen_write').  What a release store publishes is visible *)
(* to the thread that has acquired it, so a slot is read from `data' as it *)
(* is, unless the other thread may be writing it: see NoDataRace.          *)
(*                                                                         *)
(* Both callers retry a push that returns false with the same item         *)
(* (while (!push(msg))), and poll with pop; so do the threads here.        *)
(***************************************************************************)
EXTENDS Naturals, Sequences

CONSTANTS Capacity,  \* the template parameter: number of slots
          Item,      \* the values of the template parameter T
          NoItem     \* the content of a variable no pop has assigned yet

ASSUME CapacityAssumption == Capacity \in Nat /\ Capacity >= 2
ASSUME ItemAssumption == NoItem \notin Item

VARIABLES
    write_index, read_index, data,  \* the members of the queue
    ppc,        \* where the producer is: idle or inside push
    offered,    \* push's parameter
    seen_read,  \* the value the producer last loaded from read_index
    cpc,        \* where the consumer is: idle or inside pop
    item,       \* pop's out parameter
    seen_write, \* the value the consumer last loaded from write_index
    delivered   \* the value the consumer holds since pop last returned true

producer == <<ppc, offered, seen_read>>
consumer == <<cpc, item, seen_write, delivered>>
vars == <<write_index, read_index, data, producer, consumer>>

Slot == 0 .. Capacity - 1

\* The successor of an index, (i + 1) % Capacity.
NextIndex(i) == (i + 1) % Capacity

\* How often an index that stands at a has to advance to stand at b.
Distance(a, b) == IF a <= b THEN b - a ELSE b + Capacity - a

\* The values an index that went from a to b has held.
Between(a, b) == {x \in Slot : Distance(a, x) <= Distance(a, b)}

\* data starts as whatever the allocated memory holds.
Init ==
    /\ write_index = 0 /\ read_index = 0
    /\ data \in [Slot -> Item]
    /\ ppc = "idle" /\ offered = NoItem /\ seen_read = 0
    /\ cpc = "idle" /\ item = NoItem /\ seen_write = 0 /\ delivered = NoItem
------------------------------------------------------------------------------
\* The producer has an item to push.
PushCall(v) ==
    /\ ppc = "idle"
    /\ ppc' = "check" /\ offered' = v
    /\ UNCHANGED <<write_index, read_index, data, seen_read, consumer>>

\* Mutant: push does not test whether the queue is full.
PushCheckNoTest(r) ==
    /\ ppc = "check"
    /\ seen_read' = r /\ ppc' = "write"
    /\ UNCHANGED <<write_index, read_index, data, offered, consumer>>

\* Mutant: push tests a cached read index that it never loads again.
PushCheckCached(r) ==
    /\ ppc = "check"
    /\ ppc' = IF NextIndex(write_index) = seen_read THEN "check" ELSE "write"
    /\ UNCHANGED <<write_index, read_index, data, offered, seen_read, consumer>>

\* read_index_ is loaded as r; the queue looks full if the next write position
\* equals it, and then push returns false and is called again.
PushCheck(r) ==
    /\ ppc = "check"
    /\ seen_read' = r
    /\ ppc' = IF NextIndex(write_index) = r THEN "check" ELSE "write"
    /\ UNCHANGED <<write_index, read_index, data, offered, consumer>>

\* Mutant: the item is written to the next write position.
PushWriteNext ==
    /\ ppc = "write"
    /\ data' = [data EXCEPT ![NextIndex(write_index)] = offered]
    /\ ppc' = "publish"
    /\ UNCHANGED <<write_index, read_index, offered, seen_read, consumer>>

PushWrite ==
    /\ ppc = "write"
    /\ data' = [data EXCEPT ![write_index] = offered]
    /\ ppc' = "publish"
    /\ UNCHANGED <<write_index, read_index, offered, seen_read, consumer>>

PushPublish ==
    /\ ppc = "publish"
    /\ write_index' = NextIndex(write_index)
    /\ ppc' = "idle"
    /\ UNCHANGED <<read_index, data, offered, seen_read, consumer>>
------------------------------------------------------------------------------
\* write_index_ is loaded as w; the queue looks empty if the read position
\* equals it, and then pop returns false.
PopCheck(w) ==
    /\ cpc = "idle"
    /\ seen_write' = w
    /\ cpc' = IF read_index = w THEN "idle" ELSE "read"
    /\ UNCHANGED <<write_index, read_index, data, producer, item, delivered>>

PopRead ==
    /\ cpc = "read"
    /\ item' = data[read_index]
    /\ cpc' = "release"
    /\ UNCHANGED <<write_index, read_index, data, producer, seen_write, delivered>>

\* Mutant: pop returns the item and leaves it in the queue.
PopReleaseKeeps ==
    /\ cpc = "release"
    /\ cpc' = "idle" /\ delivered' = item
    /\ UNCHANGED <<write_index, read_index, data, producer, item, seen_write>>

\* The slot is given back and pop returns true.
PopRelease ==
    /\ cpc = "release"
    /\ read_index' = NextIndex(read_index)
    /\ cpc' = "idle" /\ delivered' = item
    /\ UNCHANGED <<write_index, data, producer, item, seen_write>>
------------------------------------------------------------------------------
Produce ==
    \/ \E v \in Item : PushCall(v)
    \/ \E r \in Between(seen_read, read_index) : PushCheck(r)
    \/ PushWrite
    \/ PushPublish

Consume ==
    \/ \E w \in Between(seen_write, write_index) : PopCheck(w)
    \/ PopRead
    \/ PopRelease

Next == Produce \/ Consume

Safety == Init /\ [][Next]_vars

(***************************************************************************)
(* Both threads are pinned to a core of their own and never block, so each *)
(* step of an operation that was entered is taken; and a store becomes     *)
(* visible to a thread that keeps loading.  Nobody has to call push.       *)
(***************************************************************************)
Fairness ==
    /\ WF_vars(PushCheck(read_index)) /\ WF_vars(PushWrite) /\ WF_vars(PushPublish)
    /\ WF_vars(PopCheck(write_index)) /\ WF_vars(PopRead) /\ WF_vars(PopRelease)

Spec == Safety /\ Fairness
------------------------------------------------------------------------------
TypeOK ==
    /\ write_index \in Slot /\ read_index \in Slot
    /\ data \in [Slot -> Item]
    /\ ppc \in {"idle", "check", "write", "publish"}
    /\ offered \in Item \cup {NoItem}
    /\ ppc # "idle" => offered \in Item
    /\ seen_read \in Slot
    /\ cpc \in {"idle", "read", "release"}
    /\ item \in Item \cup {NoItem} /\ delivered \in Item \cup {NoItem}
    /\ seen_write \in Slot

(***************************************************************************)
(* The two threads never have the same slot in hand, one to write it and   *)
(* the other to read it: the non-atomic accesses to data_ at lines 57 and  *)
(* 81 do not race, however old the indices are that push and pop loaded.   *)
(***************************************************************************)
NoDataRace ==
    ~ (ppc = "write" /\ cpc = "read" /\ write_index = read_index)

(***************************************************************************)
(* Why the ring is safe.  What a thread knows of the other's index lags    *)
(* behind, never ahead: the producer's view, the read index, the           *)
(* consumer's view and the write index follow each other around the ring,  *)
(* and never make a full turn (lines 52 and 76).  What the producer wrote  *)
(* is what it publishes, and what the consumer took is still in the slot   *)
(* when it gives the slot back (lines 57-61 and 81-86).                    *)
(***************************************************************************)
RingInv ==
    /\ Distance(seen_read, read_index) + Distance(read_index, write_index)
           = Distance(seen_read, write_index)
    /\ Distance(read_index, seen_write) + Distance(seen_write, write_index)
           = Distance(read_index, write_index)
    /\ ppc \in {"write", "publish"} => NextIndex(write_index) # seen_read
    /\ cpc \in {"read", "release"} => read_index # seen_write
    /\ ppc = "publish" => data[write_index] = offered
    /\ cpc = "release" => item = data[read_index]

\* The accepted items still in the ring, oldest first.
Pending ==
    [i \in 1 .. Distance(read_index, write_index) |->
        data[(read_index + i - 1) % Capacity]]

Fifo == INSTANCE BoundedFifo
            WITH Bound <- Capacity - 1, queue <- Pending, delivered <- delivered

(***************************************************************************)
(* The ring is a first-in first-out queue of Capacity - 1 items, and with  *)
(* a polling consumer it is always drained: push appends at the store of   *)
(* line 61, pop takes the oldest item at the store of line 86.             *)
(***************************************************************************)
ImplementsFifo == Fifo!Spec

(***************************************************************************)
(* The spin loops around push end: an item that was offered is accepted,   *)
(* even if the loads of read_index_ return old values for a while.         *)
(***************************************************************************)
PushReturns == ppc = "check" ~> ppc = "idle"
==============================================================================
