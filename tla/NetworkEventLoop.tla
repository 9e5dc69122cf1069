-------------------------- MODULE NetworkEventLoop ---------------------------
(***************************************************************************)
(* The epoll loop: a table of callbacks indexed by descriptor number, and  *)
(* a thread that waits for edge-triggered events and calls the callbacks   *)
(* of a batch of them, one after the other.                                *)
(*                                                                         *)
(* The program around the loop is any that keeps to what the callers in    *)
(* the repository do: sockets are added before run or in a callback; a     *)
(* callback reads, accepts, adds sockets and calls stop in any order, and  *)
(* if it closes its own descriptor it then returns.  stop may also be      *)
(* called by another thread.                                               *)
(*                                                                         *)
(* The kernel gives out the lowest free number, so that numbers are used   *)
(* again; it keeps the ready descriptors in a list, once each, and a       *)
(* closed one leaves the list.  What is read is left out: `pending' counts *)
(* datagrams, connections to accept, or whatever else makes a socket       *)
(* readable.  UDP sockets and TCP connections are "reader"s alike.         *)
(***************************************************************************)
EXTENDS Naturals, Sequences

CONSTANTS FirstFd, MaxFd,  \* the numbers that are free before the first socket
          TableSize,       \* initial size of fd_callbacks_, 1024 in the code
          MaxEvents,       \* MAX_EVENTS, 64 in the code
          Backlog          \* bound: what the kernel keeps for one socket

ASSUME LoopAssumption ==
    /\ FirstFd \in Nat \ {0} /\ MaxFd \in Nat
    /\ TableSize \in Nat \ {0} /\ MaxEvents \in Nat \ {0} /\ Backlog \in Nat \ {0}

VARIABLES
    \* the kernel
    kind,          \* what each number stands for; "free" if for nothing
    pending,       \* how many items wait in each socket
    interest,      \* the descriptors epoll watches
    ready,         \* its list of descriptors with an event
    unseen,        \* history: sockets with an arrival after the last call of
                   \* their callback
    \* the loop
    fd_callbacks,  \* the table: "none", the descriptor's "own" callback, or a
                   \* "stale" one, left by a socket that was closed since
    running,
    pc,            \* out (of run), test, wait, batch, callback, destroyed
    events,        \* the rest of the batch
    current        \* the descriptor whose callback executes; NoFd if none does

kernel == <<kind, pending, interest, ready, unseen>>
loop == <<fd_callbacks, running, pc, events, current>>
vars == <<kernel, loop>>

Fd == FirstFd .. MaxFd
NoFd == 0

Free == {f \in Fd : kind[f] = "free"}

\* The number the kernel gives to the next socket, if it has one left.
NewFd == {f \in Free : \A g \in Free : f <= g}

Elements(s) == {s[i] : i \in DOMAIN s}

Distinct(s) == \A i, j \in DOMAIN s : i # j => s[i] # s[j]

\* The sequence s, which has f once at most, without f.
Without(s, f) ==
    IF f \notin Elements(s) THEN s
    ELSE LET i == CHOOSE i \in DOMAIN s : s[i] = f
         IN  [j \in 1 .. Len(s) - 1 |-> IF j < i THEN s[j] ELSE s[j + 1]]

Init ==
    /\ kind = [f \in Fd |-> "free"] /\ pending = [f \in Fd |-> 0]
    /\ interest = {} /\ ready = << >> /\ unseen = {}
    /\ fd_callbacks = [f \in 0 .. TableSize - 1 |-> "none"]
    /\ running = FALSE /\ pc = "out" /\ events = << >> /\ current = NoFd
------------------------------------------------------------------------------
(* Registration *)

\* fd_callbacks_.resize(n)
resize(n) ==
    [f \in 0 .. n - 1 |-> IF f \in DOMAIN fd_callbacks THEN fd_callbacks[f] ELSE "none"]

RoomFor(f) == IF f \in DOMAIN fd_callbacks THEN fd_callbacks ELSE resize(2 * f)

\* Mutant: a callback that is already there is kept.
TableWithOld(f) == [RoomFor(f) EXCEPT ![f] = IF @ = "none" THEN "own" ELSE @]

\* The table once registerFd has stored the callback of f.
TableWith(f) == [RoomFor(f) EXCEPT ![f] = "own"]

\* EPOLL_CTL_ADD with EPOLLET: a socket that is readable raises an event.
Watch(f, n) ==
    /\ interest' = interest \cup {f}
    /\ ready' = IF n > 0 THEN Append(ready, f) ELSE ready
    /\ unseen' = IF n > 0 THEN unseen \cup {f} ELSE unseen

\* registerFd of the new socket f, which has received n items so far.  When
\* epoll_ctl fails the caller closes the socket; the callback is not removed.
registerFd(f, k, n) ==
    \/ /\ fd_callbacks' = TableWith(f)
       /\ kind' = [kind EXCEPT ![f] = k]
       /\ pending' = [pending EXCEPT ![f] = n]
       /\ Watch(f, n)
    \/ /\ fd_callbacks' = [TableWith(f) EXCEPT ![f] = "stale"]
       /\ UNCHANGED kernel

\* The loop thread is in the program's code.
InProgram == pc \in {"out", "callback"}

\* A socket is created, set up and registered.  A failure before registerFd
\* changes nothing.
AddSocket(k) ==
    /\ InProgram
    /\ \E f \in NewFd, n \in {0, 1} : registerFd(f, k, n)
    /\ UNCHANGED <<running, pc, events, current>>

addUDPMulticastListener == AddSocket("reader")

addTCPListener == AddSocket("listener")

\* Also when the connection is still in progress.
addTCPClient == AddSocket("reader")
------------------------------------------------------------------------------
(* The loop *)

run ==
    /\ pc = "out"
    /\ running' = TRUE
    /\ pc' = "test"
    /\ UNCHANGED <<kernel, fd_callbacks, events, current>>

\* Mutant: the loop does not look at running_.
LoopTestForever ==
    /\ pc = "test"
    /\ pc' = "wait"
    /\ UNCHANGED <<kernel, fd_callbacks, running, events, current>>

LoopTest ==
    /\ pc = "test"
    /\ pc' = IF running THEN "wait" ELSE "out"
    /\ UNCHANGED <<kernel, fd_callbacks, running, events, current>>

\* Mutant: epoll_wait is told a larger number than the array has places.
BatchSizeAll == Len(ready)

\* How many events epoll_wait returns.
BatchSize == IF Len(ready) < MaxEvents THEN Len(ready) ELSE MaxEvents

EpollWait ==
    /\ pc = "wait" /\ ready # << >>
    /\ events' = SubSeq(ready, 1, BatchSize)
    /\ ready' = SubSeq(ready, BatchSize + 1, Len(ready))
    /\ pc' = "batch"
    /\ UNCHANGED <<kind, pending, interest, unseen, fd_callbacks, running, current>>

\* The table has a callback for f.
HasCallback(f) == f \in DOMAIN fd_callbacks /\ fd_callbacks[f] # "none"

\* The next event of the batch: its callback is called, or there is none.
Dispatch ==
    /\ pc = "batch" /\ events # << >>
    /\ events' = Tail(events)
    /\ \/ /\ HasCallback(Head(events))
          /\ pc' = "callback" /\ current' = Head(events)
          /\ unseen' = unseen \ {Head(events)}
       \/ /\ ~ HasCallback(Head(events))
          /\ UNCHANGED <<pc, current, unseen>>
    /\ UNCHANGED <<kind, pending, interest, ready, fd_callbacks, running>>

\* Mutant: the last event of a batch of several is not looked at.
BatchDoneShort ==
    /\ pc = "batch" /\ Len(events) <= 1
    /\ events' = << >>
    /\ pc' = "test"
    /\ UNCHANGED <<kernel, fd_callbacks, running, current>>

\* Mutant: a stop ends the batch as well.
BatchDoneOnStop ==
    /\ pc = "batch" /\ (events = << >> \/ ~ running)
    /\ events' = << >>
    /\ pc' = "test"
    /\ UNCHANGED <<kernel, fd_callbacks, running, current>>

BatchDone ==
    /\ pc = "batch" /\ events = << >>
    /\ pc' = "test"
    /\ UNCHANGED <<kernel, fd_callbacks, running, events, current>>

\* By a callback or by another thread; it does not wake epoll_wait.
stop ==
    /\ running /\ pc # "destroyed"
    /\ running' = FALSE
    /\ UNCHANGED <<kernel, fd_callbacks, pc, events, current>>

\* The destructor: stop, and the epoll instance goes; the sockets stay open.
Destroy ==
    /\ pc = "out"
    /\ pc' = "destroyed" /\ running' = FALSE
    /\ interest' = {} /\ ready' = << >>
    /\ UNCHANGED <<kind, pending, unseen, fd_callbacks, events, current>>
------------------------------------------------------------------------------
(* What a callback may do besides adding sockets and stop *)

\* recv: one item of its socket.
Recv ==
    /\ pc = "callback" /\ kind[current] = "reader" /\ pending[current] > 0
    /\ pending' = [pending EXCEPT ![current] = @ - 1]
    /\ UNCHANGED <<kind, interest, ready, unseen, loop>>

\* accept: the connection gets a descriptor, which the loop does not know.
Accept ==
    /\ pc = "callback" /\ kind[current] = "listener" /\ pending[current] > 0
    /\ pending' = [pending EXCEPT ![current] = @ - 1]
    /\ \E f \in NewFd : kind' = [kind EXCEPT ![f] = "accepted"]
    /\ UNCHANGED <<interest, ready, unseen, loop>>

CloseAccepted(f) ==
    /\ pc = "callback" /\ kind[f] = "accepted"
    /\ kind' = [kind EXCEPT ![f] = "free"]
    /\ UNCHANGED <<pending, interest, ready, unseen, loop>>

Return ==
    /\ pc = "callback"
    /\ pc' = "batch" /\ current' = NoFd
    /\ UNCHANGED <<kernel, fd_callbacks, running, events>>

\* close(f) of a registered socket: f leaves epoll; its callback is not removed.
Close(f) ==
    /\ kind' = [kind EXCEPT ![f] = "free"]
    /\ pending' = [pending EXCEPT ![f] = 0]
    /\ interest' = interest \ {f}
    /\ ready' = Without(ready, f)
    /\ unseen' = unseen \ {f}
    /\ fd_callbacks' = [fd_callbacks EXCEPT ![f] = "stale"]

\* Mutant: the callback closes a descriptor that is not its own.
CloseOwnOther ==
    /\ pc = "callback"
    /\ \E f \in interest : Close(f)
    /\ pc' = "batch" /\ current' = NoFd
    /\ UNCHANGED <<running, events>>

\* The callback closes its descriptor and returns.
CloseOwn ==
    /\ pc = "callback"
    /\ Close(current)
    /\ pc' = "batch" /\ current' = NoFd
    /\ UNCHANGED <<running, events>>

\* Something arrives: an edge, unless the event is in the list already.
Arrive(f) ==
    /\ f \in interest /\ pending[f] < Backlog
    /\ pending' = [pending EXCEPT ![f] = @ + 1]
    /\ ready' = IF f \in Elements(ready) THEN ready ELSE Append(ready, f)
    /\ unseen' = unseen \cup {f}
    /\ UNCHANGED <<kind, interest, loop>>

LoopStep == LoopTest \/ EpollWait \/ Dispatch \/ BatchDone

Callback ==
    \/ Recv \/ Accept \/ Return \/ CloseOwn
    \/ \E f \in Fd : CloseAccepted(f)

Next ==
    \/ addUDPMulticastListener \/ addTCPListener \/ addTCPClient
    \/ run \/ stop \/ Destroy
    \/ LoopStep \/ Callback
    \/ \E f \in Fd : Arrive(f)

\* The loop thread goes on, and callbacks return.
LoopFairness ==
    WF_vars(LoopTest) /\ WF_vars(EpollWait) /\ WF_vars(Dispatch)
        /\ WF_vars(BatchDone) /\ WF_vars(Return)

Spec == Init /\ [][Next]_vars /\ LoopFairness
------------------------------------------------------------------------------
TypeOK ==
    /\ kind \in [Fd -> {"free", "reader", "listener", "accepted"}]
    /\ pending \in [Fd -> 0 .. Backlog]
    /\ interest \subseteq Fd /\ unseen \subseteq Fd
    /\ ready \in Seq(Fd) /\ events \in Seq(Fd) /\ Len(events) <= MaxEvents
    /\ \E n \in 0 .. TableSize + 2 * MaxFd : fd_callbacks \in [0 .. n -> {"none", "own", "stale"}]
    /\ running \in BOOLEAN
    /\ pc \in {"out", "test", "wait", "batch", "callback", "destroyed"}
    /\ current \in Fd \cup {NoFd}

(***************************************************************************)
(* Every descriptor that epoll watches has its own callback in the table:  *)
(* across growth of the table inside a callback, numbers that are used     *)
(* again, and registrations that failed (NetworkEventLoop.cpp:42-60).  So  *)
(* no event is dropped for want of a callback and none reaches the         *)
(* callback of an earlier socket.                                          *)
(***************************************************************************)
InterestHasCallback ==
    \A f \in interest : f \in DOMAIN fd_callbacks /\ fd_callbacks[f] = "own"

(***************************************************************************)
(* The events still to be dispatched, and the callback that executes, are  *)
(* of sockets that are open and watched, each at most once in a batch: no  *)
(* callback runs for a descriptor that an earlier callback of the same     *)
(* batch has closed (NetworkEventLoop.cpp:190-197).                        *)
(***************************************************************************)
BatchIsLive ==
    /\ Elements(events) \subseteq interest
    /\ current # NoFd => current \in interest
    /\ Distinct(events)

(***************************************************************************)
(* An arrival that the socket's callback has not been called for is in     *)
(* epoll's list or in the batch: no edge is lost, also when the batch is   *)
(* full, the loop is stopped in the middle or the arrival comes before the *)
(* registration.                                                           *)
(***************************************************************************)
UnseenIsPending ==
    unseen \cap interest \subseteq Elements(ready) \cup Elements(events)

(***************************************************************************)
(* While the loop runs, every arrival is followed by a call of the         *)
(* socket's callback, however busy the other sockets are                   *)
(* (NetworkEventLoop.cpp:186-198).                                         *)
(***************************************************************************)
ArrivalIsDispatched ==
    \A f \in Fd : f \in unseen \cap interest /\ running ~> f \notin unseen \/ ~ running

(***************************************************************************)
(* A stop that comes while events are being handled, as the one of the     *)
(* test's accept callback, makes run return; one that comes while          *)
(* epoll_wait blocks need not (NetworkEventLoop.cpp:186 and 203-205).      *)
(***************************************************************************)
StopReturns == ~ running /\ pc \in {"batch", "callback"} ~> pc = "out"
==============================================================================
