-------------------------- MODULE ExchangeEmulator ---------------------------
(***************************************************************************)
(* The exchange emulator: a program of two callbacks over the event loop.  *)
(* The one of the listener accepts a client and calls addTCPClient with    *)
(* the address 0.0.0.0:0; the one of the socket that this creates reads    *)
(* orders and broadcasts them on the feed.                                 *)
(*                                                                         *)
(* Nothing listens on port 0, so the kernel refuses that connection: at    *)
(* once, or after it was registered as being in progress, and then recv    *)
(* reports the error and, when it is called again, the end of the stream.  *)
(* Clients connect once, and send orders.  They are in the accept queue in *)
(* the order in which they have connected.                                 *)
(***************************************************************************)
EXTENDS NetworkEventLoop

CONSTANTS Client,
          Base, Bytes, TokenLen, StockLen,  \* of the wire format
          Timestamp,                        \* what the clock may show
          FirstRef,                         \* initial order_ref_counter
          ClientOrder,                      \* the orders of the clients
          MaxSent                           \* bound: orders of a client

VARIABLES
    at,                 \* the next statement of the callback: enter, connect, leave
    backlog,            \* the clients that wait to be accepted
    connection,         \* the descriptor of each accepted client, else NoFd
    inbox,              \* what each client has sent and nobody has read
    failed,             \* sockets whose recv has reported the refused connection
    order_ref_counter,
    feed                \* the broadcast messages

emulator == <<at, backlog, connection, inbox, failed, order_ref_counter, feed>>

Wire == INSTANCE WireFormat

EmulatorInit ==
    /\ Init
    /\ at = "enter" /\ backlog = << >> /\ connection = [c \in Client |-> NoFd]
    /\ inbox = [c \in Client |-> << >>] /\ failed = {}
    /\ order_ref_counter = FirstRef /\ feed = << >>
------------------------------------------------------------------------------
(* The clients and their connections *)

Connected(c) == connection[c] # NoFd \/ c \in Elements(backlog)

Connect(c) ==
    /\ ~ Connected(c)
    /\ \E f \in Fd : kind[f] = "listener" /\ Arrive(f)
    /\ backlog' = Append(backlog, c)
    /\ UNCHANGED <<at, connection, inbox, failed, order_ref_counter, feed>>

Send(c, o) ==
    /\ Connected(c) /\ Len(inbox[c]) < MaxSent
    /\ inbox' = [inbox EXCEPT ![c] = Append(@, Wire!build_enter_order(o))]
    /\ UNCHANGED <<vars, at, backlog, connection, failed, order_ref_counter, feed>>

\* The refusal of a connection reaches its socket.
Refused(f) == kind[f] = "reader" /\ Arrive(f) /\ UNCHANGED emulator
------------------------------------------------------------------------------
(* main *)

\* addTCPListener, and run if it succeeds.  A client may have connected before
\* the listener was registered.
Listen ==
    /\ interest = {} /\ pc = "out"
    /\ addTCPListener
    /\ IF unseen' = {} THEN UNCHANGED backlog ELSE \E c \in Client : backlog' = <<c>>
    /\ UNCHANGED <<at, connection, inbox, failed, order_ref_counter, feed>>

Start == interest # {} /\ run /\ UNCHANGED emulator
------------------------------------------------------------------------------
(* The listener's callback *)

InListener == pc = "callback" /\ kind[current] = "listener"

AcceptFails ==
    /\ InListener /\ at = "enter"
    /\ pending[current] = 0 \/ Free = {}
    /\ Return
    /\ UNCHANGED emulator

AcceptClient ==
    /\ InListener /\ at = "enter"
    /\ Accept
    /\ backlog' = Tail(backlog)
    /\ \E f \in NewFd : connection' = [connection EXCEPT ![Head(backlog)] = f]
    /\ at' = "connect"
    /\ UNCHANGED <<inbox, failed, order_ref_counter, feed>>

\* addTCPClient("0.0.0.0", 0, ...): in progress, refused at once, or without a
\* descriptor.
ConnectBack ==
    /\ InListener /\ at = "connect"
    /\ addTCPClient \/ UNCHANGED vars
    /\ at' = "leave"
    /\ UNCHANGED <<backlog, connection, inbox, failed, order_ref_counter, feed>>

Leave ==
    /\ at = "leave"
    /\ Return
    /\ at' = "enter"
    /\ UNCHANGED <<backlog, connection, inbox, failed, order_ref_counter, feed>>
------------------------------------------------------------------------------
(* The other callback: recv, and what follows from its result *)

InReader == pc = "callback" /\ kind[current] = "reader" /\ at = "enter"

\* The socket is the connection of a client that has sent something.
HasBytes == \E c \in Client : connection[c] = current /\ inbox[c] # << >>

\* bytes_read < 0
RecvFails ==
    /\ InReader /\ ~ HasBytes /\ current \notin failed
    /\ Recv
    /\ failed' = failed \cup {current}
    /\ at' = "leave"
    /\ UNCHANGED <<backlog, connection, inbox, order_ref_counter, feed>>

\* bytes_read == 0
RecvEnds ==
    /\ InReader /\ ~ HasBytes /\ current \in failed
    /\ CloseOwn
    /\ failed' = failed \ {current}
    /\ UNCHANGED <<at, backlog, connection, inbox, order_ref_counter, feed>>

\* One recv takes what is there; the message at its head is relayed.
RecvOrder(c, whole, ts) ==
    /\ InReader /\ connection[c] = current /\ inbox[c] # << >>
    /\ inbox' = [inbox EXCEPT ![c] = << >>]
    /\ \/ /\ Wire!IsEnterOrder(Head(inbox[c]), whole)
          /\ feed' = Append(feed, Wire!relay(Head(inbox[c]), ts, order_ref_counter))
          /\ order_ref_counter' = order_ref_counter + 1
       \/ /\ ~ Wire!IsEnterOrder(Head(inbox[c]), whole)
          /\ UNCHANGED <<feed, order_ref_counter>>
    /\ at' = "leave"
    /\ UNCHANGED <<vars, backlog, connection, failed>>

EmulatorStep ==
    \/ LoopStep /\ UNCHANGED emulator
    \/ AcceptFails \/ AcceptClient \/ ConnectBack \/ Leave
    \/ RecvFails \/ RecvEnds
    \/ \E c \in Client, whole \in BOOLEAN, ts \in Timestamp : RecvOrder(c, whole, ts)

EmulatorNext ==
    \/ Listen \/ Start \/ EmulatorStep
    \/ \E c \in Client : Connect(c) \/ \E o \in ClientOrder : Send(c, o)
    \/ \E f \in Fd : Refused(f)

\* The thread of the program goes on; clients need not do anything.
EmulatorSpec ==
    /\ EmulatorInit /\ [][EmulatorNext]_<<vars, emulator>>
    /\ WF_<<vars, emulator>>(Start) /\ WF_<<vars, emulator>>(EmulatorStep)
------------------------------------------------------------------------------
(***************************************************************************)
(* What an accepted client has sent is read, as the comment at             *)
(* ExchangeEmulator.cpp:59 says.                                           *)
(***************************************************************************)
OrdersAreRead ==
    \A c \in Client : connection[c] # NoFd /\ inbox[c] # << >> ~> inbox[c] = << >>
==============================================================================
