----------------------------- MODULE OrderEntry ------------------------------
(***************************************************************************)
(* The way of an order out of the system: StrategyEngine::sendOrder asks   *)
(* the PreTradeRiskEngine, registers the order with the EMS, counts it in  *)
(* the position and hands its bytes to TCPEgressGateway::send, which       *)
(* writes them to a non-blocking socket.                                   *)
(*                                                                         *)
(* Strategy threads share the risk engine, whose position is an atomic     *)
(* with relaxed accesses: `position' is its modification order, a load     *)
(* returns any value not older than the last one the thread has seen, and  *)
(* a fetch_add acts on the newest.  An order is the thread and the number  *)
(* of the call; on the wire it is MsgUnits units long.  The symbol, the    *)
(* token and the log are left out; the EMS is a module of its own, and     *)
(* build_enter_order, given a buffer of 64 bytes, does not fail.           *)
(***************************************************************************)
EXTENDS Integers, Sequences, FiniteSets, Functions

CONSTANTS Thread,
          Shares, Price,              \* arguments of sendOrder; Price also reference
          MaxOrderSize, MaxPosition,  \* RiskConfig
          MaxDeviationPct,            \* RiskConfig, in percent
          MsgUnits,                   \* length of an EnterOrderMsg
          Room,                       \* capacity of the socket's send buffer
          Base, Bytes,                \* of the wire format, and the sizes of its
          TokenLen, StockLen,         \* texts
          MaxCalls,                   \* bound: approved orders
          MaxResets                   \* bound: calls of reset_position

ASSUME EntryAssumption ==
    /\ IsFiniteSet(Thread) /\ Thread # {}
    /\ Shares \subseteq Nat /\ Price \subseteq Nat
    /\ MaxOrderSize \in Nat /\ MaxPosition \in Nat /\ MaxDeviationPct \in Nat
    /\ MsgUnits \in Nat \ {0} /\ Room \in Nat \ {0} /\ MaxCalls \in Nat
    /\ MaxResets \in Nat

ASSUME WireAssumption ==
    /\ Base \in Nat \ {0, 1} /\ Bytes \in [{16, 32, 48, 64} -> Nat \ {0}]
    /\ TokenLen \in Nat /\ StockLen \in Nat

Wire == INSTANCE WireFormat

VARIABLES
    position,   \* current_position_: its values in modification order
    seen,       \* the index in position of the newest value each thread has seen
    pc,         \* where each thread is in sendOrder
    order,      \* side and shares of its order
    total_sent, \* how much of it send has written
    calls,      \* how many orders of the thread were approved
    fd,         \* fd_ of the gateway: unset, open, or broken by an error
    used,       \* units in the send buffer
    stream,     \* the units the kernel has taken, oldest first
    counted,    \* history: what each order that was counted added to the position
    forgotten,  \* history: the orders counted before the last reset
    resets      \* how often the position was reset

risk == <<position, seen, counted, forgotten, resets>>
strategy == <<pc, order, total_sent, calls>>
socket == <<fd, used, stream>>
vars == <<risk, strategy, socket>>

Side == {"B", "S"}

Abs(x) == IF x < 0 THEN -x ELSE x
Last == Len(position)

\* What an order adds to the position.
RiskQty(o) == IF o.side = "B" THEN o.shares ELSE -o.shares

Init ==
    /\ position = <<0>> /\ seen = [t \in Thread |-> 1]
    /\ pc = [t \in Thread |-> "idle"]
    /\ order = [t \in Thread |-> [side |-> "B", shares |-> 0]]
    /\ total_sent = [t \in Thread |-> 0]
    /\ calls = [t \in Thread |-> 0]
    /\ fd = "unset" /\ used = 0 /\ stream = << >>
    /\ counted = << >> /\ forgotten = {} /\ resets = 0
------------------------------------------------------------------------------
(* PreTradeRiskEngine *)

SizeOK(shares) == shares <= MaxOrderSize

\* No reference price, no fat-finger check.
DeviationOK(price, reference) ==
    reference > 0 => 100 * Abs(price - reference) <= MaxDeviationPct * reference

\* Mutant: only the long side of the position is limited.
PositionOKLong(current, o) == current + RiskQty(o) <= MaxPosition

PositionOK(current, o) == Abs(current + RiskQty(o)) <= MaxPosition

\* check_order rejects, before or after it has loaded the position; sendOrder
\* returns false.
CheckRejects(t, o, price, reference) ==
    /\ pc[t] = "idle" /\ SumFunctionOnSet(calls, Thread) < MaxCalls
    /\ \/ ~ (SizeOK(o.shares) /\ DeviationOK(price, reference)) /\ UNCHANGED seen
       \/ /\ SizeOK(o.shares) /\ DeviationOK(price, reference)
          /\ \E j \in seen[t] .. Last :
                ~ PositionOK(position[j], o) /\ seen' = [seen EXCEPT ![t] = j]
    /\ UNCHANGED <<position, counted, forgotten, resets, strategy, socket>>

\* check_order approves; sendOrder takes an id and tells the EMS.
CheckApproves(t, o, price, reference) ==
    /\ pc[t] = "idle" /\ SumFunctionOnSet(calls, Thread) < MaxCalls
    /\ SizeOK(o.shares) /\ DeviationOK(price, reference)
    /\ \E j \in seen[t] .. Last :
          PositionOK(position[j], o) /\ seen' = [seen EXCEPT ![t] = j]
    /\ pc' = [pc EXCEPT ![t] = "approved"]
    /\ order' = [order EXCEPT ![t] = o]
    /\ calls' = [calls EXCEPT ![t] = @ + 1]
    /\ UNCHANGED <<position, counted, forgotten, resets, total_sent, socket>>

\* History: the order of t is counted.
Count(t) ==
    counted' = [o \in DOMAIN counted \cup {<<t, calls[t]>>} |->
                   IF o = <<t, calls[t]>> THEN RiskQty(order[t]) ELSE counted[o]]

\* Mutant: a load and a store instead of one fetch_add.
UpdatePositionInTwo(t) ==
    /\ pc[t] = "approved"
    /\ \E j \in seen[t] .. Last :
          position' = Append(position, position[j] + RiskQty(order[t]))
    /\ seen' = [seen EXCEPT ![t] = Last + 1]
    /\ Count(t)
    /\ pc' = [pc EXCEPT ![t] = "send"]
    /\ total_sent' = [total_sent EXCEPT ![t] = 0]
    /\ UNCHANGED <<forgotten, resets, order, calls, socket>>

\* update_position, when the message has been built.
UpdatePosition(t) ==
    /\ pc[t] = "approved"
    /\ position' = Append(position, position[Last] + RiskQty(order[t]))
    /\ seen' = [seen EXCEPT ![t] = Last + 1]
    /\ Count(t)
    /\ pc' = [pc EXCEPT ![t] = "send"]
    /\ total_sent' = [total_sent EXCEPT ![t] = 0]
    /\ UNCHANGED <<forgotten, resets, order, calls, socket>>

\* By any thread, at any time; nothing in the program calls it.
reset_position ==
    /\ resets < MaxResets
    /\ resets' = resets + 1
    /\ position' = Append(position, 0)
    /\ forgotten' = DOMAIN counted
    /\ UNCHANGED <<seen, counted, strategy, socket>>
------------------------------------------------------------------------------
(* TCPEgressGateway::send *)

\* sendOrder returns true, whatever send has returned.
Return(t) == pc' = [pc EXCEPT ![t] = "idle"]

\* Mutant: send asks for the whole length again after a partial write.
SendSomeWholeLength(t, k) ==
    /\ pc[t] = "send" /\ fd = "open"
    /\ used + k <= Room
    /\ used' = used + k
    /\ stream' = stream \o [i \in 1 .. k |-> <<t, calls[t], total_sent[t] + i>>]
    /\ total_sent' = [total_sent EXCEPT ![t] = @ + k]
    /\ IF total_sent[t] + k >= MsgUnits THEN Return(t) ELSE UNCHANGED pc
    /\ UNCHANGED <<risk, order, calls, fd>>

\* Mutant: send starts again at the head of the buffer after a partial write.
SendSomeFromStart(t, k) ==
    /\ pc[t] = "send" /\ fd = "open"
    /\ used + k <= Room /\ total_sent[t] + k <= MsgUnits
    /\ used' = used + k
    /\ stream' = stream \o [i \in 1 .. k |-> <<t, calls[t], i>>]
    /\ total_sent' = [total_sent EXCEPT ![t] = @ + k]
    /\ IF total_sent[t] + k = MsgUnits THEN Return(t) ELSE UNCHANGED pc
    /\ UNCHANGED <<risk, order, calls, fd>>

\* The kernel takes the next k units; send returns when it has taken them all.
SendSome(t, k) ==
    /\ pc[t] = "send" /\ fd = "open"
    /\ used + k <= Room /\ total_sent[t] + k <= MsgUnits
    /\ used' = used + k
    /\ stream' = stream \o [i \in 1 .. k |-> <<t, calls[t], total_sent[t] + i>>]
    /\ total_sent' = [total_sent EXCEPT ![t] = @ + k]
    /\ IF total_sent[t] + k = MsgUnits THEN Return(t) ELSE UNCHANGED pc
    /\ UNCHANGED <<risk, order, calls, fd>>

\* Mutant: send tries again after an error, as if it were a passing one.
SendGivesUpNotOnError(t) ==
    /\ pc[t] = "send"
    /\ fd = "unset" \/ (fd = "open" /\ used = Room)
    /\ Return(t)
    /\ UNCHANGED <<risk, order, total_sent, calls, socket>>

\* There is no socket, or ::send reports EAGAIN because the buffer is full, or
\* it reports an error: the rest of the message is given up.
SendGivesUp(t) ==
    /\ pc[t] = "send"
    /\ fd = "unset" \/ (fd = "open" /\ used = Room) \/ fd = "broken"
    /\ Return(t)
    /\ UNCHANGED <<risk, order, total_sent, calls, socket>>
------------------------------------------------------------------------------
(* The network thread and the other end of the connection *)

setSocketFd ==
    /\ fd = "unset"
    /\ fd' = "open"
    /\ UNCHANGED <<risk, strategy, used, stream>>

\* The network makes room in the send buffer.
Transmit ==
    /\ fd = "open" /\ used > 0
    /\ used' = used - 1
    /\ UNCHANGED <<risk, strategy, fd, stream>>

\* The connection is lost.
Disconnect ==
    /\ fd = "open"
    /\ fd' = "broken"
    /\ UNCHANGED <<risk, strategy, used, stream>>

Strategy(t) ==
    \/ \E s \in Side, n \in Shares, p, r \in Price :
          LET o == [side |-> s, shares |-> n]
          IN  CheckRejects(t, o, p, r) \/ CheckApproves(t, o, p, r)
    \/ UpdatePosition(t)
    \/ \E k \in 1 .. MsgUnits : SendSome(t, k)
    \/ SendGivesUp(t)

Next ==
    \/ setSocketFd \/ Transmit \/ Disconnect \/ reset_position
    \/ \E t \in Thread : Strategy(t)

\* A strategy thread inside sendOrder goes on; nothing else has to happen.
Fairness ==
    \A t \in Thread :
        WF_vars(UpdatePosition(t) \/ SendGivesUp(t) \/ \E k \in 1 .. MsgUnits : SendSome(t, k))

Spec == Init /\ [][Next]_vars /\ Fairness
------------------------------------------------------------------------------
TypeOK ==
    /\ position \in Seq(Int) /\ position # << >>
    /\ seen \in [Thread -> 1 .. Last]
    /\ pc \in [Thread -> {"idle", "approved", "send"}]
    /\ order \in [Thread -> [side : Side, shares : Nat]]
    /\ total_sent \in [Thread -> 0 .. MsgUnits]
    /\ calls \in [Thread -> 0 .. MaxCalls]
    /\ fd \in {"unset", "open", "broken"} /\ used \in 0 .. Room
    /\ stream \in Seq(Thread \X (1 .. MaxCalls) \X (1 .. MsgUnits))
    /\ counted \in [DOMAIN counted -> Int]
    /\ forgotten \subseteq DOMAIN counted /\ DOMAIN counted \subseteq Thread \X (1 .. MaxCalls)
    /\ resets \in 0 .. MaxResets

(***************************************************************************)
(* The position leaves the limit by at most one order for each other       *)
(* thread: each of them may have been approved against an older position   *)
(* (the load at PreTradeRisk.cpp:29 and the fetch_add at line 41 are two   *)
(* steps).  With a single strategy thread it never leaves it.  A reset     *)
(* between the two steps changes nothing of this, provided that a single   *)
(* order may not be larger than the position.                              *)
(***************************************************************************)
OvershootIsBounded ==
    MaxOrderSize <= MaxPosition =>
        \A i \in DOMAIN position :
            Abs(position[i]) <= MaxPosition + (Cardinality(Thread) - 1) * MaxOrderSize

(***************************************************************************)
(* Every order of which a byte is on the wire has been counted, and the    *)
(* position is the sum of what was counted since the last reset, each      *)
(* order once, whatever the threads have loaded.  As long as nobody resets *)
(* it, the position thus counts all that the exchange can execute, and     *)
(* besides only the orders that are not on the wire yet and those that     *)
(* send has given up, which nobody takes out again (StrategyEngine.cpp:52  *)
(* to 59, PreTradeRisk.cpp:41).  This is the order of steps in the code,   *)
(* not that of docs-site/docs/pre-trade-risk-engine.md:44, where the       *)
(* position is updated "Once an order is approved and successfully sent".  *)
(***************************************************************************)
WireIsCounted ==
    /\ \A i \in DOMAIN stream : <<stream[i][1], stream[i][2]>> \in DOMAIN counted
    /\ position[Last] = SumFunctionOnSet(counted, DOMAIN counted \ forgotten)

(***************************************************************************)
(* What the kernel has taken of an order is its first units in order, none *)
(* of them twice, over however many partial writes (TCPEgress.cpp:23-40).  *)
(***************************************************************************)
UnitsInOrder ==
    \A i, j \in DOMAIN stream :
        i < j /\ stream[i][1] = stream[j][1] /\ stream[i][2] = stream[j][2] =>
            /\ stream[i][3] < stream[j][3]
            /\ \A u \in 1 .. stream[j][3] :
                  \E h \in 1 .. j : stream[h] = <<stream[j][1], stream[j][2], u>>

(***************************************************************************)
(* The exchange reads from the bytes of an approved order what sendOrder   *)
(* was called with, whatever price and symbol it has (OUCH42.cpp:12-98).   *)
(***************************************************************************)
OrdersAreEncoded ==
    \A t \in Thread :
        pc[t] = "approved" =>
            \A price \in Wire!UInt(32) :
                \A o \in Wire!Order(order[t].side, order[t].shares, price) : Wire!IsEncoded(o)

(***************************************************************************)
(* sendOrder returns, whatever the connection does: send gives the rest of *)
(* a message up when the buffer is full or the connection is broken        *)
(* (TCPEgress.cpp:22-40).  docs-site/docs/tcp-egress-networking.md:36      *)
(* speaks of a "spin-retry logic to guarantee transmission" instead, which *)
(* the code does not have.                                                 *)
(***************************************************************************)
SendOrderReturns == \A t \in Thread : pc[t] # "idle" ~> pc[t] = "idle"
==============================================================================
