----------------------------- MODULE WireFormat ------------------------------
(***************************************************************************)
(* The bytes of the messages: OUCH 4.2 orders as OUCHBuilder writes and    *)
(* OUCHParser reads them, ITCH 5.0 market data as ITCH5Builder writes and  *)
(* Parser reads it.  Pure functions of their arguments.                    *)
(*                                                                         *)
(* A message on the wire is a record of the fields of its packed struct:   *)
(* an integer field is the sequence of its bytes in memory, a text field   *)
(* the sequence of its characters, a one-character field the character.    *)
(* The host is little-endian.  A byte has Base values and an integer type  *)
(* of b bits takes Bytes[b] bytes; with the real 256 and b \div 8 the      *)
(* arithmetic is the code's, TLC takes smaller ones.  The fields that      *)
(* build_enter_order and build_replace_order copy from defaults without a  *)
(* conversion to numbers, firm and the one-character ones, are left out.   *)
(***************************************************************************)
EXTENDS Integers, Sequences, SequencesExt

CONSTANTS Base,      \* the values of a byte, 256 in the code
          Bytes,     \* the bytes of an integer of 16, 32, 48 and 64 bits
          TokenLen,  \* sizes of the text fields: 14 for the token of an order,
          StockLen   \* 8 for the symbol

\* What a 1 in byte i of an integer is worth: 1 << 8 * i.
Weight[i \in Nat] == IF i = 0 THEN 1 ELSE Base * Weight[i - 1]

UInt(b) == 0 .. Weight[Bytes[b]] - 1

\* An integer of b bits in memory, lowest byte first, and back.
Memory(x, b) == [i \in 1 .. Bytes[b] |-> (x \div Weight[i - 1]) % Base]

Value(bytes) ==
    LET upTo[i \in 0 .. Len(bytes)] ==
            IF i = 0 THEN 0 ELSE upTo[i - 1] + bytes[i] * Weight[i - 1]
    IN  upTo[Len(bytes)]

bswap(x, b) == Value(Reverse(Memory(x, b)))

\* Mutant: the integer is stored in the order of the host.
StoreHost(x, b) == Memory(x, b)

\* msg->field = bswap(x)
Store(x, b) == Memory(bswap(x, b), b)

\* Mutant: the integer is not swapped back.
LoadHost(bytes, b) == Value(bytes)

\* bswap(msg->field)
Load(bytes, b) == bswap(Value(bytes), b)

\* The low 48 bits, highest byte first, and back.
write_timestamp(ts) ==
    [i \in 1 .. Bytes[48] |-> (ts \div Weight[Bytes[48] - i]) % Base]

parse_timestamp(ts) == Value(Reverse(ts))

\* The text, cut off at the size of the field or filled up with spaces.
copy_string_padded(src, size) ==
    [i \in 1 .. size |-> IF i <= Len(src) THEN src[i] ELSE " "]
------------------------------------------------------------------------------
(* OUCH *)

build_enter_order(o) ==
    [msg_type |-> "O", order_token |-> copy_string_padded(o.token, TokenLen),
     buy_sell_indicator |-> o.side, shares |-> Store(o.shares, 32),
     stock |-> copy_string_padded(o.stock, StockLen), price |-> Store(o.price, 32),
     time_in_force |-> Store(o.time_in_force, 32), minimum_quantity |-> Store(o.min_qty, 32)]

build_replace_order(o, token) ==
    [msg_type |-> "U", existing_order_token |-> copy_string_padded(o.token, TokenLen),
     replacement_order_token |-> copy_string_padded(token, TokenLen),
     shares |-> Store(o.shares, 32), price |-> Store(o.price, 32),
     time_in_force |-> Store(o.time_in_force, 32), minimum_quantity |-> Store(o.min_qty, 32)]

build_cancel_order(o) ==
    [msg_type |-> "X", order_token |-> copy_string_padded(o.token, TokenLen),
     shares |-> Store(o.shares, 32)]

\* What parse_enter_order accepts, given whether all bytes of m are there.
IsEnterOrder(m, whole) == whole /\ m.msg_type = "O"

parse_enter_order(m) ==
    [m EXCEPT !.shares = Load(@, 32), !.price = Load(@, 32),
              !.time_in_force = Load(@, 32), !.minimum_quantity = Load(@, 32)]
------------------------------------------------------------------------------
(* ITCH *)

build_add_order(timestamp, ref, side, shares, stock, price) ==
    [msg_type |-> "A", stock_locate |-> Store(1, 16), tracking_number |-> Store(1, 16),
     timestamp |-> write_timestamp(timestamp), order_ref_number |-> Store(ref, 64),
     buy_sell_indicator |-> side, shares |-> Store(shares, 32),
     stock |-> copy_string_padded(stock, StockLen), price |-> Store(price, 32)]

SideOf(indicator) == IF indicator = "B" THEN "BUY" ELSE "SELL"

parse_add(m) ==
    [type |-> "A", id |-> Load(m.order_ref_number, 64), quantity |-> Load(m.shares, 32),
     price |-> Load(m.price, 32), side |-> SideOf(m.buy_sell_indicator)]

\* The fields that Parser::parse assigns, for the types it decodes.
parse(m) ==
    LET id == Load(m.order_ref_number, 64)
    IN  CASE m.msg_type = "A" -> parse_add(m)
          [] m.msg_type = "X" ->
                [type |-> "X", id |-> id, quantity |-> Load(m.canceled_shares, 32)]
          [] m.msg_type = "D" -> [type |-> "D", id |-> id]
          [] m.msg_type = "E" ->
                [type |-> "E", id |-> id, quantity |-> Load(m.executed_shares, 32)]
          [] m.msg_type = "C" ->
                [type |-> "C", id |-> id, quantity |-> Load(m.executed_shares, 32),
                 price |-> Load(m.execution_price, 32)]

\* What the emulator broadcasts for an order that it has received.
relay(m, timestamp, ref) ==
    LET o == parse_enter_order(m)
    IN  build_add_order(timestamp, ref, o.buy_sell_indicator, o.shares, o.stock, o.price)
------------------------------------------------------------------------------
(* What the bytes are to be: the highest first, in fields of a fixed size *)

BigEndian(x, b) == [i \in 1 .. Bytes[b] |-> (x \div Weight[Bytes[b] - i]) % Base]

\* The field holds what fits of the text and is filled up with spaces.
IsText(field, text, size) ==
    /\ Len(field) = size
    /\ \A i \in 1 .. size : field[i] = IF i \in DOMAIN text THEN text[i] ELSE " "

\* Texts of every length that fits, and one more; orders of one side, size and
\* price, with the default of time_in_force, cut to the width, and of min_qty.
Text(size) == UNION {[1 .. n -> {"a"}] : n \in 0 .. size + 1}

Order(side, shares, price) ==
    [token : {copy_string_padded(<< >>, TokenLen)}, side : {side}, shares : {shares},
     stock : Text(StockLen), price : {price},
     time_in_force : {99998 % Weight[Bytes[32]]}, min_qty : {0}]

\* The bytes with which the exchange tells the message m.
Datagram(m) ==
    LET id == BigEndian(m.id, 64)
        shares == BigEndian(m.quantity, 32)
    IN  CASE m.type = "A" ->
                [msg_type |-> "A", order_ref_number |-> id,
                 buy_sell_indicator |-> IF m.side = "BUY" THEN "B" ELSE "S",
                 shares |-> shares, price |-> BigEndian(m.price, 32)]
          [] m.type = "X" -> [msg_type |-> "X", order_ref_number |-> id, canceled_shares |-> shares]
          [] m.type = "D" -> [msg_type |-> "D", order_ref_number |-> id]
          [] m.type = "E" -> [msg_type |-> "E", order_ref_number |-> id, executed_shares |-> shares]
          [] m.type = "C" -> [msg_type |-> "C", order_ref_number |-> id, executed_shares |-> shares,
                              execution_price |-> BigEndian(m.price, 32)]

\* The message m has the terms of the order o besides shares and price.
HasTerms(m, o) ==
    /\ m.time_in_force = BigEndian(o.time_in_force, 32)
    /\ m.minimum_quantity = BigEndian(o.min_qty, 32)

(***************************************************************************)
(* The exchange, which knows only the protocol, reads from the bytes of an *)
(* order the side, shares, price, symbol and terms that it was built from, *)
(* and likewise from a replacement or a cancel (OUCH42.cpp:27-98).         *)
(***************************************************************************)
IsEncoded(o) ==
    /\ LET m == build_enter_order(o)
       IN  /\ m.buy_sell_indicator = o.side
           /\ m.shares = BigEndian(o.shares, 32) /\ m.price = BigEndian(o.price, 32)
           /\ HasTerms(m, o)
           /\ IsText(m.stock, o.stock, StockLen) /\ IsText(m.order_token, o.token, TokenLen)
    /\ LET m == build_replace_order(o, o.token)
       IN  /\ m.shares = BigEndian(o.shares, 32) /\ m.price = BigEndian(o.price, 32)
           /\ HasTerms(m, o)
    /\ build_cancel_order(o).shares = BigEndian(o.shares, 32)

(***************************************************************************)
(* From the bytes of a message, in network byte order, the parser takes    *)
(* the numbers the exchange has put in (ITCH5Parser.cpp:13-66).            *)
(***************************************************************************)
IsDecoded(m) == parse(Datagram(m)) = m

(***************************************************************************)
(* An order that passes through both protocols, out of sendOrder, through  *)
(* the emulator and back in over the feed, is decoded as an order of the   *)
(* same side, shares and price under the emulator's reference number; a    *)
(* short sale counts as a sale; of the timestamp the low 48 bits arrive    *)
(* (OUCH42.cpp:27-60 and 100-115, ExchangeEmulator.cpp:73-98,              *)
(* ITCH5Parser.cpp:13-37 and 74-112).  n is both the clock's time and the  *)
(* reference number.                                                       *)
(***************************************************************************)
IsRelayed(o, n) ==
    LET m == relay(build_enter_order(o), n, n)
    IN  /\ parse(m) = [type |-> "A", id |-> n, quantity |-> o.shares, price |-> o.price,
                       side |-> IF o.side = "B" THEN "BUY" ELSE "SELL"]
        /\ IsText(m.stock, o.stock, StockLen)
        /\ parse_timestamp(m.timestamp) = n % Weight[Bytes[48]]
==============================================================================
