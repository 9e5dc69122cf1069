--------------------------- MODULE SPSCQueueProofs ---------------------------
(***************************************************************************)
(* Proofs about SPSCQueue, for every Capacity >= 2 and every set of items. *)
(***************************************************************************)
EXTENDS SPSCQueue, SequenceTheorems, TLAPS

\* Reducing an index modulo Capacity is one conditional subtraction.
LEMMA ModWraps ==
    \A x \in 0 .. 2 * Capacity - 1 :
        x % Capacity = IF x < Capacity THEN x ELSE x - Capacity
  BY CapacityAssumption, SMT

\* The successor of an index wraps to 0 behind the last slot.
LEMMA NextIndexWraps ==
    \A i \in Slot : /\ NextIndex(i) = IF i = Capacity - 1 THEN 0 ELSE i + 1
                    /\ NextIndex(i) \in Slot
  BY CapacityAssumption, ModWraps DEF Slot, NextIndex

\* The slot k places behind the read index r.
LEMMA SlotBehind ==
    \A r \in Slot, i \in 1 .. Capacity :
        /\ (r + i - 1) % Capacity
             = IF r + i - 1 < Capacity THEN r + i - 1 ELSE r + i - 1 - Capacity
        /\ (r + i - 1) % Capacity \in Slot
  BY CapacityAssumption, SMT DEF Slot

\* Tail moves every element one place forward.
LEMMA TailIsShifted ==
    ASSUME NEW S, NEW s \in Seq(S), Len(s) >= 1
    PROVE  Tail(s) = [i \in 1 .. Len(s) - 1 |-> s[i + 1]]
<1>1. /\ s # << >>
      /\ Len(s) \in Nat
  OBVIOUS
<1>2. /\ Tail(s) \in Seq(S)
      /\ Len(Tail(s)) = Len(s) - 1
      /\ \A i \in 1 .. Len(Tail(s)) : Tail(s)[i] = s[i + 1]
  BY <1>1, HeadTailProperties
<1>3. Tail(s) = [i \in 1 .. Len(Tail(s)) |-> Tail(s)[i]]
  BY <1>2, LenProperties
<1>4. QED
  BY <1>2, <1>3

(***************************************************************************)
(* Every variable keeps its type; in particular push never runs without an *)
(* item, and no index leaves the array.                                    *)
(***************************************************************************)
THEOREM TypeCorrect == Safety => []TypeOK
<1>1. Init => TypeOK
  BY CapacityAssumption DEF Init, TypeOK, Slot
<1>2. TypeOK /\ [Next]_vars => TypeOK'
  <2> SUFFICES ASSUME TypeOK, [Next]_vars PROVE TypeOK'
    OBVIOUS
  <2> USE DEF TypeOK, producer, consumer
  <2>1. CASE \E v \in Item : PushCall(v)
    BY <2>1 DEF PushCall
  <2>2. CASE \E r \in Between(seen_read, read_index) : PushCheck(r)
    BY <2>2 DEF PushCheck, Between
  <2>3. CASE PushWrite
    BY <2>3 DEF PushWrite
  <2>4. CASE PushPublish
    BY <2>4, NextIndexWraps DEF PushPublish
  <2>5. CASE \E w \in Between(seen_write, write_index) : PopCheck(w)
    BY <2>5 DEF PopCheck, Between
  <2>6. CASE PopRead
    BY <2>6 DEF PopRead
  <2>7. CASE PopRelease
    BY <2>7, NextIndexWraps DEF PopRelease
  <2>8. CASE UNCHANGED vars
    BY <2>8 DEF vars
  <2>9. QED
    BY <2>1, <2>2, <2>3, <2>4, <2>5, <2>6, <2>7, <2>8
    DEF Next, Produce, Consume
<1>3. QED
  BY <1>1, <1>2, PTL DEF Safety

(***************************************************************************)
(* The views, the indices and the slots in hand stay ordered around the    *)
(* ring, whatever values the acquire loads return.                         *)
(***************************************************************************)
THEOREM RingInvariant == Safety => []RingInv
<1>1. Init => RingInv
  BY CapacityAssumption DEF Init, RingInv, Distance
<1>2. TypeOK /\ TypeOK' /\ RingInv /\ [Next]_vars => RingInv'
  <2> SUFFICES ASSUME TypeOK, TypeOK', RingInv, [Next]_vars PROVE RingInv'
    OBVIOUS
  <2> USE CapacityAssumption, NextIndexWraps
      DEF TypeOK, RingInv, Slot, Distance, producer, consumer
  <2>1. CASE \E v \in Item : PushCall(v)
    BY <2>1 DEF PushCall
  <2>2. CASE \E r \in Between(seen_read, read_index) : PushCheck(r)
    BY <2>2 DEF PushCheck, Between
  <2>3. CASE PushWrite
    BY <2>3 DEF PushWrite
  <2>4. CASE PushPublish
    <3>1. /\ write_index' = IF write_index = Capacity - 1 THEN 0 ELSE write_index + 1
          /\ write_index' # seen_read
          /\ UNCHANGED <<read_index, seen_read, seen_write, data, cpc, item>>
      BY <2>4 DEF PushPublish
    <3>2. Distance(seen_read, read_index)' + Distance(read_index, write_index)'
              = Distance(seen_read, write_index)'
      BY <3>1
    <3>3. Distance(read_index, seen_write)' + Distance(seen_write, write_index)'
              = Distance(read_index, write_index)'
      BY <3>1
    <3>4. ppc' = "idle"
      BY <2>4 DEF PushPublish
    <3>5. (cpc \in {"read", "release"} => read_index # seen_write)'
      BY <3>1
    <3>6. (cpc = "release" => item = data[read_index])'
      BY <3>1
    <3> HIDE DEF Distance
    <3>7. QED
      BY <3>2, <3>3, <3>4, <3>5, <3>6
  <2>5. CASE \E w \in Between(seen_write, write_index) : PopCheck(w)
    BY <2>5 DEF PopCheck, Between
  <2>6. CASE PopRead
    BY <2>6 DEF PopRead
  <2>7. CASE PopRelease
    <3>1. /\ read_index' = IF read_index = Capacity - 1 THEN 0 ELSE read_index + 1
          /\ read_index # seen_write
          /\ UNCHANGED <<write_index, seen_read, seen_write, data, ppc, offered>>
      BY <2>7 DEF PopRelease
    <3>2. Distance(seen_read, read_index)' + Distance(read_index, write_index)'
              = Distance(seen_read, write_index)'
      BY <3>1
    <3>3. Distance(read_index, seen_write)' + Distance(seen_write, write_index)'
              = Distance(read_index, write_index)'
      BY <3>1
    <3>4. cpc' = "idle"
      BY <2>7 DEF PopRelease
    <3>5. (ppc \in {"write", "publish"} => NextIndex(write_index) # seen_read)'
      BY <3>1
    <3>6. (ppc = "publish" => data[write_index] = offered)'
      BY <3>1
    <3> HIDE DEF Distance
    <3>7. QED
      BY <3>2, <3>3, <3>4, <3>5, <3>6
  <2>8. CASE UNCHANGED vars
    BY <2>8 DEF vars
  <2>9. QED
    BY <2>1, <2>2, <2>3, <2>4, <2>5, <2>6, <2>7, <2>8
    DEF Next, Produce, Consume
<1>3. QED
  BY <1>1, <1>2, TypeCorrect, PTL DEF Safety

(***************************************************************************)
(* The plain accesses to data_ never race.                                 *)
(***************************************************************************)
THEOREM RaceFreedom == Safety => []NoDataRace
<1>1. TypeOK /\ RingInv => NoDataRace
  BY CapacityAssumption, NextIndexWraps
  DEF TypeOK, RingInv, NoDataRace, Slot, Distance
<1>2. QED
  BY <1>1, TypeCorrect, RingInvariant, PTL

(***************************************************************************)
(* Every step of the ring is a step of the abstract queue or none of its   *)
(* business.                                                               *)
(***************************************************************************)
THEOREM Refinement == Safety => Fifo!Safety
<1> USE CapacityAssumption
<1>1. Init => Fifo!Init
  BY DEF Init, Fifo!Init, Pending, Distance
<1>2. TypeOK /\ TypeOK' /\ RingInv /\ [Next]_vars
          => [Fifo!Next]_<<Pending, delivered>>
  <2> SUFFICES ASSUME TypeOK, TypeOK', RingInv, [Next]_vars
               PROVE  [Fifo!Next]_<<Pending, delivered>>
    OBVIOUS
  <2> DEFINE n == Distance(read_index, write_index)
             At(i) == IF read_index + i - 1 < Capacity
                         THEN read_index + i - 1 ELSE read_index + i - 1 - Capacity
  <2>1. n \in 0 .. Capacity - 1
    BY DEF TypeOK, Slot, Distance
  <2>2. \A i \in 1 .. n : /\ (read_index + i - 1) % Capacity = At(i)
                          /\ At(i) \in Slot
                          /\ At(i) # write_index
    BY <2>1, SlotBehind, SMTT(40) DEF TypeOK, Slot, Distance
  <2>3. Pending = [i \in 1 .. n |-> data[At(i)]]
    BY <2>2 DEF Pending
  <2>4. Pending \in Seq(Item) /\ Len(Pending) = n
    BY <2>1, <2>2, <2>3 DEF TypeOK
  <2>5. CASE PushWrite
    <3>1. /\ UNCHANGED <<write_index, read_index, delivered>>
          /\ \A s \in Slot : s # write_index => data'[s] = data[s]
      BY <2>5 DEF PushWrite, consumer, TypeOK
    <3>2. Pending' = [i \in 1 .. n |-> data'[At(i)]]
      BY <2>2, <3>1 DEF Pending
    <3>3. Pending' = Pending
      BY <2>2, <2>3, <3>1, <3>2
    <3>4. QED
      BY <3>1, <3>3
  <2>6. CASE PushPublish
    <3>1. /\ offered \in Item
          /\ data[write_index] = offered
          /\ write_index' = IF write_index = Capacity - 1 THEN 0 ELSE write_index + 1
          /\ write_index' # seen_read
          /\ UNCHANGED <<read_index, data, delivered>>
      BY <2>6, NextIndexWraps DEF PushPublish, TypeOK, RingInv, consumer
    <3>2. /\ Distance(read_index, write_index)' = n + 1
          /\ n < Capacity - 1
          /\ At(n + 1) = write_index
      BY <3>1 DEF TypeOK, RingInv, Slot, Distance
    <3>3. Pending' = [i \in 1 .. n + 1 |-> data[(read_index + i - 1) % Capacity]]
      BY <3>1, <3>2 DEF Pending
    <3>4. \A i \in 1 .. n + 1 : (read_index + i - 1) % Capacity = At(i)
      BY <2>1, <3>2, SlotBehind DEF TypeOK
    <3>5. Pending' = Append(Pending, offered)
      BY <2>1, <2>3, <2>4, <3>1, <3>2, <3>3, <3>4
    <3>6. QED
      BY <2>4, <3>1, <3>2, <3>5 DEF Fifo!Next, Fifo!Put
  <2>7. CASE PopRelease
    <3>1. /\ delivered' = data[read_index]
          /\ read_index' = IF read_index = Capacity - 1 THEN 0 ELSE read_index + 1
          /\ read_index # write_index
          /\ UNCHANGED <<write_index, data>>
      BY <2>7, NextIndexWraps DEF PopRelease, TypeOK, RingInv, Slot, Distance
    <3>2. n >= 1 /\ Distance(read_index, write_index)' = n - 1 /\ At(1) = read_index
      BY <3>1, SMTT(40) DEF TypeOK, Slot, Distance
    <3>3. Pending' = [i \in 1 .. n - 1 |-> data[(read_index' + i - 1) % Capacity]]
      BY <3>1, <3>2 DEF Pending
    <3>4. \A i \in 1 .. n - 1 : (read_index' + i - 1) % Capacity = At(i + 1)
      <4> SUFFICES ASSUME NEW i \in 1 .. n - 1
                   PROVE  (read_index' + i - 1) % Capacity = At(i + 1)
        OBVIOUS
      <4>1. read_index' \in Slot /\ i \in 1 .. Capacity
        BY <2>1 DEF TypeOK
      <4>2. (read_index' + i - 1) % Capacity
              = IF read_index' + i - 1 < Capacity
                   THEN read_index' + i - 1 ELSE read_index' + i - 1 - Capacity
        BY <4>1, SlotBehind
      <4>3. /\ read_index \in Slot /\ i \in Nat /\ i >= 1 /\ i <= Capacity - 2
            /\ Capacity \in Nat /\ Capacity >= 2
        BY <2>1, CapacityAssumption DEF TypeOK
      <4>4. CASE read_index = Capacity - 1
        <5>1. read_index' = 0
          BY <3>1, <4>4
        <5>2. (read_index' + i - 1) % Capacity = i - 1
          BY <4>2, <4>3, <5>1
        <5>3. At(i + 1) = i - 1
          BY <4>3, <4>4
        <5>4. QED
          BY <5>2, <5>3
      <4>5. CASE read_index # Capacity - 1
        <5>1. read_index' = read_index + 1
          BY <3>1, <4>5
        <5>2. (read_index' + i - 1) % Capacity
                = IF read_index + i < Capacity
                     THEN read_index + i ELSE read_index + i - Capacity
          BY <4>2, <4>3, <5>1 DEF Slot
        <5>3. At(i + 1) = IF read_index + i < Capacity
                             THEN read_index + i ELSE read_index + i - Capacity
          BY <4>3 DEF Slot
        <5>4. QED
          BY <5>2, <5>3
      <4>6. QED
        BY <4>4, <4>5
    <3>5. Pending' = Tail(Pending) /\ Head(Pending) = data[read_index]
      <4>1. Pending' = [i \in 1 .. n - 1 |-> data[At(i + 1)]]
        BY <3>3, <3>4
      <4>2. \A i \in 1 .. n - 1 : Pending[i + 1] = data[At(i + 1)]
        BY <2>1, <2>3
      <4>3. Tail(Pending) = [i \in 1 .. n - 1 |-> Pending[i + 1]]
        BY <2>4, <3>2, TailIsShifted
      <4>4. Head(Pending) = data[read_index]
        BY <2>1, <2>3, <2>4, <3>2
      <4>5. QED
        BY <4>1, <4>2, <4>3, <4>4
    <3>6. Pending # << >>
      BY <2>4, <3>2
    <3>7. QED
      BY <3>1, <3>5, <3>6 DEF Fifo!Next, Fifo!Get
  <2>8. ASSUME UNCHANGED <<write_index, read_index, data, delivered>>
        PROVE  UNCHANGED <<Pending, delivered>>
    BY <2>8 DEF Pending, Distance
  <2>9. QED
    BY <2>5, <2>6, <2>7, <2>8
    DEF Next, Produce, Consume, PushCall, PushCheck, PopCheck, PopRead,
        vars, producer, consumer
<1>3. QED
  BY <1>1, <1>2, TypeCorrect, RingInvariant, PTL DEF Safety, Fifo!Safety
==============================================================================
