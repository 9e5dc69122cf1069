----------------------- MODULE NetworkEventLoopProofs ------------------------
(***************************************************************************)
(* Proofs about NetworkEventLoop, for every range of descriptor numbers,   *)
(* every size of the table and of the batch, and about ExchangeEmulator,   *)
(* which is a program of the kind that they are for: what they show of the *)
(* loop holds in the emulator.                                             *)
(***************************************************************************)
EXTENDS ExchangeEmulator, TLAPS

------------------------------------------------------------------------------
(* Sequences without repetition *)

\* Appending adds one element.
LEMMA Appending ==
    ASSUME NEW S, NEW s \in Seq(S), NEW x \in S
    PROVE  /\ Append(s, x) \in Seq(S)
           /\ Elements(Append(s, x)) = Elements(s) \cup {x}
           /\ Distinct(s) /\ x \notin Elements(s) => Distinct(Append(s, x))
<1> DEFINE t == Append(s, x)
<1>1. /\ t \in Seq(S) /\ Len(t) = Len(s) + 1 /\ Len(s) \in Nat
      /\ DOMAIN s = 1 .. Len(s) /\ DOMAIN t = 1 .. Len(s) + 1
      /\ \A i \in 1 .. Len(s) : t[i] = s[i]
      /\ t[Len(s) + 1] = x
  OBVIOUS
<1> HIDE DEF t
<1>2. Elements(t) = Elements(s) \cup {x}
  BY <1>1 DEF Elements
<1>3. ASSUME Distinct(s), x \notin Elements(s)
      PROVE  Distinct(t)
  BY <1>1, <1>3 DEF Distinct, Elements
<1>4. QED
  BY <1>1, <1>2, <1>3 DEF t

\* Taking the head off.
LEMMA Taking ==
    ASSUME NEW S, NEW s \in Seq(S), s # << >>
    PROVE  /\ Head(s) \in S /\ Tail(s) \in Seq(S) /\ Len(Tail(s)) <= Len(s)
           /\ Elements(s) = Elements(Tail(s)) \cup {Head(s)}
           /\ Distinct(s) => Distinct(Tail(s)) /\ Head(s) \notin Elements(Tail(s))
<1> DEFINE t == Tail(s)
<1>1. /\ t \in Seq(S) /\ Len(t) = Len(s) - 1 /\ Len(s) \in Nat \ {0}
      /\ DOMAIN s = 1 .. Len(s) /\ DOMAIN t = 1 .. Len(s) - 1
      /\ \A i \in 1 .. Len(s) - 1 : t[i] = s[i + 1]
      /\ Head(s) = s[1] /\ s[1] \in S
  OBVIOUS
<1> HIDE DEF t
<1>2. \A i \in 1 .. Len(s) : i # 1 => i - 1 \in 1 .. Len(s) - 1 /\ s[i] = t[i - 1]
  BY <1>1
<1>3. Elements(s) = Elements(t) \cup {Head(s)}
  <2>1. ASSUME NEW i \in DOMAIN s PROVE s[i] \in Elements(t) \cup {Head(s)}
    BY <1>1, <1>2 DEF Elements
  <2>2. ASSUME NEW i \in DOMAIN t PROVE t[i] \in Elements(s)
    <3>1. i + 1 \in DOMAIN s /\ t[i] = s[i + 1]
      BY <1>1, <2>2
    <3>2. QED
      BY <3>1 DEF Elements
  <2>3. Head(s) \in Elements(s)
    BY <1>1 DEF Elements
  <2>4. QED
    BY <2>1, <2>2, <2>3 DEF Elements
<1>4. ASSUME Distinct(s)
      PROVE  Distinct(t) /\ Head(s) \notin Elements(t)
  <2>1. \A i \in DOMAIN t : i + 1 \in DOMAIN s /\ i + 1 # 1 /\ t[i] = s[i + 1]
    BY <1>1
  <2>2. \A i, j \in DOMAIN t : i # j => i + 1 # j + 1
    BY <1>1
  <2>3. Distinct(t)
    BY <1>4, <2>1, <2>2 DEF Distinct
  <2>4. 1 \in DOMAIN s /\ Head(s) = s[1]
    BY <1>1
  <2>5. Head(s) \notin Elements(t)
    BY <1>4, <2>1, <2>4 DEF Distinct, Elements
  <2>6. QED
    BY <2>3, <2>5
<1>5. QED
  BY <1>1, <1>3, <1>4 DEF t

\* Cutting in two.
LEMMA Cutting ==
    ASSUME NEW S, NEW s \in Seq(S), NEW k \in 0 .. Len(s)
    PROVE  LET a == SubSeq(s, 1, k)
               b == SubSeq(s, k + 1, Len(s))
           IN  /\ a \in Seq(S) /\ b \in Seq(S) /\ Len(a) = k
               /\ Elements(a) \cup Elements(b) = Elements(s)
               /\ Distinct(s) => Distinct(a) /\ Distinct(b)
<1> DEFINE a == SubSeq(s, 1, k)
           b == SubSeq(s, k + 1, Len(s))
<1>1. /\ a \in Seq(S) /\ b \in Seq(S) /\ Len(s) \in Nat /\ k \in Nat /\ k <= Len(s)
      /\ DOMAIN s = 1 .. Len(s) /\ DOMAIN a = 1 .. k /\ Len(a) = k
      /\ DOMAIN b = 1 .. Len(s) - k
      /\ \A i \in 1 .. k : a[i] = s[i]
      /\ \A i \in 1 .. Len(s) - k : b[i] = s[k + i]
  OBVIOUS
<1> HIDE DEF a, b
<1>2. Elements(a) \cup Elements(b) = Elements(s)
  <2>1. ASSUME NEW i \in DOMAIN s PROVE s[i] \in Elements(a) \cup Elements(b)
    <3>1. CASE i <= k
      BY <1>1, <3>1 DEF Elements
    <3>2. CASE ~ (i <= k)
      <4>1. i - k \in DOMAIN b /\ b[i - k] = s[i]
        BY <1>1, <3>2
      <4>2. QED
        BY <4>1 DEF Elements
    <3>3. QED
      BY <3>1, <3>2
  <2>2. ASSUME NEW i \in DOMAIN a PROVE a[i] \in Elements(s)
    BY <1>1 DEF Elements
  <2>3. ASSUME NEW i \in DOMAIN b PROVE b[i] \in Elements(s)
    <3>1. k + i \in DOMAIN s /\ b[i] = s[k + i]
      BY <1>1
    <3>2. QED
      BY <3>1 DEF Elements
  <2>4. QED
    BY <2>1, <2>2, <2>3 DEF Elements
<1>3. ASSUME Distinct(s) PROVE Distinct(a) /\ Distinct(b)
  <2>1. \A i \in DOMAIN a : i \in DOMAIN s /\ a[i] = s[i]
    BY <1>1
  <2>2. \A i \in DOMAIN b : k + i \in DOMAIN s /\ b[i] = s[k + i]
    BY <1>1
  <2>3. \A i, j \in DOMAIN b : i # j => k + i # k + j
    BY <1>1
  <2>4. Distinct(a)
    BY <1>3, <2>1 DEF Distinct
  <2>5. Distinct(b)
    BY <1>3, <2>2, <2>3 DEF Distinct
  <2>6. QED
    BY <2>4, <2>5
<1>4. QED
  BY <1>1, <1>2, <1>3 DEF a, b

\* Taking an element out.
LEMMA Removing ==
    ASSUME NEW S, NEW s \in Seq(S), Distinct(s), NEW f
    PROVE  /\ Without(s, f) \in Seq(S)
           /\ Elements(Without(s, f)) = Elements(s) \ {f}
           /\ Distinct(Without(s, f))
<1>1. CASE f \notin Elements(s)
  BY <1>1 DEF Without
<1>2. CASE f \in Elements(s)
  <2> DEFINE i == CHOOSE i \in DOMAIN s : s[i] = f
             t == [j \in 1 .. Len(s) - 1 |-> IF j < i THEN s[j] ELSE s[j + 1]]
  <2>1. Without(s, f) = t
    BY <1>2 DEF Without
  <2>2. i \in DOMAIN s /\ s[i] = f
    BY <1>2 DEF Elements
  <2>3. DOMAIN s = 1 .. Len(s) /\ Len(s) \in Nat /\ \A j \in 1 .. Len(s) : s[j] \in S
    OBVIOUS
  <2> HIDE DEF i
  <2>4. i \in 1 .. Len(s) /\ Len(s) - 1 \in Nat
    BY <2>2, <2>3
  <2>5. \A j \in 1 .. Len(s) - 1 :
            (j < i => t[j] = s[j]) /\ (~ (j < i) => t[j] = s[j + 1]) /\ t[j] \in S
    BY <2>3, <2>4
  <2>6. t \in Seq(S) /\ DOMAIN t = 1 .. Len(s) - 1
    <3>1. t \in [1 .. Len(s) - 1 -> S]
      BY <2>5
    <3>2. QED
      BY <2>4, <3>1
  <2> HIDE DEF t
  <2>7. Elements(t) = Elements(s) \ {f}
    <3>1. ASSUME NEW j \in DOMAIN t PROVE t[j] \in Elements(s) \ {f}
      <4>1. CASE j < i
        BY <2>2, <2>3, <2>4, <2>5, <2>6, <4>1 DEF Elements, Distinct
      <4>2. CASE ~ (j < i)
        <5>1. j + 1 \in DOMAIN s /\ j + 1 # i /\ t[j] = s[j + 1]
          BY <2>3, <2>4, <2>5, <2>6, <4>2
        <5>2. QED
          BY <2>2, <5>1 DEF Elements, Distinct
      <4>3. QED
        BY <4>1, <4>2
    <3>2. ASSUME NEW j \in DOMAIN s, s[j] # f PROVE s[j] \in Elements(t)
      <4>1. CASE j < i
        <5>1. j \in DOMAIN t /\ t[j] = s[j]
          BY <2>3, <2>4, <2>5, <2>6, <4>1
        <5>2. QED
          BY <5>1 DEF Elements
      <4>2. CASE ~ (j < i)
        <5>1. j - 1 \in DOMAIN t /\ t[j - 1] = s[j]
          <6>1. j # i
            BY <2>2, <3>2
          <6>2. j - 1 \in 1 .. Len(s) - 1 /\ ~ (j - 1 < i) /\ (j - 1) + 1 = j
            BY <2>3, <2>4, <4>2, <6>1
          <6>3. QED
            BY <2>5, <2>6, <6>2
        <5>2. QED
          BY <5>1 DEF Elements
      <4>3. QED
        BY <4>1, <4>2
    <3>3. QED
      BY <3>1, <3>2 DEF Elements
  <2>8. Distinct(t)
    <3> SUFFICES ASSUME NEW j \in DOMAIN t, NEW k \in DOMAIN t, j # k
                 PROVE  t[j] # t[k]
      BY DEF Distinct
    <3> DEFINE old(n) == IF n < i THEN n ELSE n + 1
    <3>1. \A n \in DOMAIN t : old(n) \in DOMAIN s /\ t[n] = s[old(n)]
      BY <2>3, <2>4, <2>5, <2>6
    <3>2. old(j) # old(k)
      BY <2>4, <2>6
    <3>3. QED
      BY <3>1, <3>2 DEF Distinct
  <2>9. QED
    BY <2>1, <2>6, <2>7, <2>8
<1>3. QED
  BY <1>1, <1>2
------------------------------------------------------------------------------
(* The inductive invariant *)

\* What the stated invariants lean on: epoll's set and its list hold sockets of
\* the loop, once each; arrivals are noted for these only; and the batch and
\* the executing callback exist in the states of the thread that have them.
Bookkeeping ==
    /\ \A f \in interest : kind[f] \in {"reader", "listener"}
    /\ Elements(ready) \subseteq interest /\ Distinct(ready)
    /\ pc # "destroyed" => unseen \subseteq interest
    /\ current \notin Elements(events)
    /\ pc \notin {"batch", "callback"} => events = << >>
    /\ pc = "callback" <=> current # NoFd

LoopInv ==
    TypeOK /\ InterestHasCallback /\ BatchIsLive /\ UnseenIsPending /\ Bookkeeping

\* A table of callbacks, of any size that growth may give it.
IsTable(t) ==
    \E n \in 0 .. TableSize + 2 * MaxFd : t \in [0 .. n -> {"none", "own", "stale"}]

\* Storing a callback keeps those that are there, whether the table grows or not.
LEMMA Growing ==
    ASSUME TypeOK, NEW f \in Fd
    PROVE  /\ IsTable(TableWith(f)) /\ IsTable([TableWith(f) EXCEPT ![f] = "stale"])
           /\ f \in DOMAIN TableWith(f) /\ TableWith(f)[f] = "own"
           /\ DOMAIN [TableWith(f) EXCEPT ![f] = "stale"] = DOMAIN TableWith(f)
           /\ \A g \in DOMAIN fd_callbacks : g # f =>
                 /\ g \in DOMAIN TableWith(f) /\ TableWith(f)[g] = fd_callbacks[g]
                 /\ [TableWith(f) EXCEPT ![f] = "stale"][g] = fd_callbacks[g]
<1> DEFINE V == {"none", "own", "stale"}
           r == RoomFor(f)
<1>1. /\ f \in Nat /\ f >= 1 /\ f <= MaxFd /\ MaxFd \in Nat /\ TableSize \in Nat
  BY LoopAssumption DEF Fd
<1>2. PICK n \in 0 .. TableSize + 2 * MaxFd : fd_callbacks \in [0 .. n -> V]
  BY DEF TypeOK
<1>3. /\ IsTable(r) /\ f \in DOMAIN r
      /\ \A g \in DOMAIN fd_callbacks : g \in DOMAIN r /\ r[g] = fd_callbacks[g]
  <2>1. CASE f \in DOMAIN fd_callbacks
    BY <1>2, <2>1 DEF RoomFor, IsTable
  <2>2. CASE f \notin DOMAIN fd_callbacks
    <3>1. r = [g \in 0 .. 2 * f - 1 |-> IF g \in DOMAIN fd_callbacks THEN fd_callbacks[g] ELSE "none"]
      BY <2>2 DEF RoomFor, resize
    <3>2. 2 * f - 1 \in 0 .. TableSize + 2 * MaxFd /\ f \in 0 .. 2 * f - 1
      BY <1>1
    <3>3. f > n /\ n \in Nat
      BY <1>1, <1>2, <2>2
    <3>4. 0 .. n \subseteq 0 .. 2 * f - 1
      BY <1>1, <3>3
    <3>5. r \in [0 .. 2 * f - 1 -> V]
      BY <1>2, <3>1
    <3>6. IsTable(r)
      BY <3>2, <3>5 DEF IsTable
    <3>7. QED
      BY <1>2, <3>1, <3>2, <3>4, <3>6
  <2>3. QED
    BY <2>1, <2>2
<1>4. TableWith(f) = [r EXCEPT ![f] = "own"]
  BY DEF TableWith
<1> HIDE DEF r
<1>5. PICK k \in 0 .. TableSize + 2 * MaxFd : r \in [0 .. k -> V]
  BY <1>3 DEF IsTable
<1>6. f \in 0 .. k
  BY <1>3, <1>5
<1>7. TableWith(f) \in [0 .. k -> V] /\ [TableWith(f) EXCEPT ![f] = "stale"] \in [0 .. k -> V]
  BY <1>4, <1>5, <1>6
<1>8. IsTable(TableWith(f)) /\ IsTable([TableWith(f) EXCEPT ![f] = "stale"])
  BY <1>5, <1>7 DEF IsTable
<1>9. QED
  BY <1>3, <1>4, <1>5, <1>6, <1>7, <1>8

\* A socket is added.
LEMMA Adding ==
    ASSUME LoopInv, NEW k \in {"reader", "listener"}, AddSocket(k)
    PROVE  LoopInv'
<1> USE DEF LoopInv
<1>1. PICK f \in NewFd, n \in {0, 1} : registerFd(f, k, n)
  BY DEF AddSocket
<1>2. /\ UNCHANGED <<running, pc, events, current>> /\ pc \in {"out", "callback"}
  BY DEF AddSocket, InProgram
<1>3. f \in Fd /\ kind[f] = "free" /\ f \notin interest /\ f # NoFd
  BY LoopAssumption DEF NewFd, Free, Bookkeeping, Fd, NoFd
<1>4. f \notin Elements(ready) /\ f \notin Elements(events) /\ f \notin unseen /\ f # current
  BY <1>2, <1>3 DEF Bookkeeping, BatchIsLive
<1>5. CASE /\ fd_callbacks' = TableWith(f)
           /\ kind' = [kind EXCEPT ![f] = k] /\ pending' = [pending EXCEPT ![f] = n]
           /\ Watch(f, n)
  <2>1. /\ ready' \in Seq(Fd) /\ Distinct(ready')
        /\ Elements(ready') = IF n > 0 THEN Elements(ready) \cup {f} ELSE Elements(ready)
    <3>1. /\ Append(ready, f) \in Seq(Fd) /\ Elements(Append(ready, f)) = Elements(ready) \cup {f}
          /\ Distinct(Append(ready, f))
      BY <1>3, <1>4, Appending DEF TypeOK, Bookkeeping
    <3>2. QED
      BY <1>5, <3>1 DEF Watch, TypeOK, Bookkeeping
  <2>2. /\ interest' = interest \cup {f}
        /\ unseen' = IF n > 0 THEN unseen \cup {f} ELSE unseen
    BY <1>5 DEF Watch
  <2>3. TypeOK'
    <3>1. n \in 0 .. Backlog
      BY LoopAssumption
    <3>2. IsTable(fd_callbacks')
      BY <1>3, <1>5, Growing
    <3>3. interest' \subseteq Fd /\ unseen' \subseteq Fd
      BY <1>3, <2>2 DEF TypeOK
    <3>4. kind' \in [Fd -> {"free", "reader", "listener", "accepted"}] /\ pending' \in [Fd -> 0 .. Backlog]
      BY <1>3, <1>5, <3>1 DEF TypeOK
    <3>5. QED
      BY <1>2, <2>1, <3>2, <3>3, <3>4 DEF TypeOK, IsTable
  <2>4. InterestHasCallback'
    <3>1. f \in DOMAIN TableWith(f) /\ TableWith(f)[f] = "own"
      BY <1>3, Growing
    <3>2. \A g \in interest : g \in DOMAIN TableWith(f) /\ TableWith(f)[g] = "own"
      BY <1>3, Growing DEF InterestHasCallback
    <3>3. QED
      BY <1>5, <2>2, <3>1, <3>2 DEF InterestHasCallback
  <2>5. BatchIsLive'
    BY <1>2, <2>2 DEF BatchIsLive
  <2>6. UnseenIsPending'
    BY <1>2, <1>4, <2>1, <2>2 DEF UnseenIsPending
  <2>7. Bookkeeping'
    BY <1>2, <1>3, <1>5, <2>1, <2>2 DEF Bookkeeping, TypeOK
  <2>8. QED
    BY <2>3, <2>4, <2>5, <2>6, <2>7
<1>6. CASE fd_callbacks' = [TableWith(f) EXCEPT ![f] = "stale"] /\ UNCHANGED kernel
  <2>1. UNCHANGED <<kind, pending, interest, ready, unseen>>
    BY <1>6 DEF kernel
  <2>2. TypeOK'
    <3>1. IsTable(fd_callbacks')
      BY <1>3, <1>6, Growing
    <3>2. QED
      BY <1>2, <2>1, <3>1 DEF TypeOK, IsTable
  <2>3. InterestHasCallback'
    <3>1. \A g \in interest : /\ g \in DOMAIN [TableWith(f) EXCEPT ![f] = "stale"]
                              /\ [TableWith(f) EXCEPT ![f] = "stale"][g] = "own"
      BY <1>3, Growing DEF InterestHasCallback
    <3>2. QED
      BY <1>6, <2>1, <3>1 DEF InterestHasCallback
  <2>4. BatchIsLive' /\ UnseenIsPending' /\ Bookkeeping'
    BY <1>2, <2>1 DEF BatchIsLive, UnseenIsPending, Bookkeeping
  <2>5. QED
    BY <2>2, <2>3, <2>4
<1>7. QED
  BY <1>1, <1>5, <1>6 DEF registerFd

\* The thread takes a batch from epoll's list.
LEMMA Waiting ==
    ASSUME LoopInv, EpollWait
    PROVE  LoopInv'
<1> USE DEF LoopInv
<1> DEFINE a == SubSeq(ready, 1, BatchSize)
           b == SubSeq(ready, BatchSize + 1, Len(ready))
<1>1. /\ pc = "wait" /\ pc' = "batch" /\ events' = a /\ ready' = b
      /\ UNCHANGED <<kind, pending, interest, unseen, fd_callbacks, running, current>>
  BY DEF EpollWait
<1>2. BatchSize \in 0 .. Len(ready) /\ BatchSize <= MaxEvents
  <2>1. Len(ready) \in Nat
    BY DEF TypeOK
  <2>2. QED
    BY <2>1, LoopAssumption DEF BatchSize
<1>3. /\ a \in Seq(Fd) /\ b \in Seq(Fd) /\ Len(a) = BatchSize
      /\ Elements(a) \cup Elements(b) = Elements(ready) /\ Distinct(a) /\ Distinct(b)
  BY <1>2, Cutting DEF TypeOK, Bookkeeping
<1> HIDE DEF a, b
<1>4. events = << >> /\ current = NoFd /\ NoFd \notin Fd
  BY <1>1, LoopAssumption DEF Bookkeeping, Fd, NoFd
<1>5. Elements(events) = {}
  BY <1>4 DEF Elements
<1>6. TypeOK'
  BY <1>1, <1>2, <1>3 DEF TypeOK
<1>7. InterestHasCallback'
  BY <1>1 DEF InterestHasCallback
<1>8. BatchIsLive'
  BY <1>1, <1>3, <1>4 DEF BatchIsLive, Bookkeeping
<1>9. UnseenIsPending'
  BY <1>1, <1>3, <1>5 DEF UnseenIsPending
<1>10. Bookkeeping'
  BY <1>1, <1>3, <1>4 DEF Bookkeeping, TypeOK
<1>11. QED
  BY <1>6, <1>7, <1>8, <1>9, <1>10

\* The next event of the batch is dispatched.  Its descriptor is watched, so
\* that it has a callback, and comes once in the batch.
LEMMA Dispatching ==
    ASSUME LoopInv, Dispatch
    PROVE  LoopInv'
<1> USE DEF LoopInv
<1> DEFINE h == Head(events)
           t == Tail(events)
<1>1. /\ pc = "batch" /\ events # << >> /\ events' = t
      /\ UNCHANGED <<kind, pending, interest, ready, fd_callbacks, running>>
  BY DEF Dispatch
<1>2. /\ h \in Fd /\ t \in Seq(Fd) /\ Len(t) <= Len(events)
      /\ Elements(events) = Elements(t) \cup {h} /\ Distinct(t) /\ h \notin Elements(t)
  BY <1>1, Taking DEF TypeOK, BatchIsLive
<1>3. HasCallback(h)
  BY <1>2 DEF BatchIsLive, InterestHasCallback, HasCallback
<1>4. pc' = "callback" /\ current' = h /\ unseen' = unseen \ {h}
  BY <1>3 DEF Dispatch
<1> HIDE DEF h, t
<1>5. h # NoFd
  BY <1>2, LoopAssumption DEF Fd, NoFd
<1>6. TypeOK'
  <2>1. Len(t) <= MaxEvents
    BY <1>2, LoopAssumption DEF TypeOK
  <2>2. QED
    BY <1>1, <1>2, <1>4, <2>1 DEF TypeOK
<1>7. InterestHasCallback'
  BY <1>1 DEF InterestHasCallback
<1>8. BatchIsLive'
  BY <1>1, <1>2, <1>4 DEF BatchIsLive
<1>9. UnseenIsPending'
  BY <1>1, <1>2, <1>4 DEF UnseenIsPending
<1>10. Bookkeeping'
  BY <1>1, <1>2, <1>4, <1>5 DEF Bookkeeping
<1>11. QED
  BY <1>6, <1>7, <1>8, <1>9, <1>10

\* A callback closes its descriptor, which is not in the rest of the batch.
LEMMA Closing ==
    ASSUME LoopInv, CloseOwn
    PROVE  LoopInv'
<1> USE DEF LoopInv
<1> DEFINE w == Without(ready, current)
<1>1. /\ pc = "callback" /\ pc' = "batch" /\ current' = NoFd
      /\ kind' = [kind EXCEPT ![current] = "free"]
      /\ pending' = [pending EXCEPT ![current] = 0]
      /\ interest' = interest \ {current} /\ ready' = w
      /\ unseen' = unseen \ {current}
      /\ fd_callbacks' = [fd_callbacks EXCEPT ![current] = "stale"]
      /\ UNCHANGED <<running, events>>
  BY DEF CloseOwn, Close
<1>2. /\ w \in Seq(Fd) /\ Elements(w) = Elements(ready) \ {current} /\ Distinct(w)
  BY Removing DEF TypeOK, Bookkeeping
<1> HIDE DEF w
<1>3. /\ current \in Fd /\ current \in interest /\ current \notin Elements(events)
      /\ current \in DOMAIN fd_callbacks /\ NoFd \notin Fd
  BY <1>1, LoopAssumption DEF TypeOK, BatchIsLive, Bookkeeping, InterestHasCallback, Fd, NoFd
<1>4. TypeOK'
  <2>1. PICK n \in 0 .. TableSize + 2 * MaxFd : fd_callbacks \in [0 .. n -> {"none", "own", "stale"}]
    BY DEF TypeOK
  <2>2. fd_callbacks' \in [0 .. n -> {"none", "own", "stale"}]
    BY <1>1, <2>1
  <2>3. 0 \in 0 .. Backlog
    BY LoopAssumption
  <2>4. kind' \in [Fd -> {"free", "reader", "listener", "accepted"}] /\ pending' \in [Fd -> 0 .. Backlog]
    BY <1>1, <2>3 DEF TypeOK
  <2>5. QED
    BY <1>1, <1>2, <2>1, <2>2, <2>4 DEF TypeOK
<1>5. InterestHasCallback'
  BY <1>1, <1>3 DEF InterestHasCallback
<1>6. BatchIsLive'
  BY <1>1, <1>3 DEF BatchIsLive
<1>7. UnseenIsPending'
  BY <1>1, <1>2, <1>3 DEF UnseenIsPending
<1>8. Bookkeeping'
  <2>1. NoFd \notin Elements(events)
    BY <1>3 DEF BatchIsLive, TypeOK
  <2>2. \A f \in interest' : kind'[f] \in {"reader", "listener"}
    BY <1>1, <1>3 DEF Bookkeeping, TypeOK
  <2>3. QED
    BY <1>1, <1>2, <2>1, <2>2 DEF Bookkeeping
<1>9. QED
  BY <1>4, <1>5, <1>6, <1>7, <1>8

\* Something arrives.
LEMMA Arriving ==
    ASSUME LoopInv, NEW f \in Fd, Arrive(f)
    PROVE  LoopInv'
<1> USE DEF LoopInv
<1>1. /\ f \in interest /\ pending[f] < Backlog
      /\ pending' = [pending EXCEPT ![f] = pending[f] + 1]
      /\ ready' = IF f \in Elements(ready) THEN ready ELSE Append(ready, f)
      /\ unseen' = unseen \cup {f}
      /\ UNCHANGED <<kind, interest, fd_callbacks, running, pc, events, current>>
  BY DEF Arrive, loop
<1>2. ready' \in Seq(Fd) /\ Elements(ready') = Elements(ready) \cup {f} /\ Distinct(ready')
  BY <1>1, Appending DEF TypeOK, Bookkeeping
<1>3. TypeOK'
  <2>1. pending[f] + 1 \in 0 .. Backlog
    BY <1>1, LoopAssumption DEF TypeOK
  <2>2. pending' \in [Fd -> 0 .. Backlog]
    BY <1>1, <2>1 DEF TypeOK
  <2>3. QED
    BY <1>1, <1>2, <2>2 DEF TypeOK
<1>4. InterestHasCallback' /\ BatchIsLive'
  BY <1>1 DEF InterestHasCallback, BatchIsLive
<1>5. UnseenIsPending'
  BY <1>1, <1>2 DEF UnseenIsPending
<1>6. Bookkeeping'
  BY <1>1, <1>2 DEF Bookkeeping
<1>7. QED
  BY <1>3, <1>4, <1>5, <1>6

\* A callback reads, accepts, or closes a connection that it has accepted.
\* None of this is a descriptor that epoll watches.
LEMMA Serving ==
    ASSUME LoopInv, Recv \/ Accept \/ \E f \in Fd : CloseAccepted(f)
    PROVE  LoopInv'
<1> USE DEF LoopInv
<1>1. /\ UNCHANGED <<interest, ready, unseen, fd_callbacks, running, pc, events, current>>
      /\ pc = "callback"
  BY DEF Recv, Accept, CloseAccepted, loop
<1>2. current \in Fd
  BY <1>1 DEF Bookkeeping, TypeOK
<1>3. /\ pending' \in [Fd -> 0 .. Backlog]
      /\ kind' \in [Fd -> {"free", "reader", "listener", "accepted"}]
      /\ \A f \in interest : kind'[f] \in {"reader", "listener"}
  <2>1. ASSUME pending[current] > 0, pending' = [pending EXCEPT ![current] = pending[current] - 1]
        PROVE  pending' \in [Fd -> 0 .. Backlog]
    <3>1. pending[current] - 1 \in 0 .. Backlog
      BY <1>2, <2>1, LoopAssumption DEF TypeOK
    <3>2. QED
      BY <2>1, <3>1 DEF TypeOK
  <2>2. CASE Recv
    BY <2>1, <2>2 DEF Recv, TypeOK, Bookkeeping
  <2>3. CASE Accept
    <3>1. PICK f \in NewFd : kind' = [kind EXCEPT ![f] = "accepted"]
      BY <2>3 DEF Accept
    <3>2. f \in Fd /\ f \notin interest
      BY <3>1 DEF NewFd, Free, Bookkeeping
    <3>3. QED
      BY <2>1, <2>3, <3>1, <3>2 DEF Accept, TypeOK, Bookkeeping
  <2>4. CASE \E f \in Fd : CloseAccepted(f)
    <3>1. PICK f \in Fd : CloseAccepted(f)
      BY <2>4
    <3>2. f \notin interest
      BY <3>1 DEF CloseAccepted, Bookkeeping
    <3>3. QED
      BY <3>1, <3>2 DEF CloseAccepted, TypeOK, Bookkeeping
  <2>5. QED
    BY <2>2, <2>3, <2>4
<1>4. TypeOK'
  BY <1>1, <1>3 DEF TypeOK
<1>5. InterestHasCallback' /\ BatchIsLive' /\ UnseenIsPending'
  BY <1>1 DEF InterestHasCallback, BatchIsLive, UnseenIsPending
<1>6. Bookkeeping'
  BY <1>1, <1>3 DEF Bookkeeping
<1>7. QED
  BY <1>4, <1>5, <1>6

\* The steps that only move the thread on or change the flag.
LEMMA Moving ==
    ASSUME LoopInv, run \/ stop \/ LoopTest \/ BatchDone \/ Return
    PROVE  LoopInv'
<1> USE DEF LoopInv
<1>1. UNCHANGED <<kind, pending, interest, ready, unseen, fd_callbacks, events>>
  BY DEF run, stop, LoopTest, BatchDone, Return, kernel
<1>2. /\ pc' \in {"out", "test", "wait", "batch", "callback", "destroyed"}
      /\ current' \in {current, NoFd}
      /\ pc # "destroyed"
      /\ pc' = "callback" <=> current' # NoFd
      /\ pc' \notin {"batch", "callback"} => events = << >>
  <2>1. CASE run \/ stop
    BY <2>1 DEF run, stop, TypeOK, Bookkeeping
  <2>2. CASE LoopTest
    BY <2>2 DEF LoopTest, Bookkeeping
  <2>3. CASE BatchDone \/ Return
    BY <2>3 DEF BatchDone, Return, Bookkeeping
  <2>4. QED
    BY <2>1, <2>2, <2>3
<1>3. running' \in BOOLEAN
  BY DEF run, stop, LoopTest, BatchDone, Return, TypeOK
<1>4. NoFd \notin Elements(events)
  BY LoopAssumption DEF BatchIsLive, TypeOK, Fd, NoFd
<1>5. TypeOK'
  BY <1>1, <1>2, <1>3 DEF TypeOK
<1>6. InterestHasCallback' /\ UnseenIsPending'
  BY <1>1 DEF InterestHasCallback, UnseenIsPending
<1>7. BatchIsLive'
  BY <1>1, <1>2 DEF BatchIsLive
<1>8. Bookkeeping'
  BY <1>1, <1>2, <1>4 DEF Bookkeeping
<1>9. QED
  BY <1>5, <1>6, <1>7, <1>8

\* The destructor, outside of run.
LEMMA Destroying ==
    ASSUME LoopInv, Destroy
    PROVE  LoopInv'
<1> USE DEF LoopInv
<1>1. /\ pc = "out" /\ pc' = "destroyed" /\ running' = FALSE /\ interest' = {} /\ ready' = << >>
      /\ UNCHANGED <<kind, pending, unseen, fd_callbacks, events, current>>
  BY DEF Destroy
<1>2. events = << >> /\ current = NoFd
  BY <1>1 DEF Bookkeeping
<1>3. Elements(<< >>) = {} /\ Distinct(<< >>) /\ << >> \in Seq(Fd)
  BY DEF Elements, Distinct
<1>4. TypeOK'
  BY <1>1, <1>3 DEF TypeOK
<1>5. InterestHasCallback' /\ UnseenIsPending' /\ BatchIsLive'
  BY <1>1, <1>2, <1>3 DEF InterestHasCallback, UnseenIsPending, BatchIsLive
<1>6. Bookkeeping'
  BY <1>1, <1>2, <1>3 DEF Bookkeeping
<1>7. QED
  BY <1>4, <1>5, <1>6

\* LoopInv holds at the start.
LEMMA Starting == Init => LoopInv
<1> SUFFICES ASSUME Init PROVE LoopInv
  OBVIOUS
<1>1. Elements(<< >>) = {} /\ Distinct(<< >>) /\ << >> \in Seq(Fd) /\ Len(<< >>) = 0
  BY DEF Elements, Distinct
<1>2. /\ TableSize - 1 \in 0 .. TableSize + 2 * MaxFd /\ 0 \in 0 .. Backlog /\ 0 <= MaxEvents
  BY LoopAssumption
<1>3. TypeOK
  <2>1. fd_callbacks \in [0 .. TableSize - 1 -> {"none", "own", "stale"}]
    BY DEF Init
  <2>2. QED
    BY <1>1, <1>2, <2>1 DEF Init, TypeOK
<1>4. InterestHasCallback /\ BatchIsLive /\ UnseenIsPending /\ Bookkeeping
  BY <1>1 DEF Init, InterestHasCallback, BatchIsLive, UnseenIsPending, Bookkeeping
<1>5. QED
  BY <1>3, <1>4 DEF LoopInv

\* Every step keeps LoopInv.
LEMMA Stepping == LoopInv /\ [Next]_vars => LoopInv'
<1> SUFFICES ASSUME LoopInv, [Next]_vars PROVE LoopInv'
  OBVIOUS
<1>1. CASE addUDPMulticastListener \/ addTCPListener \/ addTCPClient
  BY <1>1, Adding DEF addUDPMulticastListener, addTCPListener, addTCPClient
<1>2. CASE run \/ stop \/ LoopTest \/ BatchDone \/ Return
  BY <1>2, Moving
<1>3. CASE Destroy
  BY <1>3, Destroying
<1>4. CASE EpollWait
  BY <1>4, Waiting
<1>5. CASE Dispatch
  BY <1>5, Dispatching
<1>6. CASE Recv \/ Accept \/ \E f \in Fd : CloseAccepted(f)
  BY <1>6, Serving
<1>7. CASE CloseOwn
  BY <1>7, Closing
<1>8. CASE \E f \in Fd : Arrive(f)
  BY <1>8, Arriving
<1>9. CASE UNCHANGED vars
  BY <1>9 DEF vars, kernel, loop, LoopInv, TypeOK, InterestHasCallback, BatchIsLive,
              UnseenIsPending, Bookkeeping
<1>10. QED
  BY <1>1, <1>2, <1>3, <1>4, <1>5, <1>6, <1>7, <1>8, <1>9 DEF Next, LoopStep, Callback
------------------------------------------------------------------------------
(* The theorems *)

\* The invariant holds in every behaviour of the loop.
THEOREM LoopInvariant == Spec => []LoopInv
<1>1. Init => LoopInv
  BY Starting
<1>2. LoopInv /\ [Next]_vars => LoopInv'
  BY Stepping
<1>3. QED
  BY <1>1, <1>2, PTL DEF Spec

\* A batch never holds more than MAX_EVENTS events, the table is always large
\* enough to be indexed and no counter leaves its range.
THEOREM LoopTypeCorrect == Spec => []TypeOK
<1>1. LoopInv => TypeOK
  BY DEF LoopInv
<1>2. QED
  BY <1>1, LoopInvariant, PTL

\* Whatever sockets callbacks add and close, and however often numbers are used
\* again, a watched descriptor has its own callback (NetworkEventLoop.cpp:42-60).
THEOREM CallbacksFound == Spec => []InterestHasCallback
<1>1. LoopInv => InterestHasCallback
  BY DEF LoopInv
<1>2. QED
  BY <1>1, LoopInvariant, PTL

\* No callback runs for a descriptor that was closed earlier in its batch
\* (NetworkEventLoop.cpp:190-197).
THEOREM BatchLive == Spec => []BatchIsLive
<1>1. LoopInv => BatchIsLive
  BY DEF LoopInv
<1>2. QED
  BY <1>1, LoopInvariant, PTL

\* No edge is lost between its arrival and the call of the callback
\* (NetworkEventLoop.cpp:50-54 and 186-198).
THEOREM EdgesKept == Spec => []UnseenIsPending
<1>1. LoopInv => UnseenIsPending
  BY DEF LoopInv
<1>2. QED
  BY <1>1, LoopInvariant, PTL
------------------------------------------------------------------------------
(* The emulator *)

\* What the emulator does, its clients included, is to the loop a step of a
\* program that keeps to the rules, or nothing.
LEMMA EmulatorSteps == [EmulatorNext]_<<vars, emulator>> => [Next]_vars
<1> SUFFICES ASSUME EmulatorNext PROVE [Next]_vars
  OBVIOUS
<1>1. CASE Listen \/ Start
  BY <1>1 DEF Listen, Start, Next
<1>2. CASE LoopStep
  BY <1>2 DEF Next
<1>3. CASE AcceptFails \/ AcceptClient \/ ConnectBack \/ Leave
  BY <1>3 DEF AcceptFails, AcceptClient, ConnectBack, Leave, Next, Callback
<1>4. CASE RecvFails \/ RecvEnds
  BY <1>4 DEF RecvFails, RecvEnds, Next, Callback
<1>5. CASE \E c \in Client, whole \in BOOLEAN, ts \in Timestamp : RecvOrder(c, whole, ts)
  BY <1>5 DEF RecvOrder
<1>6. CASE \E c \in Client : Connect(c)
  BY <1>6 DEF Connect, Next
<1>7. CASE \E c \in Client : \E o \in ClientOrder : Send(c, o)
  BY <1>7 DEF Send
<1>8. CASE \E f \in Fd : Refused(f)
  BY <1>8 DEF Refused, Next
<1>9. QED
  BY <1>1, <1>2, <1>3, <1>4, <1>5, <1>6, <1>7, <1>8 DEF EmulatorNext, EmulatorStep

\* In the emulator, too, no callback runs for a descriptor that was closed, and
\* every event finds the callback of its own socket, although the callback of
\* the listener registers sockets and the other one closes them
\* (ExchangeEmulator.cpp:47-106).
THEOREM EmulatorBatchLive == EmulatorSpec => [](BatchIsLive /\ InterestHasCallback)
<1>1. EmulatorInit => LoopInv
  BY Starting DEF EmulatorInit
<1>2. LoopInv /\ [EmulatorNext]_<<vars, emulator>> => LoopInv'
  BY Stepping, EmulatorSteps
<1>3. LoopInv => BatchIsLive /\ InterestHasCallback
  BY DEF LoopInv
<1>4. QED
  BY <1>1, <1>2, <1>3, PTL DEF EmulatorSpec

\* The connections of the clients are sockets that the loop does not know, and
\* nothing was relayed.
ClientsUnheard ==
    /\ connection \in [Client -> Fd \cup {NoFd}]
    /\ \A c \in Client : connection[c] # NoFd => kind[connection[c]] = "accepted"
    /\ feed = << >> /\ order_ref_counter = FirstRef

\* Only a socket that is not a client's connection is added or closed.
KeepsAccepted == \A f \in Fd : kind[f] = "accepted" => kind'[f] = "accepted"

LEMMA ConnectionsStay ==
    ASSUME ClientsUnheard, KeepsAccepted \/ UNCHANGED kind,
           UNCHANGED <<connection, feed, order_ref_counter>>
    PROVE  ClientsUnheard'
<1>1. \A c \in Client : connection[c] \in Fd \cup {NoFd}
  BY DEF ClientsUnheard
<1>2. QED
  BY <1>1 DEF ClientsUnheard, KeepsAccepted

\* The number of one socket is given to another use.
LEMMA OtherKind ==
    ASSUME LoopInv, NEW f \in Fd, kind[f] # "accepted", NEW k, kind' = [kind EXCEPT ![f] = k]
    PROVE  KeepsAccepted
<1>1. kind \in [Fd -> {"free", "reader", "listener", "accepted"}]
  BY DEF LoopInv, TypeOK
<1>2. QED
  BY <1>1 DEF KeepsAccepted

\* Adding a socket.
LEMMA AddedKind ==
    ASSUME LoopInv, NEW k, AddSocket(k)
    PROVE  KeepsAccepted \/ UNCHANGED kind
<1>1. PICK f \in NewFd, n \in {0, 1} : registerFd(f, k, n)
  BY DEF AddSocket
<1>2. f \in Fd /\ kind[f] = "free"
  BY DEF NewFd, Free
<1>3. kind' = [kind EXCEPT ![f] = k] \/ UNCHANGED kind
  BY <1>1 DEF registerFd, kernel
<1>4. QED
  BY <1>2, <1>3, OtherKind

\* One step of the emulator, statement by statement.
LEMMA UnheardStep ==
    ASSUME LoopInv, ClientsUnheard, [EmulatorNext]_<<vars, emulator>>
    PROVE  ClientsUnheard'
<1>1. CASE UNCHANGED <<vars, emulator>>
  BY <1>1, ConnectionsStay DEF vars, kernel, emulator
<1>2. CASE Listen
  BY <1>2, AddedKind, ConnectionsStay DEF Listen, addTCPListener
<1>3. CASE ConnectBack
  BY <1>3, AddedKind, ConnectionsStay DEF ConnectBack, addTCPClient, vars, kernel
<1>4. CASE Start \/ (LoopStep /\ UNCHANGED emulator)
  BY <1>4, ConnectionsStay
     DEF Start, run, LoopStep, LoopTest, EpollWait, Dispatch, BatchDone, kernel, emulator
<1>5. CASE AcceptFails \/ Leave \/ RecvFails
  BY <1>5, ConnectionsStay DEF AcceptFails, Leave, RecvFails, Return, Recv, kernel, emulator
<1>6. CASE AcceptClient
  <2>1. PICK f \in NewFd : kind' = [kind EXCEPT ![f] = "accepted"]
    BY <1>6 DEF AcceptClient, Accept
  <2>2. PICK g \in NewFd : connection' = [connection EXCEPT ![Head(backlog)] = g]
    BY <1>6 DEF AcceptClient
  <2>3. f \in Fd /\ g \in Fd /\ f <= g /\ g <= f
    BY DEF NewFd, Free
  <2>4. f = g
    BY <2>3, LoopAssumption DEF Fd
  <2>5. kind \in [Fd -> {"free", "reader", "listener", "accepted"}]
    BY DEF LoopInv, TypeOK
  <2>6. \A h \in Fd : kind[h] = "accepted" \/ h = f => kind'[h] = "accepted"
    BY <2>1, <2>3, <2>5
  <2>7. connection' \in [Client -> Fd \cup {NoFd}]
    BY <2>2, <2>3 DEF ClientsUnheard
  <2>8. \A c \in Client : connection'[c] = f \/ connection'[c] = connection[c]
    BY <2>2, <2>4 DEF ClientsUnheard
  <2>9. \A c \in Client : connection'[c] # NoFd => kind'[connection'[c]] = "accepted"
    BY <2>3, <2>6, <2>7, <2>8 DEF ClientsUnheard
  <2>10. QED
    BY <1>6, <2>7, <2>9 DEF AcceptClient, ClientsUnheard
<1>7. CASE RecvEnds
  <2>1. current \in Fd /\ kind[current] = "reader" /\ kind' = [kind EXCEPT ![current] = "free"]
    BY <1>7 DEF RecvEnds, InReader, CloseOwn, Close, LoopInv, Bookkeeping, TypeOK
  <2>2. KeepsAccepted
    BY <2>1, OtherKind
  <2>3. QED
    BY <1>7, <2>2, ConnectionsStay DEF RecvEnds
<1>8. ASSUME NEW c \in Client, NEW whole \in BOOLEAN, NEW ts \in Timestamp, RecvOrder(c, whole, ts)
      PROVE  FALSE
  <2>1. pc = "callback" /\ kind[current] = "reader" /\ connection[c] = current
    BY <1>8 DEF RecvOrder, InReader
  <2>2. current # NoFd
    BY <2>1 DEF LoopInv, Bookkeeping
  <2>3. QED
    BY <2>1, <2>2 DEF ClientsUnheard
<1>9. CASE \E c \in Client : Connect(c) \/ \E o \in ClientOrder : Send(c, o)
  BY <1>9, ConnectionsStay DEF Connect, Send, Arrive, vars, kernel
<1>10. CASE \E f \in Fd : Refused(f)
  BY <1>10, ConnectionsStay DEF Refused, Arrive, emulator
<1>11. QED
  BY <1>1, <1>2, <1>3, <1>4, <1>5, <1>6, <1>7, <1>8, <1>9, <1>10 DEF EmulatorNext, EmulatorStep

\* What the run that refutes OrdersAreRead shows for one client holds for any
\* number of clients, orders and descriptors: the socket that the listener's
\* callback registers is never a client's, so that no order is ever relayed
\* (ExchangeEmulator.cpp:51-98).
THEOREM NothingRelayed == EmulatorSpec => [](feed = << >>)
<1>1. EmulatorInit => LoopInv /\ ClientsUnheard
  BY Starting DEF EmulatorInit, ClientsUnheard
<1>2. LoopInv /\ ClientsUnheard /\ [EmulatorNext]_<<vars, emulator>> => (LoopInv /\ ClientsUnheard)'
  BY Stepping, EmulatorSteps, UnheardStep
<1>3. ClientsUnheard => feed = << >>
  BY DEF ClientsUnheard
<1>4. QED
  BY <1>1, <1>2, <1>3, PTL DEF EmulatorSpec
==============================================================================
