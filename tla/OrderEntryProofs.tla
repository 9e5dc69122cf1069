-------------------------- MODULE OrderEntryProofs ---------------------------
(***************************************************************************)
(* Proofs about OrderEntry, for every set of strategy threads, every limit *)
(* and every size of the messages and of the send buffer.                  *)
(***************************************************************************)
EXTENDS OrderEntry, DataLemmas

(***************************************************************************)
(* The overshoot.  v are the n values of the position as one side sees     *)
(* them, and from[t] is the oldest one that thread t may still load.       *)
(***************************************************************************)

\* The threads that may still find room under the limit.
Unaware(v, n, from) == {t \in Thread : \E j \in from[t] .. n : v[j] < MaxPosition}

\* Some thread w finds room for r at most, and every other unaware thread may
\* still add a whole order to the newest value.
Headroom(v, n, from) ==
    \E w \in Thread, r \in Nat :
        /\ r = MaxOrderSize \/ \A j \in from[w] .. n : v[j] >= MaxPosition - r
        /\ v[n] + r + MaxOrderSize * Cardinality(Unaware(v, n, from) \ {w})
             <= MaxPosition + (Cardinality(Thread) - 1) * MaxOrderSize

\* The values so far, and those of one more.
Values(v, n, from) == n \in Nat \ {0} /\ v \in [1 .. n -> Int] /\ from \in [Thread -> 1 .. n]
Extends(v, n, e) == e \in [1 .. n + 1 -> Int] /\ \A j \in 1 .. n : e[j] = v[j]

\* Products of sizes and numbers of threads.
LEMMA Products ==
    \A q, c, d \in Nat : /\ q * c \in Nat
                         /\ c <= d => q * c <= q * d
                         /\ q * (c + 1) = q * c + q
                         /\ c >= 1 => q * (c - 1) = q * c - q
                         /\ c * q = q * c
<1>1. \A q, c, d \in Nat : q * (c + d) = q * c + q * d /\ q * c \in Nat /\ c * q = q * c
  BY Z3
<1>2. \A q, c, d \in Nat : c <= d => q * c <= q * d
  <2> SUFFICES ASSUME NEW q \in Nat, NEW c \in Nat, NEW d \in Nat, c <= d PROVE q * c <= q * d
    OBVIOUS
  <2>1. d - c \in Nat /\ c + (d - c) = d
    OBVIOUS
  <2>2. q * (c + (d - c)) = q * c + q * (d - c) /\ q * (d - c) \in Nat /\ q * c \in Nat
    BY <1>1, <2>1
  <2>3. QED
    BY <2>1, <2>2
<1>3. \A q, c \in Nat : q * (c + 1) = q * c + q
  BY Z3
<1>4. \A q, c \in Nat : c >= 1 => q * (c - 1) = q * c - q
  BY Z3
<1>5. QED
  BY <1>1, <1>2, <1>3, <1>4

\* Every set of threads is finite, and one without some thread is smaller than Thread.
LEMMA ThreadSets ==
    /\ Cardinality(Thread) \in Nat \ {0}
    /\ \A U \in SUBSET Thread : IsFiniteSet(U) /\ Cardinality(U) \in Nat
    /\ \A U \in SUBSET Thread, w \in Thread : Cardinality(U \ {w}) <= Cardinality(Thread) - 1
    /\ \A U \in SUBSET Thread : \A t \in U : Cardinality(U \ {t}) = Cardinality(U) - 1
    /\ \A U, R \in SUBSET Thread : U \subseteq R => Cardinality(U) <= Cardinality(R)
<1>1. IsFiniteSet(Thread) /\ Thread # {}
  BY EntryAssumption
<1>2. \A U \in SUBSET Thread : IsFiniteSet(U) /\ Cardinality(U) \in Nat
  BY <1>1, FS_Subset, FS_CardinalityType
<1>3. Cardinality(Thread) # 0
  BY <1>1, FS_EmptySet
<1>4. \A U, R \in SUBSET Thread : U \subseteq R => Cardinality(U) <= Cardinality(R)
  BY <1>2, FS_Subset
<1>5. \A U \in SUBSET Thread : \A t \in U : Cardinality(U \ {t}) = Cardinality(U) - 1
  BY <1>2, FS_RemoveElement
<1>6. \A U \in SUBSET Thread, w \in Thread : Cardinality(U \ {w}) <= Cardinality(Thread) - 1
  <2> TAKE U \in SUBSET Thread, w \in Thread
  <2>1. Cardinality(Thread \ {w}) = Cardinality(Thread) - 1
    BY <1>5
  <2>2. U \ {w} \subseteq Thread \ {w} /\ U \ {w} \in SUBSET Thread /\ Thread \ {w} \in SUBSET Thread
    OBVIOUS
  <2>3. QED
    BY <1>4, <2>1, <2>2
<1>7. QED
  BY <1>2, <1>3, <1>4, <1>5, <1>6

\* The newest value is within the bound.
LEMMA HeadroomBounds ==
    ASSUME NEW v, NEW n, NEW from, Values(v, n, from), Headroom(v, n, from)
    PROVE  v[n] <= MaxPosition + (Cardinality(Thread) - 1) * MaxOrderSize
<1>1. PICK w \in Thread, r \in Nat :
        v[n] + r + MaxOrderSize * Cardinality(Unaware(v, n, from) \ {w})
             <= MaxPosition + (Cardinality(Thread) - 1) * MaxOrderSize
  BY DEF Headroom
<1> DEFINE c == Cardinality(Unaware(v, n, from) \ {w})
           B == (Cardinality(Thread) - 1) * MaxOrderSize
<1>2. c \in Nat /\ Cardinality(Thread) - 1 \in Nat
  BY ThreadSets DEF Unaware
<1> HIDE DEF c
<1>3. MaxOrderSize * c \in Nat /\ B \in Nat
  BY <1>2, Products, EntryAssumption
<1> HIDE DEF B
<1>4. v[n] + r + MaxOrderSize * c <= MaxPosition + B
  BY <1>1 DEF c, B
<1>5. v[n] \in Int /\ MaxPosition \in Nat
  BY EntryAssumption DEF Values
<1>6. QED
  BY <1>3, <1>4, <1>5 DEF B

\* With room for a whole order of everybody, there is headroom.
LEMMA HeadroomForAll ==
    ASSUME NEW v, NEW n, NEW from, Values(v, n, from), NEW w \in Thread, NEW r \in Nat,
           r = MaxOrderSize \/ \A j \in from[w] .. n : v[j] >= MaxPosition - r,
           v[n] + r <= MaxPosition
    PROVE  Headroom(v, n, from)
<1> DEFINE c == Cardinality(Unaware(v, n, from) \ {w})
           d == Cardinality(Thread) - 1
<1>1. c \in Nat /\ d \in Nat /\ c <= d
  BY ThreadSets DEF Unaware
<1>2. v[n] \in Int /\ MaxPosition \in Nat /\ MaxOrderSize \in Nat
  BY EntryAssumption DEF Values
<1> HIDE DEF c, d
<1>3. MaxOrderSize * c <= d * MaxOrderSize /\ MaxOrderSize * c \in Nat /\ d * MaxOrderSize \in Nat
  BY <1>1, <1>2, Products
<1>4. v[n] + r + MaxOrderSize * c <= MaxPosition + d * MaxOrderSize
  BY <1>2, <1>3
<1>5. QED
  BY <1>4 DEF Headroom, c, d

\* A fetch_add by t of at most what t has found room for.
LEMMA HeadroomAdd ==
    ASSUME NEW v, NEW n, NEW from, Values(v, n, from), Headroom(v, n, from),
           NEW t \in Thread, NEW q \in Int, q <= MaxOrderSize, v[from[t]] + q <= MaxPosition,
           NEW e, Extends(v, n, e), e[n + 1] = v[n] + q,
           NEW to, to = [from EXCEPT ![t] = n + 1]
    PROVE  Values(e, n + 1, to) /\ Headroom(e, n + 1, to)
<1> DEFINE M == MaxPosition
           Q == MaxOrderSize
           N == Cardinality(Thread)
           U == Unaware(v, n, from)
           A == Unaware(e, n + 1, to)
<1>1. /\ n \in Nat \ {0} /\ v \in [1 .. n -> Int] /\ from \in [Thread -> 1 .. n]
      /\ e \in [1 .. n + 1 -> Int] /\ \A j \in 1 .. n : e[j] = v[j]
      /\ M \in Nat /\ Q \in Nat
  BY EntryAssumption DEF Values, Extends
<1>2. /\ to \in [Thread -> 1 .. n + 1] /\ to[t] = n + 1
      /\ \A u \in Thread : u # t => to[u] = from[u]
  BY <1>1
<1>3. Values(e, n + 1, to)
  BY <1>1, <1>2 DEF Values
<1>4. CASE e[n + 1] <= M
  <2>1. e[n + 1] \in Int
    BY <1>1
  <2>2. \A x \in Int, m \in Nat : x <= m => m - x \in Nat /\ x + (m - x) <= m /\ x >= m - (m - x)
    OBVIOUS
  <2>3. /\ M - e[n + 1] \in Nat /\ e[n + 1] + (M - e[n + 1]) <= M
        /\ e[n + 1] >= M - (M - e[n + 1])
    BY <1>1, <1>4, <2>1, <2>2
  <2>4. \A j \in to[t] .. n + 1 : j = n + 1
    BY <1>1, <1>2
  <2>5. QED
    BY <1>3, <2>3, <2>4, HeadroomForAll
<1>5. CASE e[n + 1] > M
  <2>1. PICK w \in Thread, r \in Nat :
          /\ r = Q \/ \A j \in from[w] .. n : v[j] >= M - r
          /\ v[n] + r + Q * Cardinality(U \ {w}) <= M + (N - 1) * Q
    BY DEF Headroom
  <2> DEFINE c == Cardinality(U \ {w})
             B == (N - 1) * Q
  <2>2. U \in SUBSET Thread /\ A \in SUBSET Thread
    BY DEF Unaware
  <2>3. c \in Nat /\ Q * c \in Nat /\ B \in Nat
    <3>1. U \ {w} \in SUBSET Thread
      BY <2>2
    <3>2. c \in Nat /\ N - 1 \in Nat
      BY <3>1, ThreadSets
    <3> HIDE DEF c, N
    <3>3. QED
      BY <1>1, <3>2, Products
  <2>4. A = U \ {t}
    <3>1. \A u \in Thread : u \in A => u \in U \ {t}
      BY <1>1, <1>2, <1>5 DEF Unaware
    <3>2. \A u \in Thread : u \in U \ {t} => u \in A
      BY <1>1, <1>2 DEF Unaware
    <3>3. QED
      BY <2>2, <3>1, <3>2
  <2>5. v[n] \in Int /\ v[from[t]] \in Int /\ from[t] \in 1 .. n /\ e[n + 1] = v[n] + q
    BY <1>1
  <2>6. CASE t = w
    <3>1. q <= r
      <4>1. CASE r = Q
        BY <4>1
      <4>2. CASE \A j \in from[w] .. n : v[j] >= M - r
        <5>1. v[from[t]] >= M - r
          <6>1. from[t] \in from[w] .. n
            BY <2>5, <2>6, <1>1
          <6>2. QED
            BY <4>2, <6>1
        <5>2. q <= M - v[from[t]]
          BY <1>1, <2>5
        <5>3. QED
          BY <1>1, <2>5, <5>1, <5>2, SMTT(30)
      <4>3. QED
        BY <2>1, <4>1, <4>2
    <3>2. A \ {w} = U \ {w}
      BY <2>4, <2>6
    <3>3. Cardinality(A \ {w}) = c
      BY <3>2
    <3> HIDE DEF c, B
    <3>4. v[n] + r + Q * c <= M + B
      BY <2>1 DEF c, B
    <3>5. e[n + 1] + 0 + Q * c <= M + B
      <4> DEFINE K == Q * c
                 L == M + B
      <4>1. v[n] + r + K <= L /\ K \in Int /\ L \in Int /\ v[n] \in Int
        BY <1>1, <2>3, <2>5, <3>4
      <4> HIDE DEF K, L
      <4>2. \A x, k, b \in Int : x + r + k <= b => x + q + 0 + k <= b
        BY <3>1
      <4>3. e[n + 1] + 0 + K <= L
        BY <2>5, <4>1, <4>2
      <4>4. QED
        BY <4>3 DEF K, L
    <3>6. \A j \in to[w] .. n + 1 : e[j] >= M - 0
      BY <1>1, <1>2, <1>5, <2>6
    <3>7. QED
      BY <1>3, <3>3, <3>5, <3>6 DEF Headroom, B
  <2>7. CASE t # w
    <3>1. r = Q \/ \A j \in to[w] .. n + 1 : e[j] >= M - r
      <4>1. CASE r = Q
        BY <4>1
      <4>2. CASE \A j \in from[w] .. n : v[j] >= M - r
        BY <1>1, <1>2, <1>5, <2>7, <4>2
      <4>3. QED
        BY <2>1, <4>1, <4>2
    <3>2. e[n + 1] + r + Q * Cardinality(A \ {w}) <= M + B
      <4> DEFINE K == Q * c
                 L == M + B
      <4>1. v[n] + r + K <= L /\ K \in Int /\ L \in Int
        BY <1>1, <2>1, <2>3
      <4>2. CASE t \in U
        <5>1. A \ {w} = (U \ {w}) \ {t} /\ t \in U \ {w} /\ U \ {w} \in SUBSET Thread
          BY <2>2, <2>4, <2>7, <4>2
        <5>2. Cardinality(A \ {w}) = c - 1 /\ Cardinality(A \ {w}) \in Nat
          BY <5>1, ThreadSets
        <5> HIDE DEF c
        <5>3. Q * Cardinality(A \ {w}) = K - Q
          BY <1>1, <2>3, <5>2, Products
        <5> HIDE DEF K, L
        <5>4. \A x, k, b \in Int : x + r + k <= b => x + q + r + (k - Q) <= b
          BY <1>1
        <5>5. e[n + 1] + r + (K - Q) <= L
          BY <2>5, <4>1, <5>4
        <5>6. QED
          BY <5>3, <5>5 DEF L
      <4>3. CASE t \notin U
        <5>1. A \ {w} = U \ {w}
          BY <2>4, <4>3
        <5>2. v[from[t]] >= M
          <6>1. from[t] \in from[t] .. n
            BY <1>1, <2>5
          <6>2. ~ (v[from[t]] < M)
            BY <4>3, <6>1 DEF Unaware
          <6>3. QED
            BY <1>1, <2>5, <6>2
        <5>3. q <= 0
          BY <1>1, <2>5, <5>2
        <5> HIDE DEF K, L
        <5>4. \A x, k, b \in Int : x + r + k <= b => x + q + r + k <= b
          BY <5>3
        <5>5. e[n + 1] + r + K <= L
          BY <2>5, <4>1, <5>4
        <5>6. QED
          BY <5>1, <5>5 DEF K, L
      <4>4. QED
        BY <4>2, <4>3
    <3>3. QED
      BY <1>3, <3>1, <3>2 DEF Headroom
  <2>8. QED
    BY <2>6, <2>7
<1>6. QED
  BY <1>1, <1>4, <1>5

\* A reset: any thread may add a whole order to 0.
LEMMA HeadroomReset ==
    ASSUME NEW v, NEW n, NEW from, Values(v, n, from), MaxOrderSize <= MaxPosition,
           NEW e, Extends(v, n, e), e[n + 1] = 0
    PROVE  Values(e, n + 1, from) /\ Headroom(e, n + 1, from)
<1>1. Values(e, n + 1, from)
  BY DEF Values, Extends
<1>2. PICK w \in Thread : TRUE
  BY EntryAssumption
<1>3. e[n + 1] + MaxOrderSize <= MaxPosition
  BY EntryAssumption
<1>4. QED
  BY <1>1, <1>2, <1>3, HeadroomForAll, EntryAssumption

\* A load: the thread has seen newer values and may load fewer.
LEMMA HeadroomLoad ==
    ASSUME NEW v, NEW n, NEW from, Values(v, n, from), Headroom(v, n, from),
           NEW to \in [Thread -> 1 .. n], \A u \in Thread : from[u] <= to[u]
    PROVE  Values(v, n, to) /\ Headroom(v, n, to)
<1> DEFINE U == Unaware(v, n, from)
           A == Unaware(v, n, to)
           B == (Cardinality(Thread) - 1) * MaxOrderSize
<1>1. n \in Nat \ {0} /\ v \in [1 .. n -> Int] /\ from \in [Thread -> 1 .. n]
  BY DEF Values
<1>2. \A u \in Thread : to[u] .. n \subseteq from[u] .. n
  BY <1>1
<1>3. A \subseteq U /\ U \in SUBSET Thread /\ A \in SUBSET Thread
  BY <1>2 DEF Unaware
<1>4. PICK w \in Thread, r \in Nat :
          /\ r = MaxOrderSize \/ \A j \in from[w] .. n : v[j] >= MaxPosition - r
          /\ v[n] + r + MaxOrderSize * Cardinality(U \ {w}) <= MaxPosition + B
  BY DEF Headroom
<1> DEFINE c == Cardinality(U \ {w})
           d == Cardinality(A \ {w})
<1>5. c \in Nat /\ d \in Nat /\ d <= c /\ Cardinality(Thread) - 1 \in Nat
  <2>1. A \ {w} \subseteq U \ {w} /\ A \ {w} \in SUBSET Thread /\ U \ {w} \in SUBSET Thread
    BY <1>3
  <2>2. QED
    BY <2>1, ThreadSets
<1> HIDE DEF c, d
<1>6. MaxOrderSize * d <= MaxOrderSize * c /\ MaxOrderSize * d \in Nat /\ MaxOrderSize * c \in Nat /\ B \in Nat
  BY <1>5, Products, EntryAssumption
<1> HIDE DEF B
<1>7. v[n] + r + MaxOrderSize * d <= MaxPosition + B
  BY <1>1, <1>4, <1>6, EntryAssumption DEF c
<1>8. r = MaxOrderSize \/ \A j \in to[w] .. n : v[j] >= MaxPosition - r
  BY <1>2, <1>4
<1>9. QED
  BY <1>1, <1>7, <1>8 DEF Values, Headroom, d, B

------------------------------------------------------------------------------
(* Types *)

\* A thread inside sendOrder works on one of its approved orders.
CallsMade == \A t \in Thread : pc[t] # "idle" => calls[t] >= 1

Unit == Thread \X (1 .. MaxCalls) \X (1 .. MsgUnits)

\* The position as a function.
LEMMA SequenceValues ==
    ASSUME NEW p \in Seq(Int), p # << >>, NEW from \in [Thread -> 1 .. Len(p)]
    PROVE  Values(p, Len(p), from)
<1>1. Len(p) \in Nat /\ Len(p) # 0 /\ p \in [1 .. Len(p) -> Int]
  BY LenProperties, EmptySeq
<1>2. QED
  BY <1>1 DEF Values

LEMMA PositionValues ==
    ASSUME TypeOK
    PROVE  Values(position, Last, seen)
  BY SequenceValues DEF TypeOK, Last

LEMMA PositionValuesNext ==
    ASSUME TypeOK'
    PROVE  Values(position', Last', seen')
  BY SequenceValues DEF TypeOK, Last

\* What an order may add to the position.
LEMMA RiskQtyType ==
    ASSUME NEW o \in [side : Side, shares : Nat]
    PROVE  RiskQty(o) \in Int /\ RiskQty(o) <= o.shares /\ -RiskQty(o) <= o.shares
  BY DEF RiskQty

\* A value is added to the modification order.
LEMMA PositionAppend ==
    ASSUME TypeOK, NEW x \in Int, position' = Append(position, x)
    PROVE  /\ position' \in Seq(Int) /\ position' # << >> /\ Last' = Last + 1
           /\ Extends(position, Last, position') /\ position'[Last + 1] = x
<1>1. position \in Seq(Int) /\ Last \in Nat
  BY LenProperties DEF TypeOK, Last
<1>2. /\ Append(position, x) \in Seq(Int) /\ Len(Append(position, x)) = Last + 1
      /\ \A j \in 1 .. Last : Append(position, x)[j] = position[j]
      /\ Append(position, x)[Last + 1] = x
  BY <1>1, AppendProperties DEF Last
<1>3. Append(position, x) \in [1 .. Last + 1 -> Int]
  BY <1>2, LenProperties
<1>4. Last' = Last + 1
  BY <1>2 DEF Last
<1>5. Append(position, x) # << >>
  BY <1>1, <1>2, EmptySeq
<1>6. QED
  BY <1>2, <1>3, <1>4, <1>5 DEF Extends

\* The units that one call of ::send takes.
LEMMA UnitsTaken ==
    ASSUME TypeOK, CallsMade, NEW t \in Thread, NEW k \in 1 .. MsgUnits, SendSome(t, k)
    PROVE  /\ stream' \in Seq(Unit) /\ Len(stream) \in Nat /\ Len(stream') = Len(stream) + k
           /\ \A i \in 1 .. Len(stream) : stream'[i] = stream[i]
           /\ \A i \in 1 .. k : stream'[Len(stream) + i] = <<t, calls[t], total_sent[t] + i>>
           /\ \A i \in 1 .. Len(stream) + k :
                 i \notin 1 .. Len(stream) => i - Len(stream) \in 1 .. k /\ i = Len(stream) + (i - Len(stream))
<1> DEFINE more == [i \in 1 .. k |-> <<t, calls[t], total_sent[t] + i>>]
           n == Len(stream)
<1>1. /\ stream \in Seq(Unit) /\ pc[t] # "idle" /\ calls[t] \in 0 .. MaxCalls
      /\ total_sent[t] \in 0 .. MsgUnits /\ total_sent[t] + k <= MsgUnits
      /\ stream' = stream \o more /\ MsgUnits \in Nat /\ MaxCalls \in Nat
  BY EntryAssumption DEF TypeOK, SendSome, Unit
<1>2. calls[t] \in 1 .. MaxCalls
  BY <1>1 DEF CallsMade
<1>3. \A i \in 1 .. k : total_sent[t] + i \in 1 .. MsgUnits
  BY <1>1
<1>4. \A i \in 1 .. k : <<t, calls[t], total_sent[t] + i>> \in Unit
  BY <1>2, <1>3 DEF Unit
<1>5. more \in Seq(Unit) /\ Len(more) = k /\ k \in Nat
  <2>1. k \in Nat /\ more \in [1 .. k -> Unit]
    BY <1>4
  <2>2. QED
    BY <2>1, SeqDef, LenProperties
<1>6. /\ stream \o more \in Seq(Unit) /\ Len(stream \o more) = n + k
      /\ \A i \in 1 .. n + k : (stream \o more)[i] = IF i <= n THEN stream[i] ELSE more[i - n]
  BY <1>1, <1>5, ConcatProperties
<1>7. n \in Nat
  BY <1>1, LenProperties
<1> HIDE DEF n
<1>8. \A i \in 1 .. n : i \in 1 .. n + k /\ i <= n
  BY <1>5, <1>7
<1>9. \A i \in 1 .. n : stream'[i] = stream[i]
  BY <1>1, <1>6, <1>8
<1>10. \A i \in 1 .. k : stream'[n + i] = <<t, calls[t], total_sent[t] + i>>
  <2> TAKE i \in 1 .. k
  <2>1. more[i] = <<t, calls[t], total_sent[t] + i>>
    OBVIOUS
  <2> HIDE DEF more
  <2> DEFINE j == n + i
  <2>2. j \in 1 .. n + k /\ ~ (j <= n) /\ j - n = i
    BY <1>5, <1>7
  <2> HIDE DEF j
  <2>3. (stream \o more)[j] = more[j - n]
    BY <1>6, <2>2
  <2>4. QED
    BY <1>1, <2>1, <2>2, <2>3 DEF j
<1>11. \A i \in 1 .. n + k : i \notin 1 .. n => i - n \in 1 .. k /\ i = n + (i - n)
  BY <1>5, <1>7
<1>12. QED
  BY <1>1, <1>6, <1>7, <1>9, <1>10, <1>11 DEF n

\* A load by t: it has seen a value that is not older.
LEMMA Loading ==
    ASSUME TypeOK, NEW t \in Thread, NEW j \in seen[t] .. Last, seen' = [seen EXCEPT ![t] = j]
    PROVE  /\ j \in 1 .. Last /\ seen'[t] = j /\ seen' \in [Thread -> 1 .. Last]
           /\ \A u \in Thread : u # t => seen'[u] = seen[u]
           /\ \A u \in Thread : seen[u] <= seen'[u]
<1>1. seen \in [Thread -> 1 .. Last] /\ Last \in Nat
  BY PositionValues DEF Values
<1>2. j \in 1 .. Last /\ seen[t] <= j
  BY <1>1
<1>3. \A u \in Thread : seen[u] <= seen[u]
  BY <1>1
<1>4. QED
  BY <1>1, <1>2, <1>3

\* What CheckRejects does to seen.
LEMMA Rejecting ==
    ASSUME TypeOK, NEW t \in Thread, NEW o, NEW p, NEW r, CheckRejects(t, o, p, r)
    PROVE  /\ seen' \in [Thread -> 1 .. Last] /\ \A u \in Thread : seen[u] <= seen'[u]
           /\ \A u \in Thread : u # t => seen'[u] = seen[u]
<1>1. CASE seen' = seen
  <2>1. seen \in [Thread -> 1 .. Last] /\ Last \in Nat
    BY PositionValues DEF Values
  <2>2. QED
    BY <1>1, <2>1
<1>2. CASE \E j \in seen[t] .. Last : seen' = [seen EXCEPT ![t] = j]
  BY <1>2, Loading
<1>3. QED
  BY <1>1, <1>2 DEF CheckRejects

\* The newest value and what an order adds to it are integers.
LEMMA Adding ==
    ASSUME TypeOK, NEW t \in Thread
    PROVE  /\ RiskQty(order[t]) \in Int /\ RiskQty(order[t]) <= order[t].shares
           /\ -RiskQty(order[t]) <= order[t].shares /\ order[t].shares \in Nat
           /\ position[Last] \in Int /\ position[Last] + RiskQty(order[t]) \in Int
           /\ position[seen[t]] \in Int
<1>1. order[t] \in [side : Side, shares : Nat]
  BY DEF TypeOK
<1>2. Last \in 1 .. Last /\ seen[t] \in 1 .. Last /\ position \in [1 .. Last -> Int]
  BY PositionValues DEF Values
<1>3. position[Last] \in Int /\ position[seen[t]] \in Int
  BY <1>2
<1>4. RiskQty(order[t]) \in Int /\ RiskQty(order[t]) <= order[t].shares /\ -RiskQty(order[t]) <= order[t].shares
  BY <1>1, RiskQtyType
<1>5. QED
  BY <1>1, <1>3, <1>4

\* Every step keeps the types.
LEMMA TypeStep ==
    ASSUME TypeOK, CallsMade, [Next]_vars
    PROVE  TypeOK' /\ CallsMade'
<1> USE EntryAssumption
<1>1. ASSUME NEW t \in Thread, NEW s \in Side, NEW n \in Shares, NEW p \in Price, NEW r \in Price,
             CheckRejects(t, [side |-> s, shares |-> n], p, r)
      PROVE  TypeOK' /\ CallsMade'
  <2>1. seen' \in [Thread -> 1 .. Last]
    BY <1>1, Rejecting
  <2>2. UNCHANGED <<position, counted, forgotten, resets, strategy, socket>>
    BY <1>1 DEF CheckRejects
  <2>3. QED
    BY <2>1, <2>2 DEF TypeOK, CallsMade, strategy, socket, Last
<1>2. ASSUME NEW t \in Thread, NEW s \in Side, NEW n \in Shares, NEW p \in Price, NEW r \in Price,
             CheckApproves(t, [side |-> s, shares |-> n], p, r)
      PROVE  TypeOK' /\ CallsMade'
  <2> DEFINE o == [side |-> s, shares |-> n]
  <2>1. seen' \in [Thread -> 1 .. Last]
    BY <1>2, Loading DEF CheckApproves
  <2>2. /\ pc' = [pc EXCEPT ![t] = "approved"] /\ order' = [order EXCEPT ![t] = o]
        /\ calls' = [calls EXCEPT ![t] = calls[t] + 1]
        /\ UNCHANGED <<position, counted, forgotten, resets, total_sent, socket>>
        /\ SumFunctionOnSet(calls, Thread) < MaxCalls
    BY <1>2 DEF CheckApproves
  <2>3. o \in [side : Side, shares : Nat]
    OBVIOUS
  <2>4. calls[t] + 1 \in 1 .. MaxCalls
    <3>1. \A u \in Thread : calls[u] \in Nat
      BY DEF TypeOK
    <3>2. SumFunctionOnSet(calls, Thread) \in Nat /\ calls[t] <= SumFunctionOnSet(calls, Thread)
      BY <3>1, SumBoundsEach
    <3>3. QED
      BY <2>2, <3>1, <3>2
  <2> HIDE DEF o
  <2>5. CallsMade'
    BY <2>2, <2>4 DEF TypeOK, CallsMade
  <2>6. /\ pc' \in [Thread -> {"idle", "approved", "send"}]
        /\ order' \in [Thread -> [side : Side, shares : Nat]]
    BY <2>2, <2>3 DEF TypeOK
  <2>7. calls' \in [Thread -> 0 .. MaxCalls]
    <3>1. calls \in [Thread -> 0 .. MaxCalls]
      BY Zenon DEF TypeOK
    <3>2. calls[t] + 1 \in 0 .. MaxCalls
      BY <2>4, <3>1
    <3>3. QED
      BY <2>2, <3>1, <3>2
  <2>8. TypeOK'
    BY <2>1, <2>2, <2>6, <2>7 DEF TypeOK, socket, Last
  <2>9. QED
    BY <2>5, <2>8
<1>3. ASSUME NEW t \in Thread, UpdatePosition(t)
      PROVE  TypeOK' /\ CallsMade'
  <2>1. RiskQty(order[t]) \in Int /\ position[Last] \in Int
    BY Adding
  <2>2. /\ position' \in Seq(Int) /\ position' # << >> /\ Last' = Last + 1
    BY <1>3, <2>1, PositionAppend DEF UpdatePosition
  <2>3. seen' \in [Thread -> 1 .. Last']
    BY <1>3, <2>2, PositionValues DEF UpdatePosition, Values
  <2>4. <<t, calls[t]>> \in Thread \X (1 .. MaxCalls)
    BY <1>3 DEF UpdatePosition, TypeOK, CallsMade
  <2>5. /\ counted' \in [DOMAIN counted' -> Int]
        /\ DOMAIN counted' = DOMAIN counted \cup {<<t, calls[t]>>}
    BY <1>3, <2>1 DEF UpdatePosition, Count, TypeOK
  <2>6. CallsMade'
    BY <1>3 DEF UpdatePosition, TypeOK, CallsMade
  <2>7. pc' \in [Thread -> {"idle", "approved", "send"}] /\ total_sent' \in [Thread -> 0 .. MsgUnits]
    <3>1. /\ pc \in [Thread -> {"idle", "approved", "send"}] /\ pc' = [pc EXCEPT ![t] = "send"]
          /\ total_sent \in [Thread -> 0 .. MsgUnits] /\ total_sent' = [total_sent EXCEPT ![t] = 0]
      BY <1>3 DEF UpdatePosition, TypeOK
    <3>2. QED
      BY <3>1
  <2>8. TypeOK'
    BY <1>3, <2>2, <2>3, <2>4, <2>5, <2>7 DEF UpdatePosition, TypeOK, socket
  <2>9. QED
    BY <2>6, <2>8
<1>4. ASSUME NEW t \in Thread, NEW k \in 1 .. MsgUnits, SendSome(t, k)
      PROVE  TypeOK' /\ CallsMade'
  <2>1. stream' \in Seq(Unit)
    BY <1>4, UnitsTaken
  <2>2. total_sent' \in [Thread -> 0 .. MsgUnits] /\ used' \in 0 .. Room
    <3>1. /\ total_sent \in [Thread -> 0 .. MsgUnits] /\ used \in 0 .. Room
          /\ used' = used + k /\ used + k <= Room /\ total_sent[t] + k <= MsgUnits
          /\ total_sent' = [total_sent EXCEPT ![t] = total_sent[t] + k]
      BY <1>4 DEF SendSome, TypeOK
    <3>2. total_sent[t] + k \in 0 .. MsgUnits
      BY <3>1
    <3>3. QED
      BY <3>1, <3>2
  <2>3. pc' \in [Thread -> {"idle", "approved", "send"}] /\ \A u \in Thread : pc'[u] # "idle" => pc[u] # "idle"
    BY <1>4 DEF SendSome, Return, TypeOK
  <2>4. UNCHANGED <<risk, order, calls, fd>>
    BY <1>4 DEF SendSome
  <2>5. QED
    BY <2>1, <2>2, <2>3, <2>4 DEF TypeOK, CallsMade, risk, Unit, Last
<1>5. ASSUME NEW t \in Thread, SendGivesUp(t)
      PROVE  TypeOK' /\ CallsMade'
  <2>1. pc' \in [Thread -> {"idle", "approved", "send"}] /\ \A u \in Thread : pc'[u] # "idle" => pc[u] # "idle"
    BY <1>5 DEF SendGivesUp, Return, TypeOK
  <2>2. UNCHANGED <<risk, order, total_sent, calls, socket>>
    BY <1>5 DEF SendGivesUp
  <2>3. QED
    BY <2>1, <2>2 DEF TypeOK, CallsMade, risk, socket, Last
<1>6. CASE reset_position
  <2>1. /\ position' \in Seq(Int) /\ position' # << >> /\ Last' = Last + 1
    BY <1>6, PositionAppend DEF reset_position
  <2>2. seen' \in [Thread -> 1 .. Last']
    BY <1>6, <2>1, PositionValues DEF reset_position, Values
  <2>3. QED
    <3>1. /\ resets \in 0 .. MaxResets /\ resets < MaxResets /\ resets' = resets + 1
          /\ forgotten' = DOMAIN counted /\ UNCHANGED <<seen, counted, strategy, socket>>
      BY <1>6, Zenon DEF reset_position, TypeOK
    <3>2. resets' \in 0 .. MaxResets
      BY <3>1
    <3>3. QED
      BY <2>1, <2>2, <3>1, <3>2 DEF TypeOK, CallsMade, strategy, socket
<1>7. CASE setSocketFd \/ Transmit \/ Disconnect \/ UNCHANGED vars
  <2>1. /\ UNCHANGED <<risk, strategy, stream>> /\ used' \in 0 .. Room
        /\ fd' \in {"unset", "open", "broken"}
    BY <1>7, SMTT(30) DEF setSocketFd, Transmit, Disconnect, vars, socket, TypeOK
  <2>2. QED
    BY <2>1 DEF TypeOK, CallsMade, risk, strategy, Last
<1>8. QED
  BY <1>1, <1>2, <1>3, <1>4, <1>5, <1>6, <1>7 DEF Next, Strategy

------------------------------------------------------------------------------
(* The position *)

\* The values of the position as the short side sees them.
Negated == [i \in 1 .. Last |-> -position[i]]

\* A thread with an approved order has seen a position that the order fits.
ApprovedInLimit ==
    \A t \in Thread : pc[t] = "approved" =>
        /\ order[t].shares <= MaxOrderSize
        /\ position[seen[t]] + RiskQty(order[t]) <= MaxPosition
        /\ -position[seen[t]] - RiskQty(order[t]) <= MaxPosition

HeadroomBothSides ==
    MaxOrderSize <= MaxPosition =>
        Headroom(position, Last, seen) /\ Headroom(Negated, Last, seen)

RiskInv == ApprovedInLimit /\ HeadroomBothSides /\ OvershootIsBounded

\* The absolute value is within a limit when both sides are.
LEMMA AbsLimit ==
    \A x, m \in Int : Abs(x) <= m <=> x <= m /\ -x <= m
  BY DEF Abs

LEMMA NegatedValues ==
    /\ Values(position, Last, seen) => Values(Negated, Last, seen)
    /\ Values(position', Last', seen') => Values(Negated', Last', seen')
  BY DEF Values, Negated

\* The short side when a value is added.
LEMMA NegatedAppend ==
    ASSUME TypeOK, NEW x \in Int, position' = Append(position, x)
    PROVE  Extends(Negated, Last, Negated') /\ Negated'[Last + 1] = -x
<1>1. /\ Last' = Last + 1 /\ Last \in Nat \ {0} /\ position \in [1 .. Last -> Int]
      /\ position' \in [1 .. Last + 1 -> Int] /\ \A j \in 1 .. Last : position'[j] = position[j]
      /\ position'[Last + 1] = x
  BY PositionValues, PositionAppend DEF Values, Extends
<1>2. Negated' = [i \in 1 .. Last + 1 |-> -position'[i]]
  BY <1>1 DEF Negated
<1>3. QED
  BY <1>1, <1>2 DEF Negated, Extends

\* The bound on all values, when the headroom is known after one was added.
LEMMA OvershootAppend ==
    ASSUME TypeOK, TypeOK', OvershootIsBounded, HeadroomBothSides',
           NEW x \in Int, position' = Append(position, x)
    PROVE  OvershootIsBounded'
<1> DEFINE B == MaxPosition + (Cardinality(Thread) - 1) * MaxOrderSize
<1> SUFFICES ASSUME MaxOrderSize <= MaxPosition, NEW i \in DOMAIN position'
             PROVE  Abs(position'[i]) <= B
  BY DEF OvershootIsBounded
<1>1. /\ Last \in Nat \ {0} /\ position \in [1 .. Last -> Int]
      /\ Last' = Last + 1 /\ position' \in [1 .. Last + 1 -> Int]
      /\ \A j \in 1 .. Last : position'[j] = position[j]
  BY PositionValues, PositionAppend DEF Values, Extends
<1>2. CASE i \in 1 .. Last
  BY <1>1, <1>2 DEF OvershootIsBounded
<1>3. CASE i = Last + 1
  <2>1. Values(position', Last', seen') /\ Values(Negated', Last', seen')
    BY PositionValuesNext, NegatedValues
  <2>2. position'[Last'] <= B /\ Negated'[Last'] <= B
    BY <2>1, HeadroomBounds DEF HeadroomBothSides
  <2>3. Negated'[Last'] = -position'[Last']
    BY <1>1 DEF Negated
  <2>4. B \in Int /\ position'[Last'] \in Int
    <3>1. Cardinality(Thread) - 1 \in Nat
      BY ThreadSets
    <3>2. QED
      BY <1>1, <3>1, Products, EntryAssumption
  <2> HIDE DEF B
  <2>5. QED
    BY <1>1, <1>3, <2>2, <2>3, <2>4, AbsLimit
<1>4. QED
  BY <1>1, <1>2, <1>3

\* Steps that leave the position and what was seen of it alone, and approve nothing.
LEMMA RiskKept ==
    ASSUME RiskInv, UNCHANGED <<position, seen, order>>,
           \A t \in Thread : pc'[t] = "approved" => pc[t] = "approved"
    PROVE  RiskInv'
<1>1. ApprovedInLimit'
  BY DEF RiskInv, ApprovedInLimit
<1>2. Last' = Last /\ Negated' = Negated
  BY DEF Last, Negated
<1>3. HeadroomBothSides' /\ OvershootIsBounded'
  BY <1>2 DEF RiskInv, HeadroomBothSides, OvershootIsBounded
<1>4. QED
  BY <1>1, <1>3 DEF RiskInv

\* A load leaves the headroom.
LEMMA RiskLoad ==
    ASSUME TypeOK, RiskInv, UNCHANGED position,
           seen' \in [Thread -> 1 .. Last], \A u \in Thread : seen[u] <= seen'[u]
    PROVE  HeadroomBothSides' /\ OvershootIsBounded'
<1>1. Last' = Last /\ Negated' = Negated
  BY DEF Last, Negated
<1>2. Values(position, Last, seen) /\ Values(Negated, Last, seen)
  BY PositionValues, NegatedValues
<1>3. ASSUME MaxOrderSize <= MaxPosition
      PROVE  Headroom(position, Last, seen') /\ Headroom(Negated, Last, seen')
  BY <1>2, <1>3, HeadroomLoad DEF RiskInv, HeadroomBothSides
<1>4. QED
  BY <1>1, <1>3 DEF HeadroomBothSides, OvershootIsBounded, RiskInv

LEMMA RiskRejects ==
    ASSUME TypeOK, RiskInv, NEW t \in Thread, NEW o, NEW p, NEW r, CheckRejects(t, o, p, r)
    PROVE  RiskInv'
<1>1. /\ seen' \in [Thread -> 1 .. Last] /\ \A u \in Thread : seen[u] <= seen'[u]
      /\ \A u \in Thread : u # t => seen'[u] = seen[u]
  BY Rejecting
<1>2. pc[t] = "idle" /\ UNCHANGED <<position, pc, order>>
  BY DEF CheckRejects, strategy
<1>3. HeadroomBothSides' /\ OvershootIsBounded'
  BY <1>1, <1>2, RiskLoad
<1>4. ApprovedInLimit'
  BY <1>1, <1>2 DEF RiskInv, ApprovedInLimit
<1>5. QED
  BY <1>3, <1>4 DEF RiskInv

LEMMA RiskApproves ==
    ASSUME TypeOK, RiskInv, NEW t \in Thread, NEW s \in Side, NEW n \in Shares, NEW p, NEW r,
           CheckApproves(t, [side |-> s, shares |-> n], p, r)
    PROVE  RiskInv'
<1> DEFINE o == [side |-> s, shares |-> n]
<1>1. PICK j \in seen[t] .. Last : PositionOK(position[j], o) /\ seen' = [seen EXCEPT ![t] = j]
  BY DEF CheckApproves
<1>2. /\ j \in 1 .. Last /\ seen'[t] = j /\ seen' \in [Thread -> 1 .. Last]
      /\ \A u \in Thread : u # t => seen'[u] = seen[u]
      /\ \A u \in Thread : seen[u] <= seen'[u]
  BY <1>1, Loading
<1>3. /\ pc' = [pc EXCEPT ![t] = "approved"] /\ order' = [order EXCEPT ![t] = o]
      /\ UNCHANGED position /\ SizeOK(o.shares)
  BY DEF CheckApproves
<1>4. HeadroomBothSides' /\ OvershootIsBounded'
  BY <1>2, <1>3, RiskLoad
<1>5. o \in [side : Side, shares : Nat]
  BY EntryAssumption
<1> HIDE DEF o
<1>6. RiskQty(o) \in Int /\ position[j] \in Int /\ MaxPosition \in Int
  <2>1. position \in [1 .. Last -> Int]
    BY PositionValues DEF Values
  <2>2. QED
    BY <1>2, <1>5, <2>1, RiskQtyType, EntryAssumption
<1>7. position[j] + RiskQty(o) <= MaxPosition /\ -position[j] - RiskQty(o) <= MaxPosition
  <2>1. Abs(position[j] + RiskQty(o)) <= MaxPosition
    BY <1>1 DEF PositionOK
  <2>2. \A a, b, m \in Int : Abs(a + b) <= m => a + b <= m /\ -a - b <= m
    BY DEF Abs
  <2>3. QED
    BY <1>6, <2>1, <2>2
<1>8. ApprovedInLimit'
  <2> SUFFICES ASSUME NEW u \in Thread, pc'[u] = "approved"
               PROVE  /\ order'[u].shares <= MaxOrderSize
                      /\ position[seen'[u]] + RiskQty(order'[u]) <= MaxPosition
                      /\ -position[seen'[u]] - RiskQty(order'[u]) <= MaxPosition
    BY <1>3 DEF ApprovedInLimit
  <2>1. CASE u = t
    <3>1. order'[u] = o /\ seen'[u] = j
      BY <1>2, <1>3, <2>1 DEF TypeOK
    <3>2. QED
      BY <1>3, <1>7, <3>1 DEF SizeOK
  <2>2. CASE u # t
    <3>1. order'[u] = order[u] /\ seen'[u] = seen[u] /\ pc'[u] = pc[u]
      BY <1>2, <1>3, <2>2 DEF TypeOK
    <3>2. QED
      BY <3>1 DEF RiskInv, ApprovedInLimit
  <2>3. QED
    BY <2>1, <2>2
<1>9. QED
  BY <1>4, <1>8 DEF RiskInv

\* update_position adds to the newest value what was approved against an older one.
LEMMA RiskUpdates ==
    ASSUME TypeOK, TypeOK', RiskInv, NEW t \in Thread, UpdatePosition(t)
    PROVE  RiskInv'
<1> DEFINE q == RiskQty(order[t])
           x == position[Last] + q
<1>1. /\ position' = Append(position, x) /\ seen' = [seen EXCEPT ![t] = Last + 1]
      /\ pc[t] = "approved" /\ pc' = [pc EXCEPT ![t] = "send"] /\ UNCHANGED order
  BY DEF UpdatePosition
<1>2. /\ q \in Int /\ q <= order[t].shares /\ -q <= order[t].shares /\ order[t].shares \in Nat
      /\ position[Last] \in Int /\ x \in Int /\ position[seen[t]] \in Int
  BY Adding
<1>3. /\ order[t].shares <= MaxOrderSize /\ position[seen[t]] + q <= MaxPosition
      /\ -position[seen[t]] - q <= MaxPosition
  BY <1>1 DEF RiskInv, ApprovedInLimit
<1>4. q <= MaxOrderSize /\ -q <= MaxOrderSize
  <2> HIDE DEF q
  <2>1. QED
    BY <1>2, <1>3, EntryAssumption
<1>5. /\ Last' = Last + 1 /\ Extends(position, Last, position') /\ position'[Last + 1] = x
      /\ Extends(Negated, Last, Negated') /\ Negated'[Last + 1] = -x
  BY <1>1, <1>2, PositionAppend, NegatedAppend
<1>6. Values(position, Last, seen) /\ Values(Negated, Last, seen)
  BY PositionValues, NegatedValues
<1>7. /\ Last \in 1 .. Last /\ seen[t] \in 1 .. Last
      /\ Negated[Last] = -position[Last] /\ Negated[seen[t]] = -position[seen[t]]
  BY <1>6 DEF Values, Negated
<1> HIDE DEF q
<1>8. ASSUME MaxOrderSize <= MaxPosition
      PROVE  Headroom(position', Last + 1, seen') /\ Headroom(Negated', Last + 1, seen')
  <2>1. Headroom(position, Last, seen) /\ Headroom(Negated, Last, seen)
    BY <1>8 DEF RiskInv, HeadroomBothSides
  <2>2. Headroom(position', Last + 1, seen')
    BY <1>1, <1>2, <1>3, <1>4, <1>5, <1>6, <2>1, HeadroomAdd
  <2>3. -q \in Int /\ Negated[seen[t]] + (-q) <= MaxPosition /\ Negated'[Last + 1] = Negated[Last] + (-q)
    BY <1>2, <1>3, <1>5, <1>7
  <2>4. Headroom(Negated', Last + 1, seen')
    BY <1>1, <1>4, <1>5, <1>6, <2>1, <2>3, HeadroomAdd
  <2>5. QED
    BY <2>2, <2>4
<1>9. HeadroomBothSides'
  BY <1>5, <1>8 DEF HeadroomBothSides
<1>10. OvershootIsBounded'
  BY <1>1, <1>2, <1>9, OvershootAppend DEF RiskInv
<1>11. ApprovedInLimit'
  <2> SUFFICES ASSUME NEW u \in Thread, pc'[u] = "approved"
               PROVE  /\ order'[u].shares <= MaxOrderSize
                      /\ position'[seen'[u]] + RiskQty(order'[u]) <= MaxPosition
                      /\ -position'[seen'[u]] - RiskQty(order'[u]) <= MaxPosition
    BY DEF ApprovedInLimit
  <2>1. pc[u] = "approved" /\ u # t
    BY <1>1 DEF TypeOK
  <2>2. seen'[u] = seen[u] /\ seen[u] \in 1 .. Last
    BY <1>1, <1>6, <2>1 DEF Values
  <2>3. position'[seen[u]] = position[seen[u]]
    BY <1>5, <2>2 DEF Extends
  <2>4. QED
    BY <1>1, <2>1, <2>2, <2>3 DEF RiskInv, ApprovedInLimit
<1>12. QED
  BY <1>9, <1>10, <1>11 DEF RiskInv

LEMMA RiskResets ==
    ASSUME TypeOK, TypeOK', RiskInv, reset_position
    PROVE  RiskInv'
<1>1. position' = Append(position, 0) /\ UNCHANGED <<seen, pc, order>>
  BY DEF reset_position, strategy
<1>2. /\ Last' = Last + 1 /\ Extends(position, Last, position') /\ position'[Last + 1] = 0
      /\ Extends(Negated, Last, Negated') /\ Negated'[Last + 1] = 0
  <2>1. PICK x \in Int : x = 0 /\ x <= 0 /\ x >= 0
    OBVIOUS
  <2>2. Extends(Negated, Last, Negated') /\ Negated'[Last + 1] = -x
    BY <1>1, <2>1, NegatedAppend
  <2>3. \A y \in Int : y <= 0 /\ y >= 0 => -y = 0
    OBVIOUS
  <2>4. -x = 0
    BY <2>1, <2>3, Zenon
  <2>5. Last' = Last + 1 /\ Extends(position, Last, position') /\ position'[Last + 1] = 0
    <3>1. 0 \in Int
      OBVIOUS
    <3>2. QED
      BY <1>1, <3>1, PositionAppend, Zenon
  <2>6. QED
    BY <2>2, <2>4, <2>5, Zenon
<1>3. Values(position, Last, seen) /\ Values(Negated, Last, seen)
  BY PositionValues, NegatedValues
<1>4. ASSUME MaxOrderSize <= MaxPosition
      PROVE  Headroom(position', Last + 1, seen) /\ Headroom(Negated', Last + 1, seen)
  BY <1>2, <1>3, <1>4, HeadroomReset
<1>5. HeadroomBothSides'
  BY <1>1, <1>2, <1>4 DEF HeadroomBothSides
<1>6. OvershootIsBounded'
  BY <1>1, <1>5, OvershootAppend DEF RiskInv
<1>7. ApprovedInLimit'
  <2>1. \A u \in Thread : seen[u] \in 1 .. Last /\ position'[seen[u]] = position[seen[u]]
    BY <1>2, <1>3 DEF Extends, Values
  <2>2. QED
    BY <1>1, <2>1 DEF RiskInv, ApprovedInLimit
<1>8. QED
  BY <1>5, <1>6, <1>7 DEF RiskInv

------------------------------------------------------------------------------
(* What is counted *)

\* An order is counted after it was approved, and only then.
CountedOnce ==
    \A o \in DOMAIN counted :
        o[2] <= calls[o[1]] /\ (o[2] = calls[o[1]] => pc[o[1]] # "approved")

SendingIsCounted == \A t \in Thread : pc[t] = "send" => <<t, calls[t]>> \in DOMAIN counted

CountInv == CountedOnce /\ SendingIsCounted /\ WireIsCounted

\* The sums of WireIsCounted are sums of finitely many integers.
LEMMA CountedIsFinite ==
    ASSUME TypeOK
    PROVE  /\ IsFiniteSet(DOMAIN counted) /\ IsFiniteSet(DOMAIN counted \ forgotten)
           /\ \A o \in DOMAIN counted : counted[o] \in Int /\ o[1] \in Thread /\ o[2] \in Nat
           /\ forgotten \subseteq DOMAIN counted
<1>1. /\ DOMAIN counted \subseteq Thread \X (1 .. MaxCalls) /\ forgotten \subseteq DOMAIN counted
      /\ counted \in [DOMAIN counted -> Int]
  BY DEF TypeOK
<1>2. IsFiniteSet(1 .. MaxCalls)
  BY FS_Interval, EntryAssumption
<1>3. IsFiniteSet(Thread \X (1 .. MaxCalls))
  BY <1>2, FS_Product, EntryAssumption
<1>4. IsFiniteSet(DOMAIN counted)
  BY <1>1, <1>3, FS_Subset
<1>5. IsFiniteSet(DOMAIN counted \ forgotten)
  BY <1>4, FS_Subset
<1>6. \A o \in DOMAIN counted : counted[o] \in Int
  BY <1>1
<1>7. \A o \in DOMAIN counted : o[1] \in Thread /\ o[2] \in Nat
  BY <1>1, EntryAssumption
<1>8. QED
  BY <1>1, <1>4, <1>5, <1>6, <1>7

\* Steps that count nothing and approve nothing.
LEMMA CountKept ==
    ASSUME TypeOK, CountInv, UNCHANGED <<position, counted, forgotten, calls, stream>>,
           \A t \in Thread : /\ pc'[t] = "approved" => pc[t] = "approved"
                             /\ pc'[t] = "send" => pc[t] = "send"
    PROVE  CountInv'
<1>1. CountedOnce'
  BY CountedIsFinite DEF CountInv, CountedOnce
<1>2. SendingIsCounted'
  BY DEF CountInv, SendingIsCounted
<1>3. WireIsCounted'
  BY DEF CountInv, WireIsCounted, Last
<1>4. QED
  BY <1>1, <1>2, <1>3 DEF CountInv

LEMMA CountApproves ==
    ASSUME TypeOK, CountInv, NEW t \in Thread, NEW o, NEW p, NEW r, CheckApproves(t, o, p, r)
    PROVE  CountInv'
<1>1. /\ pc' = [pc EXCEPT ![t] = "approved"] /\ calls' = [calls EXCEPT ![t] = calls[t] + 1]
      /\ UNCHANGED <<position, counted, forgotten, stream>>
      /\ \A u \in Thread : calls[u] \in Nat
      /\ DOMAIN pc = Thread /\ DOMAIN calls = Thread
  BY EntryAssumption DEF CheckApproves, socket, TypeOK
<1>2. CountedOnce'
  <2> SUFFICES ASSUME NEW d \in DOMAIN counted
               PROVE  d[2] <= calls'[d[1]] /\ (d[2] = calls'[d[1]] => pc'[d[1]] # "approved")
    BY <1>1 DEF CountedOnce
  <2>1. d[1] \in Thread /\ d[2] \in Nat /\ d[2] <= calls[d[1]]
    BY CountedIsFinite DEF CountInv, CountedOnce
  <2>2. CASE d[1] = t
    <3>1. calls'[d[1]] = calls[d[1]] + 1 /\ calls[d[1]] \in Nat
      BY <1>1, <2>1, <2>2
    <3>2. QED
      BY <2>1, <3>1
  <2>3. CASE d[1] # t
    BY <1>1, <2>1, <2>3 DEF CountInv, CountedOnce
  <2>4. QED
    BY <2>2, <2>3
<1>3. SendingIsCounted'
  BY <1>1 DEF CountInv, SendingIsCounted
<1>4. WireIsCounted'
  BY <1>1 DEF CountInv, WireIsCounted, Last
<1>5. QED
  BY <1>2, <1>3, <1>4 DEF CountInv

\* update_position: the order is counted for the first time, so that the sum
\* grows by it.
LEMMA CountUpdates ==
    ASSUME TypeOK, TypeOK', CountInv, NEW t \in Thread, UpdatePosition(t)
    PROVE  CountInv'
<1> DEFINE o == <<t, calls[t]>>
           q == RiskQty(order[t])
           S == DOMAIN counted \ forgotten
<1>1. /\ counted' = [d \in DOMAIN counted \cup {o} |-> IF d = o THEN q ELSE counted[d]]
      /\ position' = Append(position, position[Last] + q)
      /\ pc[t] = "approved" /\ pc' = [pc EXCEPT ![t] = "send"]
      /\ UNCHANGED <<forgotten, calls, stream>> /\ DOMAIN pc = Thread
  BY DEF UpdatePosition, Count, socket, TypeOK
<1>2. o \notin DOMAIN counted /\ o[1] = t /\ o[2] = calls[t]
  BY <1>1 DEF CountInv, CountedOnce
<1> HIDE DEF o, q
<1>3. /\ DOMAIN counted' = DOMAIN counted \cup {o} /\ counted'[o] = q
      /\ \A d \in DOMAIN counted : counted'[d] = counted[d]
  BY <1>1, <1>2
<1>4. CountedOnce'
  <2> SUFFICES ASSUME NEW d \in DOMAIN counted \cup {o}
               PROVE  d[2] <= calls[d[1]] /\ (d[2] = calls[d[1]] => pc'[d[1]] # "approved")
    BY <1>1, <1>3 DEF CountedOnce
  <2>1. pc'[t] = "send"
    BY <1>1
  <2>2. CASE d = o
    <3>1. calls[t] \in Nat
      BY EntryAssumption DEF TypeOK
    <3>2. QED
      BY <1>2, <2>1, <2>2, <3>1
  <2>3. CASE d \in DOMAIN counted
    <3>1. /\ d[1] \in Thread /\ d[2] <= calls[d[1]]
          /\ d[2] = calls[d[1]] => pc[d[1]] # "approved"
      BY <2>3, CountedIsFinite DEF CountInv, CountedOnce
    <3>2. pc'[d[1]] = pc[d[1]] \/ pc'[d[1]] = "send"
      BY <1>1, <3>1
    <3>3. QED
      BY <3>1, <3>2
  <2>4. QED
    BY <2>2, <2>3
<1>5. SendingIsCounted'
  BY <1>1, <1>3 DEF CountInv, SendingIsCounted, o
<1>6. DOMAIN counted' \ forgotten' = S \cup {o} /\ o \notin S /\ (S \cup {o}) \ {o} = S
  BY <1>1, <1>2, <1>3, CountedIsFinite
<1>7. IsFiniteSet(S) /\ IsFiniteSet(S \cup {o})
  BY CountedIsFinite, FS_AddElement
<1>8. q \in Int /\ position[Last] \in Int /\ position[Last] + q \in Int
  BY Adding DEF q
<1>9. \A d \in S \cup {o} : counted'[d] \in Int
  BY <1>3, <1>8, CountedIsFinite
<1>10. SumFunctionOnSet(counted', S \cup {o}) = q + SumFunctionOnSet(counted', S)
  BY <1>3, <1>6, <1>7, <1>9, SumTakeOut
<1>11. SumFunctionOnSet(counted', S) = SumFunctionOnSet(counted, S)
  BY <1>3, <1>7, SumSameValues
<1>12. position[Last] = SumFunctionOnSet(counted, S)
  BY DEF CountInv, WireIsCounted
<1>13. position'[Last'] = position[Last] + q
  BY <1>1, <1>8, PositionAppend
<1> HIDE DEF S
<1>14. position'[Last'] = SumFunctionOnSet(counted', S \cup {o})
  BY <1>8, <1>10, <1>11, <1>12, <1>13
<1>15. WireIsCounted'
  <2>1. \A i \in DOMAIN stream' : <<stream'[i][1], stream'[i][2]>> \in DOMAIN counted'
    BY <1>1, <1>3 DEF CountInv, WireIsCounted
  <2>2. QED
    BY <1>6, <1>14, <2>1 DEF WireIsCounted
<1>16. QED
  BY <1>4, <1>5, <1>15 DEF CountInv

LEMMA CountResets ==
    ASSUME TypeOK, CountInv, reset_position
    PROVE  CountInv'
<1>1. position' = Append(position, 0) /\ forgotten' = DOMAIN counted /\ UNCHANGED <<counted, pc, calls, stream>>
  BY DEF reset_position, strategy, socket
<1>2. position'[Last'] = 0
  <2>1. 0 \in Int
    OBVIOUS
  <2>2. Last' = Last + 1 /\ position'[Last + 1] = 0
    BY <1>1, <2>1, PositionAppend, Zenon
  <2>3. QED
    BY <2>2
<1>3. DOMAIN counted' \ forgotten' = {}
  BY <1>1
<1>4. WireIsCounted'
  BY <1>1, <1>2, <1>3, SumEmpty DEF CountInv, WireIsCounted
<1>5. QED
  BY <1>1, <1>4 DEF CountInv, CountedOnce, SendingIsCounted

\* ::send takes units of an order that is counted.
LEMMA CountSends ==
    ASSUME TypeOK, CallsMade, CountInv, NEW t \in Thread, NEW k \in 1 .. MsgUnits, SendSome(t, k)
    PROVE  CountInv'
<1>1. /\ pc[t] = "send" /\ UNCHANGED <<position, counted, forgotten, calls>>
      /\ \A u \in Thread : pc'[u] = pc[u] \/ pc'[u] = "idle"
  BY DEF SendSome, Return, risk, TypeOK
<1>2. <<t, calls[t]>> \in DOMAIN counted
  BY <1>1 DEF CountInv, SendingIsCounted
<1>3. \A i \in DOMAIN stream' : <<stream'[i][1], stream'[i][2]>> \in DOMAIN counted
  <2> TAKE i \in DOMAIN stream'
  <2>1. /\ stream' \in Seq(Unit) /\ Len(stream) \in Nat /\ Len(stream') = Len(stream) + k
        /\ \A j \in 1 .. Len(stream) : stream'[j] = stream[j]
        /\ \A j \in 1 .. k : stream'[Len(stream) + j] = <<t, calls[t], total_sent[t] + j>>
        /\ \A j \in 1 .. Len(stream) + k :
               j \notin 1 .. Len(stream) => j - Len(stream) \in 1 .. k /\ j = Len(stream) + (j - Len(stream))
    BY UnitsTaken
  <2>2. i \in 1 .. Len(stream) + k /\ DOMAIN stream = 1 .. Len(stream)
    BY <2>1, LenProperties DEF TypeOK
  <2>3. CASE i \in 1 .. Len(stream)
    BY <2>1, <2>2, <2>3 DEF CountInv, WireIsCounted
  <2>4. CASE i \notin 1 .. Len(stream)
    <3>1. PICK j \in 1 .. k : i = Len(stream) + j
      BY <2>1, <2>2, <2>4
    <3>2. stream'[i] = <<t, calls[t], total_sent[t] + j>>
      BY <2>1, <3>1
    <3>3. QED
      BY <1>2, <3>2
  <2>5. QED
    BY <2>3, <2>4
<1>4. WireIsCounted'
  BY <1>1, <1>3 DEF CountInv, WireIsCounted, Last
<1>5. CountedOnce'
  BY <1>1, CountedIsFinite DEF CountInv, CountedOnce
<1>6. SendingIsCounted'
  BY <1>1 DEF CountInv, SendingIsCounted
<1>7. QED
  BY <1>4, <1>5, <1>6 DEF CountInv

------------------------------------------------------------------------------
(* What is sent *)

\* A unit is of an order that has got as far as being sent, and not beyond what
\* send knows of.
UnitsBehind ==
    \A i \in DOMAIN stream :
        /\ stream[i][2] <= calls[stream[i][1]]
        /\ stream[i][2] = calls[stream[i][1]] =>
              /\ pc[stream[i][1]] # "approved"
              /\ pc[stream[i][1]] = "send" => stream[i][3] <= total_sent[stream[i][1]]

\* What send counts as sent is in the stream.
SentIsTaken ==
    \A t \in Thread : pc[t] = "send" =>
        \A u \in 1 .. total_sent[t] : \E h \in DOMAIN stream : stream[h] = <<t, calls[t], u>>

\* The two halves of UnitsInOrder, the second one for every unit.
UnitsRise ==
    \A i, j \in DOMAIN stream :
        i < j /\ stream[i][1] = stream[j][1] /\ stream[i][2] = stream[j][2] => stream[i][3] < stream[j][3]

UnitsFromFirst ==
    \A j \in DOMAIN stream : \A u \in 1 .. stream[j][3] :
        \E h \in 1 .. j : stream[h] = <<stream[j][1], stream[j][2], u>>

UnitInv == UnitsBehind /\ SentIsTaken /\ UnitsRise /\ UnitsFromFirst

\* The parts of a unit.
LEMMA UnitParts ==
    ASSUME TypeOK
    PROVE  /\ stream \in Seq(Unit) /\ Len(stream) \in Nat /\ DOMAIN stream = 1 .. Len(stream)
           /\ \A i \in DOMAIN stream : /\ stream[i] \in Unit /\ stream[i][1] \in Thread
                                       /\ stream[i][2] \in Nat /\ stream[i][3] \in Nat
           /\ \A t \in Thread : calls[t] \in Nat /\ total_sent[t] \in Nat
           /\ DOMAIN calls = Thread /\ DOMAIN pc = Thread /\ DOMAIN total_sent = Thread
<1>1. stream \in Seq(Unit)
  BY DEF TypeOK, Unit
<1>2. Len(stream) \in Nat /\ DOMAIN stream = 1 .. Len(stream)
  BY <1>1, LenProperties
<1>3. \A i \in DOMAIN stream : stream[i] \in Unit
  BY <1>1, <1>2, ElementOfSeq
<1>4. \A x \in Unit : x[1] \in Thread /\ x[2] \in Nat /\ x[3] \in Nat
  BY EntryAssumption DEF Unit
<1>5. /\ \A t \in Thread : calls[t] \in Nat /\ total_sent[t] \in Nat
      /\ DOMAIN calls = Thread /\ DOMAIN pc = Thread /\ DOMAIN total_sent = Thread
  BY EntryAssumption DEF TypeOK
<1>6. QED
  BY <1>1, <1>2, <1>3, <1>4, <1>5

\* Steps that send nothing and approve nothing.
LEMMA UnitKept ==
    ASSUME TypeOK, UnitInv, UNCHANGED <<calls, stream, total_sent>>,
           \A t \in Thread : /\ pc'[t] = "approved" => pc[t] = "approved"
                             /\ pc'[t] = "send" => pc[t] = "send"
    PROVE  UnitInv'
<1>1. UnitsBehind'
  BY UnitParts DEF UnitInv, UnitsBehind
<1>2. SentIsTaken'
  BY DEF UnitInv, SentIsTaken
<1>3. UnitsRise' /\ UnitsFromFirst'
  BY DEF UnitInv, UnitsRise, UnitsFromFirst
<1>4. QED
  BY <1>1, <1>2, <1>3 DEF UnitInv

LEMMA UnitApproves ==
    ASSUME TypeOK, UnitInv, NEW t \in Thread, NEW o, NEW p, NEW r, CheckApproves(t, o, p, r)
    PROVE  UnitInv'
<1>1. /\ pc' = [pc EXCEPT ![t] = "approved"] /\ calls' = [calls EXCEPT ![t] = calls[t] + 1]
      /\ UNCHANGED <<stream, total_sent>>
  BY DEF CheckApproves, socket
<1>2. UnitsBehind'
  <2> SUFFICES ASSUME NEW i \in DOMAIN stream
               PROVE  /\ stream[i][2] <= calls'[stream[i][1]]
                      /\ stream[i][2] = calls'[stream[i][1]] =>
                            /\ pc'[stream[i][1]] # "approved"
                            /\ pc'[stream[i][1]] = "send" => stream[i][3] <= total_sent[stream[i][1]]
    BY <1>1 DEF UnitsBehind
  <2>1. stream[i][1] \in Thread /\ stream[i][2] \in Nat /\ stream[i][2] <= calls[stream[i][1]]
    BY UnitParts DEF UnitInv, UnitsBehind
  <2>2. CASE stream[i][1] = t
    <3>1. calls'[t] = calls[t] + 1 /\ calls[t] \in Nat
      BY <1>1, UnitParts
    <3>2. QED
      BY <2>1, <2>2, <3>1
  <2>3. CASE stream[i][1] # t
    <3>1. calls'[stream[i][1]] = calls[stream[i][1]] /\ pc'[stream[i][1]] = pc[stream[i][1]]
      BY <1>1, <2>1, <2>3, UnitParts
    <3>2. QED
      BY <3>1 DEF UnitInv, UnitsBehind
  <2>4. QED
    BY <2>2, <2>3
<1>3. SentIsTaken'
  <2> SUFFICES ASSUME NEW w \in Thread, pc'[w] = "send", NEW u \in 1 .. total_sent[w]
               PROVE  \E h \in DOMAIN stream : stream[h] = <<w, calls'[w], u>>
    BY <1>1 DEF SentIsTaken
  <2>1. w # t /\ pc[w] = "send" /\ calls'[w] = calls[w]
    BY <1>1, UnitParts
  <2>2. QED
    BY <2>1 DEF UnitInv, SentIsTaken
<1>4. UnitsRise' /\ UnitsFromFirst'
  BY <1>1 DEF UnitInv, UnitsRise, UnitsFromFirst
<1>5. QED
  BY <1>2, <1>3, <1>4 DEF UnitInv

LEMMA UnitUpdates ==
    ASSUME TypeOK, UnitInv, NEW t \in Thread, UpdatePosition(t)
    PROVE  UnitInv'
<1>1. /\ pc[t] = "approved" /\ pc' = [pc EXCEPT ![t] = "send"]
      /\ total_sent' = [total_sent EXCEPT ![t] = 0]
      /\ UNCHANGED <<stream, calls>>
  BY DEF UpdatePosition, socket
<1>2. UnitsBehind'
  <2> SUFFICES ASSUME NEW i \in DOMAIN stream
               PROVE  /\ stream[i][2] <= calls[stream[i][1]]
                      /\ stream[i][2] = calls[stream[i][1]] =>
                            /\ pc'[stream[i][1]] # "approved"
                            /\ pc'[stream[i][1]] = "send" => stream[i][3] <= total_sent'[stream[i][1]]
    BY <1>1 DEF UnitsBehind
  <2>1. /\ stream[i][1] \in Thread /\ stream[i][2] <= calls[stream[i][1]]
        /\ stream[i][2] = calls[stream[i][1]] => stream[i][1] # t
    BY <1>1, UnitParts DEF UnitInv, UnitsBehind
  <2>2. CASE stream[i][1] = t
    BY <2>1, <2>2
  <2>3. CASE stream[i][1] # t
    <3>1. pc'[stream[i][1]] = pc[stream[i][1]] /\ total_sent'[stream[i][1]] = total_sent[stream[i][1]]
      BY <1>1, <2>1, <2>3, UnitParts
    <3>2. QED
      BY <3>1 DEF UnitInv, UnitsBehind
  <2>4. QED
    BY <2>2, <2>3
<1>3. SentIsTaken'
  <2> SUFFICES ASSUME NEW w \in Thread, pc'[w] = "send", NEW u \in 1 .. total_sent'[w]
               PROVE  \E h \in DOMAIN stream : stream[h] = <<w, calls[w], u>>
    BY <1>1 DEF SentIsTaken
  <2>1. CASE w = t
    <3>1. total_sent'[w] = 0
      BY <1>1, <2>1, UnitParts
    <3>2. QED
      BY <3>1
  <2>2. CASE w # t
    <3>1. pc[w] = "send" /\ total_sent'[w] = total_sent[w]
      BY <1>1, <2>2, UnitParts
    <3>2. QED
      BY <3>1 DEF UnitInv, SentIsTaken
  <2>3. QED
    BY <2>1, <2>2
<1>4. UnitsRise' /\ UnitsFromFirst'
  BY <1>1 DEF UnitInv, UnitsRise, UnitsFromFirst
<1>5. QED
  BY <1>2, <1>3, <1>4 DEF UnitInv

\* ::send takes the next units of the order.
LEMMA UnitSends ==
    ASSUME TypeOK, CallsMade, UnitInv, NEW t \in Thread, NEW k \in 1 .. MsgUnits, SendSome(t, k)
    PROVE  UnitInv'
<1> DEFINE n == Len(stream)
           c == calls[t]
           b == total_sent[t]
<1>1. /\ stream' \in Seq(Unit) /\ n \in Nat /\ Len(stream') = n + k
      /\ \A i \in 1 .. n : stream'[i] = stream[i]
      /\ \A i \in 1 .. k : stream'[n + i] = <<t, c, b + i>>
      /\ \A i \in 1 .. n + k : i \notin 1 .. n => i - n \in 1 .. k /\ i = n + (i - n)
  BY UnitsTaken
<1>2. /\ DOMAIN stream = 1 .. n /\ c \in Nat /\ b \in Nat
      /\ \A i \in 1 .. n : stream[i][1] \in Thread /\ stream[i][2] \in Nat /\ stream[i][3] \in Nat
  BY UnitParts
<1>3. /\ pc[t] = "send" /\ UNCHANGED calls
      /\ \A w \in Thread : pc'[w] = pc[w] \/ pc'[w] = "idle"
      /\ total_sent'[t] = b + k
      /\ \A w \in Thread : w # t => total_sent'[w] = total_sent[w]
  BY UnitParts DEF SendSome, Return
<1> HIDE DEF n, c, b
<1>4. DOMAIN stream' = 1 .. n + k /\ k \in Nat
  BY <1>1, LenProperties, EntryAssumption
\* A unit is an old one or the m-th new one.
<1>5. ASSUME NEW i \in 1 .. n + k
      PROVE  \/ i \in 1 .. n /\ stream'[i] = stream[i]
             \/ \E m \in 1 .. k : i = n + m /\ stream'[i] = <<t, c, b + m>>
  <2>1. CASE i \in 1 .. n
    BY <1>1, <2>1
  <2>2. CASE i \notin 1 .. n
    <3>1. PICK m \in 1 .. k : i = n + m
      BY <1>1, <2>2
    <3>2. QED
      BY <1>1, <3>1
  <2>3. QED
    BY <2>1, <2>2
\* Old units of the order being sent are behind the new ones.
<1>6. \A i \in 1 .. n : stream[i][1] = t /\ stream[i][2] = c => stream[i][3] <= b
  BY <1>2, <1>3 DEF UnitInv, UnitsBehind, c, b
<1>7. UnitsBehind'
  <2> SUFFICES ASSUME NEW i \in 1 .. n + k
               PROVE  /\ stream'[i][2] <= calls[stream'[i][1]]
                      /\ stream'[i][2] = calls[stream'[i][1]] =>
                            /\ pc'[stream'[i][1]] # "approved"
                            /\ pc'[stream'[i][1]] = "send" => stream'[i][3] <= total_sent'[stream'[i][1]]
    BY <1>3, <1>4 DEF UnitsBehind
  <2>1. CASE i \in 1 .. n /\ stream'[i] = stream[i]
    <3> DEFINE w == stream[i][1]
    <3>1. /\ w \in Thread /\ stream[i][2] <= calls[w] /\ stream[i][3] \in Nat
          /\ stream[i][2] = calls[w] => pc[w] # "approved" /\ (pc[w] = "send" => stream[i][3] <= total_sent[w])
      BY <1>2, <2>1 DEF UnitInv, UnitsBehind
    <3>2. pc'[w] = pc[w] \/ pc'[w] = "idle"
      BY <1>3, <3>1
    <3>3. CASE w = t
      <4>1. stream[i][2] = c => stream[i][3] <= b
        BY <1>6, <2>1, <3>3
      <4>2. stream[i][2] = c => stream[i][3] <= b + k
        BY <1>2, <1>4, <3>1, <4>1
      <4>3. QED
        BY <1>3, <2>1, <3>1, <3>2, <3>3, <4>2 DEF c
    <3>4. CASE w # t
      <4>1. total_sent'[w] = total_sent[w]
        BY <1>3, <3>1, <3>4
      <4>2. QED
        BY <2>1, <3>1, <3>2, <4>1
    <3>5. QED
      BY <3>3, <3>4
  <2>2. ASSUME NEW m \in 1 .. k, stream'[i] = <<t, c, b + m>>
        PROVE  /\ stream'[i][2] <= calls[stream'[i][1]]
               /\ pc'[stream'[i][1]] # "approved"
               /\ stream'[i][3] <= total_sent'[stream'[i][1]]
    <3>1. stream'[i][1] = t /\ stream'[i][2] = c /\ stream'[i][3] = b + m
      BY <2>2
    <3>2. c <= c /\ b + m <= b + k
      BY <1>2, <1>4
    <3>3. QED
      BY <1>3, <3>1, <3>2 DEF c
  <2>3. QED
    BY <1>5, <2>1, <2>2
<1>8. UnitsRise'
  <2> SUFFICES ASSUME NEW i \in 1 .. n + k, NEW j \in 1 .. n + k, i < j,
                      stream'[i][1] = stream'[j][1], stream'[i][2] = stream'[j][2]
               PROVE  stream'[i][3] < stream'[j][3]
    BY <1>4 DEF UnitsRise
  <2>1. CASE j \in 1 .. n /\ stream'[j] = stream[j]
    <3>1. i \in 1 .. n
      BY <1>1, <1>4, <2>1
    <3>2. stream'[i] = stream[i]
      BY <1>1, <3>1
    <3>3. QED
      BY <1>2, <2>1, <3>1, <3>2 DEF UnitInv, UnitsRise
  <2>2. ASSUME NEW m \in 1 .. k, j = n + m, stream'[j] = <<t, c, b + m>>
        PROVE  stream'[i][3] < stream'[j][3]
    <3>1. stream'[j][1] = t /\ stream'[j][2] = c /\ stream'[j][3] = b + m
      BY <2>2
    <3>2. CASE i \in 1 .. n /\ stream'[i] = stream[i]
      <4>1. stream[i][3] <= b /\ stream[i][3] \in Nat
        BY <1>2, <1>6, <3>1, <3>2
      <4>2. QED
        BY <1>2, <3>1, <3>2, <4>1
    <3>3. ASSUME NEW m2 \in 1 .. k, i = n + m2, stream'[i] = <<t, c, b + m2>>
          PROVE  stream'[i][3] < stream'[j][3]
      <4>1. m2 < m
        BY <1>1, <1>4, <2>2, <3>3
      <4>2. b + m2 < b + m
        BY <1>2, <1>4, <4>1
      <4>3. QED
        BY <3>1, <3>3, <4>2
    <3>4. QED
      BY <1>5, <3>2, <3>3
  <2>3. QED
    BY <1>5, <2>1, <2>2
\* Every unit of the order up to the m-th new one has been taken by then.
<1>9. ASSUME NEW m \in 0 .. k, NEW u \in 1 .. b + m
      PROVE  \E h \in 1 .. n + m : stream'[h] = <<t, c, u>>
  <2>1. CASE u <= b
    <3>1. b + m \in Nat
      BY <1>2, <1>4
    <3>2. u \in 1 .. b
      BY <1>2, <2>1, <3>1
    <3>3. \A v \in 1 .. b : \E h \in 1 .. n : stream[h] = <<t, c, v>>
      BY <1>2, <1>3, Zenon DEF UnitInv, SentIsTaken, b, c
    <3>4. PICK h \in 1 .. n : stream[h] = <<t, c, u>>
      BY <3>2, <3>3, Zenon
    <3>5. stream'[h] = <<t, c, u>> /\ h \in 1 .. n + m
      BY <1>1, <1>4, <3>4
    <3>6. QED
      BY <3>5
  <2>2. CASE u > b
    <3> DEFINE d == u - b
    <3>1. d \in 1 .. k /\ d <= m /\ b + d = u /\ n + d \in 1 .. n + m
      BY <1>1, <1>2, <1>4, <2>2
    <3> HIDE DEF d
    <3>2. stream'[n + d] = <<t, c, b + d>>
      BY <1>1, <3>1
    <3>3. QED
      BY <3>1, <3>2
  <2>3. QED
    BY <1>2, <1>4, <2>1, <2>2
<1>10. UnitsFromFirst'
  <2> SUFFICES ASSUME NEW j \in 1 .. n + k, NEW u \in 1 .. stream'[j][3]
               PROVE  \E h \in 1 .. j : stream'[h] = <<stream'[j][1], stream'[j][2], u>>
    BY <1>4 DEF UnitsFromFirst
  <2>1. CASE j \in 1 .. n /\ stream'[j] = stream[j]
    <3>1. PICK h \in 1 .. j : stream[h] = <<stream[j][1], stream[j][2], u>>
      BY <1>2, <2>1 DEF UnitInv, UnitsFromFirst
    <3>2. h \in 1 .. n
      BY <1>1, <2>1, <3>1
    <3>3. stream'[h] = stream[h]
      BY <1>1, <3>2
    <3>4. QED
      BY <2>1, <3>1, <3>3
  <2>2. ASSUME NEW m \in 1 .. k, j = n + m, stream'[j] = <<t, c, b + m>>
        PROVE  \E h \in 1 .. j : stream'[h] = <<stream'[j][1], stream'[j][2], u>>
    <3>1. stream'[j][1] = t /\ stream'[j][2] = c /\ stream'[j][3] = b + m
      BY <2>2
    <3>2. m \in 0 .. k
      BY <1>4
    <3>3. QED
      BY <1>9, <2>2, <3>1, <3>2
  <2>3. QED
    BY <1>5, <2>1, <2>2
<1>11. SentIsTaken'
  <2> SUFFICES ASSUME NEW w \in Thread, pc'[w] = "send", NEW u \in 1 .. total_sent'[w]
               PROVE  \E h \in 1 .. n + k : stream'[h] = <<w, calls[w], u>>
    BY <1>3, <1>4 DEF SentIsTaken
  <2>1. CASE w = t
    <3>1. k \in 0 .. k
      BY <1>4
    <3>2. QED
      BY <1>3, <1>9, <2>1, <3>1 DEF c
  <2>2. CASE w # t
    <3>1. pc[w] = "send" /\ total_sent'[w] = total_sent[w]
      BY <1>3, <2>2
    <3>2. PICK h \in 1 .. n : stream[h] = <<w, calls[w], u>>
      BY <1>2, <3>1 DEF UnitInv, SentIsTaken
    <3>3. h \in 1 .. n + k /\ stream'[h] = stream[h]
      BY <1>1, <1>4, <3>2
    <3>4. QED
      BY <3>2, <3>3
  <2>3. QED
    BY <2>1, <2>2
<1>12. QED
  BY <1>7, <1>8, <1>10, <1>11 DEF UnitInv
------------------------------------------------------------------------------
(* The theorems *)

EntryInv == TypeOK /\ CallsMade /\ RiskInv /\ CountInv /\ UnitInv

LEMMA EntryStart == Init => EntryInv
<1> SUFFICES ASSUME Init PROVE EntryInv
  OBVIOUS
<1> USE EntryAssumption
<1>1. position = <<0>> /\ Last = 1 /\ position[1] = 0 /\ position \in Seq(Int) /\ position # << >>
  BY DEF Init, Last
<1>2. TypeOK
  <2>1. /\ seen \in [Thread -> 1 .. Last] /\ pc \in [Thread -> {"idle", "approved", "send"}]
        /\ total_sent \in [Thread -> 0 .. MsgUnits] /\ calls \in [Thread -> 0 .. MaxCalls]
        /\ resets \in 0 .. MaxResets /\ used \in 0 .. Room
    BY <1>1 DEF Init
  <2>2. order \in [Thread -> [side : Side, shares : Nat]]
    BY DEF Init, Side
  <2>3. stream \in Seq(Thread \X (1 .. MaxCalls) \X (1 .. MsgUnits))
    BY EmptySeq DEF Init
  <2>4. counted = << >> /\ DOMAIN counted = {} /\ forgotten = {}
    BY DEF Init
  <2>5. counted \in [DOMAIN counted -> Int]
    BY <2>4
  <2>6. QED
    BY <1>1, <2>1, <2>2, <2>3, <2>4, <2>5 DEF TypeOK, Init
<1>3. CallsMade /\ ApprovedInLimit
  BY DEF Init, CallsMade, ApprovedInLimit
<1>4. Values(position, 1, seen) /\ Values(Negated, 1, seen) /\ Negated[1] <= 0
  <2>1. Values(position, Last, seen) /\ Values(Negated, Last, seen)
    BY <1>2, PositionValues, NegatedValues
  <2>2. Negated[1] = -position[1]
    BY <1>1 DEF Negated
  <2>3. QED
    BY <1>1, <2>1, <2>2
<1>5. PICK w \in Thread : TRUE
  OBVIOUS
<1>6. HeadroomBothSides
  <2> SUFFICES ASSUME MaxOrderSize <= MaxPosition
               PROVE  Headroom(position, 1, seen) /\ Headroom(Negated, 1, seen)
    BY <1>1 DEF HeadroomBothSides
  <2>1. position[1] + MaxOrderSize <= MaxPosition
    BY <1>1
  <2>2. Negated[1] + MaxOrderSize <= MaxPosition
    BY <1>4 DEF Values
  <2>3. QED
    BY <1>4, <2>1, <2>2, HeadroomForAll
<1>7. OvershootIsBounded
  <2>1. Cardinality(Thread) - 1 \in Nat
    BY ThreadSets
  <2>2. (Cardinality(Thread) - 1) * MaxOrderSize \in Nat
    BY <2>1, Products
  <2>3. DOMAIN position = {1} /\ Abs(position[1]) = 0
    BY <1>1 DEF Abs
  <2>4. QED
    BY <2>2, <2>3 DEF OvershootIsBounded
<1>8. DOMAIN stream = {} /\ DOMAIN counted = {} /\ forgotten = {} /\ \A t \in Thread : pc[t] = "idle"
  BY DEF Init
<1>9. WireIsCounted
  <2>1. DOMAIN counted \ forgotten = {}
    BY <1>8
  <2>2. QED
    BY <1>1, <1>8, <2>1, SumEmpty DEF WireIsCounted
<1>10. CountInv /\ UnitInv
  BY <1>8, <1>9 DEF CountInv, CountedOnce, SendingIsCounted, UnitInv, UnitsBehind, SentIsTaken,
                    UnitsRise, UnitsFromFirst
<1>11. QED
  BY <1>2, <1>3, <1>6, <1>7, <1>10 DEF EntryInv, RiskInv

LEMMA EntryStep == EntryInv /\ [Next]_vars => EntryInv'
<1> SUFFICES ASSUME EntryInv, [Next]_vars PROVE EntryInv'
  OBVIOUS
<1>0. TypeOK /\ CallsMade /\ RiskInv /\ CountInv /\ UnitInv
  BY DEF EntryInv
<1>1. TypeOK' /\ CallsMade'
  BY <1>0, TypeStep
<1> SUFFICES RiskInv' /\ CountInv' /\ UnitInv'
  BY <1>1 DEF EntryInv
<1>2. ASSUME NEW t \in Thread, NEW s \in Side, NEW n \in Shares, NEW p \in Price, NEW r \in Price,
             CheckRejects(t, [side |-> s, shares |-> n], p, r)
      PROVE  RiskInv' /\ CountInv' /\ UnitInv'
  <2>1. UNCHANGED <<position, counted, forgotten, calls, stream, total_sent, pc>>
    BY <1>2 DEF CheckRejects, strategy, socket
  <2>2. QED
    BY <1>0, <1>2, <2>1, RiskRejects, CountKept, UnitKept
<1>3. ASSUME NEW t \in Thread, NEW s \in Side, NEW n \in Shares, NEW p \in Price, NEW r \in Price,
             CheckApproves(t, [side |-> s, shares |-> n], p, r)
      PROVE  RiskInv' /\ CountInv' /\ UnitInv'
  BY <1>0, <1>3, RiskApproves, CountApproves, UnitApproves
<1>4. ASSUME NEW t \in Thread, UpdatePosition(t)
      PROVE  RiskInv' /\ CountInv' /\ UnitInv'
  BY <1>0, <1>1, <1>4, RiskUpdates, CountUpdates, UnitUpdates
<1>5. ASSUME NEW t \in Thread, NEW k \in 1 .. MsgUnits, SendSome(t, k)
      PROVE  RiskInv' /\ CountInv' /\ UnitInv'
  <2>1. UNCHANGED <<position, seen, order>> /\ \A u \in Thread : pc'[u] = pc[u] \/ pc'[u] = "idle"
    BY <1>0, <1>5 DEF SendSome, Return, risk, TypeOK
  <2>2. \A u \in Thread : pc'[u] = "approved" => pc[u] = "approved"
    BY <2>1
  <2>3. QED
    BY <1>0, <1>5, <2>1, <2>2, RiskKept, CountSends, UnitSends
<1>6. ASSUME NEW t \in Thread, SendGivesUp(t)
      PROVE  RiskInv' /\ CountInv' /\ UnitInv'
  <2>1. /\ UNCHANGED <<position, seen, order, counted, forgotten, calls, stream, total_sent>>
        /\ \A u \in Thread : pc'[u] = pc[u] \/ pc'[u] = "idle"
    BY <1>0, <1>6 DEF SendGivesUp, Return, risk, socket, TypeOK
  <2>2. \A u \in Thread : /\ pc'[u] = "approved" => pc[u] = "approved"
                          /\ pc'[u] = "send" => pc[u] = "send"
    BY <2>1
  <2>3. QED
    BY <1>0, <2>1, <2>2, RiskKept, CountKept, UnitKept
<1>7. CASE reset_position
  <2>1. UNCHANGED <<calls, stream, total_sent, pc>>
    BY <1>7 DEF reset_position, strategy, socket
  <2>2. QED
    BY <1>0, <1>1, <1>7, <2>1, RiskResets, CountResets, UnitKept
<1>8. CASE setSocketFd \/ Transmit \/ Disconnect \/ UNCHANGED vars
  <2>1. UNCHANGED <<position, seen, order, counted, forgotten, calls, stream, total_sent, pc>>
    BY <1>8 DEF setSocketFd, Transmit, Disconnect, vars, risk, strategy, socket
  <2>2. QED
    BY <1>0, <2>1, RiskKept, CountKept, UnitKept
<1>9. QED
  BY <1>2, <1>3, <1>4, <1>5, <1>6, <1>7, <1>8 DEF Next, Strategy

\* The inductive invariant.
THEOREM EntryInvariant == Spec => []EntryInv
  BY EntryStart, EntryStep, PTL DEF Spec

(***************************************************************************)
(* Every variable keeps its type: in particular the number of approved     *)
(* orders, and what send has sent of one, stay in their bounds             *)
(* (StrategyEngine.cpp:22-60, TCPEgress.cpp:23-40).                        *)
(***************************************************************************)
THEOREM EntryTypeCorrect == Spec => []TypeOK
<1>1. EntryInv => TypeOK
  BY DEF EntryInv
<1>2. QED
  BY <1>1, EntryInvariant, PTL

(***************************************************************************)
(* However many strategy threads share the risk engine and however stale   *)
(* the positions they check against, the position leaves the limit by at   *)
(* most one order for each other thread (PreTradeRisk.cpp:29 and 41).      *)
(***************************************************************************)
THEOREM OvershootBounded == Spec => []OvershootIsBounded
<1>1. EntryInv => OvershootIsBounded
  BY DEF EntryInv, RiskInv
<1>2. QED
  BY <1>1, EntryInvariant, PTL

(***************************************************************************)
(* Every order with a byte on the wire is counted, and the position is the *)
(* sum of what was counted since the last reset (StrategyEngine.cpp:52-59, *)
(* PreTradeRisk.cpp:41).                                                   *)
(***************************************************************************)
THEOREM WireCounted == Spec => []WireIsCounted
<1>1. EntryInv => WireIsCounted
  BY DEF EntryInv, CountInv
<1>2. QED
  BY <1>1, EntryInvariant, PTL

(***************************************************************************)
(* The kernel gets the first units of each order in order and none twice,  *)
(* over however many partial writes (TCPEgress.cpp:23-40).                 *)
(***************************************************************************)
THEOREM UnitsOrdered == Spec => []UnitsInOrder
<1>1. EntryInv => UnitsInOrder
  BY DEF EntryInv, UnitInv, UnitsRise, UnitsFromFirst, UnitsInOrder
<1>2. QED
  BY <1>1, EntryInvariant, PTL

------------------------------------------------------------------------------
(* The bytes of an order *)

\* The bytes of an integer are its digits.
LEMMA BytesAreDigits ==
    /\ Wire!Weight = PlaceValues(Base)
    /\ \A x, b : Wire!Memory(x, b) = Digits(Wire!Weight, Base, Bytes[b], x)
    /\ \A x, b : Wire!BigEndian(x, b) = Highest(Wire!Weight, Base, Bytes[b], x)
    /\ \A d : Wire!Value(d) = Number(Wire!Weight, d)
    /\ \A d : Wire!Reverse(d) = Backwards(d)
<1>1. Wire!Weight = PlaceValues(Base)
  BY DEF Wire!Weight, PlaceValues, Powers
<1>2. ASSUME NEW x, NEW b PROVE Wire!Memory(x, b) = Digits(Wire!Weight, Base, Bytes[b], x)
  BY DEF Wire!Memory, Digits
<1>3. ASSUME NEW x, NEW b PROVE Wire!BigEndian(x, b) = Highest(Wire!Weight, Base, Bytes[b], x)
  BY DEF Wire!BigEndian, Highest
<1>4. ASSUME NEW d PROVE Wire!Value(d) = Number(Wire!Weight, d)
  BY DEF Wire!Value, Number, Totals
<1>5. ASSUME NEW d PROVE Wire!Reverse(d) = Backwards(d)
  BY DEF Wire!Reverse, Backwards
<1>6. QED
  BY <1>1, <1>2, <1>3, <1>4, <1>5

\* The swapped integer has its highest byte first.
LEMMA Stored ==
    ASSUME NEW x \in Nat, NEW b \in {16, 32, 48, 64}
    PROVE  Wire!Store(x, b) = Wire!BigEndian(x, b)
<1> DEFINE w == Wire!Weight
           n == Bytes[b]
<1>1. IsPlaceValues(w, Base) /\ Base \in Nat \ {0}
  BY BytesAreDigits, PlaceValuesExist, WireAssumption DEF WireAssumption
<1>2. n \in Nat
  BY WireAssumption DEF WireAssumption
<1> HIDE DEF w, n
<1>3. Digits(w, Base, n, Number(w, Backwards(Digits(w, Base, n, x)))) = Highest(w, Base, n, x)
  BY <1>1, <1>2, SwappedStore
<1>4. Wire!Store(x, b) = Digits(w, Base, n, Number(w, Backwards(Digits(w, Base, n, x))))
  BY BytesAreDigits DEF Wire!Store, Wire!bswap, w, n
<1>5. QED
  BY <1>3, <1>4, BytesAreDigits DEF w, n

\* A text in its field.
LEMMA TextStored ==
    ASSUME NEW size \in Nat, NEW n \in Nat, NEW S, NEW text \in [1 .. n -> S]
    PROVE  Wire!IsText(Wire!copy_string_padded(text, size), text, size)
<1> DEFINE c == " "
<1>1. Wire!copy_string_padded(text, size) = Padded(text, size, c)
  BY DEF Wire!copy_string_padded, Padded
<1>2. \A f : Wire!IsText(f, text, size) <=>
                /\ Len(f) = size
                /\ \A i \in 1 .. size : f[i] = IF i \in DOMAIN text THEN text[i] ELSE c
  BY DEF Wire!IsText
<1> HIDE DEF c
<1>3. /\ Len(Padded(text, size, c)) = size
      /\ \A i \in 1 .. size : Padded(text, size, c)[i] = IF i \in DOMAIN text THEN text[i] ELSE c
  BY PaddedText
<1>4. QED
  BY <1>1, <1>2, <1>3

\* The values of an integer type are natural numbers.
LEMMA WidthType == \A b \in {16, 32, 48, 64} : Wire!UInt(b) \subseteq Nat
<1> TAKE b \in {16, 32, 48, 64}
<1> DEFINE m == Wire!Weight[Bytes[b]]
<1>1. IsPlaceValues(Wire!Weight, Base)
  BY BytesAreDigits, PlaceValuesExist, WireAssumption DEF WireAssumption
<1>2. Bytes[b] \in Nat
  BY WireAssumption DEF WireAssumption
<1>3. m \in Nat
  BY <1>1, <1>2 DEF IsPlaceValues
<1>4. Wire!UInt(b) = 0 .. m - 1
  BY DEF Wire!UInt
<1> HIDE DEF m
<1>5. QED
  BY <1>3, <1>4

\* The default of time_in_force is a natural number, whatever the width.
LEMMA DefaultTerms == 99998 % Wire!Weight[Bytes[32]] \in Nat
<1> DEFINE m == Wire!Weight[Bytes[32]]
<1>1. IsPlaceValues(Wire!Weight, Base)
  BY BytesAreDigits, PlaceValuesExist, WireAssumption DEF WireAssumption
<1>2. Bytes[32] \in Nat
  BY WireAssumption DEF WireAssumption
<1>3. m \in Nat \ {0}
  BY <1>1, <1>2 DEF IsPlaceValues
<1> HIDE DEF m
<1>4. 99998 % m \in Nat
  BY <1>3
<1>5. QED
  BY <1>4 DEF m

\* What the builders write.
LEMMA Encoded ==
    ASSUME NEW side, NEW shares \in Nat, NEW price \in Nat, NEW o \in Wire!Order(side, shares, price)
    PROVE  Wire!IsEncoded(o)
<1> DEFINE blank == Wire!copy_string_padded(<< >>, TokenLen)
<1>1. o.token = blank /\ o.shares \in Nat /\ o.price \in Nat /\ o.stock \in Wire!Text(StockLen)
  BY DEF Wire!Order
<1>2. TokenLen \in Nat /\ StockLen \in Nat
  BY WireAssumption DEF WireAssumption
<1>3. Wire!IsText(Wire!copy_string_padded(o.stock, StockLen), o.stock, StockLen)
  <2>1. PICK n \in 0 .. StockLen + 1 : o.stock \in [1 .. n -> {"a"}]
    BY <1>1 DEF Wire!Text
  <2>2. n \in Nat
    BY <1>2
  <2>3. QED
    BY <1>2, <2>1, <2>2, TextStored
<1>4. Wire!IsText(Wire!copy_string_padded(o.token, TokenLen), o.token, TokenLen)
  <2> DEFINE c == " "
  <2>1. blank = Padded(<< >>, TokenLen, c)
    BY DEF Wire!copy_string_padded, Padded
  <2> HIDE DEF blank, c
  <2>2. blank \in [1 .. TokenLen -> {c}]
    BY <1>2, <2>1, PaddedBlank
  <2>3. QED
    BY <1>1, <1>2, <2>2, TextStored
<1>5. Wire!Store(o.shares, 32) = Wire!BigEndian(o.shares, 32)
  BY <1>1, Stored
<1>6. Wire!Store(o.price, 32) = Wire!BigEndian(o.price, 32)
  BY <1>1, Stored
<1>7. /\ Wire!Store(o.time_in_force, 32) = Wire!BigEndian(o.time_in_force, 32)
      /\ Wire!Store(o.min_qty, 32) = Wire!BigEndian(o.min_qty, 32)
  <2>1. o.time_in_force \in Nat /\ o.min_qty \in Nat
    BY DefaultTerms DEF Wire!Order
  <2>2. QED
    BY <2>1, Stored
<1> HIDE DEF blank
<1>8. QED
  BY <1>3, <1>4, <1>5, <1>6, <1>7
     DEF Wire!IsEncoded, Wire!HasTerms, Wire!build_enter_order, Wire!build_replace_order,
         Wire!build_cancel_order

(***************************************************************************)
(* For every base and width of the integers and every size of the texts,   *)
(* the bytes of an approved order tell the exchange what sendOrder was     *)
(* called with (OUCH42.cpp:12-98).                                         *)
(***************************************************************************)
THEOREM OrdersEncoded == Spec => []OrdersAreEncoded
<1>1. ASSUME TypeOK PROVE OrdersAreEncoded
  <2>1. \A t \in Thread : order[t].shares \in Nat
    BY <1>1 DEF TypeOK
  <2>2. \A price \in Wire!UInt(32) : price \in Nat
    BY WidthType
  <2>3. QED
    BY <2>1, <2>2, Encoded DEF OrdersAreEncoded
<1>2. QED
  BY <1>1, EntryTypeCorrect, PTL
==============================================================================
