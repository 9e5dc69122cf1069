-------------------------- MODULE AsyncLoggerProofs --------------------------
(***************************************************************************)
(* Proofs about AsyncLogger, for every number of threads, records, starts  *)
(* and failures, every capacity of the queues and every size of the file.  *)
(***************************************************************************)
EXTENDS AsyncLogger, SequenceTheorems, TLAPS

\* What Tail does to a queue, element by element.
LEMMA TailShifts ==
    ASSUME NEW S, NEW q \in Seq(S), q # << >>
    PROVE  /\ Head(q) \in S /\ Head(q) = q[1] /\ Len(q) >= 1
           /\ Tail(q) \in Seq(S) /\ Len(Tail(q)) = Len(q) - 1
           /\ \A i \in 1 .. Len(q) - 1 : Tail(q)[i] = q[i + 1]
  BY HeadTailProperties

\* The same in terms of the domains.
LEMMA TailDomain ==
    ASSUME NEW S, NEW q \in Seq(S), q # << >>
    PROVE  /\ 1 \in DOMAIN q
           /\ \A i \in DOMAIN Tail(q) : i \in Nat /\ i + 1 \in DOMAIN q /\ Tail(q)[i] = q[i + 1] /\ 1 < i + 1
<1>1. DOMAIN q = 1 .. Len(q) /\ DOMAIN Tail(q) = 1 .. Len(q) - 1 /\ Len(q) \in Nat /\ Len(q) >= 1
  BY TailShifts, LenProperties
<1>2. QED
  BY <1>1, TailShifts

\* What Append does, in terms of the domains.
LEMMA AppendDomain ==
    ASSUME NEW S, NEW q \in Seq(S), NEW m \in S
    PROVE  /\ Append(q, m) \in Seq(S) /\ Len(Append(q, m)) = Len(q) + 1
           /\ \A i \in DOMAIN Append(q, m) :
                 \/ i \in DOMAIN q /\ Append(q, m)[i] = q[i]
                 \/ i = Len(q) + 1 /\ Append(q, m)[i] = m
           /\ \A i \in DOMAIN q : i \in Nat /\ i < Len(q) + 1
           /\ Len(q) \in Nat
<1>1. Len(q) \in Nat /\ DOMAIN q = 1 .. Len(q)
  BY LenProperties
<1>2. /\ Append(q, m) \in Seq(S) /\ Len(Append(q, m)) = Len(q) + 1
      /\ \A i \in 1 .. Len(q) : Append(q, m)[i] = q[i]
      /\ Append(q, m)[Len(q) + 1] = m
  BY AppendProperties
<1>3. DOMAIN Append(q, m) = 1 .. Len(q) + 1
  BY <1>2, LenProperties
<1>4. QED
  BY <1>1, <1>2, <1>3

------------------------------------------------------------------------------
\* TypeOK, what it says of the records apart from the rest.
RecordsTyped ==
    /\ queue \in [Thread -> Seq(Message)] /\ file \in Seq(Message)
    /\ \A t \in Thread : queue[t] \in Seq({t} \X (1 .. MaxMessages)) /\ Len(queue[t]) <= Bound

RestTyped ==
    /\ running \in BOOLEAN /\ mapped \in BOOLEAN
    /\ mmap_size \in Nat /\ current_offset \in Nat
    /\ thread_queues \in Seq(Thread)
    /\ logging \subseteq Thread /\ logged \in [Thread -> 0 .. MaxMessages]
    /\ file_size \in Nat
    /\ bpc \in {"none", "test", "refresh", "poll", "ended"}
    /\ active_queues \in Seq(Thread) /\ at \in 1 .. Len(active_queues) + 1
    /\ idle \in BOOLEAN
    /\ main \in {"down", "up", "joining"} /\ promised \in [Thread -> 0 .. MaxMessages]
    /\ inits \in 0 .. MaxInits /\ failures \in 0 .. MaxFailures

LEMMA TypeParts == TypeOK <=> RecordsTyped /\ RestTyped
  BY DEF TypeOK, RecordsTyped, RestTyped

LEMMA TypePartsNext == TypeOK' <=> RecordsTyped' /\ RestTyped'
  BY DEF TypeOK, RecordsTyped, RestTyped

\* The fields of the records in the file and in the queues.
LEMMA RecordFields ==
    ASSUME TypeOK
    PROVE  /\ \A i \in DOMAIN file : file[i][1] \in Thread /\ file[i][2] \in Nat
           /\ \A u \in Thread : \A i \in DOMAIN queue[u] : queue[u][i][2] \in Nat
           /\ \A u \in Thread : logged[u] \in Nat
           /\ Len(file) \in Nat
<1>1. file \in Seq(Message) /\ \A u \in Thread : queue[u] \in Seq(Message)
  BY DEF TypeOK
<1>2. \A m \in Message : m[1] \in Thread /\ m[2] \in Nat
  BY LoggerAssumption DEF Message
<1>3. \A s \in Seq(Message) : \A i \in DOMAIN s : s[i] \in Message
  BY ElementOfSeq, LenProperties
<1>4. \A u \in Thread : logged[u] \in Nat
  BY LoggerAssumption DEF TypeOK
<1>5. Len(file) \in Nat
  BY <1>1, LenProperties
<1>6. QED
  BY <1>1, <1>2, <1>3, <1>4, <1>5

\* Every record's number is one of its thread's returned log calls.
NoneAhead ==
    /\ \A i \in DOMAIN file : file[i][2] <= logged[file[i][1]]
    /\ \A t \in Thread : \A i \in DOMAIN queue[t] : queue[t][i][2] <= logged[t]

\* A queue is in order, and so are the records of one thread in the file.
QueueInOrder ==
    \A t \in Thread : \A i, j \in DOMAIN queue[t] : i < j => queue[t][i][2] < queue[t][j][2]
FileInOrder ==
    \A i, j \in DOMAIN file : i < j /\ file[i][1] = file[j][1] => file[i][2] < file[j][2]

\* What is written of a thread is before what is queued.
FileBeforeQueue ==
    \A t \in Thread : \A i \in DOMAIN file, j \in DOMAIN queue[t] :
        file[i][1] = t => file[i][2] < queue[t][j][2]

\* There is a background thread, and a mapping for it, from init to shutdown's join.
ThreadHasMapping == IF main = "down" THEN bpc = "none" ELSE bpc # "none" /\ mapped

\* A thread inside log has a call left to make.
CallsLeft == \A t \in logging : logged[t] < MaxMessages

OrderInv == NoneAhead /\ QueueInOrder /\ FileInOrder /\ FileBeforeQueue

LoggerInv == TypeOK /\ CallsLeft /\ ThreadHasMapping /\ OrderInv
------------------------------------------------------------------------------
\* A step that leaves the queues and the log calls alone and keeps or empties the file.
LEMMA FileKeptOrEmptied ==
    ASSUME OrderInv, UNCHANGED <<queue, logged>>, file' = file \/ file' = << >>
    PROVE  OrderInv'
<1> USE DEF OrderInv, NoneAhead, QueueInOrder, FileInOrder, FileBeforeQueue
<1>1. CASE file' = file
  BY <1>1
<1>2. CASE file' = << >>
  <2>1. DOMAIN file' = {}
    BY <1>2
  <2>2. QED
    BY <2>1
<1>3. QED
  BY <1>1, <1>2

\* log_push: the new record is behind everything its thread has logged.
LEMMA Pushing ==
    ASSUME TypeOK, CallsLeft, OrderInv, NEW t \in Thread, log_push(t)
    PROVE  TypeOK' /\ CallsLeft' /\ OrderInv'
<1> DEFINE m == <<t, logged[t] + 1>>
           Own == {t} \X (1 .. MaxMessages)
<1>1. /\ logged \in [Thread -> 0 .. MaxMessages] /\ queue \in [Thread -> Seq(Message)]
      /\ queue[t] \in Seq(Own) /\ t \in logging /\ Len(queue[t]) < Bound
      /\ logged[t] + 1 \in 1 .. MaxMessages
  BY LoggerAssumption DEF TypeOK, CallsLeft, log_push
<1>2. m \in Own /\ m \in Message
  BY <1>1 DEF Message
<1>3. /\ queue' = [queue EXCEPT ![t] = Append(queue[t], m)]
      /\ logged' = [logged EXCEPT ![t] = logged[t] + 1]
      /\ logging' = logging \ {t} /\ UNCHANGED file
  BY DEF log_push, disk
<1> HIDE DEF m, Own
<1>4. /\ queue'[t] = Append(queue[t], m)
      /\ \A u \in Thread : u # t => queue'[u] = queue[u]
      /\ queue'[t] \in Seq(Own) /\ queue'[t] \in Seq(Message)
      /\ Len(queue'[t]) <= Bound
  <2>1. Append(queue[t], m) \in Seq(Own) /\ Len(Append(queue[t], m)) = Len(queue[t]) + 1
    BY <1>1, <1>2, AppendDomain
  <2>2. Append(queue[t], m) \in Seq(Message)
    BY <1>1, <1>2, AppendDomain
  <2>3. Len(queue[t]) \in Nat
    BY <1>1, LenProperties
  <2>4. QED
    BY <1>1, <1>3, <2>1, <2>2, <2>3, LoggerAssumption
<1>5. /\ logged'[t] = logged[t] + 1 /\ logged' \in [Thread -> 0 .. MaxMessages]
      /\ \A u \in Thread : u # t => logged'[u] = logged[u]
  BY <1>1, <1>3
<1>6. TypeOK'
  <2>1. queue' \in [Thread -> Seq(Message)]
    BY <1>1, <1>3, <1>4
  <2>2. \A u \in Thread : queue'[u] \in Seq({u} \X (1 .. MaxMessages)) /\ Len(queue'[u]) <= Bound
    BY <1>4 DEF TypeOK, Own
  <2>3. QED
    BY <1>3, <1>5, <2>1, <2>2 DEF TypeOK, log_push, members, disk, background, control
<1>7. CallsLeft'
  BY <1>3, <1>5 DEF CallsLeft, TypeOK
<1>8. \A i \in DOMAIN queue'[t] :
          \/ i \in DOMAIN queue[t] /\ queue'[t][i] = queue[t][i] /\ i \in Nat /\ i < Len(queue[t]) + 1
          \/ i = Len(queue[t]) + 1 /\ queue'[t][i] = m
  BY <1>1, <1>2, <1>4, AppendDomain
<1>9. m[1] = t /\ m[2] = logged[t] + 1
  BY DEF m
<1>10. /\ \A i \in DOMAIN file : file[i][1] \in Thread /\ file[i][2] \in Nat
       /\ \A u \in Thread : \A i \in DOMAIN queue[u] : queue[u][i][2] \in Nat
  BY RecordFields
<1>11. OrderInv'
  <2> USE DEF OrderInv
  <2>1. NoneAhead'
    BY <1>1, <1>3, <1>4, <1>5, <1>8, <1>9, <1>10 DEF NoneAhead
  <2>2. QueueInOrder'
    <3> SUFFICES ASSUME NEW u \in Thread, NEW i \in DOMAIN queue'[u], NEW j \in DOMAIN queue'[u], i < j
                 PROVE  queue'[u][i][2] < queue'[u][j][2]
      BY DEF QueueInOrder
    <3>1. CASE u # t
      BY <3>1, <1>4 DEF QueueInOrder
    <3>2. CASE u = t
      <4>1. Len(queue[t]) \in Nat
        BY <1>1, LenProperties
      <4>2. CASE j \in DOMAIN queue[t] /\ queue'[t][j] = queue[t][j] /\ j \in Nat /\ j < Len(queue[t]) + 1
        <5>1. i \in DOMAIN queue[t] /\ queue'[t][i] = queue[t][i]
          BY <3>2, <4>1, <4>2, <1>8
        <5>2. QED
          BY <5>1, <4>2, <3>2 DEF QueueInOrder
      <4>3. CASE j = Len(queue[t]) + 1 /\ queue'[t][j] = m
        <5>1. i \in DOMAIN queue[t] /\ queue'[t][i] = queue[t][i]
          BY <3>2, <4>1, <4>3, <1>8
        <5>2. QED
          BY <5>1, <4>3, <3>2, <1>1, <1>9, <1>10 DEF NoneAhead
      <4>4. QED
        BY <4>2, <4>3, <1>8, <3>2
    <3>3. QED
      BY <3>1, <3>2
  <2>3. FileInOrder'
    BY <1>3 DEF FileInOrder
  <2>4. FileBeforeQueue'
    BY <1>1, <1>3, <1>4, <1>8, <1>9, <1>10 DEF FileBeforeQueue, NoneAhead
  <2>5. QED
    BY <2>1, <2>2, <2>3, <2>4
<1>12. QED
  BY <1>6, <1>7, <1>11

\* bg_pop: the oldest record of a queue goes behind the file, or is dropped.
LEMMA Popping ==
    ASSUME TypeOK, OrderInv, bg_pop
    PROVE  TypeOK' /\ OrderInv'
<1> DEFINE t == active_queues[at]
           m == Head(queue[t])
           Own == {t} \X (1 .. MaxMessages)
<1>1. t \in Thread
  <2>1. active_queues \in Seq(Thread) /\ at \in 1 .. Len(active_queues)
    BY LenProperties DEF TypeOK, bg_pop
  <2>2. QED
    BY <2>1, ElementOfSeq
<1>2. /\ queue[t] # << >> /\ writeToFile(m) /\ queue' = [queue EXCEPT ![t] = Tail(queue[t])]
      /\ idle' = FALSE
      /\ UNCHANGED <<running, mapped, thread_queues, logging, logged, bpc, active_queues, at, control>>
  BY DEF bg_pop
<1> HIDE DEF t
<1>3. queue \in [Thread -> Seq(Message)] /\ queue[t] \in Seq(Own)
  BY <1>1 DEF TypeOK
<1>4. m \in Own /\ m = queue[t][1] /\ 1 \in DOMAIN queue[t] /\ m \in Message
  BY <1>1, <1>2, <1>3, TailShifts, TailDomain DEF Message
<1>5. m[1] = t /\ m[2] \in 1 .. MaxMessages
  BY <1>4
<1>6. /\ \A u \in Thread : u # t => queue'[u] = queue[u]
      /\ queue'[t] = Tail(queue[t])
      /\ Tail(queue[t]) \in Seq(Own) /\ Tail(queue[t]) \in Seq(Message)
      /\ Len(Tail(queue[t])) <= Bound
  <2>1. Len(queue[t]) \in Nat /\ Len(queue[t]) <= Bound
    BY <1>1, <1>3, LenProperties DEF TypeOK
  <2>2. Tail(queue[t]) \in Seq(Message)
    BY <1>1, <1>2, <1>3, TailShifts
  <2>3. Tail(queue[t]) \in Seq(Own) /\ Len(Tail(queue[t])) = Len(queue[t]) - 1
    BY <1>2, <1>3, TailShifts
  <2>4. QED
    BY <1>1, <1>2, <1>3, <2>1, <2>2, <2>3, LoggerAssumption
<1>7. \A i \in DOMAIN queue'[t] : i \in Nat /\ i + 1 \in DOMAIN queue[t] /\ queue'[t][i] = queue[t][i + 1] /\ 1 < i + 1
  <2>1. \A i \in DOMAIN Tail(queue[t]) :
            i \in Nat /\ i + 1 \in DOMAIN queue[t] /\ Tail(queue[t])[i] = queue[t][i + 1] /\ 1 < i + 1
    BY <1>2, <1>3, TailDomain
  <2>2. QED
    BY <1>6, <2>1
<1>8. /\ mmap_size' \in Nat /\ current_offset' \in Nat /\ file_size' \in Nat
      /\ failures' \in 0 .. MaxFailures
      /\ file' = Append(file, m) \/ file' = file
  <2> HIDE DEF m
  <2> QED
    BY <1>2, LoggerAssumption, SMTT(30) DEF TypeOK, writeToFile, Fails
<1>9. file \in Seq(Message)
  BY DEF TypeOK
<1> HIDE DEF m
<1>10. file' \in Seq(Message)
  BY <1>4, <1>8, <1>9, AppendDomain, SMTT(30)
<1>11. TypeOK'
  <2>1. queue' \in [Thread -> Seq(Message)]
    BY <1>1, <1>2, <1>3, <1>6
  <2>2. \A u \in Thread : queue'[u] \in Seq({u} \X (1 .. MaxMessages)) /\ Len(queue'[u]) <= Bound
    BY <1>6 DEF TypeOK
  <2>3. QED
    BY <1>2, <1>8, <1>10, <2>1, <2>2 DEF TypeOK, control
<1>12. \A i \in DOMAIN file' :
          \/ i \in DOMAIN file /\ file'[i] = file[i] /\ i \in Nat /\ i < Len(file) + 1
          \/ i = Len(file) + 1 /\ file'[i] = m
  BY <1>4, <1>8, <1>9, AppendDomain
<1>13. /\ \A i \in DOMAIN file : file[i][1] \in Thread /\ file[i][2] \in Nat
       /\ \A u \in Thread : \A i \in DOMAIN queue[u] : queue[u][i][2] \in Nat
       /\ \A u \in Thread : logged[u] \in Nat
       /\ Len(file) \in Nat
  BY RecordFields
<1>14. OrderInv'
  <2> USE DEF OrderInv
  <2>1. NoneAhead'
    <3>1. \A i \in DOMAIN file' : file'[i][2] <= logged'[file'[i][1]]
      BY <1>1, <1>2, <1>4, <1>5, <1>12, <1>13 DEF NoneAhead
    <3>2. ASSUME NEW u \in Thread, NEW i \in DOMAIN queue'[u]
          PROVE  queue'[u][i][2] <= logged'[u]
      <4>1. CASE u # t
        BY <1>1, <1>2, <1>6, <4>1 DEF NoneAhead
      <4>2. CASE u = t
        BY <1>1, <1>2, <1>7, <4>2 DEF NoneAhead
      <4>3. QED
        BY <4>1, <4>2
    <3>3. QED
      BY <3>1, <3>2 DEF NoneAhead
  <2>2. QueueInOrder'
    <3> SUFFICES ASSUME NEW u \in Thread, NEW i \in DOMAIN queue'[u], NEW j \in DOMAIN queue'[u], i < j
                 PROVE  queue'[u][i][2] < queue'[u][j][2]
      BY DEF QueueInOrder
    <3>1. CASE u # t
      BY <3>1, <1>6 DEF QueueInOrder
    <3>2. CASE u = t
      <4>1. i + 1 < j + 1
        BY <3>2, <1>7
      <4>2. QED
        BY <3>2, <4>1, <1>1, <1>7 DEF QueueInOrder
    <3>3. QED
      BY <3>1, <3>2
  <2>3. FileInOrder'
    BY <1>1, <1>4, <1>5, <1>12, <1>13 DEF FileInOrder, FileBeforeQueue
  <2>4. FileBeforeQueue'
    <3> SUFFICES ASSUME NEW u \in Thread, NEW i \in DOMAIN file', NEW j \in DOMAIN queue'[u], file'[i][1] = u
                 PROVE  file'[i][2] < queue'[u][j][2]
      BY DEF FileBeforeQueue
    <3>1. CASE u # t
      BY <3>1, <1>5, <1>6, <1>12 DEF FileBeforeQueue
    <3>2. CASE u = t
      BY <3>2, <1>4, <1>7, <1>12, <1>1 DEF FileBeforeQueue, QueueInOrder
    <3>3. QED
      BY <3>1, <3>2
  <2>5. QED
    BY <2>1, <2>2, <2>3, <2>4
<1>15. QED
  BY <1>11, <1>14

\* Every other step keeps the queues and the log calls, and keeps or empties the file.
LEMMA Others ==
    ASSUME TypeOK,
           \/ init \/ init_fails \/ shutdown \/ shutdown_joined
           \/ bg_test \/ bg_refresh \/ bg_miss \/ bg_decide
           \/ \E t \in Thread : registerThread(t) \/ log(t)
           \/ UNCHANGED vars
    PROVE  TypeOK' /\ UNCHANGED <<queue, logged>> /\ (file' = file \/ file' = << >>)
<1> USE LoggerAssumption DEF members, producers, disk, background, control, Fails
<1>0. RecordsTyped /\ RestTyped
  BY TypeParts
<1> SUFFICES RestTyped' /\ UNCHANGED <<queue, logged>> /\ (file' = file \/ file' = << >>)
  <2>1. ASSUME UNCHANGED queue, file' = file \/ file' = << >> PROVE RecordsTyped'
    <3>1. file' \in Seq(Message)
      BY <1>0, <2>1, EmptySeq DEF RecordsTyped
    <3>2. QED
      BY <1>0, <2>1, <3>1 DEF RecordsTyped
  <2>2. QED
    BY <2>1, TypePartsNext
<1> USE <1>0 DEF RestTyped
<1>1. CASE init
  BY <1>1 DEF init
<1>2. CASE init_fails
  BY <1>2 DEF init_fails
<1>3. CASE shutdown
  BY <1>3 DEF shutdown
<1>4. CASE shutdown_joined
  <2>1. file_size' \in Nat /\ failures' \in 0 .. MaxFailures
    BY <1>4 DEF shutdown_joined
  <2>2. QED
    BY <1>4, <2>1 DEF shutdown_joined
<1>5. CASE bg_test
  BY <1>5 DEF bg_test
<1>6. CASE bg_refresh
  BY <1>6 DEF bg_refresh
<1>7. CASE bg_miss
  BY <1>7, LenProperties DEF bg_miss
<1>8. CASE bg_decide
  BY <1>8 DEF bg_decide
<1>9. CASE \E t \in Thread : registerThread(t)
  BY <1>9 DEF registerThread
<1>10. CASE \E t \in Thread : log(t)
  BY <1>10 DEF log
<1>11. CASE UNCHANGED vars
  BY <1>11 DEF vars
<1>12. QED
  BY <1>1, <1>2, <1>3, <1>4, <1>5, <1>6, <1>7, <1>8, <1>9, <1>10, <1>11

\* Only log and log_push touch what CallsLeft is about; main's steps keep the mapping.
LEMMA ControlKept ==
    ASSUME TypeOK, CallsLeft, ThreadHasMapping, [Next]_vars
    PROVE  ThreadHasMapping' /\ ((\A t \in Thread : ~ log_push(t)) => CallsLeft')
<1> USE DEF TypeOK, CallsLeft, ThreadHasMapping, members, producers, disk, background, control
<1>1. CASE init
  BY <1>1 DEF init
<1>2. CASE init_fails
  BY <1>2 DEF init_fails
<1>3. CASE shutdown
  BY <1>3 DEF shutdown
<1>4. CASE shutdown_joined
  BY <1>4 DEF shutdown_joined
<1>5. CASE bg_test
  BY <1>5 DEF bg_test
<1>6. CASE bg_refresh
  BY <1>6 DEF bg_refresh
<1>7. CASE bg_miss
  BY <1>7 DEF bg_miss
<1>8. CASE bg_decide
  BY <1>8 DEF bg_decide
<1>9. CASE \E t \in Thread : registerThread(t)
  BY <1>9 DEF registerThread
<1>10. CASE \E t \in Thread : log(t)
  BY <1>10 DEF log
<1>11. CASE \E t \in Thread : log_push(t)
  BY <1>11 DEF log_push
<1>12. CASE bg_pop
  BY <1>12 DEF bg_pop
<1>13. CASE UNCHANGED vars
  BY <1>13 DEF vars
<1>14. QED
  BY <1>1, <1>2, <1>3, <1>4, <1>5, <1>6, <1>7, <1>8, <1>9, <1>10, <1>11, <1>12, <1>13
     DEF Next, Main, Background, Producer

\* The inductive invariant.
THEOREM LoggerInvariant == Spec => []LoggerInv
<1>1. Init => LoggerInv
  <2> SUFFICES ASSUME Init PROVE LoggerInv
    OBVIOUS
  <2>1. DOMAIN file = {} /\ \A t \in Thread : queue[t] = << >> /\ DOMAIN queue[t] = {}
    BY DEF Init
  <2>2. TypeOK
    <3>1. << >> \in Seq(Thread) /\ Len(<< >>) = 0
      BY EmptySeq
    <3>2. RestTyped
      <4>1. logged \in [Thread -> 0 .. MaxMessages] /\ promised \in [Thread -> 0 .. MaxMessages]
        BY LoggerAssumption DEF Init
      <4>2. 1 \in 1 .. Len(<< >>) + 1 /\ 0 \in 0 .. MaxInits /\ 0 \in 0 .. MaxFailures
        BY <3>1, LoggerAssumption
      <4>3. QED
        BY <3>1, <4>1, <4>2 DEF Init, RestTyped
    <3>3. file \in Seq(Message) /\ queue \in [Thread -> Seq(Message)]
      BY EmptySeq DEF Init
    <3>4. RecordsTyped
      BY <2>1, <3>3, EmptySeq, LoggerAssumption DEF RecordsTyped
    <3>5. QED
      BY <3>2, <3>4, TypeParts
  <2>3. OrderInv
    BY <2>1 DEF OrderInv, NoneAhead, QueueInOrder, FileInOrder, FileBeforeQueue
  <2>4. QED
    BY <2>2, <2>3 DEF Init, LoggerInv, CallsLeft, ThreadHasMapping
<1>2. LoggerInv /\ [Next]_vars => LoggerInv'
  <2> SUFFICES ASSUME LoggerInv, [Next]_vars PROVE LoggerInv'
    OBVIOUS
  <2>0. TypeOK /\ CallsLeft /\ ThreadHasMapping /\ OrderInv
    BY DEF LoggerInv
  <2>1. ThreadHasMapping' /\ ((\A t \in Thread : ~ log_push(t)) => CallsLeft')
    BY <2>0, ControlKept
  <2>2. CASE \E t \in Thread : log_push(t)
    BY <2>0, <2>1, <2>2, Pushing DEF LoggerInv
  <2>3. CASE bg_pop /\ \A t \in Thread : ~ log_push(t)
    BY <2>0, <2>1, <2>3, Popping DEF LoggerInv
  <2>4. CASE ~ bg_pop /\ \A t \in Thread : ~ log_push(t)
    <3>1. TypeOK' /\ UNCHANGED <<queue, logged>> /\ (file' = file \/ file' = << >>)
      BY <2>0, <2>4, Others DEF Next, Main, Background, Producer
    <3>2. OrderInv'
      BY <2>0, <3>1, FileKeptOrEmptied
    <3>3. QED
      BY <2>1, <2>4, <3>1, <3>2 DEF LoggerInv
  <2>5. QED
    BY <2>2, <2>3, <2>4
<1>3. QED
  BY <1>1, <1>2, PTL DEF Spec

(***************************************************************************)
(* Every variable keeps its type; in particular no queue ever holds more   *)
(* than its capacity, and the cursor of the background thread stays in its *)
(* list (AsyncLogger.cpp:118-123 and 187-193).                             *)
(***************************************************************************)
THEOREM LoggerTypeCorrect == Spec => []TypeOK
<1>1. LoggerInv => TypeOK
  BY DEF LoggerInv
<1>2. QED
  BY <1>1, LoggerInvariant, PTL

(***************************************************************************)
(* The background thread never drains into a file that is not mapped       *)
(* (AsyncLogger.cpp:60-75).                                                *)
(***************************************************************************)
THEOREM MappingHeld == Spec => []MappedWhileDraining
<1>1. LoggerInv => MappedWhileDraining
  BY DEF LoggerInv, TypeOK, ThreadHasMapping, MappedWhileDraining
<1>2. QED
  BY <1>1, LoggerInvariant, PTL

(***************************************************************************)
(* Records of one thread reach the file in order and at most once, across  *)
(* restarts and failures to extend the file (AsyncLogger.cpp:125-193).     *)
(***************************************************************************)
THEOREM RecordsInOrder == Spec => []InOrderAtMostOnce
<1>1. LoggerInv => InOrderAtMostOnce
  <2> SUFFICES ASSUME LoggerInv, NEW t \in Thread, NEW i \in DOMAIN Trail(t), NEW j \in DOMAIN Trail(t),
                      i < j, Trail(t)[i][1] = t, Trail(t)[j][1] = t
               PROVE  Trail(t)[i][2] < Trail(t)[j][2]
    BY DEF InOrderAtMostOnce
  <2>1. file \in Seq(Message) /\ queue[t] \in Seq(Message)
    BY DEF LoggerInv, TypeOK
  <2>2. /\ Len(file) \in Nat /\ Len(queue[t]) \in Nat
        /\ DOMAIN file = 1 .. Len(file) /\ DOMAIN queue[t] = 1 .. Len(queue[t])
    BY <2>1, LenProperties
  <2>3. /\ DOMAIN Trail(t) = 1 .. Len(file) + Len(queue[t])
        /\ \A k \in 1 .. Len(file) + Len(queue[t]) :
              Trail(t)[k] = IF k <= Len(file) THEN file[k] ELSE queue[t][k - Len(file)]
    BY <2>1, <2>2, ConcatProperties, LenProperties DEF Trail
  <2>4. CASE j <= Len(file)
    BY <2>2, <2>3, <2>4 DEF LoggerInv, OrderInv, FileInOrder
  <2>5. CASE i > Len(file)
    BY <2>2, <2>3, <2>5, SMTT(30) DEF LoggerInv, OrderInv, QueueInOrder
  <2>6. CASE i <= Len(file) /\ j > Len(file)
    BY <2>2, <2>3, <2>6 DEF LoggerInv, OrderInv, FileBeforeQueue
  <2>7. QED
    BY <2>2, <2>3, <2>4, <2>5, <2>6
<1>2. QED
  BY <1>1, LoggerInvariant, PTL
==============================================================================
