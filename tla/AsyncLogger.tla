----------------------------- MODULE AsyncLogger -----------------------------
(***************************************************************************)
(* AsyncLogger (include/AsyncLogger.hpp, src/AsyncLogger.cpp): producer    *)
(* threads push records into a queue of their own, a background thread     *)
(* drains the queues into a memory-mapped file, and one thread, here       *)
(* called main, starts and stops the logger.                               *)
(*                                                                         *)
(* Each queue is an SPSCQueue as BoundedFifo describes it: a push succeeds *)
(* when there is room, a pop takes the oldest record, and a pop may miss a *)
(* record that was just pushed.  Every thread registers under an id of its *)
(* own, so a thread stands for its id and for its queue.  A record is the  *)
(* thread and the number of the log call, and takes one unit of the file.  *)
(***************************************************************************)
EXTENDS Naturals, Sequences

CONSTANTS Thread,
          Bound,        \* QUEUE_CAPACITY - 1: the records a queue holds
          MmapSize,     \* init's second argument
          MaxMessages,  \* bound: log calls of each thread
          MaxInits,     \* bound: calls of init
          MaxFailures   \* bound: system calls that fail

ASSUME LoggerAssumption ==
    /\ Bound \in Nat \ {0} /\ MmapSize \in Nat \ {0}
    /\ MaxMessages \in Nat /\ MaxInits \in Nat /\ MaxFailures \in Nat

VARIABLES
    running, mapped, mmap_size, current_offset,  \* members; mapped: mmap_ptr_ is valid
    thread_queues,  \* the registered threads, in order
    queue,          \* what each thread's queue holds
    logging,        \* the threads inside log
    logged,         \* how many log calls of each thread have returned
    file, file_size,  \* the records written to the open file, and its length
    bpc,            \* where the background thread is
    active_queues, at, idle,  \* its locals; at: the position in active_queues
    main,           \* where main is: down, up, or joining in shutdown
    promised,       \* what `logged' was when shutdown was last called
    inits, failures

members == <<running, mapped, mmap_size, current_offset>>
producers == <<queue, logging, logged>>
disk == <<file, file_size>>
background == <<bpc, active_queues, at, idle>>
control == <<main, promised, inits>>
vars == <<members, thread_queues, producers, disk, background, control, failures>>

Registered(t) == \E i \in DOMAIN thread_queues : thread_queues[i] = t

Init ==
    /\ running = FALSE /\ mapped = FALSE /\ mmap_size = 0 /\ current_offset = 0
    /\ thread_queues = << >>
    /\ queue = [t \in Thread |-> << >>]
    /\ logging = {} /\ logged = [t \in Thread |-> 0]
    /\ file = << >> /\ file_size = 0
    /\ bpc = "none" /\ active_queues = << >> /\ at = 1 /\ idle = TRUE
    /\ main = "down" /\ promised = [t \in Thread |-> 0]
    /\ inits = 0 /\ failures = 0

\* A system call returns an error.
Fails == failures < MaxFailures /\ failures' = failures + 1
------------------------------------------------------------------------------
(* main *)

\* init opens and truncates the file, maps it and starts the background thread.
init ==
    /\ main = "down" /\ inits < MaxInits
    /\ mmap_size' = MmapSize /\ file' = << >> /\ file_size' = MmapSize
    /\ mapped' = TRUE /\ running' = TRUE
    /\ bpc' = "test" /\ active_queues' = << >> /\ at' = 1 /\ idle' = TRUE
    /\ main' = "up" /\ inits' = inits + 1
    /\ UNCHANGED <<current_offset, thread_queues, producers, promised, failures>>

\* open, ftruncate or mmap fails: nothing is started.
init_fails ==
    /\ main = "down" /\ inits < MaxInits
    /\ Fails
    /\ mmap_size' = MmapSize
    /\ \/ UNCHANGED disk
       \/ file' = << >> /\ file_size' \in {0, MmapSize}
    /\ inits' = inits + 1
    /\ UNCHANGED <<running, mapped, current_offset, thread_queues, producers,
                   background, main, promised>>

shutdown ==
    /\ main = "up"
    /\ running' = FALSE
    /\ main' = "joining" /\ promised' = logged
    /\ UNCHANGED <<mapped, mmap_size, current_offset, thread_queues, producers, disk,
                   background, inits, failures>>

\* Mutant: the file is unmapped before the background thread has ended.
shutdown_not_joined ==
    /\ main = "joining"
    /\ mapped' = FALSE
    /\ file_size' = current_offset
    /\ main' = "down"
    /\ UNCHANGED <<running, mmap_size, current_offset, thread_queues, producers, file,
                   background, promised, inits, failures>>

\* The background thread is joined; the file is unmapped, cut off and closed.
shutdown_joined ==
    /\ main = "joining" /\ bpc = "ended"
    /\ bpc' = "none" /\ mapped' = FALSE
    /\ \/ file_size' = current_offset /\ UNCHANGED failures
       \/ Fails /\ UNCHANGED file_size
    /\ main' = "down"
    /\ UNCHANGED <<running, mmap_size, current_offset, thread_queues, producers, file,
                   active_queues, at, idle, promised, inits>>
------------------------------------------------------------------------------
(* The producers *)

registerThread(t) ==
    /\ ~ Registered(t)
    /\ thread_queues' = Append(thread_queues, t)
    /\ UNCHANGED <<members, producers, disk, background, control, failures>>

\* log packs the record; a thread that is not registered returns at once.
log(t) ==
    /\ Registered(t) /\ t \notin logging /\ logged[t] < MaxMessages
    /\ logging' = logging \cup {t}
    /\ UNCHANGED <<members, thread_queues, queue, logged, disk, background, control,
                   failures>>

\* Mutant: a push into a full queue succeeds.
log_push_full(t) ==
    /\ t \in logging /\ Len(queue[t]) <= Bound
    /\ queue' = [queue EXCEPT ![t] = Append(@, <<t, logged[t] + 1>>)]
    /\ logging' = logging \ {t}
    /\ logged' = [logged EXCEPT ![t] = @ + 1]
    /\ UNCHANGED <<members, thread_queues, disk, background, control, failures>>

\* The push succeeds and log returns; until then it is tried again.
log_push(t) ==
    /\ t \in logging /\ Len(queue[t]) < Bound
    /\ queue' = [queue EXCEPT ![t] = Append(@, <<t, logged[t] + 1>>)]
    /\ logging' = logging \ {t}
    /\ logged' = [logged EXCEPT ![t] = @ + 1]
    /\ UNCHANGED <<members, thread_queues, disk, background, control, failures>>
------------------------------------------------------------------------------
(* The background thread *)

\* The condition of its loop.
bg_test ==
    /\ bpc = "test"
    /\ bpc' = IF running \/ active_queues # << >> THEN "refresh" ELSE "ended"
    /\ UNCHANGED <<members, thread_queues, producers, disk, active_queues, at, idle,
                   control, failures>>

\* Under the mutex, the list of queues is brought up to date.
bg_refresh ==
    /\ bpc = "refresh"
    /\ active_queues' = thread_queues
    /\ idle' = TRUE /\ at' = 1
    /\ bpc' = "poll"
    /\ UNCHANGED <<members, thread_queues, producers, disk, control, failures>>

\* What writeToFile does to the file and the mapping, for record m.
writeToFile(m) ==
    LET write == file' = Append(file, m) /\ current_offset' = current_offset + 1
        drop == UNCHANGED <<file, current_offset>>
    IN  \/ /\ current_offset + 1 <= mmap_size
           /\ write
           /\ UNCHANGED <<mmap_size, file_size, failures>>
        \/ /\ current_offset + 1 > mmap_size  \* resizeMmap
           /\ mmap_size' = 2 * mmap_size /\ file_size' = 2 * mmap_size
           /\ IF current_offset + 1 <= mmap_size' THEN write ELSE drop
           /\ UNCHANGED failures
        \/ /\ current_offset + 1 > mmap_size  \* ... ftruncate or mremap fails
           /\ Fails
           /\ file_size' \in {file_size, 2 * mmap_size}
           /\ drop /\ UNCHANGED mmap_size

\* Mutant: the record that was written stays in the queue.
bg_pop_keeps ==
    /\ bpc = "poll" /\ at <= Len(active_queues)
    /\ LET t == active_queues[at]
       IN  queue[t] # << >> /\ writeToFile(Head(queue[t]))
    /\ idle' = FALSE
    /\ UNCHANGED <<running, mapped, thread_queues, producers, bpc, active_queues, at,
                   control>>

\* pop takes a record of the queue being polled.
bg_pop ==
    /\ bpc = "poll" /\ at <= Len(active_queues)
    /\ LET t == active_queues[at]
       IN  /\ queue[t] # << >>
           /\ writeToFile(Head(queue[t]))
           /\ queue' = [queue EXCEPT ![t] = Tail(@)]
    /\ idle' = FALSE
    /\ UNCHANGED <<running, mapped, thread_queues, logging, logged, bpc, active_queues, at,
                   control>>

\* pop returns false: on to the next queue.
bg_miss ==
    /\ bpc = "poll" /\ at <= Len(active_queues)
    /\ at' = at + 1
    /\ UNCHANGED <<members, thread_queues, producers, disk, bpc, active_queues, idle,
                   control, failures>>

\* Mutant: the thread ends as soon as it has nothing to do.
bg_decide_on_idle ==
    /\ bpc = "poll" /\ at > Len(active_queues)
    /\ bpc' = IF idle THEN "ended" ELSE "test"
    /\ UNCHANGED <<members, thread_queues, producers, disk, active_queues, at, idle,
                   control, failures>>

\* Mutant: the thread does not break out of its loop.
bg_decide_never ==
    /\ bpc = "poll" /\ at > Len(active_queues)
    /\ bpc' = "test"
    /\ UNCHANGED <<members, thread_queues, producers, disk, active_queues, at, idle,
                   control, failures>>

\* All queues were polled; the thread ends if it is told to and found nothing.
bg_decide ==
    /\ bpc = "poll" /\ at > Len(active_queues)
    /\ bpc' = IF ~ running /\ idle THEN "ended" ELSE "test"
    /\ UNCHANGED <<members, thread_queues, producers, disk, active_queues, at, idle,
                   control, failures>>
------------------------------------------------------------------------------
Main == init \/ init_fails \/ shutdown \/ shutdown_joined
Producer(t) == registerThread(t) \/ log(t) \/ log_push(t)
Background == bg_test \/ bg_refresh \/ bg_pop \/ bg_miss \/ bg_decide

Next == Main \/ Background \/ \E t \in Thread : Producer(t)

(***************************************************************************)
(* The threads are scheduled: one that can take a step takes it.  A record *)
(* the background thread polls for again and again does not stay invisible *)
(* forever.  Nobody has to call init, shutdown, registerThread or log.     *)
(***************************************************************************)
Fairness ==
    /\ WF_vars(bg_test) /\ WF_vars(bg_refresh) /\ WF_vars(bg_miss \/ bg_pop)
    /\ WF_vars(bg_decide)
    /\ \A t \in Thread :
        /\ SF_vars(bg_pop /\ active_queues[at] = t)
        /\ SF_vars(log_push(t))
    /\ WF_vars(shutdown_joined)

Spec == Init /\ [][Next]_vars /\ Fairness
------------------------------------------------------------------------------
Message == Thread \X (1 .. MaxMessages)

TypeOK ==
    /\ running \in BOOLEAN /\ mapped \in BOOLEAN
    /\ mmap_size \in Nat /\ current_offset \in Nat
    /\ thread_queues \in Seq(Thread)
    /\ queue \in [Thread -> Seq(Message)]
    /\ \A t \in Thread : queue[t] \in Seq({t} \X (1 .. MaxMessages)) /\ Len(queue[t]) <= Bound
    /\ logging \subseteq Thread /\ logged \in [Thread -> 0 .. MaxMessages]
    /\ file \in Seq(Message) /\ file_size \in Nat
    /\ bpc \in {"none", "test", "refresh", "poll", "ended"}
    /\ active_queues \in Seq(Thread) /\ at \in 1 .. Len(active_queues) + 1
    /\ idle \in BOOLEAN
    /\ main \in {"down", "up", "joining"} /\ promised \in [Thread -> 0 .. MaxMessages]
    /\ inits \in 0 .. MaxInits /\ failures \in 0 .. MaxFailures

\* The records in the file, then those in t's queue.
Trail(t) == file \o queue[t]

(***************************************************************************)
(* A thread's records reach the file in the order of its log calls and at  *)
(* most once, and what is still queued comes after them, across restarts   *)
(* of the logger and failures to extend the file.                          *)
(***************************************************************************)
InOrderAtMostOnce ==
    \A t \in Thread : \A i, j \in DOMAIN Trail(t) :
        i < j /\ Trail(t)[i][1] = t /\ Trail(t)[j][1] = t => Trail(t)[i][2] < Trail(t)[j][2]

(***************************************************************************)
(* The background thread lives only while the file is mapped: shutdown     *)
(* joins it before munmap, and init starts it after mmap.                  *)
(***************************************************************************)
MappedWhileDraining == bpc \notin {"none", "ended"} => mapped

\* The calls of log that return do not come to an end.
KeepsLogging(t) == []<><<log_push(t)>>_vars

(***************************************************************************)
(* While the logger runs, a log call that waits for room in its queue      *)
(* returns, unless another thread keeps logging forever: then the inner    *)
(* loop over that thread's queue need not end (AsyncLogger.cpp:119 and     *)
(* 187-193).                                                               *)
(***************************************************************************)
LogReturnsWhileRunning ==
    \A t \in Thread :
        \/ t \in logging /\ running ~> t \notin logging \/ ~ running
        \/ \E u \in Thread \ {t} : KeepsLogging(u)

(***************************************************************************)
(* shutdown returns unless a thread keeps logging forever: the loop of the *)
(* background thread ends (AsyncLogger.cpp:173-205).                       *)
(***************************************************************************)
ShutdownReturns ==
    (main = "joining" ~> main = "down") \/ \E t \in Thread : KeepsLogging(t)

(***************************************************************************)
(* shutdown flushes: when it has returned, every record whose log call had *)
(* returned before shutdown was called is out of its queue.                *)
(***************************************************************************)
ShutdownFlushes ==
    main = "down" =>
        \A t \in Thread : \A i \in DOMAIN queue[t] : queue[t][i][2] > promised[t]
==============================================================================
