--------------------------- MODULE ProducerConsumer ---------------------------
(***************************************************************************)
(* The producer/consumer simulator of TeamLastPicked_p3: the main thread    *)
(* and the producer and consumer threads of p3.c, on the integer array of   *)
(* buffer.c, guarded by one semaphore.                                      *)
(*                                                                         *)
(* A step is one semaphore operation or one access to an array element, so  *)
(* that the loops of push, pop, enqueue and countItems could be interrupted *)
(* half-way; only the mutex keeps others out.                               *)
(***************************************************************************)
EXTENDS Integers, Sequences

CONSTANTS
  Size,         \* elements of buffer[], 10 in the code
  MaxThreads,   \* the most producers, and consumers, main accepts: 10
  Items,        \* what rand() may return
  Producers,    \* what argv[1], argv[2] and argv[3] may say
  Consumers,
  Modes

EMPTY == -1
FIFO == 0
FILO == 1

\* rand() never returns a negative number, the mark of an empty element.
ASSUME ProducerConsumerAssumption ==
  /\ Size \in Nat \ {0}
  /\ MaxThreads \in Nat
  /\ Items \subseteq Nat
  /\ Producers \subseteq Int /\ Consumers \subseteq Int /\ Modes \subseteq Int

Threads == 0 .. 2 * MaxThreads - 1      \* indices of threads[]
Last == Size - 1
Arrays == [0 .. Last -> Items \cup {EMPTY}]

VARIABLES
  main,             \* where main is
  numProducers, numConsumers, bufferMode,
  created,          \* threads created so far: its i, over both loops
  mutex,            \* the semaphore
  buffer,           \* the array on main's stack
  pc,               \* where each thread_run is
  i,                \* the loop variable of the buffer function it is in
  item              \* its randInt, EMPTY while it holds no item

args == <<numProducers, numConsumers, bufferMode>>
vars == <<main, args, created, mutex, buffer, pc, i, item>>

\* "exiting": main has returned and its frame is gone, the threads still run.
MainStates == {"args", "initialize", "create", "sleep", "return", "exiting",
               "exited"}
\* Between sem_wait and sem_post.
Critical == {"count", "walk", "shift_right", "store", "take", "shift_left",
             "print", "post"}
ThreadStates == {"none", "check_in", "sleep", "wait"} \cup Critical

IsProducer(t) == t < numProducers

-----------------------------------------------------------------------------
\* The array holds garbage until initializeBuffer.
Init ==
  /\ main = "args"
  /\ numProducers \in Producers
  /\ numConsumers \in Consumers
  /\ bufferMode \in Modes
  /\ created = 0
  /\ mutex = 1
  /\ buffer \in Arrays
  /\ pc = [t \in Threads |-> "none"]
  /\ i = [t \in Threads |-> 0]
  /\ item = [t \in Threads |-> EMPTY]

Valid ==
  /\ numProducers \in 1 .. MaxThreads
  /\ numConsumers \in 1 .. MaxThreads
  /\ bufferMode \in {FIFO, FILO}

CheckArguments ==
  /\ main = "args"
  /\ main' = IF Valid THEN "initialize" ELSE "exiting"
  /\ UNCHANGED <<args, created, mutex, buffer, pc, i, item>>

InitializeBuffer ==
  /\ main = "initialize" /\ main' = "create"
  /\ buffer' = [k \in 0 .. Last |-> EMPTY]
  /\ UNCHANGED <<args, created, mutex, pc, i, item>>

\* Producers first, then consumers.  The result of pthread_create is ignored:
\* the thread may not exist.
CreateThread ==
  /\ main = "create"
  /\ main' = IF created + 1 = numProducers + numConsumers
               THEN "sleep" ELSE "create"
  /\ created' = created + 1
  /\ \/ pc' = [pc EXCEPT ![created] = "check_in"]
     \/ pc' = pc
  /\ UNCHANGED <<args, mutex, buffer, i, item>>

\* main's frame, and the array in it, are overwritten by what exit() calls.
LeaveMain ==
  /\ main' = "exiting"
  /\ buffer' \in Arrays
  /\ UNCHANGED <<args, created, mutex, pc, i, item>>

MallocFails == main = "create" /\ LeaveMain

\* sleep(300) ends; sem_destroy lets threads that wait go on waiting.
SemDestroy ==
  /\ main = "sleep" /\ main' = "return"
  /\ UNCHANGED <<args, created, mutex, buffer, pc, i, item>>

Return == main = "return" /\ LeaveMain

Exit ==
  /\ main = "exiting" /\ main' = "exited"
  /\ UNCHANGED <<args, created, mutex, buffer, pc, i, item>>

-----------------------------------------------------------------------------
(* thread_run                                                              *)

ThreadStep(t, from, to) ==
  main # "exited" /\ pc[t] = from /\ pc' = [pc EXCEPT ![t] = to]

CheckIn(t) ==
  /\ ThreadStep(t, "check_in", "sleep")
  /\ UNCHANGED <<main, args, created, mutex, buffer, i, item>>

\* Any length of time, none at all if the delay drawn is 0 or 1000 ms.
Nanosleep(t) ==
  /\ ThreadStep(t, "sleep", "wait")
  /\ UNCHANGED <<main, args, created, mutex, buffer, i, item>>

\* Mutant: the semaphore is not waited for.
SemWaitNot(t) ==
  /\ ThreadStep(t, "wait", "count")
  /\ mutex' = mutex - 1
  /\ i' = [i EXCEPT ![t] = 0]
  /\ \E v \in IF IsProducer(t) THEN Items ELSE {EMPTY} :
       item' = [item EXCEPT ![t] = v]
  /\ UNCHANGED <<main, args, created, buffer>>

\* A producer draws its item; both kinds of thread call countItems.
SemWait(t) ==
  /\ ThreadStep(t, "wait", "count")
  /\ mutex > 0
  /\ mutex' = mutex - 1
  /\ i' = [i EXCEPT ![t] = 0]
  /\ \E v \in IF IsProducer(t) THEN Items ELSE {EMPTY} :
       item' = [item EXCEPT ![t] = v]
  /\ UNCHANGED <<main, args, created, buffer>>

\* The loops of countItems and enqueue: on to the next element in use.
Occupied(t, end) == i[t] < end /\ buffer[i[t]] # EMPTY

CountItem(t) ==
  /\ ThreadStep(t, "count", "count")
  /\ Occupied(t, Size)
  /\ i' = [i EXCEPT ![t] = @ + 1]
  /\ UNCHANGED <<main, args, created, mutex, buffer, item>>

\* Mutant: one element too few counts as full.
CountedProducerFullEarly(t) ==
  /\ IsProducer(t) /\ ~ Occupied(t, Size)
  /\ \/ /\ i[t] >= Last /\ ThreadStep(t, "count", "post")
        /\ UNCHANGED i
     \/ /\ i[t] < Last /\ bufferMode = FIFO /\ ThreadStep(t, "count", "walk")
        /\ i' = [i EXCEPT ![t] = 0]
     \/ /\ i[t] < Last /\ bufferMode = FILO
        /\ ThreadStep(t, "count", "shift_right")
        /\ i' = [i EXCEPT ![t] = Last]
  /\ UNCHANGED <<main, args, created, mutex, buffer, item>>

\* Mutant: a full buffer is not noticed.
CountedProducerNotFull(t) ==
  /\ IsProducer(t) /\ ~ Occupied(t, Size)
  /\ \/ /\ bufferMode = FIFO /\ ThreadStep(t, "count", "walk")
        /\ i' = [i EXCEPT ![t] = 0]
     \/ /\ bufferMode = FILO /\ ThreadStep(t, "count", "shift_right")
        /\ i' = [i EXCEPT ![t] = Last]
  /\ UNCHANGED <<main, args, created, mutex, buffer, item>>

\* A full buffer sends the producer to sem_post, another to enqueue or push.
CountedProducer(t) ==
  /\ IsProducer(t) /\ ~ Occupied(t, Size)
  /\ \/ /\ i[t] = Size /\ ThreadStep(t, "count", "post")
        /\ UNCHANGED i
     \/ /\ i[t] # Size /\ bufferMode = FIFO /\ ThreadStep(t, "count", "walk")
        /\ i' = [i EXCEPT ![t] = 0]
     \/ /\ i[t] # Size /\ bufferMode = FILO
        /\ ThreadStep(t, "count", "shift_right")
        /\ i' = [i EXCEPT ![t] = Last]
  /\ UNCHANGED <<main, args, created, mutex, buffer, item>>

\* Mutant: an empty buffer is not noticed.
CountedConsumerNotEmpty(t) ==
  /\ ~ IsProducer(t) /\ ~ Occupied(t, Size)
  /\ ThreadStep(t, "count", "take")
  /\ UNCHANGED <<main, args, created, mutex, buffer, i, item>>

\* An empty buffer sends the consumer to sem_post, another to pop.
CountedConsumer(t) ==
  /\ ~ IsProducer(t) /\ ~ Occupied(t, Size)
  /\ ThreadStep(t, "count", IF i[t] = 0 THEN "post" ELSE "take")
  /\ UNCHANGED <<main, args, created, mutex, buffer, i, item>>

\* enqueue looks for the first free element, or settles for the last one.
Walk(t) ==
  /\ \/ /\ Occupied(t, Last) /\ ThreadStep(t, "walk", "walk")
        /\ i' = [i EXCEPT ![t] = @ + 1]
     \/ /\ ~ Occupied(t, Last) /\ ThreadStep(t, "walk", "store")
        /\ UNCHANGED i
  /\ UNCHANGED <<main, args, created, mutex, buffer, item>>

\* push makes room at the front, from the back.
ShiftRight(t) ==
  /\ \/ /\ i[t] > 0 /\ ThreadStep(t, "shift_right", "shift_right")
        /\ buffer' = [buffer EXCEPT ![i[t]] = buffer[i[t] - 1]]
        /\ i' = [i EXCEPT ![t] = @ - 1]
     \/ /\ i[t] = 0 /\ ThreadStep(t, "shift_right", "store")
        /\ UNCHANGED <<buffer, i>>
  /\ UNCHANGED <<main, args, created, mutex, item>>

\* The last statement of enqueue and of push.
Store(t) ==
  /\ ThreadStep(t, "store", "print")
  /\ buffer' = [buffer EXCEPT ![i[t]] = item[t]]
  /\ UNCHANGED <<main, args, created, mutex, i, item>>

\* pop, which dequeue calls, saves the first element ...
TakeFirst(t) ==
  /\ ThreadStep(t, "take", "shift_left")
  /\ item' = [item EXCEPT ![t] = buffer[0]]
  /\ i' = [i EXCEPT ![t] = 0]
  /\ UNCHANGED <<main, args, created, mutex, buffer>>

\* Mutant: the last element but one is marked empty.
ShiftLeftLastButOne(t) ==
  /\ \/ /\ i[t] < Last /\ ThreadStep(t, "shift_left", "shift_left")
        /\ buffer' = [buffer EXCEPT ![i[t]] = buffer[i[t] + 1]]
        /\ i' = [i EXCEPT ![t] = @ + 1]
     \/ /\ i[t] >= Last /\ ThreadStep(t, "shift_left", "print")
        /\ buffer' = [buffer EXCEPT ![Last - 1] = EMPTY]
        /\ UNCHANGED i
  /\ UNCHANGED <<main, args, created, mutex, item>>

\* ... closes the gap, and marks the last element empty.
ShiftLeft(t) ==
  /\ \/ /\ i[t] < Last /\ ThreadStep(t, "shift_left", "shift_left")
        /\ buffer' = [buffer EXCEPT ![i[t]] = buffer[i[t] + 1]]
        /\ i' = [i EXCEPT ![t] = @ + 1]
     \/ /\ i[t] >= Last /\ ThreadStep(t, "shift_left", "print")
        /\ buffer' = [buffer EXCEPT ![Last] = EMPTY]
        /\ UNCHANGED i
  /\ UNCHANGED <<main, args, created, mutex, item>>

\* printBuffer reads the array.
PrintBuffer(t) ==
  /\ ThreadStep(t, "print", "post")
  /\ UNCHANGED <<main, args, created, mutex, buffer, i, item>>

\* Mutant: only a thread that changed the buffer posts.
SemPostIfPrinted(t) ==
  /\ ThreadStep(t, "post", "sleep")
  /\ mutex' = IF IsProducer(t) \/ item[t] # EMPTY THEN mutex + 1 ELSE mutex
  /\ i' = [i EXCEPT ![t] = 0]
  /\ item' = [item EXCEPT ![t] = EMPTY]
  /\ UNCHANGED <<main, args, created, buffer>>

\* i and randInt are dead from here to the next turn.
SemPost(t) ==
  /\ ThreadStep(t, "post", "sleep")
  /\ mutex' = mutex + 1
  /\ i' = [i EXCEPT ![t] = 0]
  /\ item' = [item EXCEPT ![t] = EMPTY]
  /\ UNCHANGED <<main, args, created, buffer>>

-----------------------------------------------------------------------------
Start == CheckArguments \/ InitializeBuffer \/ CreateThread \/ MallocFails
Finish == SemDestroy \/ Return \/ Exit

Thread(t) ==
  \/ CheckIn(t) \/ Nanosleep(t) \/ SemWait(t)
  \/ CountItem(t) \/ CountedProducer(t) \/ CountedConsumer(t)
  \/ Walk(t) \/ ShiftRight(t) \/ Store(t)
  \/ TakeFirst(t) \/ ShiftLeft(t)
  \/ PrintBuffer(t) \/ SemPost(t)

Terminated == main = "exited" /\ UNCHANGED vars

Next == Start \/ Finish \/ (\E t \in Threads : Thread(t)) \/ Terminated

Spec == Init /\ [][Next]_vars

\* Every thread runs.  The end of the 300 seconds is left open, so that what
\* is said to happen eventually happens while the simulation runs.  sem_wait
\* does not serve its callers in order: weak fairness only.
Fairness == WF_vars(Start) /\ \A t \in Threads : WF_vars(Thread(t))

FairSpec == Spec /\ Fairness

-----------------------------------------------------------------------------
(* Correctness.                                                            *)

TypeOK ==
  /\ main \in MainStates
  /\ numProducers \in Int /\ numConsumers \in Int /\ bufferMode \in Int
  /\ created \in 0 .. 2 * MaxThreads
  /\ mutex \in {0, 1}
  /\ buffer \in Arrays
  /\ pc \in [Threads -> ThreadStates]
  /\ i \in [Threads -> 0 .. Size]
  /\ item \in [Threads -> Items \cup {EMPTY}]

InCritical(t) == pc[t] \in Critical

\* At most one thread is between sem_wait and sem_post, and the semaphore says
\* whether there is one, even after main has destroyed it.
MutualExclusion ==
  /\ \A s, t \in Threads : InCritical(s) /\ InCritical(t) => s = t
  /\ mutex = 0 <=> \E t \in Threads : InCritical(t)

\* The array is the one main initialised, and it still exists.
BufferLives == main \in {"create", "sleep", "return"}

\* While a thread shifts the array there is a hole: the element at i[t], which
\* it is about to overwrite.
Shifting(t) == \/ pc[t] \in {"shift_right", "shift_left"}
               \/ pc[t] = "store" /\ bufferMode = FILO

\* The array with the hole closed: what it is before and after the shift.
View ==
  [k \in 0 .. Last |->
     IF \A t \in Threads : Shifting(t) => k < i[t] THEN buffer[k]
     ELSE IF k < Last THEN buffer[k + 1] ELSE EMPTY]

\* n elements in use, followed by free ones only.
Filled(a, n) == \A k \in 0 .. Last : a[k] # EMPTY <=> k < n

\* There are no gaps, so that countItems and enqueue may stop at the first free
\* element; half-way through a shift there is one hole.
HasNoGaps(a) == \E n \in 0 .. Size : Filled(a, n)
NoGaps == BufferLives => HasNoGaps(View)

\* buffer.c:55-57, 111-113: the warnings of push and enqueue about an overflow
\* are never printed, because countItems was called in the same critical
\* section and nobody has added an item since.
NeverOverflows ==
  BufferLives => \A t \in Threads :
    /\ pc[t] = "store" /\ bufferMode = FIFO => buffer[i[t]] = EMPTY
    /\ pc[t] = "shift_right" /\ i[t] = Last => buffer[Last] = EMPTY

\* p3.c:161, 212: a thread prints the buffer only if it changed it, and prints
\* the state its own change left: a new item is at the end its mode says.
ReportsOwnChange ==
  BufferLives => \A t \in Threads : pc[t] = "print" =>
    /\ item[t] # EMPTY
    /\ IsProducer(t) => buffer[i[t]] = item[t]
    /\ IsProducer(t) /\ bufferMode = FILO => i[t] = 0
    /\ IsProducer(t) /\ bufferMode = FIFO /\ i[t] < Last =>
         buffer[i[t] + 1] = EMPTY

\* Whoever gets the semaphore gives it back, with or without having changed
\* the buffer, as long as the process lives.
SemaphoreReleased == mutex = 0 ~> (mutex = 1 \/ main = "exited")

\* README:11-12, 19-20: the simulator implements BoundedBuffer.  A producer's
\* item is in the buffer once the last statement of enqueue or push is done, a
\* consumer's is out of it once pop has saved it.
ContentsOf(a) ==
  LET n == CHOOSE m \in 0 .. Size : Filled(a, m)
  IN [k \in 1 .. n |-> a[k - 1]]

Contents == LET a == View IN ContentsOf(a)

Held(t) == IF IsProducer(t) /\ pc[t] \in {"print", "post"} /\ i[t] # Size
             THEN EMPTY ELSE item[t]

Seen == IF BufferLives THEN Contents ELSE <<>>
Hands == [t \in Threads |-> IF BufferLives THEN Held(t) ELSE EMPTY]
Adders == {t \in Threads : IsProducer(t)}

B == INSTANCE BoundedBuffer WITH
  Capacity <- Size,
  open <- BufferLives,
  fifo <- bufferMode = FIFO,
  producers <- Adders,
  contents <- Seen,
  hand <- Hands

ImplementsBoundedBuffer == B!Spec

=============================================================================
