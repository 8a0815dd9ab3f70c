------------------------ MODULE ProducerConsumerProofs ------------------------
(***************************************************************************)
(* Proofs about ProducerConsumer, for every array size, every number of     *)
(* threads and either mode.  The inductive invariant joins mutual exclusion *)
(* with what is known at each line of the critical section about the array  *)
(* and the loop variable; only one thread is ever in that section, so each  *)
(* step has to re-establish it for that thread alone.                       *)
(***************************************************************************)
EXTENDS ProducerConsumer, SequenceTheorems, TLAPS

\* The threads that exist, and what main has checked before it creates them.
Creation ==
  /\ main \in {"args", "initialize"} => created = 0
  /\ main \in {"args", "initialize", "create"} =>
       \A t \in Threads : t >= created => pc[t] = "none"
  /\ main \in {"initialize", "create", "sleep", "return"} => Valid
  /\ main = "create" => created < numProducers + numConsumers

\* The loops stay inside the array, whatever it holds.
Bounds ==
  \A t \in Threads :
    pc[t] \in {"walk", "shift_right", "store", "shift_left"} => i[t] <= Last

\* What thread t knows of the array at each line of the critical section.
Section(t) ==
  /\ pc[t] \in {"walk", "shift_right", "store"} => IsProducer(t)
  /\ pc[t] \in {"take", "shift_left"} => ~ IsProducer(t)
  /\ pc[t] \in {"shift_right", "store", "walk"} => item[t] \in Items
  /\ pc[t] = "walk" => bufferMode = FIFO
  /\ pc[t] = "shift_right" => bufferMode = FILO
  /\ pc[t] \in {"count", "walk"} =>
       \A k \in 0 .. Last : k < i[t] => buffer[k] # EMPTY
  /\ pc[t] = "count" => IF IsProducer(t) THEN item[t] \in Items
                                         ELSE item[t] = EMPTY
  /\ pc[t] = "walk" => buffer[Last] = EMPTY
  /\ pc[t] = "store" /\ bufferMode = FIFO => Filled(buffer, i[t])
  /\ pc[t] = "store" /\ bufferMode # FIFO => bufferMode = FILO /\ i[t] = 0
  /\ pc[t] = "shift_right" /\ i[t] = Last => buffer[Last] = EMPTY
  /\ pc[t] = "take" => buffer[0] # EMPTY /\ item[t] = EMPTY
  /\ pc[t] \in {"shift_left", "print"} => item[t] \in Items
  /\ pc[t] = "post" /\ IsProducer(t) /\ i[t] = Size =>
       Filled(buffer, Size) /\ item[t] \in Items
  /\ pc[t] = "post" /\ ~ IsProducer(t) => item[t] \in Items \cup {EMPTY}
  /\ pc[t] = "print" /\ IsProducer(t) =>
       /\ i[t] <= Last
       /\ buffer[i[t]] = item[t]
       /\ bufferMode = FILO => i[t] = 0
       /\ bufferMode = FIFO /\ i[t] < Last => buffer[i[t] + 1] = EMPTY
  /\ ~ InCritical(t) => item[t] = EMPTY

Sections == BufferLives => \A t \in Threads : Section(t)

\* Before main creates threads nobody holds an item.
Untouched ==
  main \in {"args", "initialize"} => \A t \in Threads : item[t] = EMPTY

IInv ==
  TypeOK /\ Creation /\ MutualExclusion /\ Bounds
    /\ Untouched /\ Sections /\ NoGaps

-----------------------------------------------------------------------------
(* The array.                                                              *)

\* The number of elements in use is unique: ContentsOf may choose it.
LEMMA FilledUnique ==
  ASSUME NEW a, NEW m \in 0 .. Size, NEW n \in 0 .. Size,
         Filled(a, m), Filled(a, n)
  PROVE  m = n
BY ProducerConsumerAssumption DEF Filled, Last

\* What the buffer of an array with n elements in use contains.
LEMMA ContentsFilled ==
  ASSUME NEW a, NEW n \in 0 .. Size, Filled(a, n)
  PROVE  ContentsOf(a) = [k \in 1 .. n |-> a[k - 1]]
<1> DEFINE c == CHOOSE m \in 0 .. Size : Filled(a, m)
<1>1. c \in 0 .. Size /\ Filled(a, c)
  OBVIOUS
<1>2. c = n
  BY <1>1, FilledUnique
<1> QED
  BY <1>2 DEF ContentsOf

-----------------------------------------------------------------------------
(* The inductive invariant.                                                *)

\* It holds when the program starts: nothing but main runs.
LEMMA InitIInv == Init => IInv
<1> SUFFICES ASSUME Init PROVE IInv
  OBVIOUS
<1> USE DEF Init
<1>1. TypeOK
  BY ProducerConsumerAssumption
    DEF TypeOK, MainStates, ThreadStates, Threads, EMPTY
<1>2. \A t \in Threads : ~ InCritical(t)
  BY DEF InCritical, Critical
<1>3. MutualExclusion
  BY <1>2 DEF MutualExclusion
<1>4. Creation
  BY DEF Creation, Valid
<1>5. Bounds
  BY DEF Bounds
<1>6. Untouched /\ Sections /\ NoGaps
  BY DEF Untouched, Sections, NoGaps, BufferLives
<1> QED
  BY <1>1, <1>3, <1>4, <1>5, <1>6 DEF IInv

\* A step of a thread is one of the thread's own: main and the other threads
\* stay where they are.
LEMMA ThreadFrame ==
  ASSUME TypeOK, NEW t \in Threads, Thread(t)
  PROVE  /\ main # "exited" /\ pc[t] # "none"
         /\ UNCHANGED <<main, args, created>>
         /\ pc' \in [Threads -> ThreadStates]
         /\ i' \in [Threads -> 0 .. Size]
         /\ \A s \in Threads \ {t} :
              pc'[s] = pc[s] /\ i'[s] = i[s] /\ item'[s] = item[s]
<1> USE ProducerConsumerAssumption
    DEF ThreadStep, Last, TypeOK, ThreadStates, Critical, Occupied
<1>1. CASE CheckIn(t) \/ Nanosleep(t)
  BY <1>1 DEF CheckIn, Nanosleep
<1>2. CASE SemWait(t)
  BY <1>2 DEF SemWait
<1>3. CASE CountItem(t)
  BY <1>3 DEF CountItem
<1>4. CASE CountedProducer(t)
  BY <1>4 DEF CountedProducer
<1>5. CASE CountedConsumer(t) \/ PrintBuffer(t)
  BY <1>5 DEF CountedConsumer, PrintBuffer
<1>6. CASE Walk(t)
  BY <1>6 DEF Walk
<1>7. CASE ShiftRight(t)
  BY <1>7 DEF ShiftRight
<1>8. CASE Store(t)
  BY <1>8 DEF Store
<1>9. CASE TakeFirst(t)
  BY <1>9 DEF TakeFirst
<1>10. CASE ShiftLeft(t)
  BY <1>10 DEF ShiftLeft
<1>11. CASE SemPost(t)
  BY <1>11 DEF SemPost
<1> QED
  BY <1>1, <1>2, <1>3, <1>4, <1>5, <1>6, <1>7, <1>8, <1>9, <1>10, <1>11
    DEF Thread

\* The semaphore admits one thread: a thread that is in the critical section,
\* or enters or leaves it, is alone there.
LEMMA ThreadMutex ==
  ASSUME TypeOK, MutualExclusion, NEW t \in Threads, Thread(t)
  PROVE  /\ MutualExclusion'
         /\ mutex' \in {0, 1}
         /\ InCritical(t) \/ InCritical(t)' =>
              \A s \in Threads \ {t} : ~ InCritical(s) /\ ~ InCritical(s)'
<1> USE DEF InCritical
<1>0. \A s \in Threads \ {t} : InCritical(s)' <=> InCritical(s)
  BY ThreadFrame
<1>1. CASE SemWait(t)
  <2>1. mutex = 1 /\ mutex' = 0 /\ InCritical(t)'
    BY <1>1 DEF SemWait, ThreadStep, TypeOK, Critical
  <2>2. \A s \in Threads : ~ InCritical(s)
    BY <2>1 DEF MutualExclusion
  <2> QED
    BY <1>0, <2>1, <2>2 DEF MutualExclusion
<1>2. CASE SemPost(t)
  <2>1. InCritical(t) /\ ~ InCritical(t)' /\ mutex' = mutex + 1
    BY <1>2 DEF SemPost, ThreadStep, TypeOK, Critical
  <2>2. mutex = 0 /\ \A s \in Threads \ {t} : ~ InCritical(s)
    BY <2>1 DEF MutualExclusion
  <2>3. \A s \in Threads : ~ InCritical(s)'
    BY <1>0, <2>1, <2>2
  <2> QED
    BY <2>1, <2>2, <2>3 DEF MutualExclusion
<1>3. CASE ~ SemWait(t) /\ ~ SemPost(t)
  <2>1. mutex' = mutex /\ (InCritical(t)' <=> InCritical(t))
    <3> USE DEF ThreadStep, TypeOK, Critical
    <3>1. CASE CheckIn(t) \/ Nanosleep(t) \/ CountItem(t) \/ PrintBuffer(t)
      BY <3>1 DEF CheckIn, Nanosleep, CountItem, PrintBuffer
    <3>2. CASE CountedProducer(t) \/ CountedConsumer(t)
      BY <3>2 DEF CountedProducer, CountedConsumer
    <3>3. CASE Walk(t) \/ ShiftRight(t) \/ Store(t)
      BY <3>3 DEF Walk, ShiftRight, Store
    <3>4. CASE TakeFirst(t) \/ ShiftLeft(t)
      BY <3>4 DEF TakeFirst, ShiftLeft
    <3> QED
      BY <1>3, <3>1, <3>2, <3>3, <3>4 DEF Thread
  <2>2. \A s \in Threads : InCritical(s)' <=> InCritical(s)
    BY <1>0, <2>1
  <2> QED
    BY <2>1, <2>2 DEF MutualExclusion, TypeOK
<1> QED
  BY <1>1, <1>2, <1>3

\* A thread keeps to the types and to the array.
LEMMA ThreadTypes ==
  ASSUME TypeOK, Creation, MutualExclusion, Bounds,
         NEW t \in Threads, Thread(t)
  PROVE  TypeOK' /\ Creation' /\ Bounds'
<1> USE ProducerConsumerAssumption DEF Last
<1>1. Creation'
  <2>1. \A s \in Threads : pc[s] = "none" => pc'[s] = "none"
    BY ThreadFrame
  <2> QED
    BY <2>1, ThreadFrame DEF Creation, Valid, args
<1>2. buffer' \in Arrays /\ item' \in [Threads -> Items \cup {EMPTY}]
  <2> USE DEF TypeOK, Arrays, Bounds, ThreadStep
  <2>1. CASE SemWait(t)
    BY <2>1 DEF SemWait
  <2>2. CASE ShiftRight(t)
    BY <2>2 DEF ShiftRight
  <2>3. CASE Store(t)
    BY <2>3 DEF Store
  <2>4. CASE TakeFirst(t)
    BY <2>4 DEF TakeFirst
  <2>5. CASE ShiftLeft(t)
    BY <2>5 DEF ShiftLeft
  <2>6. CASE SemPost(t)
    BY <2>6 DEF SemPost
  <2>7. CASE UNCHANGED <<buffer, item>>
    BY <2>7
  <2> QED
    BY <2>1, <2>2, <2>3, <2>4, <2>5, <2>6, <2>7
      DEF Thread, CheckIn, Nanosleep, CountItem, CountedProducer,
          CountedConsumer, Walk, PrintBuffer
<1>3. Bounds'
  <2>1. pc'[t] \in {"walk", "shift_right", "store", "shift_left"}
          => i'[t] <= Last
    <3> USE DEF TypeOK, Bounds, ThreadStep, Occupied
    <3>1. CASE CheckIn(t) \/ Nanosleep(t) \/ CountItem(t) \/ PrintBuffer(t)
      BY <3>1 DEF CheckIn, Nanosleep, CountItem, PrintBuffer
    <3>2. CASE CountedProducer(t) \/ CountedConsumer(t)
      BY <3>2 DEF CountedProducer, CountedConsumer
    <3>3. CASE Walk(t) \/ ShiftRight(t) \/ Store(t)
      BY <3>3 DEF Walk, ShiftRight, Store
    <3>4. CASE TakeFirst(t) \/ ShiftLeft(t)
      BY <3>4 DEF TakeFirst, ShiftLeft
    <3>5. CASE SemWait(t) \/ SemPost(t)
      BY <3>5 DEF SemWait, SemPost
    <3> QED
      BY <3>1, <3>2, <3>3, <3>4, <3>5 DEF Thread
  <2> QED
    BY <2>1, ThreadFrame DEF Bounds
<1>4. TypeOK'
  BY <1>2, ThreadFrame, ThreadMutex DEF TypeOK, args
<1> QED
  BY <1>1, <1>3, <1>4

-----------------------------------------------------------------------------
(* What the critical section does to the array.                            *)

\* The array with the hole closed that a thread at p with loop variable h has
\* made.
Closed(b, p, h) ==
  [k \in 0 .. Last |->
     IF (\/ p \in {"shift_right", "shift_left"}
         \/ p = "store" /\ bufferMode = FILO) => k < h
       THEN b[k] ELSE IF k < Last THEN b[k + 1] ELSE EMPTY]

\* While t is alone in the critical section the hole is the one of t.
LEMMA ViewAlone ==
  ASSUME NEW t \in Threads, \A s \in Threads \ {t} : ~ InCritical(s)
  PROVE  View = Closed(buffer, pc[t], i[t])
<1>1. \A s \in Threads \ {t} : ~ Shifting(s)
  BY DEF Shifting, InCritical, Critical
<1>2. (\A s \in Threads : Shifting(s) => FALSE) <=> ~ Shifting(t)
  BY <1>1
<1>3. ASSUME NEW k \in 0 .. Last
      PROVE  (\A s \in Threads : Shifting(s) => k < i[s])
               <=> (Shifting(t) => k < i[t])
  BY <1>1
<1> QED
  BY <1>3 DEF View, Closed, Shifting

\* The same after a step of t.
LEMMA ViewAloneNext ==
  ASSUME NEW t \in Threads, \A s \in Threads \ {t} : ~ InCritical(s)',
         bufferMode' = bufferMode
  PROVE  View' = Closed(buffer', pc'[t], i'[t])
<1> DEFINE Sh(s) == \/ pc'[s] \in {"shift_right", "shift_left"}
                    \/ pc'[s] = "store" /\ bufferMode = FILO
<1>1. \A s \in Threads \ {t} : ~ Sh(s)
  BY DEF InCritical, Critical
<1>3. ASSUME NEW k \in 0 .. Last
      PROVE  (\A s \in Threads : Sh(s) => k < i'[s])
               <=> (Sh(t) => k < i'[t])
  BY <1>1
<1>4. View' = [k \in 0 .. Last |->
                 IF \A s \in Threads : Sh(s) => k < i'[s] THEN buffer'[k]
                 ELSE IF k < Last THEN buffer'[k + 1] ELSE EMPTY]
  BY DEF View, Shifting, Last
<1> QED
  BY <1>3, <1>4 DEF Closed

\* Only the last statement of enqueue and push, and the first of pop, change
\* what the array contains: shifting moves the hole and nothing else.
LEMMA ViewKept ==
  ASSUME IInv, BufferLives, NEW t \in Threads, Thread(t),
         ~ Store(t), ~ TakeFirst(t)
  PROVE  View' = View
<1> USE ProducerConsumerAssumption
    DEF IInv, TypeOK, Arrays, Last, ThreadStep, Occupied
<1>0. bufferMode' = bufferMode /\ bufferMode \in {FIFO, FILO} /\ Section(t)
  BY ThreadFrame DEF args, Creation, BufferLives, Valid, Sections
<1>1. CASE CheckIn(t) \/ Nanosleep(t)
  <2>1. UNCHANGED <<buffer, i>>
        /\ pc[t] \in {"check_in", "sleep"} /\ pc'[t] \in {"sleep", "wait"}
    BY <1>1 DEF CheckIn, Nanosleep
  <2>2. \A s \in Threads : Shifting(s)' <=> Shifting(s)
    BY <1>0, <2>1, ThreadFrame DEF Shifting
  <2> QED
    BY <2>1, <2>2 DEF View
<1>2. CASE ~ CheckIn(t) /\ ~ Nanosleep(t)
  <2>0. InCritical(t) \/ InCritical(t)'
    BY <1>2 DEF Thread, SemWait, CountItem, CountedProducer, CountedConsumer,
                Walk, ShiftRight, Store, TakeFirst, ShiftLeft, PrintBuffer,
                SemPost, InCritical, Critical
  <2>1. /\ View = Closed(buffer, pc[t], i[t])
        /\ View' = Closed(buffer', pc'[t], i'[t])
    BY <1>0, <2>0, ThreadMutex, ViewAlone, ViewAloneNext
  <2> USE DEF Closed
  <2>2. CASE SemWait(t) \/ SemPost(t) \/ CountItem(t) \/ PrintBuffer(t)
    BY <2>1, <2>2 DEF SemWait, SemPost, CountItem, PrintBuffer
  <2>3. CASE CountedProducer(t)
    <3>1. pc[t] = "count" /\ buffer' = buffer
          /\ pc'[t] \in {"post", "walk", "shift_right"}
      BY <2>3 DEF CountedProducer
    <3>2. PICK n \in 0 .. Size : Filled(buffer, n)
      BY <2>1, <3>1 DEF NoGaps, HasNoGaps, Filled
    <3>3. pc'[t] = "shift_right" => i'[t] = Last /\ buffer[Last] = EMPTY
      BY <2>3, <3>1, <3>2 DEF CountedProducer, Filled
    <3> QED
      BY <2>1, <3>1, <3>3
  <2>4. CASE CountedConsumer(t)
    BY <2>1, <2>4 DEF CountedConsumer
  <2>5. CASE Walk(t)
    BY <1>0, <2>1, <2>5 DEF Walk, Section, FIFO, FILO
  <2>6. CASE ShiftRight(t)
    <3>1. pc[t] = "shift_right" /\ bufferMode = FILO /\ i[t] \in 0 .. Last
      BY <1>0, <2>6 DEF ShiftRight, Section, Bounds
    <3>2. CASE i[t] = 0
      BY <2>1, <2>6, <3>1, <3>2 DEF ShiftRight
    <3>3. CASE i[t] > 0
      <4>1. pc'[t] = "shift_right" /\ i'[t] = i[t] - 1
            /\ buffer' = [buffer EXCEPT ![i[t]] = buffer[i[t] - 1]]
        BY <2>6, <3>1, <3>3 DEF ShiftRight
      <4>2. ASSUME NEW k \in 0 .. Last
            PROVE  Closed(buffer', pc'[t], i'[t])[k]
                     = Closed(buffer, pc[t], i[t])[k]
        BY <3>1, <4>1
      <4> QED
        BY <2>1, <4>2
    <3> QED
      BY <3>1, <3>2, <3>3
  <2>7. CASE ShiftLeft(t)
    BY <1>0, <2>1, <2>7 DEF ShiftLeft, Section, Bounds
  <2> QED
    BY <1>2, <2>2, <2>3, <2>4, <2>5, <2>6, <2>7 DEF Thread
<1> QED
  BY <1>1, <1>2

\* The last statement of enqueue and push adds the thread's item, at the back
\* or at the front.
LEMMA ViewStored ==
  ASSUME IInv, BufferLives, NEW t \in Threads, Store(t)
  PROVE  /\ item[t] \in Items
         /\ \E n \in 0 .. Last :
              /\ Filled(View, n) /\ Filled(View', n + 1)
              /\ bufferMode = FIFO =>
                   /\ View'[n] = item[t]
                   /\ \A k \in 0 .. Last : k < n => View'[k] = View[k]
              /\ bufferMode # FIFO =>
                   /\ View'[0] = item[t]
                   /\ \A k \in 0 .. Last : k > 0 => View'[k] = View[k - 1]
<1> USE ProducerConsumerAssumption
    DEF IInv, TypeOK, Arrays, Last, ThreadStep
<1>0. Thread(t)
  BY DEF Thread
<1>1. /\ bufferMode' = bufferMode /\ Section(t)
      /\ pc[t] = "store" /\ pc'[t] = "print" /\ i'[t] = i[t]
      /\ i[t] \in 0 .. Last
      /\ buffer' = [buffer EXCEPT ![i[t]] = item[t]]
  BY <1>0, ThreadFrame DEF args, Sections, Store, Bounds
<1>2. item[t] \in Items /\ item[t] # EMPTY
  BY <1>1 DEF Section, EMPTY
<1>3. /\ View = Closed(buffer, "store", i[t])
      /\ View' = Closed(buffer', "print", i[t])
  BY <1>0, <1>1, ThreadMutex, ViewAlone, ViewAloneNext DEF InCritical, Critical
<1>4. CASE bufferMode = FIFO
  <2>0. bufferMode # FILO
    BY <1>4 DEF FIFO, FILO
  <2>1. /\ View = [k \in 0 .. Last |-> buffer[k]]
        /\ View' = [k \in 0 .. Last |-> buffer'[k]]
    BY <1>3, <2>0 DEF Closed
  <2>2. Filled(buffer, i[t])
    BY <1>1, <1>4 DEF Section
  <2>3. Filled(View, i[t]) /\ Filled(View', i[t] + 1)
    BY <1>1, <1>2, <2>1, <2>2 DEF Filled
  <2>4. /\ View'[i[t]] = item[t]
        /\ \A k \in 0 .. Last : k < i[t] => View'[k] = View[k]
    BY <1>1, <2>1
  <2> DEFINE n == i[t]
  <2>5. n \in 0 .. Last /\ Filled(View, n) /\ Filled(View', n + 1)
        /\ View'[n] = item[t]
        /\ \A k \in 0 .. Last : k < n => View'[k] = View[k]
    BY <1>1, <2>3, <2>4
  <2> HIDE DEF n
  <2> QED
    BY <1>2, <1>4, <2>5
<1>5. CASE bufferMode # FIFO
  <2>1. bufferMode = FILO /\ i[t] = 0
    BY <1>1, <1>5 DEF Section
  <2>2. /\ View'[0] = item[t]
        /\ \A k \in 0 .. Last : k > 0 => View'[k] = View[k - 1]
        /\ View[Last] = EMPTY
    BY <1>1, <1>3, <2>1 DEF Closed
  <2>3. PICK n \in 0 .. Size : Filled(View, n)
    BY DEF NoGaps, HasNoGaps
  <2>4. n \in 0 .. Last
    BY <2>2, <2>3 DEF Filled
  <2>5. Filled(View', n + 1)
    BY <1>2, <2>2, <2>3, <2>4 DEF Filled
  <2> QED
    BY <1>2, <1>5, <2>2, <2>3, <2>4, <2>5
<1> QED
  BY <1>4, <1>5

\* The first statement of pop takes the item at the front.
LEMMA ViewTaken ==
  ASSUME IInv, BufferLives, NEW t \in Threads, TakeFirst(t)
  PROVE  /\ item'[t] \in Items
         /\ item' = [item EXCEPT ![t] = View[0]]
         /\ \E n \in 0 .. Last :
              /\ Filled(View, n + 1) /\ Filled(View', n)
              /\ \A k \in 0 .. Last : k < Last => View'[k] = View[k + 1]
<1> USE ProducerConsumerAssumption
    DEF IInv, TypeOK, Arrays, Last, ThreadStep
<1>0. Thread(t)
  BY DEF Thread
<1>1. /\ bufferMode' = bufferMode /\ Section(t) /\ UNCHANGED buffer
      /\ pc[t] = "take" /\ pc'[t] = "shift_left" /\ i'[t] = 0
      /\ item' = [item EXCEPT ![t] = buffer[0]]
  BY <1>0, ThreadFrame DEF args, Sections, TakeFirst
<1>2. /\ View = Closed(buffer, "take", i[t])
      /\ View' = Closed(buffer, "shift_left", 0)
  BY <1>0, <1>1, ThreadMutex, ViewAlone, ViewAloneNext DEF InCritical, Critical
<1>3. View = buffer
  BY <1>2 DEF Closed
<1>4. /\ \A k \in 0 .. Last : k < Last => View'[k] = View[k + 1]
      /\ View'[Last] = EMPTY
  BY <1>2, <1>3 DEF Closed
<1>5. buffer[0] # EMPTY /\ item'[t] \in Items
  BY <1>1 DEF Section
<1>6. PICK m \in 0 .. Size : Filled(View, m)
  BY DEF NoGaps, HasNoGaps
<1>7. m > 0
  BY <1>3, <1>5, <1>6 DEF Filled
<1>8. Filled(View', m - 1)
  BY <1>4, <1>6, <1>7 DEF Filled
<1> DEFINE n == m - 1
<1>9. n \in 0 .. Last /\ n + 1 = m
  BY <1>6, <1>7
<1>10. /\ Filled(View, n + 1) /\ Filled(View', n)
       /\ \A k \in 0 .. Last : k < Last => View'[k] = View[k + 1]
  BY <1>4, <1>6, <1>8, <1>9
<1> HIDE DEF n
<1> QED
  BY <1>1, <1>3, <1>5, <1>9, <1>10

\* So no thread leaves a gap.
LEMMA ThreadNoGaps ==
  ASSUME IInv, NEW t \in Threads, Thread(t)
  PROVE  NoGaps'
<1> SUFFICES ASSUME BufferLives' PROVE HasNoGaps(View')
  BY DEF NoGaps
<1>1. BufferLives
  BY ThreadFrame DEF IInv, BufferLives
<1>2. HasNoGaps(View)
  BY <1>1 DEF IInv, NoGaps
<1>3. CASE Store(t)
  BY <1>1, <1>3, ViewStored, ProducerConsumerAssumption DEF HasNoGaps, Last
<1>4. CASE TakeFirst(t)
  BY <1>1, <1>4, ViewTaken, ProducerConsumerAssumption DEF HasNoGaps, Last
<1>5. CASE ~ Store(t) /\ ~ TakeFirst(t)
  BY <1>1, <1>2, <1>5, ViewKept
<1> QED
  BY <1>3, <1>4, <1>5

\* Between shifts the array itself has no gaps.
LEMMA BufferNoGaps ==
  ASSUME IInv, BufferLives, NEW t \in Threads,
         pc[t] \in {"count", "walk"}
  PROVE  \E n \in 0 .. Size : Filled(buffer, n)
<1>1. \A s \in Threads \ {t} : ~ InCritical(s)
  BY DEF IInv, MutualExclusion, InCritical, Critical
<1>2. View = Closed(buffer, pc[t], i[t])
  BY <1>1, ViewAlone
<1>3. PICK n \in 0 .. Size : Filled(View, n)
  BY DEF IInv, NoGaps, HasNoGaps
<1> QED
  BY <1>2, <1>3 DEF Closed, Filled

\* What the thread in the critical section knows stays true: nobody else can
\* have touched the array.
LEMMA ThreadSections ==
  ASSUME IInv, NEW t \in Threads, Thread(t)
  PROVE  Sections'
<1> USE ProducerConsumerAssumption DEF EMPTY
<1> SUFFICES ASSUME BufferLives', NEW s \in Threads PROVE Section(s)'
  BY DEF Sections
<1>0. /\ BufferLives /\ UNCHANGED <<main, args>>
      /\ \A r \in Threads : Section(r)
      /\ TypeOK /\ Bounds /\ bufferMode \in {FIFO, FILO}
  BY ThreadFrame
    DEF IInv, BufferLives, Sections, Creation, Valid, args
<1>1. CASE s # t
  <2>1. /\ pc'[s] = pc[s] /\ i'[s] = i[s] /\ item'[s] = item[s]
        /\ numProducers' = numProducers /\ bufferMode' = bufferMode
    BY <1>1, ThreadFrame DEF IInv, args
  <2>2. CASE UNCHANGED buffer
    BY <1>0, <2>1, <2>2 DEF Section, Filled, IsProducer, InCritical
  <2>3. CASE ~ UNCHANGED buffer
    <3>1. InCritical(t)
      BY <2>3 DEF Thread, CheckIn, Nanosleep, SemWait, CountItem,
                  CountedProducer, CountedConsumer, Walk, ShiftRight, Store,
                  TakeFirst, ShiftLeft, PrintBuffer, SemPost, ThreadStep,
                  InCritical, Critical
    <3>2. ~ InCritical(s)
      BY <1>1, <3>1 DEF IInv, MutualExclusion
    <3> QED
      BY <1>0, <2>1, <3>2 DEF Section, InCritical, Critical
  <2> QED
    BY <2>2, <2>3
<1>2. CASE s = t
  <2> USE <1>0, <1>2
      DEF Section, ThreadStep, TypeOK, Arrays, Occupied, Last, IsProducer,
          InCritical, Critical, args, Filled, FIFO, FILO
  <2>1. CASE CheckIn(t) \/ Nanosleep(t)
    BY <2>1 DEF CheckIn, Nanosleep
  <2>2. CASE SemWait(t)
    BY <2>2 DEF SemWait
  <2>3. CASE CountItem(t)
    BY <2>3 DEF CountItem
  <2>4. CASE CountedProducer(t)
    <3>1. pc[t] = "count" /\ buffer' = buffer
      BY <2>4 DEF CountedProducer
    <3>2. PICK n \in 0 .. Size : Filled(buffer, n)
      BY <3>1, BufferNoGaps
    <3>3. i[t] = n
      BY <2>4, <3>1, <3>2 DEF CountedProducer
    <3>4. n # Size => buffer[Last] = EMPTY
      BY <3>2
    <3>5. CASE n = Size
      BY <2>4, <3>1, <3>2, <3>3, <3>5 DEF CountedProducer
    <3>6. CASE n # Size
      BY <2>4, <3>1, <3>3, <3>4, <3>6 DEF CountedProducer
    <3> QED
      BY <3>5, <3>6
  <2>5. CASE CountedConsumer(t)
    BY <2>5 DEF CountedConsumer
  <2>6. CASE Walk(t)
    <3>1. pc[t] = "walk" /\ buffer' = buffer /\ item' = item
      BY <2>6 DEF Walk
    <3>2. PICK n \in 0 .. Size : Filled(buffer, n)
      BY <3>1, BufferNoGaps
    <3>3. CASE pc'[t] = "walk"
      BY <2>6, <3>1, <3>3 DEF Walk, Bounds
    <3>4. CASE pc'[t] = "store"
      <4>1. i[t] = n /\ i' = i
        BY <2>6, <3>1, <3>2, <3>4 DEF Walk, Bounds
      <4> QED
        BY <2>6, <3>1, <3>2, <3>4, <4>1 DEF Walk
    <3> QED
      BY <2>6, <3>3, <3>4 DEF Walk
  <2>7. CASE ShiftRight(t)
    BY <2>7 DEF ShiftRight, Bounds
  <2>8. CASE Store(t)
    BY <2>8 DEF Store, Bounds
  <2>9. CASE TakeFirst(t)
    BY <2>9 DEF TakeFirst
  <2>10. CASE ShiftLeft(t)
    BY <2>10 DEF ShiftLeft, Bounds
  <2>11. CASE PrintBuffer(t)
    BY <2>11 DEF PrintBuffer
  <2>12. CASE SemPost(t)
    BY <2>12 DEF SemPost
  <2> QED
    BY <2>1, <2>2, <2>3, <2>4, <2>5, <2>6, <2>7, <2>8, <2>9, <2>10, <2>11,
       <2>12 DEF Thread
<1> QED
  BY <1>1, <1>2

\* Every step of a thread keeps the invariant.
LEMMA ThreadIInv ==
  ASSUME IInv, NEW t \in Threads, Thread(t)
  PROVE  IInv'
<1>1. Untouched'
  <2>1. main' = main /\ main \notin {"args", "initialize"}
    BY ThreadFrame DEF IInv, Creation, Threads
  <2> QED
    BY <2>1 DEF Untouched
<1> QED
  BY <1>1, ThreadTypes, ThreadMutex, ThreadNoGaps, ThreadSections DEF IInv

\* So does every step of main before the simulation runs ...
LEMMA StartIInv ==
  ASSUME IInv, Start
  PROVE  IInv'
<1> USE ProducerConsumerAssumption DEF IInv, TypeOK, MainStates, BufferLives
<1>1. CASE CheckArguments
  BY <1>1 DEF CheckArguments, args, Untouched, Creation, Valid, MutualExclusion, InCritical,
              Bounds, Sections, NoGaps
<1>2. CASE InitializeBuffer
  <2>1. /\ main' = "create" /\ created = 0 /\ Valid
        /\ UNCHANGED <<args, created, mutex, pc, i, item>>
        /\ buffer' = [k \in 0 .. Last |-> EMPTY]
    BY <1>2 DEF InitializeBuffer, Creation
  <2>2. \A t \in Threads : pc[t] = "none"
    BY <2>1, <1>2 DEF Creation, InitializeBuffer, Threads
  <2>3. TypeOK' /\ Creation' /\ MutualExclusion' /\ Bounds' /\ Untouched'
    BY <2>1, <2>2
      DEF args, Untouched, Creation, Valid, MutualExclusion, InCritical, Critical, Bounds,
          Arrays
  <2>4. \A t \in Threads : item[t] = EMPTY
    BY <1>2, <2>2 DEF InitializeBuffer, Untouched
  <2>5. Sections'
    BY <2>1, <2>2, <2>4
      DEF Sections, Section, InCritical, Critical, IsProducer, args
  <2>6. View' = [k \in 0 .. Last |-> EMPTY]
    BY <2>1, <2>2 DEF View, Shifting, Last
  <2>7. NoGaps'
    BY <2>6 DEF NoGaps, HasNoGaps, Filled, Last
  <2> QED
    BY <2>3, <2>5, <2>7
<1>3. CASE CreateThread
  <2>1. /\ Valid /\ created \in Threads /\ pc[created] = "none"
        /\ main' \in {"create", "sleep"}
        /\ created' = created + 1
        /\ UNCHANGED <<args, mutex, buffer, i, item>>
    BY <1>3 DEF CreateThread, Creation, Valid, Threads
  <2>2. /\ pc' \in [Threads -> ThreadStates]
        /\ \A t \in Threads : \/ pc'[t] = pc[t]
                              \/ pc[t] = "none" /\ pc'[t] = "check_in"
    BY <1>3, <2>1 DEF CreateThread, ThreadStates
  <2>3. Creation'
    BY <1>3, <2>1, <2>2 DEF CreateThread, Creation, Valid, args, Threads
  <2>4. \A t \in Threads : InCritical(t)' <=> InCritical(t)
    BY <2>2 DEF InCritical, Critical
  <2>5. TypeOK' /\ MutualExclusion' /\ Bounds' /\ Untouched'
    BY <1>3, <2>1, <2>2, <2>4
      DEF CreateThread, args, MutualExclusion, Bounds, Untouched, Threads,
          Valid
  <2>6. \A t \in Threads : Shifting(t)' <=> Shifting(t)
    BY <2>1, <2>2 DEF Shifting, args
  <2>7. View' = View
    BY <2>1, <2>6 DEF View
  <2>8. Sections'
    <3> SUFFICES ASSUME NEW t \in Threads PROVE Section(t)'
      BY DEF Sections
    <3>1. Section(t)
      BY <1>3 DEF Sections, CreateThread
    <3> QED
      BY <2>1, <2>2, <3>1
        DEF Section, IsProducer, args, InCritical, Critical, Filled
  <2> QED
    BY <1>3, <2>3, <2>5, <2>7, <2>8 DEF NoGaps, CreateThread
<1>4. CASE MallocFails
  BY <1>4 DEF MallocFails, LeaveMain, args, Untouched, Creation, Valid, MutualExclusion,
              InCritical, Bounds, Sections, NoGaps
<1> QED
  BY <1>1, <1>2, <1>3, <1>4 DEF Start

\* ... and when it ends.
LEMMA FinishIInv ==
  ASSUME IInv, Finish
  PROVE  IInv'
<1> USE ProducerConsumerAssumption DEF IInv, TypeOK, MainStates, BufferLives
<1>1. CASE SemDestroy
  BY <1>1 DEF SemDestroy, args, Untouched, Creation, Valid, MutualExclusion, InCritical,
              Bounds, Sections, Section, Filled, IsProducer, NoGaps, View,
              Shifting, HasNoGaps
<1>2. CASE Return \/ Exit
  BY <1>2 DEF Return, Exit, LeaveMain, args, Untouched, Creation, Valid, MutualExclusion,
              InCritical, Bounds, Sections, NoGaps
<1> QED
  BY <1>1, <1>2 DEF Finish

\* The invariant is inductive.
LEMMA NextIInv == IInv /\ [Next]_vars => IInv'
<1> SUFFICES ASSUME IInv, [Next]_vars PROVE IInv'
  OBVIOUS
<1>1. CASE UNCHANGED vars
  BY <1>1 DEF vars, args, Untouched, IInv, TypeOK, Creation, Valid, MutualExclusion,
              InCritical, Bounds, Sections, Section, Filled, IsProducer, NoGaps,
              View, Shifting, HasNoGaps, BufferLives
<1> QED
  BY <1>1, StartIInv, FinishIInv, ThreadIInv DEF Next, Terminated

\* Every reachable state satisfies the inductive invariant.
THEOREM Invariance == Spec => []IInv
BY InitIInv, NextIInv, PTL DEF Spec

\* TypeOK of every run: no loop leaves the array, the semaphore is 0 or 1.
THEOREM TypeCorrect == Spec => []TypeOK
BY Invariance, PTL DEF IInv

\* MutualExclusion, for any number of producers and consumers, even while main
\* destroys the semaphore and returns.
THEOREM OneInCriticalSection == Spec => []MutualExclusion
BY Invariance, PTL DEF IInv

\* NoGaps: countItems and enqueue may stop at the first free element.
THEOREM Compact == Spec => []NoGaps
BY Invariance, PTL DEF IInv

\* NeverOverflows: the warnings of push and enqueue are never printed.
THEOREM NoOverflow == Spec => []NeverOverflows
<1>1. IInv => NeverOverflows
  BY ProducerConsumerAssumption
    DEF IInv, TypeOK, Sections, Section, Bounds, NeverOverflows, Filled, Last
<1> QED
  BY <1>1, Invariance, PTL

\* ReportsOwnChange: a thread prints the array as its own change left it.
THEOREM Reports == Spec => []ReportsOwnChange
<1>1. IInv => ReportsOwnChange
  BY ProducerConsumerAssumption
    DEF IInv, Sections, Section, ReportsOwnChange, EMPTY
<1> QED
  BY <1>1, Invariance, PTL

-----------------------------------------------------------------------------
(* The simulator implements BoundedBuffer.                                 *)

\* Sequences made of the first elements of an array.
LEMMA FrontSeq ==
  ASSUME NEW S, NEW a, NEW n \in Nat, \A k \in 0 .. n - 1 : a[k] \in S
  PROVE  /\ [k \in 1 .. n |-> a[k - 1]] \in Seq(S)
         /\ Len([k \in 1 .. n |-> a[k - 1]]) = n
<1>1. [k \in 1 .. n |-> a[k - 1]] \in [1 .. n -> S]
  OBVIOUS
<1> QED
  BY <1>1, SeqDef, LenProperties

\* One more element at the back.
LEMMA FrontAppend ==
  ASSUME NEW S, NEW a, NEW b, NEW n \in Nat,
         \A k \in 0 .. n - 1 : a[k] \in S,
         b[n] \in S, \A k \in 0 .. n - 1 : b[k] = a[k]
  PROVE  [k \in 1 .. n + 1 |-> b[k - 1]]
           = Append([k \in 1 .. n |-> a[k - 1]], b[n])
<1> DEFINE s == [k \in 1 .. n |-> a[k - 1]]
           r == [k \in 1 .. n + 1 |-> b[k - 1]]
<1>1. s \in Seq(S) /\ Len(s) = n
  BY FrontSeq
<1>2. r \in Seq(S) /\ Len(r) = n + 1
  BY FrontSeq
<1>3. /\ Append(s, b[n]) \in Seq(S) /\ Len(Append(s, b[n])) = n + 1
      /\ Append(s, b[n])[n + 1] = b[n]
      /\ \A k \in 1 .. n : Append(s, b[n])[k] = s[k]
  BY <1>1, AppendProperties
<1>4. \A k \in 1 .. n + 1 : r[k] = Append(s, b[n])[k]
  BY <1>3
<1> HIDE DEF s, r
<1>5. r = Append(s, b[n])
  BY <1>2, <1>3, <1>4, SeqEqual
<1> QED
  BY <1>5 DEF s, r

\* One more element at the front.
LEMMA FrontCons ==
  ASSUME NEW S, NEW a, NEW b, NEW n \in Nat,
         \A k \in 0 .. n - 1 : a[k] \in S,
         b[0] \in S, \A k \in 1 .. n : b[k] = a[k - 1]
  PROVE  [k \in 1 .. n + 1 |-> b[k - 1]]
           = <<b[0]>> \o [k \in 1 .. n |-> a[k - 1]]
<1> DEFINE s == [k \in 1 .. n |-> a[k - 1]]
           r == [k \in 1 .. n + 1 |-> b[k - 1]]
           c == <<b[0]>> \o s
<1>1. s \in Seq(S) /\ Len(s) = n
  BY FrontSeq
<1>2. r \in Seq(S) /\ Len(r) = n + 1
  BY FrontSeq
<1>3. <<b[0]>> \in Seq(S) /\ Len(<<b[0]>>) = 1 /\ <<b[0]>>[1] = b[0]
  OBVIOUS
<1>4. /\ c \in Seq(S) /\ Len(c) = n + 1
      /\ \A k \in 1 .. n + 1 :
           c[k] = IF k <= 1 THEN <<b[0]>>[k] ELSE s[k - 1]
  BY <1>1, <1>3, ConcatProperties
<1>5. \A k \in 1 .. n + 1 : r[k] = c[k]
  BY <1>3, <1>4
<1> HIDE DEF s, r, c
<1>6. r = c
  BY <1>2, <1>4, <1>5, SeqEqual
<1> QED
  BY <1>6 DEF s, r, c

\* What Head and Tail make of a sequence that is not empty.
LEMMA HeadTail ==
  ASSUME NEW S, NEW s \in Seq(S), NEW n \in Nat, Len(s) = n + 1
  PROVE  /\ s # <<>> /\ Head(s) = s[1]
         /\ Tail(s) \in Seq(S) /\ Len(Tail(s)) = n
         /\ \A k \in 1 .. n : Tail(s)[k] = s[k + 1]
<1>1. s # <<>>
  OBVIOUS
<1>2. Tail(s) \in Seq(S) /\ Len(Tail(s)) = Len(s) - 1
  BY <1>1, HeadTailProperties
<1>3. Len(Tail(s)) = n
  BY <1>2
<1>4. \A k \in 1 .. n : Tail(s)[k] = s[k + 1]
  BY <1>1, <1>3, HeadTailProperties
<1> QED
  BY <1>1, <1>2, <1>3, <1>4

\* One element less at the front.
LEMMA FrontTail ==
  ASSUME NEW S, NEW a, NEW b, NEW n \in Nat,
         \A k \in 0 .. n : a[k] \in S, \A k \in 0 .. n - 1 : b[k] = a[k + 1]
  PROVE  /\ Head([k \in 1 .. n + 1 |-> a[k - 1]]) = a[0]
         /\ [k \in 1 .. n |-> b[k - 1]] = Tail([k \in 1 .. n + 1 |-> a[k - 1]])
<1> DEFINE s == [k \in 1 .. n + 1 |-> a[k - 1]]
           r == [k \in 1 .. n |-> b[k - 1]]
<1>1. s \in Seq(S) /\ Len(s) = n + 1 /\ s[1] = a[0]
  BY FrontSeq
<1>2. r \in Seq(S) /\ Len(r) = n
  BY FrontSeq
<1>3. \A k \in 1 .. n : r[k] = s[k + 1]
  OBVIOUS
<1> HIDE DEF s, r
<1>4. /\ Head(s) = s[1]
      /\ Tail(s) \in Seq(S) /\ Len(Tail(s)) = n
      /\ \A k \in 1 .. n : Tail(s)[k] = s[k + 1]
  BY <1>1, HeadTail
<1>5. r = Tail(s)
  BY <1>2, <1>3, <1>4, SeqEqual
<1>6. Head(s) = a[0]
  BY <1>1, <1>4
<1> QED
  BY <1>5, <1>6 DEF s, r

\* What the refinement mapping makes of an array with n elements in use.
LEMMA SeenFilled ==
  ASSUME BufferLives, NEW n \in 0 .. Size, Filled(View, n)
  PROVE  Seen = [k \in 1 .. n |-> View[k - 1]]
BY ContentsFilled DEF Seen, Contents

\* The same after a step.
LEMMA SeenFilledNext ==
  ASSUME BufferLives', NEW n \in 0 .. Size, Filled(View', n)
  PROVE  Seen' = [k \in 1 .. n |-> View'[k - 1]]
BY ContentsFilled DEF Seen, Contents

\* While the buffer lives, the elements in use are items.
LEMMA ViewItems ==
  ASSUME TypeOK, NEW n \in 0 .. Size, Filled(View, n)
  PROVE  \A k \in 0 .. n - 1 : View[k] \in Items
<1> SUFFICES ASSUME NEW k \in 0 .. n - 1 PROVE View[k] \in Items
  OBVIOUS
<1>1. k \in 0 .. Last /\ View[k] # EMPTY
  BY ProducerConsumerAssumption DEF Filled, Last
<1>2. View[k] \in Items \cup {EMPTY}
  BY <1>1, ProducerConsumerAssumption DEF View, TypeOK, Arrays, Last
<1> QED
  BY <1>1, <1>2

\* A thread moves items to and from its own hand only.
LEMMA ThreadHands ==
  ASSUME IInv, BufferLives, NEW t \in Threads, Thread(t)
  PROVE  /\ BufferLives' /\ UNCHANGED <<numProducers, bufferMode>>
         /\ Hands' = [Hands EXCEPT ![t] = Held(t)']
<1>1. /\ BufferLives' /\ UNCHANGED <<numProducers, bufferMode>>
      /\ \A s \in Threads \ {t} : Held(s)' = Held(s)
  BY ThreadFrame DEF IInv, BufferLives, args, Held, IsProducer
<1> QED
  BY <1>1 DEF Hands

\* Steps that leave the array's contents alone: a producer draws its item when
\* it gets the semaphore, and an item still in hand is gone when the thread
\* gives it back, a producer's only if the buffer was full.
LEMMA QuietThreadRefines ==
  ASSUME IInv, BufferLives, NEW t \in Threads, Thread(t),
         ~ Store(t), ~ TakeFirst(t)
  PROVE  B!Draw(t) \/ B!ThrowAway(t) \/ B!Consume(t) \/ UNCHANGED B!vars
<1> USE ProducerConsumerAssumption DEF IInv, TypeOK, ThreadStep
<1>0. /\ BufferLives' /\ UNCHANGED <<numProducers, bufferMode>>
      /\ UNCHANGED <<Seen, Adders>> /\ Section(t)
      /\ Hands' = [Hands EXCEPT ![t] = Held(t)']
      /\ Hands \in [Threads -> Items \cup {EMPTY}]
      /\ Hands[t] = Held(t)
      /\ t \in Adders <=> IsProducer(t)
  BY ThreadHands, ViewKept
    DEF Seen, Contents, Adders, IsProducer, Sections, Hands, Held
<1>1. CASE SemWait(t)
  <2>1. Held(t) = EMPTY
    BY <1>0, <1>1 DEF SemWait, Section, Held, InCritical, Critical
  <2>2. Held(t)' = item'[t]
    BY <1>1 DEF SemWait, Held
  <2>3. CASE IsProducer(t)
    <3>1. item'[t] \in Items
      BY <1>1, <2>3 DEF SemWait
    <3>2. B!Draw(t)
      BY <1>0, <2>1, <2>2, <2>3, <3>1 DEF B!Draw
    <3> QED
      BY <3>2
  <2>4. CASE ~ IsProducer(t)
    <3>1. item'[t] = EMPTY
      BY <1>1, <2>4 DEF SemWait
    <3> QED
      BY <1>0, <2>1, <2>2, <3>1 DEF B!vars
  <2> QED
    BY <2>3, <2>4
<1>2. CASE SemPost(t)
  <2>1. /\ pc[t] = "post" /\ Held(t)' = EMPTY
        /\ Hands' = [Hands EXCEPT ![t] = EMPTY]
    BY <1>0, <1>2 DEF SemPost, Held, EMPTY
  <2>2. CASE ~ IsProducer(t)
    <3>1. B!Consume(t)
      BY <1>0, <2>1, <2>2 DEF B!Consume
    <3> QED
      BY <3>1
  <2>3. CASE IsProducer(t) /\ i[t] # Size
    <3>1. Held(t) = EMPTY
      BY <2>1, <2>3 DEF Held
    <3> QED
      BY <1>0, <2>1, <3>1 DEF B!vars
  <2>4. CASE IsProducer(t) /\ i[t] = Size
    <3>1. Filled(buffer, Size)
      BY <1>0, <2>1, <2>4 DEF Section
    <3>2. View = Closed(buffer, pc[t], i[t])
      BY <2>1, ViewAlone DEF MutualExclusion, InCritical, Critical
    <3>3. Filled(View, Size)
      BY <2>1, <3>1, <3>2 DEF Closed, Filled
    <3>4. Len(Seen) = Size
      BY <3>3, SeenFilled, ViewItems, FrontSeq
    <3>5. B!ThrowAway(t)
      BY <1>0, <2>1, <2>4, <3>4 DEF B!ThrowAway
    <3> QED
      BY <3>5
  <2> QED
    BY <2>2, <2>3, <2>4
<1>3. CASE ~ SemWait(t) /\ ~ SemPost(t)
  <2>1. Held(t)' = Held(t)
    <3> USE <1>0 DEF Held, IsProducer
    <3>1. CASE CheckIn(t) \/ Nanosleep(t) \/ CountItem(t)
      BY <3>1 DEF CheckIn, Nanosleep, CountItem
    <3>2. CASE PrintBuffer(t)
      BY <3>2 DEF PrintBuffer, Section, Last
    <3>3. CASE CountedProducer(t)
      BY <3>3 DEF CountedProducer
    <3>4. CASE CountedConsumer(t)
      BY <3>4 DEF CountedConsumer
    <3>5. CASE Walk(t)
      BY <3>5 DEF Walk
    <3>6. CASE ShiftRight(t)
      BY <3>6 DEF ShiftRight
    <3>7. CASE ShiftLeft(t)
      BY <3>7 DEF ShiftLeft, Section
    <3> QED
      BY <1>3, <3>1, <3>2, <3>3, <3>4, <3>5, <3>6, <3>7 DEF Thread
  <2> QED
    BY <1>0, <2>1 DEF B!vars
<1> QED
  BY <1>1, <1>2, <1>3

\* The last statement of enqueue or push is BoundedBuffer's Add: at the back in
\* FIFO mode, at the front in FILO mode.
LEMMA StoreRefines ==
  ASSUME IInv, BufferLives, NEW t \in Threads, Store(t)
  PROVE  B!Add(t)
<1> USE ProducerConsumerAssumption DEF IInv, TypeOK, ThreadStep, Last
<1>0. Thread(t)
  BY DEF Thread
<1>1. /\ BufferLives' /\ UNCHANGED <<numProducers, bufferMode, Adders>>
      /\ Section(t) /\ t \in Adders
      /\ Hands' = [Hands EXCEPT ![t] = Held(t)']
      /\ Hands[t] = item[t]
  BY <1>0, ThreadHands
    DEF Adders, IsProducer, Sections, Section, Hands, Held, Store
<1>2. Held(t)' = EMPTY
  BY <1>1 DEF Store, Held, Bounds, IsProducer, Adders
<1>3. item[t] \in Items /\ item[t] # EMPTY
  BY ViewStored DEF EMPTY
<1>4. PICK n \in 0 .. Last :
        /\ Filled(View, n) /\ Filled(View', n + 1)
        /\ bufferMode = FIFO =>
             /\ View'[n] = item[t]
             /\ \A k \in 0 .. Last : k < n => View'[k] = View[k]
        /\ bufferMode # FIFO =>
             /\ View'[0] = item[t]
             /\ \A k \in 0 .. Last : k > 0 => View'[k] = View[k - 1]
  BY ViewStored
<1>5. n \in Nat /\ n \in 0 .. Size /\ n + 1 \in 0 .. Size
  OBVIOUS
<1>6. /\ Seen = [k \in 1 .. n |-> View[k - 1]]
      /\ Seen' = [k \in 1 .. n + 1 |-> View'[k - 1]]
      /\ \A k \in 0 .. n - 1 : View[k] \in Items
  BY <1>1, <1>4, <1>5, SeenFilled, SeenFilledNext, ViewItems
<1>7. Len(Seen) < Size
  BY <1>5, <1>6, FrontSeq
<1>8. Seen' = IF bufferMode = FIFO THEN Append(Seen, item[t])
                                   ELSE <<item[t]>> \o Seen
  <2>1. CASE bufferMode = FIFO
    <3>1. View'[n] = item[t] /\ \A k \in 0 .. n - 1 : View'[k] = View[k]
      BY <1>4, <1>5, <2>1
    <3> QED
      BY <1>3, <1>5, <1>6, <2>1, <3>1, FrontAppend
  <2>2. CASE bufferMode # FIFO
    <3>1. View'[0] = item[t] /\ \A k \in 1 .. n : View'[k] = View[k - 1]
      BY <1>4, <1>5, <2>2
    <3> QED
      BY <1>3, <1>5, <1>6, <2>2, <3>1, FrontCons
  <2> QED
    BY <2>1, <2>2
<1> QED
  BY <1>1, <1>2, <1>3, <1>7, <1>8 DEF B!Add

\* The first statement of pop is BoundedBuffer's Take.
LEMMA TakeFirstRefines ==
  ASSUME IInv, BufferLives, NEW t \in Threads, TakeFirst(t)
  PROVE  B!Take(t)
<1> USE ProducerConsumerAssumption DEF IInv, TypeOK, ThreadStep, Last
<1>0. Thread(t)
  BY DEF Thread
<1>1. /\ BufferLives' /\ UNCHANGED <<numProducers, bufferMode, Adders>>
      /\ Section(t) /\ t \notin Adders /\ ~ IsProducer(t)
      /\ Hands' = [Hands EXCEPT ![t] = Held(t)']
      /\ Hands[t] = EMPTY
  BY <1>0, ThreadHands
    DEF Adders, IsProducer, Sections, Section, Hands, Held, TakeFirst
<1>2. PICK n \in 0 .. Last :
        /\ Filled(View, n + 1) /\ Filled(View', n)
        /\ \A k \in 0 .. Last : k < Last => View'[k] = View[k + 1]
  BY ViewTaken
<1>3. n \in Nat /\ n \in 0 .. Size /\ n + 1 \in 0 .. Size
  OBVIOUS
<1>4. /\ Seen = [k \in 1 .. n + 1 |-> View[k - 1]]
      /\ Seen' = [k \in 1 .. n |-> View'[k - 1]]
      /\ \A k \in 0 .. n : View[k] \in Items
  BY <1>1, <1>2, <1>3, SeenFilled, SeenFilledNext, ViewItems
<1>5. \A k \in 0 .. n - 1 : View'[k] = View[k + 1]
  BY <1>2
<1>6. Seen # <<>> /\ Head(Seen) = View[0] /\ Seen' = Tail(Seen)
  <2>1. Len(Seen) = n + 1
    BY <1>3, <1>4, FrontSeq
  <2>2. Seen' = Tail(Seen)
    BY <1>3, <1>4, <1>5, FrontTail
  <2>3. Head(Seen) = View[0]
    BY <1>3, <1>4, <1>5, FrontTail
  <2> QED
    BY <2>1, <2>2, <2>3
<1>7. Held(t)' = View[0]
  BY <1>1, ViewTaken DEF Held, IsProducer
<1> QED
  BY <1>1, <1>6, <1>7 DEF B!Take

\* Before main initialises the array and after it returns there is no buffer.
LEMMA ClosedRefines ==
  ASSUME IInv, NEW t \in Threads, ~ BufferLives, Thread(t)
  PROVE  UNCHANGED B!vars
<1>1. ~ BufferLives' /\ UNCHANGED <<numProducers, bufferMode>>
  BY ThreadFrame DEF IInv, BufferLives, args
<1>2. Seen = <<>> /\ Seen' = <<>>
  BY <1>1 DEF Seen
<1>3. /\ Hands = [s \in Threads |-> EMPTY]
      /\ Hands' = [s \in Threads |-> EMPTY]
  BY <1>1 DEF Hands
<1>4. Adders' = Adders
  BY <1>1 DEF Adders, IsProducer
<1> QED
  BY <1>1, <1>2, <1>3, <1>4 DEF B!vars, BufferLives

\* main opens the buffer with initializeBuffer, empty.
LEMMA StartRefines ==
  ASSUME IInv, Start
  PROVE  B!Open \/ B!Close \/ UNCHANGED B!vars
<1> USE ProducerConsumerAssumption
    DEF BufferLives, Adders, IsProducer, Seen, Hands, args
<1>1. CASE CheckArguments
  BY <1>1 DEF CheckArguments, B!vars
<1>2. CASE InitializeBuffer
  <2>1. /\ ~ BufferLives /\ BufferLives'
        /\ UNCHANGED <<args, created, mutex, pc, i, item>>
        /\ \A t \in Threads : pc[t] = "none" /\ item[t] = EMPTY
    BY <1>2 DEF InitializeBuffer, IInv, Creation, Untouched, Threads
  <2>2. View' = [k \in 0 .. Last |-> EMPTY]
    BY <1>2, <2>1 DEF InitializeBuffer, View, Shifting, Last
  <2>3. Filled(View', 0)
    BY <2>2 DEF Filled, Last
  <2>4. Seen' = [k \in 1 .. 0 |-> View'[k - 1]]
    BY <2>1, <2>3, SeenFilledNext
  <2>5. Seen' = <<>>
    BY <2>4
  <2>6. Hands' = Hands
    BY <2>1 DEF Held
  <2> QED
    BY <2>1, <2>5, <2>6 DEF B!Open
<1>3. CASE CreateThread
  <2>1. /\ main' \in {"create", "sleep"} /\ main = "create"
        /\ created \in Threads /\ pc[created] = "none"
        /\ UNCHANGED <<args, mutex, buffer, i, item>>
    BY <1>3 DEF CreateThread, IInv, TypeOK, Creation, Valid, Threads
  <2>2. \A t \in Threads : \/ pc'[t] = pc[t]
                           \/ pc[t] = "none" /\ pc'[t] = "check_in"
    BY <1>3, <2>1 DEF CreateThread, IInv, TypeOK
  <2>3. \A t \in Threads : Shifting(t)' <=> Shifting(t)
    BY <2>1, <2>2 DEF Shifting
  <2>4. View' = View
    BY <2>1, <2>3 DEF View
  <2>5. \A t \in Threads : Held(t)' = Held(t)
    BY <2>1, <2>2 DEF Held
  <2> QED
    BY <2>1, <2>4, <2>5 DEF B!vars, Contents
<1>4. CASE MallocFails
  BY <1>4 DEF MallocFails, LeaveMain, B!Close
<1> QED
  BY <1>1, <1>2, <1>3, <1>4 DEF Start

\* main closes it by returning.
LEMMA FinishRefines ==
  ASSUME IInv, Finish
  PROVE  B!Close \/ UNCHANGED B!vars
<1> USE DEF BufferLives, Adders, IsProducer, Seen, Hands, args
<1>1. CASE SemDestroy
  BY <1>1 DEF SemDestroy, B!vars, Contents, View, Shifting, Held
<1>2. CASE Return
  BY <1>2 DEF Return, LeaveMain, B!Close
<1>3. CASE Exit
  BY <1>3 DEF Exit, B!vars
<1> QED
  BY <1>1, <1>2, <1>3 DEF Finish

\* Every step of the simulator is a step of BoundedBuffer or none.
LEMMA NextRefines == IInv /\ [Next]_vars => [B!Next]_(B!vars)
<1> SUFFICES ASSUME IInv, [Next]_vars PROVE B!Next \/ UNCHANGED B!vars
  OBVIOUS
<1>1. CASE Start
  BY <1>1, StartRefines DEF B!Next
<1>2. CASE Finish
  BY <1>2, FinishRefines DEF B!Next
<1>3. ASSUME NEW t \in Threads, Thread(t)
      PROVE  B!Next \/ UNCHANGED B!vars
  BY <1>3, ClosedRefines, QuietThreadRefines, StoreRefines, TakeFirstRefines
    DEF B!Next
<1>4. CASE UNCHANGED vars
  BY <1>4 DEF vars, args, B!vars, Seen, Hands, Adders, IsProducer, BufferLives,
              Contents, View, Shifting, Held
<1> QED
  BY <1>1, <1>2, <1>3, <1>4 DEF Next, Terminated

\* The buffer does not exist when the program starts.
LEMMA InitRefines == Init => B!Init
BY DEF Init, B!Init, BufferLives, Seen, Hands, Adders

\* ImplementsBoundedBuffer: for every size, number of threads and mode, the
\* threads of p3.c working on the array of buffer.c element by element behave
\* like a bounded FIFO or FILO sequence: nothing is lost, copied or reordered.
THEOREM Refinement == Spec => ImplementsBoundedBuffer
BY InitRefines, NextRefines, Invariance, PTL
  DEF Spec, ImplementsBoundedBuffer, B!Spec

=============================================================================
