---------------------------- MODULE BoundedBuffer ----------------------------
(***************************************************************************)
(* What the producer/consumer simulator of TeamLastPicked_p3 promises: a    *)
(* bounded sequence of items to which producers add, at the back (FIFO) or  *)
(* at the front (FILO), and from whose front consumers take.  An item is    *)
(* moved from hand to hand, never copied; a producer throws its item away   *)
(* only if the buffer is full.                                              *)
(***************************************************************************)
EXTENDS Integers, Sequences

CONSTANTS Capacity, Items, Threads, EMPTY

VARIABLES
  open,        \* the buffer exists
  fifo,        \* which end producers use
  producers,   \* the threads that add
  contents,    \* the items in the buffer, front first
  hand         \* the item each thread holds, or EMPTY

vars == <<open, fifo, producers, contents, hand>>

Init ==
  /\ open = FALSE
  /\ fifo \in BOOLEAN
  /\ producers \in SUBSET Threads
  /\ contents = <<>>
  /\ hand = [t \in Threads |-> EMPTY]

Open ==
  /\ ~ open /\ contents = <<>> /\ open' = TRUE
  /\ UNCHANGED <<fifo, producers, contents, hand>>

Draw(t) ==
  /\ open /\ t \in producers /\ hand[t] = EMPTY
  /\ \E v \in Items : hand' = [hand EXCEPT ![t] = v]
  /\ UNCHANGED <<open, fifo, producers, contents>>

Add(t) ==
  /\ open /\ t \in producers /\ hand[t] # EMPTY
  /\ Len(contents) < Capacity
  /\ contents' = IF fifo THEN Append(contents, hand[t])
                         ELSE <<hand[t]>> \o contents
  /\ hand' = [hand EXCEPT ![t] = EMPTY]
  /\ UNCHANGED <<open, fifo, producers>>

ThrowAway(t) ==
  /\ open /\ t \in producers /\ Len(contents) = Capacity
  /\ hand' = [hand EXCEPT ![t] = EMPTY]
  /\ UNCHANGED <<open, fifo, producers, contents>>

Take(t) ==
  /\ open /\ t \notin producers /\ hand[t] = EMPTY
  /\ contents # <<>>
  /\ hand' = [hand EXCEPT ![t] = Head(contents)]
  /\ contents' = Tail(contents)
  /\ UNCHANGED <<open, fifo, producers>>

Consume(t) ==
  /\ open /\ t \notin producers
  /\ hand' = [hand EXCEPT ![t] = EMPTY]
  /\ UNCHANGED <<open, fifo, producers, contents>>

\* The simulation ends, whatever is in the buffer or in somebody's hands.
Close ==
  /\ open /\ open' = FALSE
  /\ contents' = <<>>
  /\ hand' = [t \in Threads |-> EMPTY]
  /\ UNCHANGED <<fifo, producers>>

Next ==
  \/ Open \/ Close
  \/ \E t \in Threads :
       Draw(t) \/ Add(t) \/ ThrowAway(t) \/ Take(t) \/ Consume(t)

Spec == Init /\ [][Next]_vars

=============================================================================
