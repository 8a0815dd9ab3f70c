---------------------------- MODULE SchedulerList ----------------------------
(***************************************************************************)
(* The scheduler of module Scheduler on the linked list it really has.      *)
(* list_insert_tail and list_remove_elem (list.c) are called by worker      *)
(* threads with no lock, and the scheduler walks over the list meanwhile,   *)
(* so here each load and each store of list.c that another thread can tell  *)
(* apart is a step.  Everything else is an action of Scheduler, whose q is  *)
(* what a walk from the head sees.                                          *)
(*                                                                         *)
(* The Makefile builds without optimisation: each expression of list.c      *)
(* reads its memory anew, in the order of the source.  Memory is taken to   *)
(* be sequentially consistent.  An access rides along with another only     *)
(* where no other thread can reach what it reads or writes: an element that *)
(* is not linked yet, and the prev of an element that leaves, which only    *)
(* removals store to, one at a time (OneOnCpu).                             *)
(*                                                                         *)
(* A worker links its element while wpc says "insert" and unlinks it while  *)
(* wpc says "remove"; the access that does it moves wpc on.  Where it is    *)
(* inside the call is in at.                                                *)
(***************************************************************************)
EXTENDS Integers, Sequences, FiniteSets

CONSTANTS NumWorkers, QueueSize, Iterations, Policy

ASSUME SchedulerListAssumption ==
  /\ NumWorkers \in Nat /\ QueueSize \in Nat /\ Iterations \in Nat
  /\ Policy \in {"fifo", "rr"}

VARIABLES main, created, sched, info, wpc, iter, loaded, currentPosition,
          queue_sem, cpu_sem, exec, num_workers_remaining

VARIABLES
  head, tail,    \* of the list_t; elements are named by their workers
  prev, next,    \* of each list_elem_t
  at,            \* where each worker is inside list.c, "out" when it is not
  seen,          \* the pointer that each worker has last loaded to store it
                 \* or to store through it
  raced,         \* whether two workers have ever been in list.c at once
  elt, count     \* the scheduler's walk: where it is, how many steps it made

listVars == <<head, tail, prev, next>>
callVars == <<listVars, at, seen, raced>>
walkVars == <<elt, count>>

Workers == 1 .. NumWorkers
NULL == 0

\* The k-th element that a walk from the head meets, NULL behind the last.
Elem[k \in 1 .. NumWorkers + 1] ==
  IF k = 1 THEN head
  ELSE IF Elem[k - 1] = NULL THEN NULL ELSE next[Elem[k - 1]]

\* The list as it stands.
Linked ==
  [k \in 1 .. Cardinality({j \in Workers : Elem[j] # NULL}) |-> Elem[k]]

C == INSTANCE Scheduler WITH q <- Linked

vars == <<C!vars, callVars, walkVars>>

\* What an access of the list leaves alone.
others == <<main, created, sched, info, iter, loaded, currentPosition,
            queue_sem, cpu_sem, exec, num_workers_remaining, walkVars>>

Init ==
  /\ head = NULL /\ tail = NULL
  /\ prev = [w \in Workers |-> NULL]
  /\ next = [w \in Workers |-> NULL]
  /\ at = [w \in Workers |-> "out"]
  /\ seen = [w \in Workers |-> NULL]
  /\ raced = FALSE
  /\ elt = NULL /\ count = 0
  /\ C!Init

\* w goes from one point of list.c to the next.
Goto(w, from, to) ==
  /\ C!Alive
  /\ at[w] = from /\ at' = [at EXCEPT ![w] = to]
  /\ raced' = (raced \/ \E u \in Workers \ {w} : at[u] # "out")

\* w's element has just been linked, or just been unlinked.
Linking(w) == wpc' = [wpc EXCEPT ![w] = "announce"]
Unlinking(w) == wpc' = [wpc EXCEPT ![w] = "post"]

-----------------------------------------------------------------------------
(* list_insert_tail                                                        *)

TestTail(w) ==
  /\ wpc[w] = "insert"
  /\ Goto(w, "out", IF tail = NULL THEN "first_tail" ELSE "set_prev")
  /\ UNCHANGED <<others, wpc, listVars, seen>>

FirstTail(w) ==
  /\ Goto(w, "first_tail", "read_back")
  /\ prev' = [prev EXCEPT ![w] = NULL]
  /\ next' = [next EXCEPT ![w] = NULL]
  /\ tail' = w
  /\ UNCHANGED <<others, wpc, head, seen>>

\* lst->head = lst->tail = elt stores elt, or what it reads back of lst->tail.
ReadBack(w) ==
  /\ Goto(w, "read_back", "first_head")
  /\ \E p \in {w, tail} : seen' = [seen EXCEPT ![w] = p]
  /\ UNCHANGED <<others, wpc, listVars>>

FirstHead(w) ==
  /\ Goto(w, "first_head", "out")
  /\ head' = seen[w]
  /\ Linking(w)
  /\ UNCHANGED <<others, tail, prev, next, seen>>

\* Mutant: lst->tail is set before lst->tail->next.
SetPrevAndTail(w) ==
  /\ Goto(w, "set_prev", "retest_tail")
  /\ prev' = [prev EXCEPT ![w] = tail]
  /\ tail' = w
  /\ UNCHANGED <<others, wpc, head, next, seen>>

SetPrev(w) ==
  /\ Goto(w, "set_prev", "retest_tail")
  /\ prev' = [prev EXCEPT ![w] = tail]
  /\ UNCHANGED <<others, wpc, head, tail, next, seen>>

RetestTail(w) ==
  /\ Goto(w, "retest_tail", IF tail = NULL THEN "clear_next" ELSE "read_tail")
  /\ UNCHANGED <<others, wpc, listVars, seen>>

\* lst->tail->next = elt loads lst->tail and stores through it.
ReadTail(w) ==
  /\ Goto(w, "read_tail", "link")
  /\ seen' = [seen EXCEPT ![w] = tail]
  /\ UNCHANGED <<others, wpc, listVars>>

LinkBehind(w) ==
  /\ Goto(w, "link", "clear_next")
  /\ Linking(w)
  /\ IF seen[w] = NULL
       THEN main' = "failed" /\ UNCHANGED next
       ELSE next' = [next EXCEPT ![seen[w]] = w] /\ UNCHANGED main
  /\ UNCHANGED <<created, sched, info, iter, loaded, currentPosition, queue_sem,
                 cpu_sem, exec, num_workers_remaining, walkVars, head, tail,
                 prev, seen>>

ClearNext(w) ==
  /\ Goto(w, "clear_next", "new_tail")
  /\ next' = [next EXCEPT ![w] = NULL]
  /\ UNCHANGED <<others, wpc, head, tail, prev, seen>>

NewTail(w) ==
  /\ Goto(w, "new_tail", "out")
  /\ tail' = w
  /\ Linking(w)
  /\ UNCHANGED <<others, head, prev, next, seen>>

-----------------------------------------------------------------------------
(* list_remove_elem                                                        *)

TestPrev(w) ==
  /\ wpc[w] = "remove"
  /\ Goto(w, "out", IF prev[w] # NULL THEN "read_next" ELSE "test_head")
  /\ UNCHANGED <<others, wpc, listVars, seen>>

TestHead(w) ==
  /\ head = w
  /\ Goto(w, "test_head", "read_next")
  /\ UNCHANGED <<others, wpc, listVars, seen>>

\* A race has hidden the element: there is nothing to unlink.
NotHead(w) ==
  /\ head # w
  /\ Goto(w, "test_head", "test_next")
  /\ Unlinking(w)
  /\ UNCHANGED <<others, listVars, seen>>

ReadNext(w) ==
  /\ Goto(w, "read_next", "unlink")
  /\ seen' = [seen EXCEPT ![w] = next[w]]
  /\ UNCHANGED <<others, wpc, listVars>>

Unlink(w) ==
  /\ Goto(w, "unlink", "test_next")
  /\ Unlinking(w)
  /\ IF prev[w] # NULL
       THEN next' = [next EXCEPT ![prev[w]] = seen[w]] /\ UNCHANGED head
       ELSE head' = seen[w] /\ UNCHANGED next
  /\ UNCHANGED <<others, tail, prev, seen>>

TestNext(w) ==
  /\ Goto(w, "test_next", IF next[w] # NULL THEN "reread_next" ELSE "test_last")
  /\ UNCHANGED <<others, wpc, listVars, seen>>

\* elt->next->prev = elt->prev loads elt->next again and stores through it.  It
\* is not NULL: no other step stores NULL in the next of an element that leaves.
RereadNext(w) ==
  /\ Goto(w, "reread_next", "link_back")
  /\ seen' = [seen EXCEPT ![w] = next[w]]
  /\ UNCHANGED <<others, wpc, listVars>>

LinkBack(w) ==
  /\ Goto(w, "link_back", "clear")
  /\ prev' = [prev EXCEPT ![seen[w]] = prev[w]]
  /\ UNCHANGED <<others, wpc, head, tail, next, seen>>

TestLast(w) ==
  /\ Goto(w, "test_last", IF tail = w THEN "retreat" ELSE "clear")
  /\ UNCHANGED <<others, wpc, listVars, seen>>

\* Mutant: the tail stays at the element that leaves.
RetreatTailForgotten(w) ==
  /\ Goto(w, "retreat", "clear")
  /\ UNCHANGED <<others, wpc, listVars, seen>>

RetreatTail(w) ==
  /\ Goto(w, "retreat", "clear")
  /\ tail' = prev[w]
  /\ UNCHANGED <<others, wpc, head, prev, next, seen>>

ClearElem(w) ==
  /\ Goto(w, "clear", "out")
  /\ prev' = [prev EXCEPT ![w] = NULL]
  /\ next' = [next EXCEPT ![w] = NULL]
  /\ UNCHANGED <<others, wpc, head, tail, seen>>

Insertion(w) ==
  \/ TestTail(w) \/ FirstTail(w) \/ ReadBack(w) \/ FirstHead(w)
  \/ SetPrev(w) \/ RetestTail(w) \/ ReadTail(w) \/ LinkBehind(w)
  \/ ClearNext(w) \/ NewTail(w)

Removal(w) ==
  \/ TestPrev(w) \/ TestHead(w) \/ NotHead(w) \/ ReadNext(w) \/ Unlink(w)
  \/ TestNext(w) \/ RereadNext(w) \/ LinkBack(w)
  \/ TestLast(w) \/ RetreatTail(w) \/ ClearElem(w)

ListCall(w) == Insertion(w) \/ Removal(w)

-----------------------------------------------------------------------------
(* The scheduler's walks.                                                  *)

\* The pointer a walk reads next; one that has met NULL starts over
\* (sched_impl.c:215).
Look == IF elt = NULL THEN head ELSE next[elt]

\* A walk reads one pointer further.
GoOn ==
  /\ C!Alive
  /\ elt' = Look /\ count' = count + 1
  /\ UNCHANGED <<main, created, sched, info, wpc, iter, loaded, currentPosition,
                 queue_sem, cpu_sem, exec, num_workers_remaining, callVars>>

\* list_size is called by wait_for_queue and twice by rr_next_worker.
InListSize == sched \in {"queue", "wrap"} \/ (sched = "next" /\ Policy = "rr")

CountElem ==
  /\ InListSize
  /\ Look # NULL
  /\ GoOn

\* list_size returns count.
CountedAll(from, to) ==
  /\ C!SchedStep(from, to)
  /\ Look = NULL
  /\ elt' = NULL /\ count' = 0
  /\ UNCHANGED <<main, created, wpc, iter, loaded, queue_sem, cpu_sem, exec,
                 num_workers_remaining, callVars>>

\* wait_for_queue starts over as long as it counts nothing.
WaitForQueue ==
  /\ count # 0
  /\ CountedAll("queue", "test")
  /\ UNCHANGED <<info, currentPosition>>

RRNext ==
  /\ Policy = "rr"
  /\ info' = IF count = 0 THEN NULL ELSE info
  /\ CountedAll("next", IF count = 0 THEN "queue" ELSE "wrap")
  /\ UNCHANGED currentPosition

RRWrap ==
  /\ currentPosition' = IF currentPosition = count THEN 0 ELSE currentPosition
  /\ CountedAll("wrap", "walk")
  /\ UNCHANGED info

\* list_get_head, and then currentPosition steps.
RRStep ==
  /\ sched = "walk"
  /\ count < currentPosition
  /\ GoOn

RRWalk ==
  /\ C!Alive /\ sched = "walk"
  /\ count >= currentPosition
  /\ IF Look # NULL
       THEN /\ sched' = "wake"
            /\ info' = Look
            /\ currentPosition' = currentPosition + 1
            /\ UNCHANGED main
       ELSE /\ main' = "failed"
            /\ UNCHANGED <<sched, info, currentPosition>>
  /\ elt' = NULL /\ count' = 0
  /\ UNCHANGED <<created, wpc, iter, loaded, queue_sem, cpu_sem, exec,
                 num_workers_remaining, callVars>>

ListWalk == CountElem \/ WaitForQueue \/ RRNext \/ RRWrap \/ RRStep \/ RRWalk

-----------------------------------------------------------------------------
\* The steps that do not touch the list, or read the head alone (FifoNext).
OutsideList(w) ==
  /\ at[w] = "out"
  /\ UNCHANGED <<callVars, walkVars>>
  /\ \/ C!EnterWait(w) \/ C!Announce(w) \/ C!WaitForCpu(w) \/ C!Work(w)
     \/ C!ReleaseCpu(w) \/ C!Exiting(w) \/ C!PostQueue(w) \/ C!StepBack(w)
     \/ C!LoadRemaining(w) \/ C!StoreRemaining(w) \/ C!FinalRelease(w)

OutsideWalk ==
  /\ UNCHANGED <<callVars, walkVars>>
  /\ \/ C!TestRemaining \/ C!FifoNext \/ C!WakeUpWorker \/ C!WaitForWorker
     \/ C!SchedulerDone

Worker(w) == ListCall(w) \/ OutsideList(w)
SchedProc == ListWalk \/ OutsideWalk
Main == UNCHANGED <<callVars, walkVars>> /\ C!Main

Next ==
  \/ Main \/ SchedProc \/ (\E w \in Workers : Worker(w))
  \/ UNCHANGED <<callVars, walkVars>> /\ C!Terminated

Spec == Init /\ [][Next]_vars
FairSpec ==
  /\ Spec
  /\ WF_vars(Main) /\ WF_vars(SchedProc)
  /\ \A w \in Workers : WF_vars(Worker(w))

-----------------------------------------------------------------------------
\* As long as no two workers have been in list.c at once, its calls behave like
\* atomic operations on a sequence: every step is a step of Scheduler, also when
\* the scheduler walks over the list in the middle of a call.
AtomicUnlessRaced == [][raced' \/ [C!Next]_(C!vars)]_vars

\* Then the list hangs together whenever no worker is inside list.c: prev
\* mirrors next, and tail is the last element a walk from the head meets.
WellLinked ==
  ~ raced /\ (\A w \in Workers : at[w] = "out") =>
    /\ tail = IF Linked = <<>> THEN NULL ELSE Linked[Len(Linked)]
    /\ \A k \in 1 .. Len(Linked) :
         /\ prev[Linked[k]] = IF k = 1 THEN NULL ELSE Linked[k - 1]
         /\ next[Linked[k]] = IF k = Len(Linked) THEN NULL ELSE Linked[k + 1]

\* The workers can race from the second place in the queue on.  Even on a
\* corrupted list list_size never counts more elements than there are, whatever
\* is stored while it walks; so it returns.
WalkEnds == InListSize => count <= NumWorkers

\* Nor does corruption let main free what a worker still uses, the thread
\* arguments, its element of the list or a semaphore (scheduler.c:141, 167-175).
UnusedWhenFreed ==
  main \in {"cleanup", "end"} =>
    /\ \A w \in Workers : wpc[w] = "exited" /\ at[w] = "out" /\ exec[w] = 0
    /\ queue_sem = QueueSize /\ cpu_sem = 0

\* Nor free an element twice: destroy_thread_info frees those of the workers
\* and destroy_sched_queue those that a walk still finds.
FreedOnce == main \in {"cleanup", "end"} => Linked = <<>>

\* lab4_tests.c:245, in a test such as test_rr_10_2_3: the scheduler prints
\* its last line.
SchedulerPrintsDone == <>(sched = "done" \/ main = "failed")

=============================================================================
