------------------------------ MODULE Scheduler ------------------------------
(***************************************************************************)
(* The user-level thread scheduler of TeamLastPicked_p4: the skeleton of    *)
(* scheduler.c (the main thread, the scheduler thread, the worker threads)  *)
(* with the two policies of sched_impl.c, FIFO and round robin.             *)
(*                                                                         *)
(* A step is one semaphore operation, one access to a shared variable, one  *)
(* call of list.c, or one line of output; local work rides along with it.   *)
(* Calls of list.c are atomic here and the list is a sequence.              *)
(* SchedulerList opens them up into single pointer accesses and says when   *)
(* that makes no difference.                                                *)
(***************************************************************************)
EXTENDS Integers, Sequences, FiniteSets, SequencesExt

CONSTANTS
  NumWorkers,   \* thread_count, argv[3]
  QueueSize,    \* queue_size, argv[2]
  Iterations,   \* iterations, argv[4] or WORKER_ITERATIONS
  Policy        \* argv[1]: sched_fifo or sched_rr

ASSUME SchedulerAssumption ==
  /\ NumWorkers \in Nat
  /\ QueueSize \in Nat
  /\ Iterations \in Nat
  /\ Policy \in {"fifo", "rr"}

Workers == 1 .. NumWorkers      \* indices of argses[], in creation order
NULL == 0                       \* next_worker() found nobody

VARIABLES
  main,                   \* where smp4_main is; "failed": the process is gone
  created,                \* worker threads created so far
  sched,                  \* where sched_proc is
  info,                   \* its local variable info
  wpc,                    \* where each worker_proc is
  iter,                   \* its local variable i
  loaded,                 \* what it has read of num_workers_remaining
  q,                      \* queue->q, the workers whose elements are linked
  currentPosition,        \* queue->currentPosition
  queue_sem, cpu_sem,     \* semaphores of the queue
  exec,                   \* each worker's semaphore
  num_workers_remaining

mainVars == <<main, created>>
schedVars == <<sched, info>>
workerLocals == <<iter, loaded>>
queueVars == <<q, currentPosition, queue_sem, cpu_sem>>
vars == <<mainVars, schedVars, wpc, workerLocals, queueVars, exec,
          num_workers_remaining>>

MainStates == {"init", "start", "count", "create", "report", "join", "cleanup",
               "end", "failed"}
SchedStates == {"idle", "queue", "test", "next", "wrap", "walk", "wake",
                "wait_worker", "print", "done"}
\* A worker that has been given the CPU and has not yet given it back.
CpuStates == {"work", "release", "exiting", "remove", "post", "position",
              "load", "store", "final"}
\* A worker whose list element is linked in queue->q.
LinkedStates == {"announce", "wait", "work", "release", "exiting", "remove"}
WorkerStates == {"none", "enter", "insert", "exited"} \cup LinkedStates
                  \cup CpuStates

-----------------------------------------------------------------------------
Init ==
  /\ main = "init"
  /\ created = 0
  /\ sched = "idle"
  /\ info = NULL
  /\ wpc = [w \in Workers |-> "none"]
  /\ iter = [w \in Workers |-> 0]
  /\ loaded = [w \in Workers |-> 0]
  /\ q = <<>>
  /\ currentPosition = 0
  /\ queue_sem = 0
  /\ cpu_sem = 0
  /\ exec = [w \in Workers |-> 0]
  /\ num_workers_remaining = 0

\* exit_error() and a segmentation fault take every thread down with them.
Alive == main # "failed"

SchedStep(from, to) == Alive /\ sched = from /\ sched' = to
WorkerStep(w, from, to) ==
  Alive /\ wpc[w] = from /\ wpc' = [wpc EXCEPT ![w] = to]

-----------------------------------------------------------------------------
(* The main thread: smp4_main.                                             *)

\* Mutant: the CPU semaphore starts free.
InitSchedQueueCpuFree ==
  /\ main = "init" /\ main' = "start"
  /\ q' = <<>>
  /\ currentPosition' = 0
  /\ cpu_sem' = 1
  /\ queue_sem' = QueueSize
  /\ UNCHANGED <<created, schedVars, wpc, workerLocals, exec,
                 num_workers_remaining>>

InitSchedQueue ==
  /\ main = "init" /\ main' = "start"
  /\ q' = <<>>
  /\ currentPosition' = 0
  /\ cpu_sem' = 0
  /\ queue_sem' = QueueSize
  /\ UNCHANGED <<created, schedVars, wpc, workerLocals, exec,
                 num_workers_remaining>>

\* The scheduler runs from here on, before the counter below has been set; it
\* calls wait_for_queue first.
StartScheduler ==
  /\ main = "start" /\ main' = "count"
  /\ sched' = "queue"
  /\ UNCHANGED <<created, info, wpc, workerLocals, queueVars, exec,
                 num_workers_remaining>>

SetRemaining ==
  /\ main = "count"
  /\ main' = IF NumWorkers = 0 THEN "report" ELSE "create"
  /\ num_workers_remaining' = NumWorkers
  /\ UNCHANGED <<created, schedVars, wpc, workerLocals, queueVars, exec>>

\* init_thread_info and pthread_create; the thread runs at once.
CreateWorker ==
  /\ main = "create"
  /\ main' = IF created + 1 = NumWorkers THEN "report" ELSE "create"
  /\ created' = created + 1
  /\ wpc' = [wpc EXCEPT ![created + 1] = "enter"]
  /\ exec' = [exec EXCEPT ![created + 1] = 0]
  /\ UNCHANGED <<schedVars, workerLocals, queueVars, num_workers_remaining>>

\* A failing malloc of argses or a failing pthread_create ends the process.
ExitError ==
  /\ main \in {"start", "count", "create"} /\ main' = "failed"
  /\ UNCHANGED <<created, schedVars, wpc, workerLocals, queueVars, exec,
                 num_workers_remaining>>

\* "Main: waiting for scheduler" is printed.
ReportWaiting ==
  /\ main = "report" /\ main' = "join"
  /\ UNCHANGED <<created, schedVars, wpc, workerLocals, queueVars, exec,
                 num_workers_remaining>>

JoinScheduler ==
  /\ main = "join" /\ main' = "cleanup"
  /\ sched = "done"
  /\ UNCHANGED <<created, schedVars, wpc, workerLocals, queueVars, exec,
                 num_workers_remaining>>

\* Frees argses, and with them every thread_info, and the queue.
CleanUp ==
  /\ main = "cleanup" /\ main' = "end"
  /\ UNCHANGED <<created, schedVars, wpc, workerLocals, queueVars, exec,
                 num_workers_remaining>>

-----------------------------------------------------------------------------
(* The worker threads: worker_proc.                                        *)

\* Mutant: sem_trywait, its result ignored.
EnterWaitNoBlock(w) ==
  /\ WorkerStep(w, "enter", "insert")
  /\ queue_sem' = queue_sem - 1
  /\ UNCHANGED <<mainVars, schedVars, workerLocals, q, currentPosition,
                 cpu_sem, exec, num_workers_remaining>>

EnterWait(w) ==
  /\ WorkerStep(w, "enter", "insert")
  /\ queue_sem > 0
  /\ queue_sem' = queue_sem - 1
  /\ UNCHANGED <<mainVars, schedVars, workerLocals, q, currentPosition,
                 cpu_sem, exec, num_workers_remaining>>

\* Mutant: list_insert_head.
InsertHead(w) ==
  /\ WorkerStep(w, "insert", "announce")
  /\ q' = <<w>> \o q
  /\ UNCHANGED <<mainVars, schedVars, workerLocals, currentPosition, queue_sem,
                 cpu_sem, exec, num_workers_remaining>>

InsertTail(w) ==
  /\ WorkerStep(w, "insert", "announce")
  /\ q' = Append(q, w)
  /\ UNCHANGED <<mainVars, schedVars, workerLocals, currentPosition, queue_sem,
                 cpu_sem, exec, num_workers_remaining>>

\* "in scheduler queue" is printed.
Announce(w) ==
  /\ WorkerStep(w, "announce", "wait")
  /\ UNCHANGED <<mainVars, schedVars, workerLocals, queueVars, exec,
                 num_workers_remaining>>

\* Mutant: one iteration too many.
WaitForCpuOneMore(w) ==
  /\ WorkerStep(w, "wait", IF iter[w] <= Iterations THEN "work" ELSE "exiting")
  /\ exec[w] > 0
  /\ exec' = [exec EXCEPT ![w] = @ - 1]
  /\ UNCHANGED <<mainVars, schedVars, workerLocals, queueVars,
                 num_workers_remaining>>

WaitForCpu(w) ==
  /\ WorkerStep(w, "wait", IF iter[w] < Iterations THEN "work" ELSE "exiting")
  /\ exec[w] > 0
  /\ exec' = [exec EXCEPT ![w] = @ - 1]
  /\ UNCHANGED <<mainVars, schedVars, workerLocals, queueVars,
                 num_workers_remaining>>

\* "loop i" is printed.
Work(w) ==
  /\ WorkerStep(w, "work", "release")
  /\ UNCHANGED <<mainVars, schedVars, workerLocals, queueVars, exec,
                 num_workers_remaining>>

ReleaseCpu(w) ==
  /\ WorkerStep(w, "release", "wait")
  /\ cpu_sem' = cpu_sem + 1
  /\ iter' = [iter EXCEPT ![w] = @ + 1]
  /\ UNCHANGED <<mainVars, schedVars, loaded, q, currentPosition, queue_sem,
                 exec, num_workers_remaining>>

\* "exiting" is printed.
Exiting(w) ==
  /\ WorkerStep(w, "exiting", "remove")
  /\ UNCHANGED <<mainVars, schedVars, workerLocals, queueVars, exec,
                 num_workers_remaining>>

RemoveElem(w) ==
  /\ WorkerStep(w, "remove", "post")
  /\ \E i \in 1 .. Len(q) : q[i] = w /\ q' = RemoveAt(q, i)
  /\ UNCHANGED <<mainVars, schedVars, workerLocals, currentPosition, queue_sem,
                 cpu_sem, exec, num_workers_remaining>>

\* Mutant: leave_sched_queue does not post queue_sem.
PostQueueForgotten(w) ==
  /\ WorkerStep(w, "post", "position")
  /\ UNCHANGED <<mainVars, schedVars, workerLocals, queueVars, exec,
                 num_workers_remaining>>

PostQueue(w) ==
  /\ WorkerStep(w, "post", "position")
  /\ queue_sem' = queue_sem + 1
  /\ UNCHANGED <<mainVars, schedVars, workerLocals, q, currentPosition,
                 cpu_sem, exec, num_workers_remaining>>

\* Mutant: leave_sched_queue does not step back.
StepBackForgotten(w) ==
  /\ WorkerStep(w, "position", "load")
  /\ UNCHANGED <<mainVars, schedVars, workerLocals, queueVars, exec,
                 num_workers_remaining>>

StepBack(w) ==
  /\ WorkerStep(w, "position", "load")
  /\ currentPosition' = currentPosition - 1
  /\ UNCHANGED <<mainVars, schedVars, workerLocals, q, queue_sem, cpu_sem,
                 exec, num_workers_remaining>>

\* num_workers_remaining-- is a load and a store of a plain int.
LoadRemaining(w) ==
  /\ WorkerStep(w, "load", "store")
  /\ loaded' = [loaded EXCEPT ![w] = num_workers_remaining]
  /\ UNCHANGED <<mainVars, schedVars, iter, queueVars, exec,
                 num_workers_remaining>>

StoreRemaining(w) ==
  /\ WorkerStep(w, "store", "final")
  /\ num_workers_remaining' = loaded[w] - 1
  /\ UNCHANGED <<mainVars, schedVars, workerLocals, queueVars, exec>>

\* Mutant: a worker exits without giving the CPU back.
FinalReleaseForgotten(w) ==
  /\ WorkerStep(w, "final", "exited")
  /\ UNCHANGED <<mainVars, schedVars, workerLocals, queueVars, exec,
                 num_workers_remaining>>

FinalRelease(w) ==
  /\ WorkerStep(w, "final", "exited")
  /\ cpu_sem' = cpu_sem + 1
  /\ UNCHANGED <<mainVars, schedVars, workerLocals, q, currentPosition,
                 queue_sem, exec, num_workers_remaining>>

-----------------------------------------------------------------------------
(* The scheduler thread: sched_proc.                                       *)

\* Mutant: wait_for_queue does not wait.
WaitForQueueNoWait ==
  /\ SchedStep("queue", "test")
  /\ UNCHANGED <<mainVars, info, wpc, workerLocals, queueVars, exec,
                 num_workers_remaining>>

\* wait_for_queue spins until the list is not empty; both of its callers go on
\* to the test of the loop.
WaitForQueue ==
  /\ SchedStep("queue", "test")
  /\ q # <<>>
  /\ UNCHANGED <<mainVars, info, wpc, workerLocals, queueVars, exec,
                 num_workers_remaining>>

\* Mutant: the scheduler stops one worker early.
TestRemainingEarly ==
  /\ SchedStep("test", IF num_workers_remaining > 1 THEN "next" ELSE "print")
  /\ UNCHANGED <<mainVars, info, wpc, workerLocals, queueVars, exec,
                 num_workers_remaining>>

TestRemaining ==
  /\ SchedStep("test", IF num_workers_remaining > 0 THEN "next" ELSE "print")
  /\ UNCHANGED <<mainVars, info, wpc, workerLocals, queueVars, exec,
                 num_workers_remaining>>

\* Mutant: list_get_tail.
FifoNextTail ==
  /\ Policy = "fifo"
  /\ info' = IF q = <<>> THEN NULL ELSE Last(q)
  /\ SchedStep("next", IF q = <<>> THEN "queue" ELSE "wake")
  /\ UNCHANGED <<mainVars, wpc, workerLocals, queueVars, exec,
                 num_workers_remaining>>

\* fifo_next_worker, and the branch on its result.
FifoNext ==
  /\ Policy = "fifo"
  /\ info' = IF q = <<>> THEN NULL ELSE Head(q)
  /\ SchedStep("next", IF q = <<>> THEN "queue" ELSE "wake")
  /\ UNCHANGED <<mainVars, wpc, workerLocals, queueVars, exec,
                 num_workers_remaining>>

\* rr_next_worker calls list_size twice and list_get_head once: workers may
\* enter the queue between these calls.
RRNext ==
  /\ Policy = "rr"
  /\ info' = IF q = <<>> THEN NULL ELSE info
  /\ SchedStep("next", IF q = <<>> THEN "queue" ELSE "wrap")
  /\ UNCHANGED <<mainVars, wpc, workerLocals, queueVars, exec,
                 num_workers_remaining>>

\* Mutant: the round starts over one element early.
RRWrapEarly ==
  /\ SchedStep("wrap", "walk")
  /\ currentPosition' =
       IF currentPosition >= Len(q) - 1 THEN 0 ELSE currentPosition
  /\ UNCHANGED <<mainVars, info, wpc, workerLocals, q, queue_sem, cpu_sem,
                 exec, num_workers_remaining>>

RRWrap ==
  /\ SchedStep("wrap", "walk")
  /\ currentPosition' = IF currentPosition = Len(q) THEN 0 ELSE currentPosition
  /\ UNCHANGED <<mainVars, info, wpc, workerLocals, q, queue_sem, cpu_sem,
                 exec, num_workers_remaining>>

\* The element the walk from the head ends on, 0 for the head and Len(q) for
\* the NULL behind the tail, from which a longer walk starts over.
WalkTo(pos) == IF pos <= 0 THEN 0 ELSE pos % (Len(q) + 1)

\* Following the NULL behind the tail to its datum is a segmentation fault.
RRWalk ==
  /\ Alive /\ sched = "walk"
  /\ IF WalkTo(currentPosition) < Len(q)
       THEN /\ sched' = "wake"
            /\ info' = q[WalkTo(currentPosition) + 1]
            /\ currentPosition' = currentPosition + 1
            /\ UNCHANGED main
       ELSE /\ main' = "failed"
            /\ UNCHANGED <<sched, info, currentPosition>>
  /\ UNCHANGED <<created, wpc, workerLocals, q, queue_sem, cpu_sem, exec,
                 num_workers_remaining>>

WakeUpWorker ==
  /\ SchedStep("wake", "wait_worker")
  /\ exec' = [exec EXCEPT ![info] = @ + 1]
  /\ UNCHANGED <<mainVars, info, wpc, workerLocals, queueVars,
                 num_workers_remaining>>

WaitForWorker ==
  /\ SchedStep("wait_worker", "test")
  /\ cpu_sem > 0
  /\ cpu_sem' = cpu_sem - 1
  /\ UNCHANGED <<mainVars, info, wpc, workerLocals, q, currentPosition,
                 queue_sem, exec, num_workers_remaining>>

\* "Scheduler: done!" is printed and the thread returns.
SchedulerDone ==
  /\ SchedStep("print", "done")
  /\ UNCHANGED <<mainVars, info, wpc, workerLocals, queueVars, exec,
                 num_workers_remaining>>

-----------------------------------------------------------------------------
Main ==
  \/ InitSchedQueue \/ StartScheduler \/ SetRemaining \/ CreateWorker
  \/ ExitError \/ ReportWaiting \/ JoinScheduler \/ CleanUp

Worker(w) ==
  \/ EnterWait(w) \/ InsertTail(w) \/ Announce(w)
  \/ WaitForCpu(w) \/ Work(w) \/ ReleaseCpu(w)
  \/ Exiting(w) \/ RemoveElem(w) \/ PostQueue(w) \/ StepBack(w)
  \/ LoadRemaining(w) \/ StoreRemaining(w) \/ FinalRelease(w)

SchedProc ==
  \/ WaitForQueue \/ TestRemaining
  \/ FifoNext \/ RRNext \/ RRWrap \/ RRWalk
  \/ WakeUpWorker \/ WaitForWorker \/ SchedulerDone

\* smp4_main ends its thread with pthread_exit: the process ends when every
\* thread has.
Exited ==
  /\ main = "end"
  /\ sched = "done"
  /\ \A w \in Workers : wpc[w] = "exited"

Terminated == (Exited \/ ~ Alive) /\ UNCHANGED vars

Next == Main \/ SchedProc \/ (\E w \in Workers : Worker(w)) \/ Terminated

Spec == Init /\ [][Next]_vars

\* Every thread is a kernel thread: one that can run eventually does.  Weak
\* fairness is enough for sem_wait, since each worker passes queue_sem once and
\* the other semaphores have a single waiter.
Fairness ==
  /\ WF_vars(Main)
  /\ WF_vars(SchedProc)
  /\ \A w \in Workers : WF_vars(Worker(w))

FairSpec == Spec /\ Fairness

-----------------------------------------------------------------------------
(* Correctness.                                                            *)

TypeOK ==
  /\ main \in MainStates
  /\ created \in 0 .. NumWorkers
  /\ sched \in SchedStates
  /\ info \in Workers \cup {NULL}
  /\ wpc \in [Workers -> WorkerStates]
  /\ iter \in [Workers -> Nat]
  /\ loaded \in [Workers -> Int]
  /\ q \in Seq(Workers)
  /\ currentPosition \in Int
  /\ queue_sem \in Nat
  /\ cpu_sem \in Nat
  /\ exec \in [Workers -> Nat]
  /\ num_workers_remaining \in Int

\* The scheduler has posted w's semaphore and w has not yet posted cpu_sem.
HasCpu(w) == exec[w] > 0 \/ wpc[w] \in CpuStates

\* The scheduler and the workers hand a single CPU to and fro: from
\* wake_up_worker to the end of wait_for_worker exactly one worker has it or it
\* lies in cpu_sem, and while the scheduler chooses nobody does.  The code has
\* no lock; two semaphores per turn have to add up to one.
OneOnCpu ==
  /\ \A v, w \in Workers : HasCpu(v) /\ HasCpu(w) => v = w
  /\ \A w \in Workers : HasCpu(w) =>
       sched = "wait_worker" /\ info = w /\ cpu_sem = 0 /\ exec[w] < 2
  /\ cpu_sem > 0 => sched = "wait_worker" /\ cpu_sem = 1

RemainingUser(w) == wpc[w] \in {"load", "store"}

\* scheduler.c:26-29: the scheduler implementation provides all of the
\* synchronization that num_workers_remaining needs.  No two threads are ever
\* about to access it, and main sets it before anybody reads it (119-120).
RemainingRaceFree ==
  /\ \A v, w \in Workers : RemainingUser(v) /\ RemainingUser(w) => v = w
  /\ sched = "test" => main # "count" /\ \A w \in Workers : ~ RemainingUser(w)
  /\ main = "count" => \A w \in Workers : ~ RemainingUser(w)

\* No decrement of the counter is lost: what the scheduler reads is how many
\* workers have not left yet, those not created yet included.
RemainingExact ==
  main \notin {"init", "start", "count", "failed"} =>
    num_workers_remaining =
      Cardinality({w \in Workers : wpc[w] \notin {"final", "exited"}})

\* currentPosition after a leaving worker has stepped it back: between
\* list_remove_elem and the decrement it is one too far.
Position ==
  IF \E w \in Workers : wpc[w] \in {"post", "position"}
    THEN currentPosition - 1 ELSE currentPosition

\* Round robin keeps its place in the list although others join and the
\* running worker leaves: the worker being served is the one at the position,
\* and rr_next_worker's walk never runs off the list into a NULL element.
PlaceKept ==
  Policy = "rr" =>
    /\ Position \in 0 .. Len(q)
    /\ sched = "walk" => currentPosition < Len(q)
    /\ \A w \in Workers :
         (exec[w] > 0 \/ wpc[w] \in {"work", "release", "exiting", "remove"}) =>
           currentPosition > 0 /\ q[currentPosition] = w

\* lab4_tests.c:249, scheduler.c:97: no more than queue_size threads are in the
\* scheduler at one time, and each place given up is free for somebody else.
PlacesInQueue ==
  main # "init" =>
    /\ Len(q) <= QueueSize
    /\ queue_sem + Cardinality({w \in Workers :
         wpc[w] \in {"insert", "post"} \cup LinkedStates}) = QueueSize

\* scheduler.c:141: main frees the thread arguments, the list and the
\* semaphores only when no worker will touch them again, and finds them as
\* init_sched_queue made them.
CleanExit ==
  main \in {"cleanup", "end"} =>
    /\ \A w \in Workers : wpc[w] = "exited" /\ exec[w] = 0
    /\ q = <<>> /\ queue_sem = QueueSize /\ cpu_sem = 0

\* Every run ends: all workers do their iterations, the scheduler notices, and
\* main returns, unless a thread could not be created.
Termination == <>(Exited \/ ~ Alive)

\* The scheduler implements CpuTurns: worker w runs from the moment next_worker
\* has chosen it to its post of cpu_sem.
Turns == INSTANCE CpuTurns WITH
  Places <- QueueSize,
  Slices <- Iterations,
  line <- q,
  served <- IF Policy = "fifo" THEN {} ELSE {q[i] : i \in 1 .. Position},
  running <- IF sched \in {"wake", "wait_worker"} /\ cpu_sem = 0
               THEN info ELSE NULL,
  slices <- iter,
  gone <- {w \in Workers : wpc[w] \in {"post", "position", "load", "store",
                                       "final", "exited"}}

ImplementsCpuTurns == Turns!Spec

=============================================================================
