---------------------------- MODULE SchedulerLog ----------------------------
(***************************************************************************)
(* What lab4_tests.c concludes from the output of the scheduler.            *)
(* test_whatever runs the program with its output in smp4.out and reads it  *)
(* when the process has ended; here the readers run along, one line at a    *)
(* time, and their verdict counts when the process has ended.  Only the     *)
(* lines that they look at are kept apart.                                  *)
(*                                                                         *)
(* A line names its thread by its pthread_t.  check_executed and            *)
(* check_executed_rr look up their buckets by that number cut to an int,    *)
(* here id, and the workers are detached: the number of a worker that has   *)
(* exited may come back with the next one.  The other comparisons are of    *)
(* whole numbers and only between workers that have not exited, where they  *)
(* are as good as the workers themselves.                                   *)
(*                                                                         *)
(* turns is not printed: it says who has been served since whom.            *)
(***************************************************************************)
EXTENDS Scheduler

VARIABLES
  id,                  \* the number that each worker prints, cut to an int,
                       \* named after the first worker that got it
  shared,              \* whether two workers had the same number at once
  final_threads, threads_max, admitted_threads,     \* compute_queue_size
  executed,            \* check_executed: bucket of each thread, and verdict
  fifo,                \* check_executed_fifo: prev_thread, counter, verdict
  rr,                  \* check_executed_rr: buckets, stepnum, rrq, verdict
  turns                \* turns[w][u]: u's turns since w joined or had its own

ids == <<id, shared>>
readers == <<final_threads, threads_max, admitted_threads, executed, fifo, rr>>
logVars == <<vars, ids, readers, turns>>

NoBucket == -1
NoThread == 0

LogInit ==
  /\ Init
  /\ id = [w \in Workers |-> NoThread] /\ shared = FALSE
  /\ final_threads = 0 /\ threads_max = 0 /\ admitted_threads = 0
  /\ executed = [bucket |-> [w \in Workers |-> NoBucket], ok |-> TRUE]
  /\ fifo = [prev_thread |-> NoThread, counter |-> 0, ok |-> TRUE]
  /\ rr = [bucket |-> [w \in Workers |-> NoBucket], stepnum |-> 1,
           rrq |-> <<>>, ok |-> TRUE]
  /\ turns = [w \in Workers |-> [u \in Workers |-> 0]]

-----------------------------------------------------------------------------
(* The readers, one line each.                                             *)

\* compute_queue_size; threads_min can only fall when a thread exits that was
\* not admitted, which check_executed notices too.
CountAdmitted ==
  /\ admitted_threads' = admitted_threads + 1
  /\ final_threads' = final_threads + 1
  /\ threads_max' = IF final_threads' > threads_max THEN final_threads'
                                                    ELSE threads_max

CountExiting ==
  /\ final_threads' = final_threads - 1
  /\ UNCHANGED <<admitted_threads, threads_max>>

\* check_executed.  lookup_bucket makes a bucket of value 0 for a new number.
Bucket(buckets, k) == IF buckets[k] = NoBucket THEN 0 ELSE buckets[k]

ExecutedAdmitted(k) == executed' = [executed EXCEPT !.bucket[k] = 0]

ExecutedLoop(k, i) ==
  executed' = [executed EXCEPT !.bucket[k] = Bucket(executed.bucket, k) + 1,
                               !.ok = @ /\ Bucket(executed.bucket, k) = i]

ExecutedExiting(k) ==
  executed' = [executed EXCEPT
    !.ok = @ /\ Bucket(executed.bucket, k) = Iterations]

\* check_executed_fifo: the loops between two exits are all of one thread.
FifoLoop(w) ==
  fifo' = [fifo EXCEPT !.prev_thread = IF @ = NoThread THEN w ELSE @,
                       !.counter = @ + 1,
                       !.ok = @ /\ fifo.prev_thread \in {NoThread, w}]

FifoExiting ==
  fifo' = [prev_thread |-> NoThread, counter |-> 0,
           ok |-> fifo.ok /\ fifo.counter = Iterations]

\* check_executed_rr: in one step every thread that is in the queue has one
\* loop, and threads keep the order of their first loops.
RRAdmitted(k) == rr' = [rr EXCEPT !.bucket[k] = rr.stepnum]

RRLoop(w, k, i) ==
  LET ahead == Bucket(rr.bucket, k) > rr.stepnum
      step == IF ahead THEN rr.stepnum + 1 ELSE rr.stepnum
      left == \E u \in Workers : rr.bucket[u] = rr.stepnum
      first == i = 0
  IN rr' = [bucket |-> [rr.bucket EXCEPT ![k] = step + 1],
            stepnum |-> step,
            rrq |-> IF first THEN Append(rr.rrq, w)
                    ELSE IF rr.rrq = <<>> THEN <<>>
                    ELSE Append(Tail(rr.rrq), Head(rr.rrq)),
            ok |-> /\ rr.ok
                   /\ ~ (ahead /\ left)
                   /\ first \/ (rr.rrq # <<>> /\ Head(rr.rrq) = w)]

RRExiting(w, k) ==
  rr' = [rr EXCEPT !.bucket[k] = 0,
                   !.rrq = IF @ = <<>> THEN @ ELSE Tail(@),
                   !.ok = @ /\ rr.rrq # <<>> /\ Head(rr.rrq) = w]

-----------------------------------------------------------------------------
(* The lines, each printed by the step that is named.                      *)

LineAdmitted(w) ==
  /\ Announce(w)
  /\ CountAdmitted /\ ExecutedAdmitted(id[w]) /\ RRAdmitted(id[w])
  /\ UNCHANGED <<ids, fifo, turns>>

LineLoop(w) ==
  /\ Work(w)
  /\ ExecutedLoop(id[w], iter[w]) /\ FifoLoop(w) /\ RRLoop(w, id[w], iter[w])
  /\ UNCHANGED <<ids, final_threads, threads_max, admitted_threads, turns>>

LineExiting(w) ==
  /\ Exiting(w)
  /\ CountExiting /\ ExecutedExiting(id[w]) /\ FifoExiting
  /\ RRExiting(w, id[w])
  /\ UNCHANGED <<ids, turns>>

-----------------------------------------------------------------------------
(* Numbers.                                                                *)

\* pthread_create numbers the new worker; cut to an int, its number may be that
\* of any worker before.
NumberWorker ==
  LET w == created + 1
  IN /\ CreateWorker
     /\ \E k \in {w} \cup {id[u] : u \in 1 .. created} :
          /\ id' = [id EXCEPT ![w] = k]
          /\ shared' = (shared \/ \E u \in 1 .. created :
                                    id[u] = k /\ wpc[u] # "exited")
     /\ UNCHANGED <<readers, turns>>

\* No number was given twice.
OwnIds == \A v, w \in Workers : id[v] = id[w] => v = w

-----------------------------------------------------------------------------
(* Turns.                                                                  *)

\* next_worker has chosen u.
Served(u) ==
  turns' = [w \in Workers |->
    IF w = u THEN [v \in Workers |-> 0]
    ELSE [turns[w] EXCEPT ![u] = IF \E i \in 1 .. Len(q) : q[i] = w
                                   THEN @ + 1 ELSE @]]

Choose ==
  /\ FifoNext \/ RRWalk
  /\ IF sched' = "wake" THEN Served(info') ELSE UNCHANGED turns
  /\ UNCHANGED <<ids, readers>>

Silent ==
  /\ UNCHANGED <<ids, readers, turns>>
  /\ \/ InitSchedQueue \/ StartScheduler \/ SetRemaining
     \/ ExitError \/ ReportWaiting \/ JoinScheduler \/ CleanUp
     \/ WaitForQueue \/ TestRemaining \/ RRNext \/ RRWrap \/ WakeUpWorker
     \/ WaitForWorker \/ SchedulerDone
     \/ Terminated
     \/ \E w \in Workers :
          \/ EnterWait(w) \/ InsertTail(w) \/ WaitForCpu(w) \/ ReleaseCpu(w)
          \/ RemoveElem(w) \/ PostQueue(w) \/ StepBack(w)
          \/ LoadRemaining(w) \/ StoreRemaining(w) \/ FinalRelease(w)

LogNext ==
  \/ NumberWorker \/ Choose \/ Silent
  \/ \E w \in Workers : LineAdmitted(w) \/ LineLoop(w) \/ LineExiting(w)

LogSpec == LogInit /\ [][LogNext]_logVars

LogFairSpec == LogSpec /\ Fairness

-----------------------------------------------------------------------------
\* check_rudimentary as far as it is about the workers, for every run that
\* ends: the queue was never printed to be over full, and all was said that
\* had to be.  Unless two workers had the same number at once each did its
\* iterations in order, and check_executed gets as far as its last line; but
\* that counts numbers: it accepts exactly the runs that give none twice.
RejectsOnlyReuse ==
  /\ threads_max <= QueueSize
  /\ ~ shared => executed.ok
  /\ Exited =>
       /\ final_threads = 0 /\ admitted_threads = NumWorkers
       /\ OwnIds <=>
            Cardinality({k \in Workers : executed.bucket[k] # NoBucket}) = NumWorkers

\* check_executed_fifo never rejects the FIFO scheduler.
CheckFifo == Policy = "fifo" => fifo.ok

\* Round robin: while a worker waits for its next turn no other worker has
\* two, whoever joins or leaves meanwhile.
NobodyTwice ==
  Policy = "rr" =>
    \A i \in 1 .. Len(q) : \A u \in Workers : turns[q[i]][u] <= 1

\* And it waits for no more turns than there are other places in the queue:
\* who was served before it in this pass is not served again, and the place of
\* one that leaves is taken behind it.
WaitBound ==
  Policy = "rr" =>
    \A i \in 1 .. Len(q) :
      Cardinality({u \in Workers : turns[q[i]][u] > 0}) < QueueSize

\* lab4_tests.c:272: check_executed_rr accepts the round robin scheduler, when
\* no number comes back.
CheckRR == Policy = "rr" /\ Exited /\ OwnIds => rr.ok

=============================================================================
