--------------------------- MODULE SchedulerProofs ---------------------------
(***************************************************************************)
(* Theorems about Scheduler, for every number of workers, size of the      *)
(* queue, number of iterations and both policies: first who has the CPU,   *)
(* then what is counted, the workers that remain and the places in the     *)
(* queue, and with them what main finds when it frees everything, then     *)
(* whose turn it is and how that implements the line of CpuTurns, and at   *)
(* last, of SchedulerLog, what lab4_tests.c reads in the output and how    *)
(* fair the schedules are.                                                 *)
(***************************************************************************)
EXTENDS SchedulerLog, Induction

-----------------------------------------------------------------------------
(* The inductive invariant.                                                *)

\* Which workers exist, and how far main has come.
Creation ==
  /\ \A w \in Workers : wpc[w] = "none" <=> w > created
  /\ main \in {"init", "start", "count"} => created = 0
  /\ main = "create" => created < NumWorkers
  /\ main \in {"init", "start"} => sched = "idle"
  /\ sched \notin {"idle", "queue"} => created > 0

\* The list holds exactly the workers that have entered and not left, each once.
Listed ==
  /\ \A i \in 1 .. Len(q) : wpc[q[i]] \in LinkedStates
  /\ \A i, j \in 1 .. Len(q) : q[i] = q[j] => i = j
  /\ \A w \in Workers : wpc[w] \in LinkedStates => \E i \in 1 .. Len(q) : q[i] = w

\* Nobody has the CPU unless the scheduler waits for it, and then either one
\* worker, the chosen one, has it or it has been given back.
Baton ==
  /\ sched # "wait_worker" => cpu_sem = 0 /\ \A w \in Workers : ~ HasCpu(w)
  /\ sched = "wake" => info \in Workers /\ wpc[info] \in {"announce", "wait"}
  /\ sched = "wait_worker" =>
       \/ cpu_sem = 1 /\ \A w \in Workers : ~ HasCpu(w)
       \/ /\ cpu_sem = 0
          /\ info \in Workers
          /\ \A w \in Workers : HasCpu(w) => w = info
          /\ \/ exec[info] = 1 /\ wpc[info] \in {"announce", "wait"}
             \/ exec[info] = 0 /\ wpc[info] \in CpuStates

IInv == TypeOK /\ Creation /\ Listed /\ Baton

\* In the initial state nothing has run.
LEMMA InitIInv == Init => IInv
BY SchedulerAssumption DEF Workers, NULL, Init, IInv, TypeOK, Creation, Listed, Baton, HasCpu, MainStates,
       SchedStates, WorkerStates, LinkedStates, CpuStates

\* The list holds workers.
LEMMA ListedWorkers == TypeOK => \A i \in 1 .. Len(q) : q[i] \in Workers
BY DEF TypeOK

-----------------------------------------------------------------------------
(* The steps.                                                              *)
USE DEF vars, mainVars, schedVars, workerLocals, queueVars, Alive

\* The steps of main keep the invariant.
LEMMA MainIInv == IInv /\ Main => IInv'
<1> SUFFICES ASSUME IInv, Main PROVE IInv'
  OBVIOUS
<1> USE DEF IInv
<1>1. CASE InitSchedQueue
  <2>1. TypeOK'
    BY <1>1, SchedulerAssumption DEF InitSchedQueue, TypeOK, MainStates
  <2>2. Creation'
    BY <1>1 DEF InitSchedQueue, TypeOK, Creation
  <2>3. Listed'
    <3>1. \A w \in Workers : wpc'[w] = "none"
      BY <1>1 DEF InitSchedQueue, TypeOK, Creation, Workers
    <3> QED
      BY <1>1, <3>1 DEF InitSchedQueue, Listed, LinkedStates
  <2>4. Baton'
    BY <1>1 DEF InitSchedQueue, TypeOK, Creation, Baton, HasCpu
  <2> QED
    BY <2>1, <2>2, <2>3, <2>4
<1>2. CASE StartScheduler
  BY <1>2 DEF StartScheduler, 
       TypeOK, MainStates, SchedStates, WorkerStates, Creation, Listed, Baton, HasCpu
<1>3. CASE SetRemaining
  BY <1>3, SchedulerAssumption DEF SetRemaining,
       TypeOK, MainStates, SchedStates, WorkerStates, Creation, Listed, Baton, HasCpu
<1>4. CASE CreateWorker
  <2>1. TypeOK'
    BY <1>4, SchedulerAssumption DEF CreateWorker, TypeOK, Creation, Workers,
       MainStates, SchedStates, WorkerStates
  <2>2. Creation'
    BY <1>4, SchedulerAssumption DEF CreateWorker, TypeOK, Creation, Workers
  <2> DEFINE new == created + 1
  <2>3. /\ new \in Workers /\ wpc[new] = "none" /\ wpc'[new] = "enter"
        /\ exec'[new] = 0
        /\ \A w \in Workers \ {new} : wpc'[w] = wpc[w] /\ exec'[w] = exec[w]
        /\ q' = q /\ sched' = sched /\ info' = info /\ cpu_sem' = cpu_sem
    BY <1>4, SchedulerAssumption DEF CreateWorker, TypeOK, Creation, Workers
  <2> HIDE DEF new
  <2>4. Listed'
    <3>1. \A i \in 1 .. Len(q) : q[i] \in Workers \ {new}
      BY <2>3, ListedWorkers DEF Listed, LinkedStates
    <3> QED
      BY <2>3, <3>1 DEF Listed, LinkedStates
  <2>5. Baton'
    <3>1. \A w \in Workers : HasCpu(w)' => HasCpu(w)
      BY <2>3 DEF HasCpu, CpuStates
    <3>2. info \in Workers /\ wpc[info] # "none" =>
            wpc'[info] = wpc[info] /\ exec'[info] = exec[info]
      BY <2>3
    <3>3. "none" \notin CpuStates \cup {"announce", "wait"}
      BY DEF CpuStates
    <3>4. CASE sched # "wait_worker"
      BY <2>3, <3>1, <3>2, <3>3, <3>4 DEF Baton
    <3>5. CASE sched = "wait_worker"
      BY <2>3, <3>1, <3>2, <3>3, <3>5 DEF Baton
    <3> QED
      BY <3>4, <3>5
  <2> QED
    BY <2>1, <2>2, <2>4, <2>5
<1>5. CASE ExitError
  <2>1. TypeOK'
    BY <1>5 DEF ExitError, TypeOK,
       MainStates, SchedStates, WorkerStates
  <2>2. Creation'
    BY <1>5 DEF ExitError, TypeOK, Creation
  <2>3. Listed'
    BY <1>5 DEF ExitError, TypeOK, Listed
  <2>4. Baton'
    BY <1>5 DEF ExitError, TypeOK, Baton, HasCpu
  <2> QED
    BY <2>1, <2>2, <2>3, <2>4
<1>6. CASE ReportWaiting
  <2>1. TypeOK'
    BY <1>6 DEF ReportWaiting, TypeOK,
       MainStates, SchedStates, WorkerStates
  <2>2. Creation'
    BY <1>6 DEF ReportWaiting, TypeOK, Creation
  <2>3. Listed'
    BY <1>6 DEF ReportWaiting, TypeOK, Listed
  <2>4. Baton'
    BY <1>6 DEF ReportWaiting, TypeOK, Baton, HasCpu
  <2> QED
    BY <2>1, <2>2, <2>3, <2>4
<1>7. CASE JoinScheduler
  BY <1>7 DEF JoinScheduler, 
       TypeOK, MainStates, SchedStates, WorkerStates, Creation, Listed, Baton, HasCpu
<1>8. CASE CleanUp
  <2>1. TypeOK'
    BY <1>8 DEF CleanUp, TypeOK,
       MainStates, SchedStates, WorkerStates
  <2>2. Creation'
    BY <1>8 DEF CleanUp, TypeOK, Creation
  <2>3. Listed'
    BY <1>8 DEF CleanUp, TypeOK, Listed
  <2>4. Baton'
    BY <1>8 DEF CleanUp, TypeOK, Baton, HasCpu
  <2> QED
    BY <2>1, <2>2, <2>3, <2>4
<1> QED
  BY <1>1, <1>2, <1>3, <1>4, <1>5, <1>6, <1>7, <1>8 DEF Main

\* A worker at one of the CpuStates is the one the scheduler waits for, and it
\* alone has the CPU.
LEMMA OwnsCpu ==
  ASSUME IInv, NEW w \in Workers, wpc[w] \in CpuStates
  PROVE  /\ sched = "wait_worker" /\ info = w /\ cpu_sem = 0 /\ exec[w] = 0
         /\ \A v \in Workers \ {w} : ~ HasCpu(v)
<1>1. HasCpu(w)
  BY DEF HasCpu
<1>2. sched = "wait_worker" /\ cpu_sem = 0 /\ info = w
  BY <1>1 DEF IInv, Baton
<1>3. \A v \in Workers \ {w} : ~ HasCpu(v)
  BY <1>1, <1>2 DEF IInv, Baton
<1>4. exec[w] = 0
  BY <1>1, <1>2 DEF IInv, Baton, CpuStates
<1> QED
  BY <1>2, <1>3, <1>4

\* The steps of a worker keep the invariant.
LEMMA WorkerIInv == ASSUME IInv, NEW w \in Workers, Worker(w) PROVE IInv'
<1> USE DEF IInv, WorkerStep
<1>1. CASE EnterWait(w)
  <2>1. TypeOK'
    BY <1>1 DEF EnterWait, TypeOK, WorkerStates, LinkedStates, CpuStates
  <2>2. Creation'
    BY <1>1 DEF EnterWait, TypeOK, Creation
  <2>3. Listed'
    BY <1>1, ListedWorkers DEF EnterWait, TypeOK, Listed, LinkedStates
  <2>4. Baton'
    BY <1>1, OwnsCpu DEF EnterWait, TypeOK, Baton, HasCpu, CpuStates
  <2> QED
    BY <2>1, <2>2, <2>3, <2>4
<1>2. CASE InsertTail(w)
  <2>1. TypeOK'
    BY <1>2 DEF InsertTail, TypeOK, WorkerStates, LinkedStates, CpuStates
  <2>2. Creation'
    BY <1>2 DEF InsertTail, TypeOK, Creation
  <2>3. Listed'
    <3> DEFINE n == Len(q) + 1
    <3>1. /\ Len(q') = n /\ n \in Nat /\ q'[n] = w
          /\ \A i \in 1 .. Len(q) : q'[i] = q[i]
      BY <1>2 DEF InsertTail, TypeOK
    <3>2. /\ wpc'[w] = "announce" /\ wpc[w] = "insert"
          /\ \A v \in Workers \ {w} : wpc'[v] = wpc[v]
      BY <1>2 DEF InsertTail, TypeOK
    <3>3. \A i \in 1 .. Len(q) : q[i] \in Workers \ {w}
      BY <3>2, ListedWorkers DEF Listed, LinkedStates
    <3>4. Len(q) \in Nat /\ \A i \in 1 .. n : i = n \/ i \in 1 .. Len(q)
      <4>1. Len(q) \in Nat
        BY DEF TypeOK
      <4> QED
        BY <4>1
    <3> HIDE DEF n
    <3>5. \A i \in 1 .. n : wpc'[q'[i]] \in LinkedStates
      BY <3>1, <3>2, <3>3, <3>4 DEF Listed, LinkedStates
    <3>6. \A i, j \in 1 .. n : q'[i] = q'[j] => i = j
      BY <3>1, <3>3, <3>4 DEF Listed
    <3>7. \A v \in Workers : wpc'[v] \in LinkedStates =>
            \E i \in 1 .. n : q'[i] = v
      <4>1. n \in 1 .. n /\ \A i \in 1 .. Len(q) : i \in 1 .. n
        BY <3>4 DEF n
      <4> QED
        BY <4>1, <3>1, <3>2 DEF Listed
    <3> QED
      BY <3>1, <3>5, <3>6, <3>7 DEF Listed
  <2>4. Baton'
    BY <1>2, OwnsCpu DEF InsertTail, TypeOK, Baton, HasCpu, CpuStates
  <2> QED
    BY <2>1, <2>2, <2>3, <2>4
<1>3. CASE Announce(w)
  <2>1. TypeOK'
    BY <1>3 DEF Announce, TypeOK, WorkerStates, LinkedStates, CpuStates
  <2>2. Creation'
    BY <1>3 DEF Announce, TypeOK, Creation
  <2>3. Listed'
    BY <1>3, ListedWorkers DEF Announce, TypeOK, Listed, LinkedStates
  <2>4. Baton'
    BY <1>3, OwnsCpu DEF Announce, TypeOK, Baton, HasCpu, CpuStates
  <2> QED
    BY <2>1, <2>2, <2>3, <2>4
<1>4. CASE WaitForCpu(w)
  <2>1. TypeOK'
    BY <1>4 DEF WaitForCpu, TypeOK, WorkerStates, LinkedStates, CpuStates
  <2>2. Creation'
    BY <1>4 DEF WaitForCpu, TypeOK, Creation
  <2>3. Listed'
    BY <1>4, ListedWorkers DEF WaitForCpu, TypeOK, Listed, LinkedStates
  <2>4. Baton'
    BY <1>4, OwnsCpu DEF WaitForCpu, TypeOK, Baton, HasCpu, CpuStates
  <2> QED
    BY <2>1, <2>2, <2>3, <2>4
<1>5. CASE Work(w)
  <2>1. TypeOK'
    BY <1>5 DEF Work, TypeOK, WorkerStates, LinkedStates, CpuStates
  <2>2. Creation'
    BY <1>5 DEF Work, TypeOK, Creation
  <2>3. Listed'
    BY <1>5, ListedWorkers DEF Work, TypeOK, Listed, LinkedStates
  <2>4. Baton'
    BY <1>5, OwnsCpu DEF Work, TypeOK, Baton, HasCpu, CpuStates
  <2> QED
    BY <2>1, <2>2, <2>3, <2>4
<1>6. CASE ReleaseCpu(w)
  <2>1. TypeOK'
    BY <1>6 DEF ReleaseCpu, TypeOK, WorkerStates, LinkedStates, CpuStates
  <2>2. Creation'
    BY <1>6 DEF ReleaseCpu, TypeOK, Creation
  <2>3. Listed'
    BY <1>6, ListedWorkers DEF ReleaseCpu, TypeOK, Listed, LinkedStates
  <2>4. Baton'
    BY <1>6, OwnsCpu DEF ReleaseCpu, TypeOK, Baton, HasCpu, CpuStates
  <2> QED
    BY <2>1, <2>2, <2>3, <2>4
<1>7. CASE Exiting(w)
  <2>1. TypeOK'
    BY <1>7 DEF Exiting, TypeOK, WorkerStates, LinkedStates, CpuStates
  <2>2. Creation'
    BY <1>7 DEF Exiting, TypeOK, Creation
  <2>3. Listed'
    BY <1>7, ListedWorkers DEF Exiting, TypeOK, Listed, LinkedStates
  <2>4. Baton'
    BY <1>7, OwnsCpu DEF Exiting, TypeOK, Baton, HasCpu, CpuStates
  <2> QED
    BY <2>1, <2>2, <2>3, <2>4
<1>8. CASE RemoveElem(w)
  <2> PICK at \in 1 .. Len(q) : q[at] = w /\ q' = RemoveAt(q, at)
    BY <1>8 DEF RemoveElem
  <2>0. /\ q' \in Seq(Workers) /\ Len(q') = Len(q) - 1 /\ Len(q) \in Nat
        /\ \A j \in 1 .. Len(q) - 1 : q'[j] = IF j < at THEN q[j] ELSE q[j + 1]
    <3>1. q \in Seq(Workers)
      BY DEF TypeOK
    <3>2. /\ RemoveAt(q, at) \in Seq(Workers)
          /\ Len(RemoveAt(q, at)) = Len(q) - 1
          /\ \A j \in 1 .. Len(q) - 1 : RemoveAt(q, at)[j] =
               IF j < at THEN q[j] ELSE q[j + 1]
      BY <3>1, RemoveAtLemma, Zenon
    <3>3. Len(q) \in Nat
      BY <3>1
    <3> QED
      BY <3>2, <3>3
  <2>1. TypeOK'
    BY <1>8, <2>0 DEF RemoveElem, TypeOK, WorkerStates, LinkedStates, CpuStates
  <2>2. Creation'
    BY <1>8 DEF RemoveElem, TypeOK, Creation
  <2>3. Listed'
    <3>1. /\ wpc'[w] = "post"
          /\ \A v \in Workers \ {w} : wpc'[v] = wpc[v]
      BY <1>8 DEF RemoveElem, TypeOK
    \* Where the j-th element that is left was before.
    <3> DEFINE was(j) == IF j < at THEN j ELSE j + 1
    <3>2. /\ \A j \in 1 .. Len(q') : was(j) \in 1 .. Len(q) /\ was(j) # at
          /\ \A j \in 1 .. Len(q') : q'[j] = q[was(j)]
          /\ \A i, j \in 1 .. Len(q') : was(i) = was(j) => i = j
      BY <2>0
    <3>3. \A i \in 1 .. Len(q) : i # at => \E j \in 1 .. Len(q') : was(j) = i
      <4> TAKE i \in 1 .. Len(q)
      <4>1. CASE i < at
        BY <4>1, <2>0
      <4>2. CASE i > at
        <5>1. i - 1 \in 1 .. Len(q') /\ was(i - 1) = i
          BY <4>2, <2>0
        <5> QED
          BY <5>1
      <4> QED
        BY <4>1, <4>2
    <3> HIDE DEF was
    <3>4. \A i \in 1 .. Len(q) : i # at => q[i] \in Workers \ {w}
      BY ListedWorkers DEF Listed
    <3>5. \A j \in 1 .. Len(q') : wpc'[q'[j]] \in LinkedStates
      BY <3>1, <3>2, <3>4 DEF Listed
    <3>6. \A i, j \in 1 .. Len(q') : q'[i] = q'[j] => i = j
      <4> SUFFICES ASSUME NEW i \in 1 .. Len(q'), NEW j \in 1 .. Len(q'),
                          q'[i] = q'[j]
                   PROVE  i = j
        OBVIOUS
      <4>1. was(i) \in 1 .. Len(q) /\ was(j) \in 1 .. Len(q)
        BY <3>2
      <4>2. q[was(i)] = q[was(j)]
        BY <3>2
      <4>3. was(i) = was(j)
        BY <4>1, <4>2 DEF Listed
      <4> QED
        BY <4>3, <3>2
    <3>7. \A v \in Workers : wpc'[v] \in LinkedStates =>
            \E j \in 1 .. Len(q') : q'[j] = v
      <4> SUFFICES ASSUME NEW v \in Workers, wpc'[v] \in LinkedStates
                   PROVE  \E j \in 1 .. Len(q') : q'[j] = v
        OBVIOUS
      <4>1. v # w
        BY <3>1 DEF LinkedStates
      <4>2. PICK i \in 1 .. Len(q) : q[i] = v
        BY <4>1, <3>1 DEF Listed
      <4> QED
        BY <4>1, <4>2, <3>2, <3>3
    <3> QED
      BY <3>5, <3>6, <3>7 DEF Listed
  <2>4. Baton'
    BY <1>8, OwnsCpu DEF RemoveElem, TypeOK, Baton, HasCpu, CpuStates
  <2> QED
    BY <2>1, <2>2, <2>3, <2>4
<1>9. CASE PostQueue(w)
  <2>1. TypeOK'
    BY <1>9 DEF PostQueue, TypeOK, WorkerStates, LinkedStates, CpuStates
  <2>2. Creation'
    BY <1>9 DEF PostQueue, TypeOK, Creation
  <2>3. Listed'
    BY <1>9, ListedWorkers DEF PostQueue, TypeOK, Listed, LinkedStates
  <2>4. Baton'
    BY <1>9, OwnsCpu DEF PostQueue, TypeOK, Baton, HasCpu, CpuStates
  <2> QED
    BY <2>1, <2>2, <2>3, <2>4
<1>10. CASE StepBack(w)
  <2>1. TypeOK'
    BY <1>10 DEF StepBack, TypeOK, WorkerStates, LinkedStates, CpuStates
  <2>2. Creation'
    BY <1>10 DEF StepBack, TypeOK, Creation
  <2>3. Listed'
    BY <1>10, ListedWorkers DEF StepBack, TypeOK, Listed, LinkedStates
  <2>4. Baton'
    BY <1>10, OwnsCpu DEF StepBack, TypeOK, Baton, HasCpu, CpuStates
  <2> QED
    BY <2>1, <2>2, <2>3, <2>4
<1>11. CASE LoadRemaining(w)
  <2>1. TypeOK'
    BY <1>11 DEF LoadRemaining, TypeOK, WorkerStates, LinkedStates, CpuStates
  <2>2. Creation'
    BY <1>11 DEF LoadRemaining, TypeOK, Creation
  <2>3. Listed'
    BY <1>11, ListedWorkers DEF LoadRemaining, TypeOK, Listed, LinkedStates
  <2>4. Baton'
    BY <1>11, OwnsCpu DEF LoadRemaining, TypeOK, Baton, HasCpu, CpuStates
  <2> QED
    BY <2>1, <2>2, <2>3, <2>4
<1>12. CASE StoreRemaining(w)
  <2>1. TypeOK'
    BY <1>12 DEF StoreRemaining, TypeOK, WorkerStates, LinkedStates, CpuStates
  <2>2. Creation'
    BY <1>12 DEF StoreRemaining, TypeOK, Creation
  <2>3. Listed'
    BY <1>12, ListedWorkers DEF StoreRemaining, TypeOK, Listed, LinkedStates
  <2>4. Baton'
    BY <1>12, OwnsCpu DEF StoreRemaining, TypeOK, Baton, HasCpu, CpuStates
  <2> QED
    BY <2>1, <2>2, <2>3, <2>4
<1>13. CASE FinalRelease(w)
  <2>1. TypeOK'
    BY <1>13 DEF FinalRelease, TypeOK, WorkerStates, LinkedStates, CpuStates
  <2>2. Creation'
    BY <1>13 DEF FinalRelease, TypeOK, Creation
  <2>3. Listed'
    BY <1>13, ListedWorkers DEF FinalRelease, TypeOK, Listed, LinkedStates
  <2>4. Baton'
    BY <1>13, OwnsCpu DEF FinalRelease, TypeOK, Baton, HasCpu, CpuStates
  <2> QED
    BY <2>1, <2>2, <2>3, <2>4
<1> QED
  BY <1>1, <1>2, <1>3, <1>4, <1>5, <1>6, <1>7, <1>8, <1>9, <1>10, <1>11, <1>12, <1>13 DEF Worker

\* The steps of the scheduler keep the invariant.
LEMMA SchedProcIInv == ASSUME IInv, SchedProc PROVE IInv'
<1> USE DEF IInv, SchedStep
\* Nobody has the CPU while the scheduler chooses: a listed worker waits for it.
<1>0. ASSUME sched # "wait_worker", NEW i \in 1 .. Len(q)
      PROVE  q[i] \in Workers /\ wpc[q[i]] \in {"announce", "wait"}
  BY <1>0, ListedWorkers DEF Listed, Baton, HasCpu, LinkedStates, CpuStates
<1>1. CASE WaitForQueue
  <2>1. TypeOK'
    BY <1>1 DEF WaitForQueue, TypeOK, SchedStates
  <2>2. Creation'
    <3>1. created > 0
      <4>1. 1 \in 1 .. Len(q)
        BY <1>1 DEF WaitForQueue, TypeOK
      <4>2. q[1] \in Workers /\ wpc[q[1]] # "none"
        BY <4>1, ListedWorkers DEF Listed, LinkedStates
      <4> QED
        BY <4>2 DEF TypeOK, Creation, Workers
    <3> QED
      BY <1>1, <3>1 DEF WaitForQueue, Creation
  <2>3. Listed'
    BY <1>1 DEF WaitForQueue, TypeOK, Listed
  <2>4. Baton'
    BY <1>1, <1>0 DEF WaitForQueue, TypeOK, Baton, HasCpu
  <2> QED
    BY <2>1, <2>2, <2>3, <2>4
<1>2. CASE TestRemaining
  <2>1. TypeOK'
    BY <1>2 DEF TestRemaining, TypeOK, SchedStates
  <2>2. Creation'
    BY <1>2 DEF TestRemaining, TypeOK, Creation
  <2>3. Listed'
    BY <1>2 DEF TestRemaining, TypeOK, Listed
  <2>4. Baton'
    BY <1>2, <1>0 DEF TestRemaining, TypeOK, Baton, HasCpu
  <2> QED
    BY <2>1, <2>2, <2>3, <2>4
<1>3. CASE FifoNext
  <2>1. TypeOK'
    BY <1>3 DEF FifoNext, TypeOK, SchedStates
  <2>2. Creation'
    BY <1>3 DEF FifoNext, TypeOK, Creation
  <2>3. Listed'
    BY <1>3 DEF FifoNext, TypeOK, Listed
  <2>4. Baton'
    BY <1>3, <1>0 DEF FifoNext, TypeOK, Baton, HasCpu
  <2> QED
    BY <2>1, <2>2, <2>3, <2>4
<1>4. CASE RRNext
  <2>1. TypeOK'
    BY <1>4 DEF RRNext, TypeOK, SchedStates
  <2>2. Creation'
    BY <1>4 DEF RRNext, TypeOK, Creation
  <2>3. Listed'
    BY <1>4 DEF RRNext, TypeOK, Listed
  <2>4. Baton'
    BY <1>4, <1>0 DEF RRNext, TypeOK, Baton, HasCpu
  <2> QED
    BY <2>1, <2>2, <2>3, <2>4
<1>5. CASE RRWrap
  <2>1. TypeOK'
    BY <1>5 DEF RRWrap, TypeOK, SchedStates
  <2>2. Creation'
    BY <1>5 DEF RRWrap, TypeOK, Creation
  <2>3. Listed'
    BY <1>5 DEF RRWrap, TypeOK, Listed
  <2>4. Baton'
    BY <1>5, <1>0 DEF RRWrap, TypeOK, Baton, HasCpu
  <2> QED
    BY <2>1, <2>2, <2>3, <2>4
<1>6. CASE RRWalk
  <2>1. CASE WalkTo(currentPosition) < Len(q)
    <3> DEFINE i == WalkTo(currentPosition) + 1
    <3>1. i \in 1 .. Len(q)
      BY <2>1 DEF TypeOK, WalkTo
    <3> HIDE DEF i
    <3>2. /\ sched = "walk" /\ sched' = "wake" /\ info' = q[i]
          /\ currentPosition' = currentPosition + 1
          /\ UNCHANGED <<mainVars, wpc, workerLocals, q, queue_sem, cpu_sem,
                         exec, num_workers_remaining>>
      BY <1>6, <2>1 DEF RRWalk, i
    <3>3. info' \in Workers /\ wpc[info'] \in {"announce", "wait"}
      BY <1>0, <3>1, <3>2
    <3>4. TypeOK'
      <4>1. sched' \in SchedStates /\ info' \in Workers \cup {NULL} /\ currentPosition' \in Int
        BY <3>2, <3>3 DEF TypeOK, SchedStates
      <4>2. UNCHANGED <<main, created, wpc, iter, loaded, q, queue_sem, cpu_sem, exec,
                        num_workers_remaining>>
        BY <3>2 DEF mainVars, workerLocals
      <4> QED
        BY <4>1, <4>2 DEF TypeOK
    <3>5. Creation'
      BY <3>2 DEF Creation
    <3>6. Listed'
      BY <3>2 DEF Listed
    <3>7. Baton'
      BY <3>2, <3>3 DEF Baton, HasCpu
    <3> QED
      BY <3>4, <3>5, <3>6, <3>7
  <2>2. CASE ~ (WalkTo(currentPosition) < Len(q))
    <3>1. /\ main' = "failed"
          /\ UNCHANGED <<created, schedVars, wpc, workerLocals, queueVars, exec,
                         num_workers_remaining>>
      <4>1. main' = "failed" /\ UNCHANGED <<sched, info, currentPosition>>
        BY <1>6, <2>2 DEF RRWalk
      <4> QED
        BY <1>6, <4>1 DEF RRWalk
    <3>2. TypeOK'
      BY <3>1 DEF TypeOK, MainStates
    <3>3. Creation' /\ Listed' /\ Baton'
      BY <3>1 DEF Creation, Listed, Baton, HasCpu
    <3> QED
      BY <3>2, <3>3
  <2> QED
    BY <2>1, <2>2
<1>7. CASE WakeUpWorker
  <2>1. TypeOK'
    BY <1>7 DEF WakeUpWorker, TypeOK, SchedStates, Baton
  <2>2. Creation'
    BY <1>7 DEF WakeUpWorker, TypeOK, Creation
  <2>3. Listed'
    BY <1>7 DEF WakeUpWorker, TypeOK, Listed
  <2>4. Baton'
    BY <1>7, <1>0 DEF WakeUpWorker, TypeOK, Baton, HasCpu
  <2> QED
    BY <2>1, <2>2, <2>3, <2>4
<1>8. CASE WaitForWorker
  <2>1. TypeOK'
    BY <1>8 DEF WaitForWorker, TypeOK, SchedStates
  <2>2. Creation'
    BY <1>8 DEF WaitForWorker, TypeOK, Creation
  <2>3. Listed'
    BY <1>8 DEF WaitForWorker, TypeOK, Listed
  <2>4. Baton'
    BY <1>8, <1>0 DEF WaitForWorker, TypeOK, Baton, HasCpu
  <2> QED
    BY <2>1, <2>2, <2>3, <2>4
<1>9. CASE SchedulerDone
  <2>1. TypeOK'
    BY <1>9 DEF SchedulerDone, TypeOK, SchedStates
  <2>2. Creation'
    BY <1>9 DEF SchedulerDone, TypeOK, Creation
  <2>3. Listed'
    BY <1>9 DEF SchedulerDone, TypeOK, Listed
  <2>4. Baton'
    BY <1>9, <1>0 DEF SchedulerDone, TypeOK, Baton, HasCpu
  <2> QED
    BY <2>1, <2>2, <2>3, <2>4
<1> QED
  BY <1>1, <1>2, <1>3, <1>4, <1>5, <1>6, <1>7, <1>8, <1>9 DEF SchedProc

\* Nothing else moves.
LEMMA StutterIInv == ASSUME IInv, UNCHANGED vars PROVE IInv'
BY DEF IInv, TypeOK, Creation, Listed, Baton, HasCpu

\* The invariant is inductive.
LEMMA NextIInv == IInv /\ [Next]_vars => IInv'
BY MainIInv, WorkerIInv, SchedProcIInv, StutterIInv DEF Next, Terminated

\* Every reachable state satisfies the inductive invariant.
THEOREM Invariance == Spec => []IInv
BY InitIInv, NextIInv, PTL DEF Spec

-----------------------------------------------------------------------------
(* What follows from it.                                                   *)

\* Every variable keeps its type; no semaphore goes below zero.
THEOREM TypeCorrect == Spec => []TypeOK
<1>1. IInv => TypeOK
  BY DEF IInv
<1> QED
  BY <1>1, Invariance, PTL

\* The scheduler and the workers hand one CPU to and fro.
THEOREM MutualExclusion == Spec => []OneOnCpu
<1>1. ASSUME IInv PROVE OneOnCpu
  <2>1. \A v, w \in Workers : HasCpu(v) /\ HasCpu(w) => v = w
    BY <1>1 DEF IInv, Baton
  <2>2. \A w \in Workers : HasCpu(w) =>
          sched = "wait_worker" /\ info = w /\ cpu_sem = 0 /\ exec[w] < 2
    BY <1>1 DEF IInv, Baton
  <2>3. cpu_sem > 0 => sched = "wait_worker" /\ cpu_sem = 1
    BY <1>1 DEF IInv, Baton
  <2> QED
    BY <2>1, <2>2, <2>3 DEF OneOnCpu
<1> QED
  BY <1>1, Invariance, PTL

\* The claim of scheduler.c:26-29: nobody needs a lock for
\* num_workers_remaining.
THEOREM RaceFreedom == Spec => []RemainingRaceFree
<1>1. ASSUME IInv PROVE RemainingRaceFree
  <2>1. \A w \in Workers : RemainingUser(w) =>
          sched = "wait_worker" /\ info = w /\ wpc[w] # "none"
    BY <1>1, OwnsCpu DEF RemainingUser, CpuStates
  <2>2. main = "count" => created = 0 /\ \A w \in Workers : wpc[w] = "none"
    BY <1>1 DEF IInv, Creation, Workers
  <2>3. sched = "test" => created > 0
    BY <1>1 DEF IInv, Creation
  <2> QED
    BY <2>1, <2>2, <2>3 DEF RemainingRaceFree
<1> QED
  BY <1>1, Invariance, PTL

-----------------------------------------------------------------------------
(* What is counted.                                                        *)

\* The workers that have not yet counted themselves out.
Staying == {w \in Workers : wpc[w] \notin {"final", "exited"}}

\* The workers that have one of the places.
Inside == {w \in Workers : wpc[w] \in {"insert", "post"} \cup LinkedStates}

\* What a worker is about to subtract from is still the value of the counter.
Loaded == \A w \in Workers : wpc[w] = "store" => loaded[w] = num_workers_remaining

\* A place is free or taken.
Places == main # "init" => queue_sem + Cardinality(Inside) = QueueSize

\* The scheduler stops when all workers have gone, and main waits for it.
Finished ==
  /\ sched \in {"print", "done"} => \A w \in Workers : wpc[w] = "exited"
  /\ main \in {"cleanup", "end"} => sched = "done"

Counts == RemainingExact /\ Loaded /\ Places /\ Finished

-----------------------------------------------------------------------------
(* Counting.                                                               *)

\* There are finitely many workers.
LEMMA FiniteWorkers == /\ IsFiniteSet(Workers) /\ Cardinality(Workers) = NumWorkers
                       /\ IsFiniteSet(Staying) /\ Cardinality(Staying) \in Nat
                       /\ IsFiniteSet(Inside) /\ Cardinality(Inside) \in Nat
<1>1. IsFiniteSet(Workers) /\ Cardinality(Workers) = NumWorkers
  BY FS_Interval, SchedulerAssumption DEF Workers
<1>2. Staying \in SUBSET Workers /\ Inside \in SUBSET Workers
  BY DEF Staying, Inside
<1> QED
  BY <1>1, <1>2, FS_Subset, FS_CardinalityType

\* What is counted changes by the worker that moves.
LEMMA CountMoves ==
  ASSUME TypeOK, NEW w \in Workers, NEW to, wpc' = [wpc EXCEPT ![w] = to]
  PROVE  /\ Staying' = IF to \in {"final", "exited"} THEN Staying \ {w} ELSE Staying \cup {w}
         /\ Inside' = IF to \in {"insert", "post"} \cup LinkedStates
                      THEN Inside \cup {w} ELSE Inside \ {w}
BY DEF TypeOK, Staying, Inside

\* A worker that exists has been created after the counter was set.
LEMMA CounterSet ==
  ASSUME IInv, NEW w \in Workers, wpc[w] # "none"
  PROVE  main \notin {"init", "start", "count"}
BY DEF IInv, Creation, Workers

USE DEF Counts

\* At first nobody has been counted.
LEMMA InitCounts == Init => Counts
BY DEF Init, RemainingExact, Loaded, Places, Finished, Workers

\* The steps of main keep the counts.
LEMMA MainCounts == ASSUME IInv, Counts, Main PROVE Counts'
<1> USE DEF IInv
<1>1. CASE InitSchedQueue
  <2>1. Inside = {} /\ Inside' = {}
    BY <1>1 DEF InitSchedQueue, Creation, Inside, Workers, LinkedStates, TypeOK
  <2>2. Places'
    BY <1>1, <2>1, FS_EmptySet, SchedulerAssumption DEF InitSchedQueue, Places
  <2> QED
    BY <1>1, <2>2 DEF InitSchedQueue, RemainingExact, Loaded, Finished
<1>2. CASE StartScheduler
  BY <1>2 DEF StartScheduler, RemainingExact, Loaded, Places, Finished, Inside
<1>3. CASE SetRemaining
  <2>1. \A w \in Workers : wpc[w] = "none"
    BY <1>3 DEF SetRemaining, Creation, Workers
  <2>2. Staying' = Workers /\ Inside' = Inside
    BY <1>3, <2>1 DEF SetRemaining, Staying, Inside
  <2> QED
    BY <1>3, <2>1, <2>2, FiniteWorkers
    DEF SetRemaining, RemainingExact, Staying, Loaded, Places, Finished
<1>4. CASE CreateWorker
  <2>1. created + 1 \in Workers /\ wpc[created + 1] = "none"
    BY <1>4, SchedulerAssumption DEF CreateWorker, Creation, TypeOK, Workers
  <2>2. wpc' = [wpc EXCEPT ![created + 1] = "enter"]
    BY <1>4 DEF CreateWorker
  <2>3. Staying' = Staying /\ Inside' = Inside
    BY <2>1, <2>2, CountMoves DEF Staying, Inside, LinkedStates
  <2>4. RemainingExact'
    BY <1>4, <2>3 DEF CreateWorker, RemainingExact, Staying
  <2>5. Loaded'
    BY <1>4, <2>1, <2>2 DEF CreateWorker, Loaded, TypeOK
  <2>6. Places'
    BY <1>4, <2>3 DEF CreateWorker, Places
  <2>7. Finished'
    BY <1>4, <2>1 DEF CreateWorker, Finished
  <2> QED
    BY <2>4, <2>5, <2>6, <2>7
<1>5. CASE ExitError
  BY <1>5 DEF ExitError, RemainingExact, Loaded, Places, Finished, Inside
<1>6. CASE ReportWaiting
  BY <1>6 DEF ReportWaiting, RemainingExact, Loaded, Places, Finished, Inside
<1>7. CASE JoinScheduler
  BY <1>7 DEF JoinScheduler, RemainingExact, Loaded, Places, Finished, Inside
<1>8. CASE CleanUp
  BY <1>8 DEF CleanUp, RemainingExact, Loaded, Places, Finished, Inside
<1> QED
  BY <1>1, <1>2, <1>3, <1>4, <1>5, <1>6, <1>7, <1>8 DEF Main

\* A step of a worker that is neither counted in nor out keeps the counts.
LEMMA SilentCounts ==
  ASSUME IInv, Counts, NEW w \in Workers, NEW to, wpc' = [wpc EXCEPT ![w] = to],
         wpc[w] \notin {"none", "exited"}, to # "store",
         wpc[w] = "final" <=> to \in {"final", "exited"},
         wpc[w] \in {"insert", "post"} \cup LinkedStates
           <=> to \in {"insert", "post"} \cup LinkedStates,
         UNCHANGED <<main, sched, loaded, queue_sem, num_workers_remaining>>
  PROVE  Counts'
<1>1. Staying' = Staying /\ Inside' = Inside
  BY CountMoves DEF IInv, Staying, Inside
<1>2. RemainingExact'
  BY <1>1 DEF RemainingExact, Staying
<1>3. Loaded'
  BY DEF IInv, TypeOK, Loaded
<1>4. Places'
  BY <1>1 DEF Places
<1>5. Finished'
  BY DEF Finished
<1> QED
  BY <1>2, <1>3, <1>4, <1>5

\* The steps of a worker keep the counts.
LEMMA WorkerCounts == ASSUME IInv, Counts, NEW w \in Workers, Worker(w) PROVE Counts'
<1> USE DEF WorkerStep
<1>0. wpc[w] \notin {"none", "exited"} => ~ (sched \in {"print", "done"})
  BY DEF Finished
<1>1. CASE EnterWait(w)
  <2>1. Staying' = Staying /\ w \notin Inside /\ Inside' = Inside \cup {w}
    BY <1>1, CountMoves DEF EnterWait, IInv, Staying, Inside, LinkedStates
  <2>2. Cardinality(Inside') = Cardinality(Inside) + 1
    BY <2>1, FiniteWorkers, FS_AddElement
  <2>3. RemainingExact'
    BY <1>1, <2>1 DEF EnterWait, RemainingExact, Staying
  <2>4. Loaded'
    BY <1>1 DEF EnterWait, IInv, TypeOK, Loaded
  <2>5. Places'
    BY <1>1, <2>2, FiniteWorkers, SchedulerAssumption DEF EnterWait, IInv, TypeOK, Places
  <2>6. Finished'
    BY <1>1, <1>0 DEF EnterWait, Finished
  <2> QED
    BY <2>3, <2>4, <2>5, <2>6
<1>2. CASE InsertTail(w)
  BY <1>2, SilentCounts DEF InsertTail, LinkedStates
<1>3. CASE Announce(w)
  BY <1>3, SilentCounts DEF Announce, LinkedStates
<1>4. CASE WaitForCpu(w)
  <2>1. PICK to \in {"work", "exiting"} : wpc' = [wpc EXCEPT ![w] = to]
    BY <1>4 DEF WaitForCpu
  <2> QED
    BY <1>4, <2>1, SilentCounts DEF WaitForCpu, LinkedStates
<1>5. CASE Work(w)
  BY <1>5, SilentCounts DEF Work, LinkedStates
<1>6. CASE ReleaseCpu(w)
  BY <1>6, SilentCounts DEF ReleaseCpu, LinkedStates
<1>7. CASE Exiting(w)
  BY <1>7, SilentCounts DEF Exiting, LinkedStates
<1>8. CASE RemoveElem(w)
  BY <1>8, SilentCounts DEF RemoveElem, LinkedStates
<1>9. CASE PostQueue(w)
  <2>1. Staying' = Staying /\ w \in Inside /\ Inside' = Inside \ {w}
    <3>1. wpc[w] = "post" /\ wpc' = [wpc EXCEPT ![w] = "position"]
      BY <1>9 DEF PostQueue, WorkerStep
    <3>2. w \in Staying /\ w \in Inside
      BY <3>1 DEF Staying, Inside
    <3>3. TypeOK /\ "position" \notin {"insert", "post"} \cup LinkedStates
      BY DEF IInv, LinkedStates
    <3>4. Inside' = Inside \ {w}
      BY <3>1, <3>3, CountMoves
    <3>5. Staying' = Staying \cup {w}
      <4>1. "position" \notin {"final", "exited"}
        OBVIOUS
      <4> QED
        BY <3>1, <3>3, <4>1, CountMoves
    <3> QED
      BY <3>2, <3>4, <3>5
  <2>2. Cardinality(Inside') = Cardinality(Inside) - 1
    BY <2>1, FiniteWorkers, FS_RemoveElement
  <2>3. RemainingExact'
    BY <1>9, <2>1 DEF PostQueue, RemainingExact, Staying
  <2>4. Loaded'
    BY <1>9 DEF PostQueue, IInv, TypeOK, Loaded
  <2>5. Places'
    BY <1>9, <2>2, FiniteWorkers, SchedulerAssumption DEF PostQueue, IInv, TypeOK, Places
  <2>6. Finished'
    BY <1>9, <1>0 DEF PostQueue, Finished
  <2> QED
    BY <2>3, <2>4, <2>5, <2>6
<1>10. CASE StepBack(w)
  BY <1>10, SilentCounts DEF StepBack, LinkedStates
<1>11. CASE LoadRemaining(w)
  <2>1. Staying' = Staying /\ Inside' = Inside
    BY <1>11, CountMoves DEF LoadRemaining, IInv, Staying, Inside, LinkedStates
  <2>2. RemainingExact'
    BY <1>11, <2>1 DEF LoadRemaining, RemainingExact, Staying
  <2>3. Loaded'
    BY <1>11 DEF LoadRemaining, IInv, TypeOK, Loaded
  <2>4. Places'
    BY <1>11, <2>1 DEF LoadRemaining, Places
  <2>5. Finished'
    BY <1>11, <1>0 DEF LoadRemaining, Finished
  <2> QED
    BY <2>2, <2>3, <2>4, <2>5
<1>12. CASE StoreRemaining(w)
  <2>1. Inside' = Inside /\ w \in Staying /\ Staying' = Staying \ {w}
    BY <1>12, CountMoves DEF StoreRemaining, IInv, Staying, Inside, LinkedStates
  <2>2. Cardinality(Staying') = Cardinality(Staying) - 1
    BY <2>1, FiniteWorkers, FS_RemoveElement
  <2>3. main \notin {"init", "start", "count", "failed"} /\ main' = main
    BY <1>12, CounterSet DEF StoreRemaining
  <2>4. num_workers_remaining' = num_workers_remaining - 1
    BY <1>12 DEF StoreRemaining, Loaded
  <2>5. RemainingExact'
    BY <2>2, <2>3, <2>4 DEF RemainingExact, Staying
  <2>6. Loaded'
    <3>1. \A v \in Workers \ {w} : wpc[v] # "store"
      BY <1>12, OwnsCpu DEF StoreRemaining, CpuStates, HasCpu
    <3> QED
      BY <1>12, <3>1 DEF StoreRemaining, IInv, TypeOK, Loaded
  <2>7. Places'
    BY <1>12, <2>1 DEF StoreRemaining, Places
  <2>8. Finished'
    BY <1>12, <1>0 DEF StoreRemaining, Finished
  <2> QED
    BY <2>5, <2>6, <2>7, <2>8
<1>13. CASE FinalRelease(w)
  <2>1. wpc[w] = "final" /\ wpc' = [wpc EXCEPT ![w] = "exited"]
    BY <1>13 DEF FinalRelease
  <2> QED
    BY <1>13, <2>1, SilentCounts DEF FinalRelease, LinkedStates
<1> QED
  BY <1>1, <1>2, <1>3, <1>4, <1>5, <1>6, <1>7, <1>8, <1>9, <1>10, <1>11, <1>12, <1>13 DEF Worker

\* The scheduler stops only when the last worker has given the CPU back.
LEMMA LastOne ==
  ASSUME IInv, Counts, TestRemaining, num_workers_remaining <= 0
  PROVE  \A w \in Workers : wpc[w] = "exited"
<1>1. sched = "test" /\ main # "failed"
  BY DEF TestRemaining, SchedStep
<1>2. created > 0
  BY <1>1 DEF IInv, Creation
<1>3. main \notin {"init", "start", "count", "failed"}
  BY <1>1, <1>2 DEF IInv, Creation
<1>4. Cardinality(Staying) <= 0
  BY <1>3 DEF RemainingExact, Staying
<1>5. Staying = {}
  BY <1>4, FiniteWorkers, FS_EmptySet
<1>6. \A w \in Workers : wpc[w] \notin CpuStates
  BY <1>1 DEF IInv, Baton, HasCpu
<1> QED
  BY <1>5, <1>6 DEF Staying, CpuStates

\* The steps of the scheduler keep the counts.
LEMMA SchedProcCounts == ASSUME IInv, Counts, SchedProc PROVE Counts'
<1>1. UNCHANGED <<wpc, loaded, queue_sem, num_workers_remaining>>
  <2>1. CASE WaitForQueue
    BY <2>1 DEF WaitForQueue
  <2>2. CASE TestRemaining
    BY <2>2 DEF TestRemaining
  <2>3. CASE FifoNext
    BY <2>3 DEF FifoNext
  <2>4. CASE RRNext
    BY <2>4 DEF RRNext
  <2>5. CASE RRWrap
    BY <2>5 DEF RRWrap
  <2>6. CASE RRWalk
    BY <2>6 DEF RRWalk
  <2>7. CASE WakeUpWorker
    BY <2>7 DEF WakeUpWorker
  <2>8. CASE WaitForWorker
    BY <2>8 DEF WaitForWorker
  <2>9. CASE SchedulerDone
    BY <2>9 DEF SchedulerDone
  <2> QED
    BY <2>1, <2>2, <2>3, <2>4, <2>5, <2>6, <2>7, <2>8, <2>9 DEF SchedProc
<1>2. main' = main \/ (main \notin {"init", "failed"} /\ main' = "failed")
  <2>1. CASE RRWalk
    BY <2>1 DEF RRWalk, IInv, Creation
  <2>2. CASE ~ RRWalk
    BY <2>2 DEF SchedProc, SchedStep, WaitForQueue, TestRemaining, FifoNext, RRNext,
                RRWrap, WakeUpWorker, WaitForWorker, SchedulerDone
  <2> QED
    BY <2>1, <2>2
<1>3. RemainingExact' /\ Loaded'
  BY <1>1, <1>2 DEF RemainingExact, Loaded
<1>4. Places'
  BY <1>1, <1>2 DEF Places, Inside
<1>5. sched' \in {"print", "done"} => \A w \in Workers : wpc'[w] = "exited"
  <2>1. CASE TestRemaining
    <3>1. sched' = "print" => num_workers_remaining <= 0
      BY <2>1 DEF TestRemaining, SchedStep, IInv, TypeOK
    <3>2. sched' # "done"
      BY <2>1 DEF TestRemaining, SchedStep
    <3> QED
      BY <1>1, <2>1, <3>1, <3>2, LastOne
  <2>2. CASE ~ TestRemaining
    <3>1. sched' \in {"print", "done"} => sched \in {"print", "done"}
      BY <2>2 DEF SchedProc, SchedStep, WaitForQueue, FifoNext, RRNext, RRWrap, RRWalk,
                  WakeUpWorker, WaitForWorker, SchedulerDone
    <3> QED
      BY <1>1, <3>1 DEF Finished
  <2> QED
    BY <2>1, <2>2
<1>6. main' \in {"cleanup", "end"} => sched' = "done"
  <2>1. sched # "done"
    BY DEF SchedProc, SchedStep, WaitForQueue, TestRemaining, FifoNext, RRNext, RRWrap, RRWalk,
           WakeUpWorker, WaitForWorker, SchedulerDone
  <2> QED
    BY <1>2, <2>1 DEF Finished
<1> QED
  BY <1>3, <1>4, <1>5, <1>6 DEF Finished

\* Nothing else moves.
LEMMA StutterCounts == ASSUME Counts, UNCHANGED vars PROVE Counts'
BY DEF RemainingExact, Loaded, Places, Finished, Inside

-----------------------------------------------------------------------------
(* Theorems.                                                               *)

\* The counts are right in every reachable state.
THEOREM CountsInvariance == Spec => [](IInv /\ Counts)
<1>1. IInv /\ Counts /\ [Next]_vars => Counts'
  BY MainCounts, WorkerCounts, SchedProcCounts, StutterCounts DEF Next, Terminated
<1> QED
  BY InitIInv, InitCounts, NextIInv, <1>1, PTL DEF Spec

\* No decrement of num_workers_remaining is lost, although it has no lock.
THEOREM CounterExact == Spec => []RemainingExact
<1>1. Counts => RemainingExact
  OBVIOUS
<1> QED
  BY <1>1, CountsInvariance, PTL

\* The queue never holds more than queue_size workers (lab4_tests.c:249), and
\* each place given up is free for somebody else.
THEOREM PlacesKept == Spec => []PlacesInQueue
<1>1. ASSUME IInv, Counts PROVE PlacesInQueue
  <2> SUFFICES ASSUME main # "init" PROVE PlacesInQueue
    BY DEF PlacesInQueue
  <2>1. queue_sem + Cardinality(Inside) = QueueSize
    BY <1>1 DEF Places
  <2>2. q \in [1 .. Len(q) -> Inside] /\ Len(q) \in Nat
    BY <1>1, ListedWorkers DEF IInv, TypeOK, Listed, Inside
  <2>3. q \in Injection(1 .. Len(q), Inside)
    BY <1>1, <2>2 DEF IInv, Listed, Injection, IsInjective
  <2>4. Cardinality(1 .. Len(q)) <= Cardinality(Inside)
    BY <2>3, FiniteWorkers, FS_Injection
  <2>5. Cardinality(1 .. Len(q)) = Len(q)
    <3>1. Cardinality(1 .. Len(q)) = IF 1 > Len(q) THEN 0 ELSE Len(q) - 1 + 1
      BY <2>2, FS_Interval
    <3> QED
      BY <2>2, <3>1
  <2>6. Len(q) <= QueueSize
    <3>1. queue_sem \in Nat /\ Cardinality(Inside) \in Nat
      BY <1>1, FiniteWorkers, FS_CardinalityType DEF IInv, TypeOK
    <3> QED
      BY <2>1, <2>2, <2>4, <2>5, <3>1, SchedulerAssumption
  <2> QED
    BY <2>1, <2>6 DEF PlacesInQueue, Inside
<1> QED
  BY <1>1, CountsInvariance, PTL

\* When main frees the thread arguments, the list and the semaphores
\* (scheduler.c:141, 167-175) no worker uses them any more, and all is as
\* init_sched_queue made it.
THEOREM CleanExitHolds == Spec => []CleanExit
<1>1. ASSUME IInv, Counts PROVE CleanExit
  <2> SUFFICES ASSUME main \in {"cleanup", "end"} PROVE CleanExit
    BY DEF CleanExit
  <2>1. sched = "done" /\ \A w \in Workers : wpc[w] = "exited"
    BY <1>1 DEF Finished
  <2>2. cpu_sem = 0 /\ \A w \in Workers : exec[w] = 0
    BY <1>1, <2>1 DEF IInv, TypeOK, Baton, HasCpu
  <2>3. q = <<>>
    <3>1. \A i \in 1 .. Len(q) : FALSE
      BY <1>1, <2>1, ListedWorkers DEF IInv, Listed, LinkedStates
    <3> QED
      BY <1>1, <3>1 DEF IInv, TypeOK
  <2>4. Inside = {}
    BY <2>1 DEF Inside, LinkedStates
  <2>5. queue_sem = QueueSize
    BY <1>1, <2>4, FS_EmptySet DEF Places, IInv, TypeOK
  <2> QED
    BY <2>1, <2>2, <2>3, <2>5 DEF CleanExit
<1> QED
  BY <1>1, CountsInvariance, PTL

-----------------------------------------------------------------------------
(* Whose turn it is: round robin keeps its place in the list while workers *)
(* join and leave, and under both policies the threads and their           *)
(* semaphores implement the line of CpuTurns.                              *)

HIDE DEF Counts

\* Between the removal from the list and the step back the position is one too far.
Leaving == \E w \in Workers : wpc[w] \in {"post", "position"}

\* The CPU has been promised to the worker or it runs, and it is still listed.
Serving(w) == exec[w] > 0 \/ wpc[w] \in {"work", "release", "exiting", "remove"}

\* PlaceKept, and what the scheduler knows at each of its steps.
Place ==
  /\ Position \in 0 .. Len(q)
  /\ sched \in {"wrap", "walk"} => q # <<>>
  /\ sched = "walk" => currentPosition < Len(q)
  /\ sched = "wake" => currentPosition \in 1 .. Len(q) /\ q[currentPosition] = info
  /\ \A w \in Workers : Serving(w) =>
       currentPosition \in 1 .. Len(q) /\ q[currentPosition] = w

RRPlace == Policy = "rr" => Place

\* Before anything is listed.
LEMMA InitPlace == Init => Place
BY DEF Init, Place, Position, Serving

\* While the scheduler does not wait nobody is served and nobody leaves.
LEMMA Choosing ==
  ASSUME IInv, sched # "wait_worker"
  PROVE  /\ ~ Leaving /\ Position = currentPosition
         /\ \A w \in Workers : ~ Serving(w)
BY DEF IInv, Baton, HasCpu, CpuStates, Leaving, Serving, Position

\* A step that leaves the list, the position and the scheduler alone, and gives
\* nobody the CPU.
LEMMA SilentPlace ==
  ASSUME Place, Leaving' <=> Leaving,
         \A v \in Workers : Serving(v)' => Serving(v),
         UNCHANGED <<sched, info, q, currentPosition>>
  PROVE  Place'
<1>1. Position' = Position
  BY DEF Position, Leaving
<1>2. \A v \in Workers : Serving(v)' =>
        currentPosition \in 1 .. Len(q) /\ q[currentPosition] = v
  BY DEF Place
<1> QED
  BY <1>1, <1>2 DEF Place

\* The steps of main keep the place.
LEMMA MainPlace == ASSUME IInv, Place, Main PROVE Place'
<1> USE DEF IInv
<1>1. CASE InitSchedQueue
  <2>1. sched = "idle"
    BY <1>1 DEF InitSchedQueue, Creation
  <2>2. \A w \in Workers : ~ Serving(w)
    BY <2>1, Choosing
  <2>3. ~ Leaving
    BY <2>1, Choosing
  <2>4. Position' = 0 /\ \A w \in Workers : ~ Serving(w)'
    BY <1>1, <2>2, <2>3 DEF InitSchedQueue, Position, Leaving, Serving
  <2> QED
    BY <1>1, <2>1, <2>4 DEF InitSchedQueue, Place
<1>2. CASE StartScheduler
  <2>1. sched = "idle" /\ sched' = "queue"
    BY <1>2 DEF StartScheduler, Creation
  <2>2. Position' = Position /\ \A w \in Workers : ~ Serving(w)'
    BY <1>2, <2>1, Choosing DEF StartScheduler, Position, Serving
  <2> QED
    BY <1>2, <2>1, <2>2 DEF StartScheduler, Place
<1>3. CASE CreateWorker
  <2>1. created + 1 \in Workers /\ wpc[created + 1] = "none"
    BY <1>3, SchedulerAssumption DEF CreateWorker, Creation, TypeOK, Workers
  <2>2. /\ wpc' = [wpc EXCEPT ![created + 1] = "enter"]
        /\ exec' = [exec EXCEPT ![created + 1] = 0]
        /\ UNCHANGED <<sched, info, q, currentPosition>>
    BY <1>3 DEF CreateWorker
  <2>3. Leaving' <=> Leaving
    BY <2>1, <2>2 DEF Leaving, TypeOK
  <2>4. \A v \in Workers : Serving(v)' => Serving(v)
    BY <2>1, <2>2 DEF Serving, TypeOK
  <2> QED
    BY <2>2, <2>3, <2>4, SilentPlace
<1>4. CASE SetRemaining \/ ExitError \/ ReportWaiting \/ JoinScheduler \/ CleanUp
  <2>1. UNCHANGED <<sched, info, q, currentPosition, wpc, exec>>
    BY <1>4 DEF SetRemaining, ExitError, ReportWaiting, JoinScheduler, CleanUp
  <2>2. (Leaving' <=> Leaving) /\ \A v \in Workers : Serving(v)' => Serving(v)
    BY <2>1 DEF Leaving, Serving
  <2> QED
    BY <2>1, <2>2, SilentPlace
<1> QED
  BY <1>1, <1>2, <1>3, <1>4 DEF Main

\* The steps of a worker keep the place.
LEMMA WorkerPlace == ASSUME IInv, Place, NEW w \in Workers, Worker(w) PROVE Place'
<1> USE DEF IInv, WorkerStep
\* A worker that moves without touching the list or the position.
<1>0. ASSUME NEW to, wpc' = [wpc EXCEPT ![w] = to],
             wpc[w] \in {"post", "position"} <=> to \in {"post", "position"},
             to \in {"work", "release", "exiting", "remove"} => Serving(w),
             \A v \in Workers : exec'[v] > 0 => exec[v] > 0,
             UNCHANGED <<sched, info, q, currentPosition>>
      PROVE  Place'
  <2>1. Leaving' <=> Leaving
    BY <1>0 DEF Leaving, TypeOK
  <2>2. \A v \in Workers : Serving(v)' => Serving(v)
    BY <1>0 DEF Serving, TypeOK
  <2> QED
    BY <1>0, <2>1, <2>2, SilentPlace
<1>1. CASE EnterWait(w)
  BY <1>0, <1>1 DEF EnterWait
<1>2. CASE InsertTail(w)
  <2>1. /\ q \in Seq(Workers) /\ Len(q') = Len(q) + 1 /\ Len(q) \in Nat
        /\ \A i \in 1 .. Len(q) : q'[i] = q[i]
    BY <1>2 DEF InsertTail, TypeOK
  <2>2. (Leaving' <=> Leaving) /\ \A v \in Workers : Serving(v)' => Serving(v)
    BY <1>2 DEF InsertTail, Leaving, Serving, TypeOK
  <2>3. Position' = Position /\ Position \in 0 .. Len(q) /\ currentPosition \in Int
    BY <1>2, <2>2 DEF InsertTail, Position, Leaving, Place, TypeOK
  <2>4. Position' \in 0 .. Len(q')
    BY <2>1, <2>3
  <2>5. q' # <<>>
    BY <2>1
  <2>6. /\ sched' = sched /\ info' = info /\ currentPosition' = currentPosition
    BY <1>2 DEF InsertTail
  <2>7. sched = "walk" => currentPosition < Len(q')
    BY <2>1, <2>3 DEF Place
  <2>8. ASSUME NEW v, currentPosition \in 1 .. Len(q) /\ q[currentPosition] = v
        PROVE  currentPosition \in 1 .. Len(q') /\ q'[currentPosition] = v
    BY <2>1, <2>8
  <2>9. \A v \in Workers : Serving(v)' =>
          currentPosition \in 1 .. Len(q') /\ q'[currentPosition] = v
    BY <2>2, <2>8 DEF Place
  <2> QED
    BY <2>4, <2>5, <2>6, <2>7, <2>8, <2>9 DEF Place
<1>3. CASE Announce(w)
  BY <1>0, <1>3 DEF Announce
<1>4. CASE WaitForCpu(w)
  <2>1. PICK to \in {"work", "exiting"} : wpc' = [wpc EXCEPT ![w] = to]
    BY <1>4 DEF WaitForCpu
  <2>2. Serving(w) /\ \A v \in Workers : exec'[v] > 0 => exec[v] > 0
    BY <1>4 DEF WaitForCpu, Serving, TypeOK
  <2> QED
    BY <1>0, <1>4, <2>1, <2>2 DEF WaitForCpu
<1>5. CASE Work(w)
  BY <1>0, <1>5 DEF Work, Serving
<1>6. CASE ReleaseCpu(w)
  BY <1>0, <1>6 DEF ReleaseCpu
<1>7. CASE Exiting(w)
  BY <1>0, <1>7 DEF Exiting, Serving
<1>8. CASE RemoveElem(w)
  <2>1. PICK at \in 1 .. Len(q) : q[at] = w /\ q' = RemoveAt(q, at)
    BY <1>8 DEF RemoveElem
  <2>2. Len(q') = Len(q) - 1 /\ Len(q) \in Nat
    <3>1. q \in Seq(Workers)
      BY DEF TypeOK
    <3>2. Len(RemoveAt(q, at)) = Len(q) - 1
      BY <3>1, RemoveAtLemma
    <3> QED
      BY <2>1, <3>1, <3>2
  <2>3. currentPosition \in 1 .. Len(q)
    BY <1>8 DEF RemoveElem, Place, Serving
  <2>4. wpc'[w] = "post"
    BY <1>8 DEF RemoveElem, TypeOK
  <2>5. Position' = currentPosition - 1
    BY <1>8, <2>4 DEF RemoveElem, Position
  <2>6. sched' = "wait_worker" /\ \A v \in Workers : ~ Serving(v)'
    <3>1. /\ sched = "wait_worker" /\ exec[w] = 0
          /\ \A v \in Workers \ {w} : ~ HasCpu(v)
      BY <1>8, OwnsCpu DEF RemoveElem, CpuStates
    <3>2. sched' = sched /\ exec' = exec /\ \A v \in Workers \ {w} : wpc'[v] = wpc[v]
      BY <1>8 DEF RemoveElem, TypeOK
    <3>3. ~ Serving(w)'
      BY <2>4, <3>1, <3>2 DEF Serving
    <3>4. \A v \in Workers \ {w} : ~ Serving(v)'
      BY <3>1, <3>2 DEF HasCpu, Serving, CpuStates
    <3> QED
      BY <3>1, <3>2, <3>3, <3>4
  <2> QED
    BY <2>2, <2>3, <2>5, <2>6 DEF Place
<1>9. CASE PostQueue(w)
  BY <1>0, <1>9 DEF PostQueue
<1>10. CASE StepBack(w)
  <2>1. /\ sched = "wait_worker" /\ exec[w] = 0
        /\ \A v \in Workers \ {w} : ~ HasCpu(v)
    BY <1>10, OwnsCpu DEF StepBack, CpuStates
  <2>2. Leaving /\ Position = currentPosition - 1
    BY <1>10 DEF StepBack, Leaving, Position
  <2>3. ~ Leaving' /\ Position' = currentPosition'
    BY <1>10, <2>1 DEF StepBack, Leaving, Position, HasCpu, CpuStates, TypeOK
  <2>4. \A v \in Workers : ~ Serving(v)'
    BY <1>10, <2>1 DEF StepBack, HasCpu, Serving, CpuStates, TypeOK
  <2> QED
    BY <1>10, <2>1, <2>2, <2>3, <2>4 DEF StepBack, Place
<1>11. CASE LoadRemaining(w)
  BY <1>0, <1>11 DEF LoadRemaining
<1>12. CASE StoreRemaining(w)
  BY <1>0, <1>12 DEF StoreRemaining
<1>13. CASE FinalRelease(w)
  BY <1>0, <1>13 DEF FinalRelease
<1> QED
  BY <1>1, <1>2, <1>3, <1>4, <1>5, <1>6, <1>7, <1>8, <1>9, <1>10, <1>11, <1>12,
     <1>13 DEF Worker

\* In round robin the steps of the scheduler keep the place.
LEMMA SchedProcPlace == ASSUME IInv, Place, SchedProc, Policy = "rr" PROVE Place'
<1> USE DEF IInv, SchedStep
<1>0. currentPosition \in Int /\ Len(q) \in Nat
  BY DEF TypeOK
\* A step that only goes on.
<1>1. CASE WaitForQueue \/ TestRemaining \/ WaitForWorker \/ SchedulerDone
  <2>1. /\ UNCHANGED <<wpc, exec, q, currentPosition>>
        /\ sched' \notin {"wrap", "walk", "wake"}
    BY <1>1 DEF WaitForQueue, TestRemaining, WaitForWorker, SchedulerDone
  <2>2. Position' = Position /\ \A w \in Workers : Serving(w)' <=> Serving(w)
    BY <2>1 DEF Position, Serving
  <2> QED
    BY <2>1, <2>2 DEF Place
<1>2. CASE FifoNext
  BY <1>2 DEF FifoNext
<1>3. CASE RRNext
  <2>1. /\ UNCHANGED <<wpc, exec, q, currentPosition>>
        /\ (sched' = "wrap" /\ q # <<>>) \/ sched' = "queue"
    BY <1>3 DEF RRNext
  <2>2. Position' = Position /\ \A w \in Workers : Serving(w)' <=> Serving(w)
    BY <2>1 DEF Position, Serving
  <2> QED
    BY <2>1, <2>2 DEF Place
<1>4. CASE RRWrap
  <2>1. /\ ~ Leaving /\ currentPosition \in 0 .. Len(q) /\ q # <<>>
        /\ \A w \in Workers : ~ Serving(w)
    BY <1>4, Choosing DEF RRWrap, Place
  <2>2. sched' = "walk" /\ UNCHANGED <<wpc, exec, q>>
    BY <1>4 DEF RRWrap
  <2>3. Len(q) > 0
    BY <1>0, <2>1 DEF TypeOK
  <2>4. currentPosition' \in 0 .. Len(q) - 1
    BY <1>0, <1>4, <2>1, <2>3 DEF RRWrap
  <2>5. Position' = currentPosition' /\ \A w \in Workers : ~ Serving(w)'
    BY <2>1, <2>2 DEF Leaving, Position, Serving
  <2> QED
    BY <1>0, <2>1, <2>2, <2>4, <2>5 DEF Place
<1>5. CASE RRWalk
  <2>1. /\ ~ Leaving /\ currentPosition \in 0 .. Len(q) - 1
        /\ \A w \in Workers : ~ Serving(w)
    BY <1>0, <1>5, Choosing DEF RRWalk, Place
  <2>2. WalkTo(currentPosition) = currentPosition
    BY <1>0, <2>1 DEF WalkTo
  <2>3. /\ sched' = "wake" /\ info' = q[currentPosition + 1]
        /\ currentPosition' = currentPosition + 1
        /\ UNCHANGED <<wpc, exec, q>>
    BY <1>0, <1>5, <2>1, <2>2 DEF RRWalk
  <2>4. Position' = currentPosition' /\ \A w \in Workers : ~ Serving(w)'
    BY <2>1, <2>3 DEF Leaving, Position, Serving
  <2> QED
    BY <1>0, <2>1, <2>3, <2>4 DEF Place
<1>6. CASE WakeUpWorker
  <2>1. /\ \A w \in Workers : ~ Serving(w)
        /\ currentPosition \in 1 .. Len(q) /\ q[currentPosition] = info
    BY <1>6, Choosing DEF WakeUpWorker, Place
  <2>2. /\ sched' = "wait_worker" /\ UNCHANGED <<info, wpc, q, currentPosition>>
        /\ exec' = [exec EXCEPT ![info] = @ + 1]
    BY <1>6 DEF WakeUpWorker
  <2>3. Position' = Position
    BY <2>2 DEF Position
  <2>4. \A w \in Workers : Serving(w)' => w = info
    BY <2>1, <2>2 DEF Serving, TypeOK
  <2> QED
    BY <2>1, <2>2, <2>3, <2>4 DEF Place
<1> QED
  BY <1>1, <1>2, <1>3, <1>4, <1>5, <1>6 DEF SchedProc

\* Nothing else moves it.
LEMMA StutterPlace == ASSUME Place, UNCHANGED vars PROVE Place'
<1>1. Position' = Position
  BY DEF Position
<1>2. \A w \in Workers : Serving(w)' <=> Serving(w)
  BY DEF Serving
<1> QED
  BY <1>1, <1>2 DEF Place

\* Every step keeps the place.
LEMMA NextPlace == IInv /\ RRPlace /\ [Next]_vars => RRPlace'
<1> SUFFICES ASSUME IInv, Place, [Next]_vars, Policy = "rr" PROVE Place'
  BY DEF RRPlace
<1> QED
  BY MainPlace, WorkerPlace, SchedProcPlace, StutterPlace DEF Next, Terminated

\* In every reachable state round robin has its place.
THEOREM PlaceInvariance == Spec => [](IInv /\ RRPlace)
<1>1. Init => RRPlace
  BY InitPlace DEF RRPlace
<1> QED
  BY <1>1, InitIInv, NextIInv, NextPlace, PTL DEF Spec

\* Round robin keeps its place in the list although others join and the running
\* worker leaves, and rr_next_worker (sched_impl.c:191-229) never walks off it.
THEOREM PositionKept == Spec => []PlaceKept
<1>1. IInv /\ RRPlace => PlaceKept
  BY DEF IInv, TypeOK, RRPlace, Place, PlaceKept, Serving
<1> QED
  BY <1>1, PlaceInvariance, PTL

-----------------------------------------------------------------------------
(* The turns.                                                              *)

\* A worker loops as often as it should.
Turned == \A w \in Workers :
  /\ iter[w] <= Iterations
  /\ wpc[w] \in {"work", "release"} => iter[w] < Iterations
  /\ wpc[w] \in {"exiting", "remove"} => iter[w] = Iterations

\* Nobody has looped when the program starts.
LEMMA InitTurned == Init => Turned
BY SchedulerAssumption DEF Init, Turned

\* Every step keeps the count of the loops.
LEMMA NextTurned == IInv /\ Turned /\ [Next]_vars => Turned'
<1> SUFFICES ASSUME IInv, Turned, [Next]_vars PROVE Turned'
  OBVIOUS
<1> USE SchedulerAssumption DEF IInv, TypeOK
<1>1. CASE CreateWorker
  <2>1. /\ created + 1 \in Workers
        /\ wpc' = [wpc EXCEPT ![created + 1] = "enter"] /\ iter' = iter
    BY <1>1 DEF CreateWorker, Creation, Workers
  <2> QED
    BY <2>1 DEF Turned
<1>2. CASE Main /\ ~ CreateWorker
  <2>1. UNCHANGED <<wpc, iter>>
    BY <1>2 DEF Main, InitSchedQueue, StartScheduler, SetRemaining, ExitError,
                ReportWaiting, JoinScheduler, CleanUp
  <2> QED
    BY <2>1 DEF Turned
<1>3. ASSUME NEW w \in Workers, Worker(w) PROVE Turned'
  <2> USE DEF WorkerStep
  <2>1. CASE WaitForCpu(w)
    BY <2>1 DEF WaitForCpu, Turned
  <2>2. CASE ReleaseCpu(w)
    BY <2>2 DEF ReleaseCpu, Turned
  <2>3. CASE Work(w)
    BY <2>3 DEF Work, Turned
  <2>4. CASE Exiting(w)
    BY <2>4 DEF Exiting, Turned
  <2>5. CASE \/ EnterWait(w) \/ InsertTail(w) \/ Announce(w) \/ RemoveElem(w)
             \/ PostQueue(w) \/ StepBack(w) \/ LoadRemaining(w)
             \/ StoreRemaining(w) \/ FinalRelease(w)
    <3>1. PICK to \in {"insert", "announce", "wait", "post", "position", "load",
                       "store", "final", "exited"} :
            wpc' = [wpc EXCEPT ![w] = to]
      BY <2>5 DEF EnterWait, InsertTail, Announce, RemoveElem, PostQueue, StepBack,
                  LoadRemaining, StoreRemaining, FinalRelease
    <3>2. iter' = iter
      BY <2>5 DEF EnterWait, InsertTail, Announce, RemoveElem, PostQueue, StepBack,
                  LoadRemaining, StoreRemaining, FinalRelease
    <3> QED
      BY <3>1, <3>2 DEF Turned
  <2> QED
    BY <1>3, <2>1, <2>2, <2>3, <2>4, <2>5 DEF Worker
<1>4. CASE SchedProc
  <2>1. UNCHANGED <<wpc, iter>>
    BY <1>4 DEF SchedProc, WaitForQueue, TestRemaining, FifoNext, RRNext, RRWrap,
                RRWalk, WakeUpWorker, WaitForWorker, SchedulerDone
  <2> QED
    BY <2>1 DEF Turned
<1>5. CASE UNCHANGED vars
  BY <1>5 DEF Turned
<1> QED
  BY <1>1, <1>2, <1>3, <1>4, <1>5 DEF Next, Terminated

\* FIFO has no place to look for.
FifoSkips == Policy = "fifo" => sched \notin {"wrap", "walk"}

\* No step of the FIFO policy looks for a place.
LEMMA NextFifoSkips == FifoSkips /\ [Next]_vars => FifoSkips'
<1> SUFFICES ASSUME FifoSkips, [Next]_vars, Policy = "fifo"
             PROVE  sched' \notin {"wrap", "walk"}
  BY DEF FifoSkips
<1> USE DEF FifoSkips
<1>1. CASE Main
  BY <1>1 DEF Main, InitSchedQueue, StartScheduler, SetRemaining, CreateWorker,
              ExitError, ReportWaiting, JoinScheduler, CleanUp
<1>2. ASSUME NEW w \in Workers, Worker(w) PROVE sched' = sched
  BY <1>2 DEF Worker, EnterWait, InsertTail, Announce, WaitForCpu, Work, ReleaseCpu,
              Exiting, RemoveElem, PostQueue, StepBack, LoadRemaining,
              StoreRemaining, FinalRelease
<1>3. CASE SchedProc
  BY <1>3 DEF SchedProc, SchedStep, WaitForQueue, TestRemaining, FifoNext, RRNext,
              RRWrap, RRWalk, WakeUpWorker, WaitForWorker, SchedulerDone
<1> QED
  BY <1>1, <1>2, <1>3 DEF Next, Terminated

\* A worker about to join finds a place in the list: it has taken one.
LEMMA RoomForOne ==
  ASSUME IInv, Counts, NEW w \in Workers, wpc[w] = "insert",
         \A i \in 1 .. Len(q) : q[i] # w
  PROVE  Len(q) < QueueSize
<1>1. queue_sem + Cardinality(Inside) = QueueSize
  <2>1. main # "init"
    BY CounterSet
  <2> QED
    BY <2>1 DEF Counts, Places
<1>2. w \in Inside
  BY DEF Inside
<1>3. IsFiniteSet(Inside \ {w}) /\ Cardinality(Inside \ {w}) = Cardinality(Inside) - 1
  BY <1>2, FiniteWorkers, FS_RemoveElement
<1>4. q \in [1 .. Len(q) -> Inside \ {w}] /\ Len(q) \in Nat
  <2>1. q \in Seq(Workers)
    BY DEF IInv, TypeOK
  <2>2. \A i \in 1 .. Len(q) : q[i] \in Workers /\ wpc[q[i]] \in LinkedStates
    BY <2>1 DEF IInv, Listed
  <2>3. \A i \in 1 .. Len(q) : q[i] \in Inside \ {w}
    BY <2>2 DEF Inside
  <2> QED
    BY <2>1, <2>3
<1>5. q \in Injection(1 .. Len(q), Inside \ {w})
  BY <1>4 DEF IInv, Listed, Injection, IsInjective
<1>6. Cardinality(1 .. Len(q)) <= Cardinality(Inside \ {w})
  BY <1>3, <1>5, FS_Injection
<1>7. Cardinality(1 .. Len(q)) = Len(q)
  <2>1. Cardinality(1 .. Len(q)) = IF 1 > Len(q) THEN 0 ELSE Len(q) - 1 + 1
    BY <1>4, FS_Interval
  <2> QED
    BY <1>4, <2>1
<1>8. queue_sem \in Nat /\ Cardinality(Inside) \in Nat
  BY FiniteWorkers, FS_CardinalityType DEF IInv, TypeOK
<1>9. Len(q) <= Cardinality(Inside) - 1 /\ Len(q) \in Nat
  BY <1>3, <1>4, <1>6, <1>7
<1> QED
  BY <1>1, <1>8, <1>9, SchedulerAssumption

\* All that the refinement rests on.
Turning == IInv /\ Counts /\ RRPlace /\ Turned /\ FifoSkips

-----------------------------------------------------------------------------
(* The line, read off the scheduler.                                       *)

Running == IF sched \in {"wake", "wait_worker"} /\ cpu_sem = 0 THEN info ELSE NULL
HadTurn == IF Policy = "fifo" THEN {} ELSE {q[i] : i \in 1 .. Position}
GoneStates == {"post", "position", "load", "store", "final", "exited"}
Gone == {w \in Workers : wpc[w] \in GoneStates}

\* A step that changes nothing of the line.
LEMMA QuietTurn ==
  ASSUME UNCHANGED <<q, iter>>, Position' = Position, Running' = Running, Gone' = Gone
  PROVE  UNCHANGED Turns!vars
<1>1. HadTurn' = HadTurn
  BY DEF HadTurn
<1> QED
  BY <1>1 DEF Turns!vars, HadTurn, Running, Gone, GoneStates

\* Who has the CPU runs.
LEMMA RunningWorker ==
  ASSUME IInv, NEW w \in Workers, wpc[w] \in CpuStates
  PROVE  Running = w /\ Running # NULL
BY OwnsCpu DEF Running, NULL, Workers

\* The scheduler starts with nobody in the line.
LEMMA InitTurns == Init => Turns!Init
BY DEF Init, Turns!Init, Turns!Nobody, NULL, Position

\* The steps of main change nothing of the line.
LEMMA MainTurns == ASSUME Turning, Main PROVE UNCHANGED Turns!vars
<1> USE DEF Turning, IInv
<1>1. CASE InitSchedQueue
  <2>1. sched = "idle" /\ sched' = "idle" /\ Len(q) = 0
    <3>1. sched = "idle" /\ sched' = "idle" /\ created = 0
      BY <1>1 DEF InitSchedQueue, Creation
    <3>2. \A i \in 1 .. Len(q) : FALSE
      BY <3>1, ListedWorkers DEF Creation, Listed, Workers, LinkedStates
    <3> QED
      BY <3>1, <3>2 DEF TypeOK
  <2>2. q = <<>> /\ q' = <<>> /\ currentPosition' = 0 /\ UNCHANGED <<wpc, iter>>
    BY <1>1, <2>1 DEF InitSchedQueue, TypeOK
  <2>3. Running' = Running /\ Gone' = Gone
    BY <2>1, <2>2 DEF Running, Gone
  <2>4. ~ Leaving /\ ~ Leaving'
    BY <2>1, <2>2, Choosing DEF Leaving
  <2>5. HadTurn = {} /\ HadTurn' = {}
    <3>1. Position' = 0
      BY <2>2, <2>4 DEF Position, Leaving
    <3>2. Policy = "rr" => Position = 0
      BY <2>1 DEF RRPlace, Place
    <3> QED
      BY <3>1, <3>2, SchedulerAssumption DEF HadTurn
  <2> QED
    BY <2>2, <2>3, <2>5 DEF Turns!vars, HadTurn, Running, Gone, GoneStates
<1>2. CASE CreateWorker
  <2>1. created + 1 \in Workers /\ wpc[created + 1] = "none"
    BY <1>2, SchedulerAssumption DEF CreateWorker, Creation, TypeOK, Workers
  <2>2. /\ wpc' = [wpc EXCEPT ![created + 1] = "enter"]
        /\ UNCHANGED <<sched, info, cpu_sem, q, iter, currentPosition>>
    BY <1>2 DEF CreateWorker
  <2>3. Gone' = Gone /\ (Leaving' <=> Leaving)
    BY <2>1, <2>2 DEF Gone, GoneStates, Leaving, TypeOK
  <2>4. Position' = Position /\ Running' = Running
    BY <2>2, <2>3 DEF Position, Leaving, Running
  <2> QED
    BY <2>2, <2>3, <2>4, QuietTurn
<1>3. CASE StartScheduler \/ SetRemaining \/ ExitError \/ ReportWaiting
           \/ JoinScheduler \/ CleanUp
  <2>1. /\ UNCHANGED <<wpc, info, cpu_sem, q, iter, currentPosition>>
        /\ \/ sched' = sched
           \/ sched = "idle" /\ sched' = "queue"
    BY <1>3 DEF StartScheduler, SetRemaining, ExitError, ReportWaiting,
                JoinScheduler, CleanUp, Creation
  <2>2. Gone' = Gone /\ Position' = Position /\ Running' = Running
    BY <2>1 DEF Gone, Position, Running
  <2> QED
    BY <2>1, <2>2, QuietTurn
<1> QED
  BY <1>1, <1>2, <1>3 DEF Main

\* The steps of a worker: joining, yielding, leaving and retiring are seen.
LEMMA WorkerTurns ==
  ASSUME Turning, NEW w \in Workers, Worker(w)
  PROVE  Turns!Next \/ UNCHANGED Turns!vars
<1> USE DEF Turning, IInv, WorkerStep
\* The steps nobody sees.
<1>0. ASSUME NEW to, wpc' = [wpc EXCEPT ![w] = to],
             wpc[w] \in {"post", "position"} <=> to \in {"post", "position"},
             wpc[w] \in GoneStates <=> to \in GoneStates,
             UNCHANGED <<sched, info, cpu_sem, q, iter, currentPosition>>
      PROVE  UNCHANGED Turns!vars
  <2>1. Leaving' <=> Leaving
    BY <1>0 DEF Leaving, TypeOK
  <2>2. Gone' = Gone
    BY <1>0 DEF Gone, TypeOK
  <2>3. Position' = Position /\ Running' = Running
    BY <1>0, <2>1 DEF Position, Leaving, Running
  <2> QED
    BY <1>0, <2>2, <2>3, QuietTurn
<1>1. CASE EnterWait(w)
  BY <1>0, <1>1 DEF EnterWait, GoneStates
<1>2. CASE InsertTail(w)
  <2>1. /\ wpc[w] = "insert" /\ wpc' = [wpc EXCEPT ![w] = "announce"]
        /\ q' = Append(q, w)
        /\ UNCHANGED <<sched, info, cpu_sem, iter, currentPosition, main>>
    BY <1>2 DEF InsertTail
  <2>2. Len(q) \in Nat /\ \A i \in 1 .. Len(q) : q'[i] = q[i]
    BY <2>1 DEF TypeOK
  <2>3. (Leaving' <=> Leaving) /\ Gone' = Gone /\ w \notin Gone
    BY <2>1 DEF Leaving, Gone, GoneStates, TypeOK
  <2>4. Position' = Position /\ Running' = Running
    BY <2>1, <2>3 DEF Position, Leaving, Running
  <2>5. HadTurn' = HadTurn
    <3>1. Policy = "rr" => Position \in 0 .. Len(q)
      BY DEF RRPlace, Place
    <3>2. CASE Policy = "rr"
      <4>1. \A i \in 1 .. Position : q'[i] = q[i]
        BY <2>2, <3>1, <3>2
      <4> QED
        BY <2>4, <4>1, Zenon DEF HadTurn
    <3>3. CASE Policy = "fifo"
      BY <3>3 DEF HadTurn
    <3> QED
      BY <3>2, <3>3, SchedulerAssumption
  <2>6. \A i \in 1 .. Len(q) : q[i] # w
    BY <2>1 DEF Listed, LinkedStates
  <2>7. Len(q) < QueueSize
    BY <2>1, <2>6, RoomForOne DEF Inside
  <2>8. Turns!Admit(w)
    BY <2>1, <2>3, <2>4, <2>5, <2>6, <2>7
    DEF Turns!Admit, Turns!InLine, HadTurn, Running, Gone, GoneStates
  <2> QED
    BY <2>8 DEF Turns!Next
<1>3. CASE Announce(w)
  BY <1>0, <1>3 DEF Announce, GoneStates
<1>4. CASE WaitForCpu(w)
  <2>1. PICK to \in {"work", "exiting"} : wpc' = [wpc EXCEPT ![w] = to]
    BY <1>4 DEF WaitForCpu
  <2> QED
    BY <1>0, <1>4, <2>1 DEF WaitForCpu, GoneStates
<1>5. CASE Work(w)
  BY <1>0, <1>5 DEF Work, GoneStates
<1>6. CASE ReleaseCpu(w)
  <2>1. /\ wpc[w] = "release" /\ wpc' = [wpc EXCEPT ![w] = "wait"]
        /\ cpu_sem' = cpu_sem + 1 /\ iter' = [iter EXCEPT ![w] = @ + 1]
        /\ UNCHANGED <<sched, info, q, currentPosition>>
    BY <1>6 DEF ReleaseCpu
  <2>2. Running = w /\ Running # NULL /\ cpu_sem = 0
    BY <2>1, OwnsCpu, RunningWorker DEF CpuStates
  <2>3. Running' = NULL
    BY <2>1, <2>2 DEF Running
  <2>4. (Leaving' <=> Leaving) /\ Gone' = Gone /\ w \notin Gone
    BY <2>1 DEF Leaving, Gone, GoneStates, TypeOK
  <2>5. Position' = Position
    BY <2>1, <2>4 DEF Position, Leaving
  <2>6. HadTurn' = HadTurn
    BY <2>1, <2>5 DEF HadTurn
  <2>7. iter[w] < Iterations
    BY <2>1 DEF Turned
  <2>8. Turns!Yield
    BY <2>1, <2>2, <2>3, <2>4, <2>6, <2>7
    DEF Turns!Yield, Turns!Nobody, HadTurn, Running, Gone, GoneStates, NULL
  <2> QED
    BY <2>8 DEF Turns!Next
<1>7. CASE Exiting(w)
  BY <1>0, <1>7 DEF Exiting, GoneStates
<1>8. CASE RemoveElem(w)
  <2>1. /\ wpc[w] = "remove" /\ wpc' = [wpc EXCEPT ![w] = "post"]
        /\ UNCHANGED <<sched, info, cpu_sem, iter, currentPosition>>
    BY <1>8 DEF RemoveElem
  <2>2. PICK at \in 1 .. Len(q) : q[at] = w /\ q' = RemoveAt(q, at)
    BY <1>8 DEF RemoveElem
  <2>3. Running = w /\ Running' = w
    BY <2>1, RunningWorker DEF Running, CpuStates
  <2>4. iter[w] = Iterations
    BY <2>1 DEF Turned
  <2>5. Gone' = Gone \cup {w}
    BY <2>1 DEF Gone, GoneStates, TypeOK
  <2>6. HadTurn' = HadTurn \ {w}
    <3>1. CASE Policy = "fifo"
      BY <3>1 DEF HadTurn
    <3>2. CASE Policy = "rr"
      <4>1. currentPosition \in 1 .. Len(q) /\ q[currentPosition] = w
        BY <2>1, <3>2 DEF RRPlace, Place, Serving
      <4>2. at = currentPosition /\ Len(q) \in Nat
        <5>1. q[at] = q[currentPosition]
          BY <2>2, <4>1
        <5>2. \A i, j \in 1 .. Len(q) : q[i] = q[j] => i = j
          BY DEF Listed
        <5>3. Len(q) \in Nat
          BY DEF TypeOK
        <5> QED
          BY <4>1, <5>1, <5>2, <5>3
      <4>3. \A i \in 1 .. at - 1 : q'[i] = q[i] /\ q[i] # w
        <5>1. q \in Seq(Workers)
          BY DEF TypeOK
        <5>2. \A i \in 1 .. Len(q) - 1 :
                RemoveAt(q, at)[i] = IF i < at THEN q[i] ELSE q[i + 1]
          BY <5>1, RemoveAtLemma
        <5>3. \A i \in 1 .. at - 1 : i \in 1 .. Len(q) - 1 /\ i < at /\ i \in 1 .. Len(q)
          BY <4>2
        <5>4. \A i \in 1 .. at - 1 : q'[i] = q[i]
          BY <2>2, <5>2, <5>3
        <5> QED
          BY <2>2, <5>3, <5>4 DEF Listed
      <4>4. ~ Leaving
        BY <2>1, OwnsCpu DEF Leaving, HasCpu, CpuStates
      <4>5. wpc'[w] = "post"
        BY <2>1 DEF TypeOK
      <4>6. Position = at /\ Position' = at - 1
        BY <2>1, <4>2, <4>4, <4>5 DEF Position, Leaving
      <4>7. \A i \in 1 .. at : i = at \/ i \in 1 .. at - 1
        BY <4>2
      <4>8. \A i \in 1 .. at - 1 : i \in 1 .. at
        BY <4>2
      <4> QED
        BY <2>2, <3>2, <4>3, <4>6, <4>7, <4>8 DEF HadTurn
    <3> QED
      BY <3>1, <3>2, SchedulerAssumption
  <2>7. Turns!Leave(at)
    BY <2>1, <2>2, <2>3, <2>4, <2>5, <2>6
    DEF Turns!Leave, Turns!RemoveAt, RemoveAt, HadTurn, Running, Gone, GoneStates
  <2> QED
    BY <2>7 DEF Turns!Next
<1>9. CASE PostQueue(w)
  BY <1>0, <1>9 DEF PostQueue, GoneStates
<1>10. CASE StepBack(w)
  <2>1. /\ wpc[w] = "position" /\ wpc' = [wpc EXCEPT ![w] = "load"]
        /\ currentPosition' = currentPosition - 1
        /\ UNCHANGED <<sched, info, cpu_sem, q, iter>>
    BY <1>10 DEF StepBack
  <2>2. \A v \in Workers \ {w} : ~ HasCpu(v)
    BY <2>1, OwnsCpu DEF CpuStates
  <2>3. Leaving /\ ~ Leaving'
    BY <2>1, <2>2 DEF Leaving, HasCpu, CpuStates, TypeOK
  <2>4. Position' = Position
    BY <2>1, <2>3 DEF Leaving, Position
  <2>5. Gone' = Gone /\ Running' = Running
    BY <2>1 DEF Gone, GoneStates, Running, TypeOK
  <2> QED
    BY <2>1, <2>4, <2>5, QuietTurn
<1>11. CASE LoadRemaining(w)
  BY <1>0, <1>11 DEF LoadRemaining, GoneStates
<1>12. CASE StoreRemaining(w)
  BY <1>0, <1>12 DEF StoreRemaining, GoneStates
<1>13. CASE FinalRelease(w)
  <2>1. /\ wpc[w] = "final" /\ wpc' = [wpc EXCEPT ![w] = "exited"]
        /\ cpu_sem' = cpu_sem + 1
        /\ UNCHANGED <<sched, info, q, iter, currentPosition>>
    BY <1>13 DEF FinalRelease
  <2>2. Running = w /\ cpu_sem = 0 /\ w \in Gone
    BY <2>1, OwnsCpu, RunningWorker DEF CpuStates, Gone, GoneStates
  <2>3. Running' = NULL
    BY <2>1, <2>2 DEF Running
  <2>4. (Leaving' <=> Leaving) /\ Gone' = Gone
    BY <2>1 DEF Leaving, Gone, GoneStates, TypeOK
  <2>5. Position' = Position
    BY <2>1, <2>4 DEF Position, Leaving
  <2>6. HadTurn' = HadTurn
    BY <2>1, <2>5 DEF HadTurn
  <2>7. Turns!Retire
    BY <2>1, <2>2, <2>3, <2>4, <2>6
    DEF Turns!Retire, Turns!Nobody, HadTurn, Running, Gone, GoneStates, NULL
  <2> QED
    BY <2>7 DEF Turns!Next
<1> QED
  BY <1>1, <1>2, <1>3, <1>4, <1>5, <1>6, <1>7, <1>8, <1>9, <1>10, <1>11, <1>12,
     <1>13 DEF Worker

\* The steps of the scheduler: choosing a worker and starting over are seen.
LEMMA SchedProcTurns ==
  ASSUME Turning, SchedProc
  PROVE  Turns!Next \/ UNCHANGED Turns!vars
<1> USE DEF Turning, IInv, SchedStep
<1>1. CASE \/ WaitForQueue \/ TestRemaining \/ RRNext \/ WakeUpWorker
           \/ WaitForWorker \/ SchedulerDone
  <2>1. UNCHANGED <<wpc, q, iter, currentPosition>>
    BY <1>1 DEF WaitForQueue, TestRemaining, RRNext, WakeUpWorker, WaitForWorker,
                SchedulerDone
  <2>2. Running' = Running
    <3>1. CASE WaitForQueue \/ TestRemaining \/ RRNext \/ SchedulerDone
      <4>1. /\ sched \notin {"wake", "wait_worker"}
            /\ sched' \notin {"wake", "wait_worker"}
        BY <3>1 DEF WaitForQueue, TestRemaining, RRNext, SchedulerDone
      <4> QED
        BY <4>1 DEF Running
    <3>2. CASE WakeUpWorker
      BY <3>2 DEF WakeUpWorker, Running
    <3>3. CASE WaitForWorker
      BY <3>3 DEF WaitForWorker, Running
    <3> QED
      BY <1>1, <3>1, <3>2, <3>3
  <2>3. Position' = Position /\ Gone' = Gone
    BY <2>1 DEF Position, Gone
  <2> QED
    BY <2>1, <2>2, <2>3, QuietTurn
<1>2. CASE FifoNext
  <2>1. /\ Policy = "fifo" /\ sched = "next" /\ cpu_sem = 0
        /\ UNCHANGED <<wpc, q, iter, currentPosition, cpu_sem>>
    BY <1>2 DEF FifoNext, Baton
  <2>2. Running = NULL /\ HadTurn = {} /\ HadTurn' = {} /\ Gone' = Gone
    BY <2>1 DEF Running, HadTurn, Gone
  <2>3. CASE q = <<>>
    <3>1. Running' = NULL
      BY <1>2, <2>3 DEF FifoNext, Running
    <3> QED
      BY <2>1, <2>2, <3>1 DEF Turns!vars, HadTurn, Running, Gone, GoneStates
  <2>4. CASE q # <<>>
    <3>1. Running' = q[1] /\ 1 \in 1 .. Len(q)
      BY <1>2, <2>1, <2>4 DEF FifoNext, Running, TypeOK
    <3>2. Turns!Dispatch(1)
      BY <2>1, <2>2, <3>1
      DEF Turns!Dispatch, Turns!IsNext, Turns!Nobody, HadTurn, Running, Gone,
          GoneStates, NULL
    <3> QED
      BY <3>1, <3>2 DEF Turns!Next
  <2> QED
    BY <2>3, <2>4
<1>3. CASE RRWrap
  <2>0. Policy = "rr"
    BY <1>3, SchedulerAssumption DEF RRWrap, FifoSkips
  <2>1. /\ sched = "wrap" /\ sched' = "walk" /\ UNCHANGED <<wpc, q, iter>>
        /\ currentPosition' =
             IF currentPosition = Len(q) THEN 0 ELSE currentPosition
    BY <1>3 DEF RRWrap
  <2>2. ~ Leaving /\ Position = currentPosition /\ q # <<>>
    BY <2>0, <2>1, Choosing DEF RRPlace, Place
  <2>3. Position' = currentPosition'
    BY <2>1, <2>2 DEF Position, Leaving
  <2>4. Running = NULL /\ Running' = NULL /\ Gone' = Gone
    BY <2>1 DEF Running, Gone
  <2>5. CASE currentPosition # Len(q)
    BY <2>1, <2>2, <2>3, <2>4, <2>5, QuietTurn
  <2>6. CASE currentPosition = Len(q)
    <3>1. HadTurn = {q[i] : i \in 1 .. Len(q)}
      BY <2>0, <2>2, <2>6 DEF HadTurn
    <3>2. HadTurn' = {}
      BY <2>0, <2>1, <2>3, <2>6 DEF HadTurn
    <3>3. {q[i] : i \in 1 .. Len(q)} # {}
      <4>1. 1 \in 1 .. Len(q)
        BY <2>2 DEF TypeOK
      <4> QED
        BY <4>1
    <3>4. Turns!NewPass
      BY <2>0, <2>1, <2>4, <3>1, <3>2, <3>3
      DEF Turns!NewPass, Turns!InLine, Turns!Nobody, HadTurn, Running, Gone,
          GoneStates, NULL
    <3> QED
      BY <3>4 DEF Turns!Next
  <2> QED
    BY <2>5, <2>6
<1>4. CASE RRWalk
  <2>0. Policy = "rr"
    BY <1>4, SchedulerAssumption DEF RRWalk, FifoSkips
  <2>1. /\ sched = "walk" /\ cpu_sem = 0 /\ currentPosition \in 0 .. Len(q) - 1
        /\ ~ Leaving /\ Position = currentPosition /\ Len(q) \in Nat
    BY <1>4, <2>0, Choosing DEF RRWalk, RRPlace, Place, TypeOK, Baton
  <2>2. WalkTo(currentPosition) = currentPosition
    BY <2>1 DEF WalkTo
  <2>3. /\ sched' = "wake" /\ info' = q[currentPosition + 1]
        /\ currentPosition' = currentPosition + 1
        /\ UNCHANGED <<wpc, q, iter, cpu_sem>>
    BY <1>4, <2>1, <2>2 DEF RRWalk
  <2>4. Position' = currentPosition + 1
    BY <2>1, <2>3 DEF Position, Leaving
  <2>5. Running = NULL /\ Running' = q[currentPosition + 1] /\ Gone' = Gone
    BY <2>1, <2>3 DEF Running, Gone
  <2>6. HadTurn = {q[i] : i \in 1 .. currentPosition}
    BY <2>0, <2>1 DEF HadTurn
  <2>7. HadTurn' = HadTurn \cup {q[currentPosition + 1]}
    <3>1. HadTurn' = {q[i] : i \in 1 .. currentPosition + 1}
      BY <2>0, <2>3, <2>4 DEF HadTurn
    <3>2. \A i \in 1 .. currentPosition + 1 :
            i \in 1 .. currentPosition \/ i = currentPosition + 1
      BY <2>1
    <3>3. /\ currentPosition + 1 \in 1 .. currentPosition + 1
          /\ \A i \in 1 .. currentPosition : i \in 1 .. currentPosition + 1
      BY <2>1
    <3> QED
      BY <2>6, <3>1, <3>2, <3>3
  <2>8. q[currentPosition + 1] \notin HadTurn
    <3>1. /\ currentPosition + 1 \in 1 .. Len(q)
          /\ \A i \in 1 .. currentPosition : i \in 1 .. Len(q) /\ i # currentPosition + 1
      BY <2>1
    <3> QED
      BY <2>6, <3>1 DEF Listed
  <2>9. \A j \in 1 .. (currentPosition + 1) - 1 : q[j] \in HadTurn
    BY <2>1, <2>6
  <2>10. PICK at \in 1 .. Len(q) : at = currentPosition + 1
    BY <2>1
  <2>11. Turns!Dispatch(at)
    BY <2>0, <2>1, <2>3, <2>5, <2>7, <2>8, <2>9, <2>10
    DEF Turns!Dispatch, Turns!IsNext, Turns!Nobody, HadTurn, Running, Gone,
        GoneStates, NULL
  <2> QED
    BY <2>11 DEF Turns!Next
<1> QED
  BY <1>1, <1>2, <1>3, <1>4 DEF SchedProc

\* Every step is one of the line or is not seen.
LEMMA NextTurns == Turning /\ [Next]_vars => [Turns!Next]_(Turns!vars)
<1> SUFFICES ASSUME Turning, [Next]_vars
             PROVE  Turns!Next \/ UNCHANGED Turns!vars
  OBVIOUS
<1>1. CASE UNCHANGED vars
  <2>1. Position' = Position /\ Running' = Running /\ Gone' = Gone
    BY <1>1 DEF Position, Running, Gone
  <2> QED
    BY <1>1, <2>1, QuietTurn
<1> QED
  BY <1>1, MainTurns, WorkerTurns, SchedProcTurns DEF Next, Terminated

\* What the refinement rests on holds in every reachable state.
LEMMA TurningInvariance == Spec => []Turning
<1>1. Spec => [](Turned /\ FifoSkips)
  <2>1. Init => FifoSkips
    BY DEF Init, FifoSkips
  <2> QED
    BY <2>1, InitIInv, InitTurned, NextIInv, NextTurned, NextFifoSkips, PTL DEF Spec
<1> QED
  BY <1>1, CountsInvariance, PlaceInvariance, PTL DEF Turning

\* ImplementsCpuTurns: the threads of p4, handing the CPU to and fro with their
\* semaphores (scheduler.c:58-112, sched_impl.c), behave like a line of workers
\* of which the policy serves one at a time.
THEOREM Refinement == Spec => ImplementsCpuTurns
BY InitTurns, NextTurns, TurningInvariance, PTL
  DEF Spec, ImplementsCpuTurns, Turns!Spec

-----------------------------------------------------------------------------
(* What lab4_tests.c reads in the output: which of its checks reject no    *)
(* schedule, and that under round robin nobody waits for more turns than   *)
(* there are other places in the queue.                                    *)

-----------------------------------------------------------------------------
(* The scheduler below the log.                                            *)

\* The log watches the scheduler and changes nothing of it.
LEMMA LogStep == [LogNext]_logVars => [Next]_vars
BY DEF LogNext, logVars, NumberWorker, Choose, Silent, LineAdmitted, LineLoop,
       LineExiting, Next, SchedProc, Worker, Main

\* So each theorem about the scheduler is one about the scheduler with its log.
THEOREM LogKeepsScheduler == LogSpec => Spec
BY LogStep, PTL DEF LogSpec, LogInit, Spec

-----------------------------------------------------------------------------
(* What has been printed.                                                  *)

\* Before a worker has printed "in scheduler queue".
Unannounced == {"none", "enter", "insert", "announce"}

\* The workers that have printed it, and those that have not printed "exiting".
Admitted == {w \in Workers : wpc[w] \notin Unannounced}
Queued == {w \in Workers : wpc[w] \in {"wait", "work", "release", "exiting"}}

\* The loops a worker has printed.
Printed(w) == iter[w] + IF wpc[w] = "release" THEN 1 ELSE 0

\* Nobody runs before it has joined and said so.
Fresh == \A w \in Workers : wpc[w] \in Unannounced => iter[w] = 0

\* compute_queue_size counts the lines right.
Counted ==
  /\ final_threads = Cardinality(Queued)
  /\ admitted_threads = Cardinality(Admitted)
  /\ threads_max <= QueueSize

\* Who has been created has a number of its own or that of an earlier worker;
\* unless two had one at once, the earlier worker has exited.
Numbered ==
  /\ id \in [Workers -> 0 .. NumWorkers]
  /\ \A w \in Workers : w <= created => id[w] \in 1 .. w
  /\ ~ shared => \A v, w \in Workers :
                   v < w /\ w <= created /\ id[v] = id[w] => wpc[v] = "exited"

\* A bucket that exists counts loops.
Buckets == Nat \cup {NoBucket}

\* check_executed has a bucket for each number that was admitted.  While no two
\* workers shared one, it has accepted every line, and the bucket of a worker
\* that is in the queue holds the loops of that worker.
Executed ==
  /\ executed \in [bucket : [Workers -> Buckets], ok : BOOLEAN]
  /\ \A k \in Workers : executed.bucket[k] # NoBucket
                         <=> \E w \in Admitted : id[w] = k
  /\ ~ shared => /\ executed.ok
                 /\ \A w \in Queued : executed.bucket[id[w]] = Printed(w)

\* A worker that moves changes what has been printed by itself at most.
LEMMA ShownMoves ==
  ASSUME TypeOK, NEW w \in Workers, NEW to, wpc' = [wpc EXCEPT ![w] = to],
         \A v \in Workers \ {w} : iter'[v] = iter[v]
  PROVE  /\ Admitted' = IF to \in Unannounced THEN Admitted \ {w}
                                              ELSE Admitted \cup {w}
         /\ Queued' = IF to \in {"wait", "work", "release", "exiting"}
                        THEN Queued \cup {w} ELSE Queued \ {w}
         /\ \A v \in Workers \ {w} : Printed(v)' = Printed(v)
         /\ wpc'[w] = to
BY DEF TypeOK, Admitted, Queued, Printed

\* There are finitely many of them.
LEMMA FiniteShown == /\ IsFiniteSet(Admitted) /\ Cardinality(Admitted) \in Nat
                     /\ IsFiniteSet(Queued) /\ Cardinality(Queued) \in Nat
<1>1. Admitted \in SUBSET Workers /\ Queued \in SUBSET Workers
  BY DEF Admitted, Queued
<1> QED
  BY <1>1, FiniteWorkers, FS_Subset, FS_CardinalityType

\* Nobody has printed anything at first.
LEMMA InitShown == LogInit => Fresh /\ Numbered /\ Counted /\ Executed
<1> SUFFICES ASSUME LogInit PROVE Fresh /\ Numbered /\ Counted /\ Executed
  OBVIOUS
<1>1. Admitted = {} /\ Queued = {}
  BY DEF LogInit, Init, Admitted, Queued, Unannounced
<1>2. Fresh /\ Executed
  BY <1>1 DEF LogInit, Init, Fresh, Executed, Buckets
<1>4. Numbered
  BY SchedulerAssumption DEF LogInit, Init, Numbered, NoThread, Workers
<1>3. Counted
  BY <1>1, FS_EmptySet, SchedulerAssumption DEF LogInit, Counted
<1> QED
  BY <1>2, <1>3, <1>4

\* A worker starts to count its loops when it has said that it is in the queue.
LEMMA NextFresh == IInv /\ Fresh /\ [Next]_vars => Fresh'
<1> SUFFICES ASSUME IInv, Fresh, [Next]_vars PROVE Fresh'
  OBVIOUS
<1> USE DEF IInv, TypeOK
<1>1. CASE CreateWorker
  <2>1. /\ created + 1 \in Workers /\ wpc[created + 1] = "none"
        /\ wpc' = [wpc EXCEPT ![created + 1] = "enter"] /\ iter' = iter
    BY <1>1, SchedulerAssumption DEF CreateWorker, Creation, Workers
  <2> QED
    BY <2>1 DEF Fresh, Unannounced
<1>2. CASE Main /\ ~ CreateWorker
  <2>1. UNCHANGED <<wpc, iter>>
    BY <1>2 DEF Main, InitSchedQueue, StartScheduler, SetRemaining, ExitError,
                ReportWaiting, JoinScheduler, CleanUp
  <2> QED
    BY <2>1 DEF Fresh
<1>3. ASSUME NEW w \in Workers, Worker(w) PROVE Fresh'
  <2> USE DEF WorkerStep
  <2>1. CASE EnterWait(w) \/ InsertTail(w)
    <3>1. PICK to : wpc' = [wpc EXCEPT ![w] = to]
      BY <2>1 DEF EnterWait, InsertTail
    <3>2. wpc[w] \in Unannounced /\ iter' = iter
      BY <2>1 DEF EnterWait, InsertTail, Unannounced
    <3> QED
      BY <3>1, <3>2 DEF Fresh
  <2>2. CASE ~ (EnterWait(w) \/ InsertTail(w))
    <3>1. PICK to : to \notin Unannounced /\ wpc' = [wpc EXCEPT ![w] = to]
      BY <1>3, <2>2 DEF Worker, Announce, WaitForCpu, Work, ReleaseCpu, Exiting,
           RemoveElem, PostQueue, StepBack, LoadRemaining, StoreRemaining,
           FinalRelease, Unannounced
    <3>2. \A v \in Workers \ {w} : iter'[v] = iter[v]
      BY <1>3, <2>2 DEF Worker, Announce, WaitForCpu, Work, ReleaseCpu, Exiting,
           RemoveElem, PostQueue, StepBack, LoadRemaining, StoreRemaining,
           FinalRelease
    <3> QED
      BY <3>1, <3>2 DEF Fresh
  <2> QED
    BY <2>1, <2>2
<1>4. CASE SchedProc
  <2>1. UNCHANGED <<wpc, iter>>
    BY <1>4 DEF SchedProc, WaitForQueue, TestRemaining, FifoNext, RRNext, RRWrap,
                RRWalk, WakeUpWorker, WaitForWorker, SchedulerDone
  <2> QED
    BY <2>1 DEF Fresh
<1>5. CASE UNCHANGED vars
  BY <1>5 DEF Fresh
<1> QED
  BY <1>1, <1>2, <1>3, <1>4, <1>5 DEF Next, Terminated

\* A step that prints nothing changes nothing of what has been printed.
LEMMA SilentShown ==
  ASSUME IInv, Silent \/ NumberWorker
  PROVE  /\ Admitted' = Admitted /\ Queued' = Queued
         /\ \A v \in Workers : Printed(v)' = Printed(v)
<1> USE DEF IInv
<1>1. CASE CreateWorker
  <2>1. /\ created + 1 \in Workers /\ wpc[created + 1] = "none"
        /\ wpc' = [wpc EXCEPT ![created + 1] = "enter"] /\ iter' = iter
    BY <1>1, SchedulerAssumption DEF CreateWorker, Creation, TypeOK, Workers
  <2> QED
    BY <2>1 DEF TypeOK, Admitted, Queued, Unannounced, Printed
<1>2. CASE \/ Main /\ ~ CreateWorker
           \/ WaitForQueue \/ TestRemaining \/ RRNext \/ RRWrap \/ WakeUpWorker
           \/ WaitForWorker \/ SchedulerDone \/ Terminated
  <2>1. UNCHANGED <<wpc, iter>>
    BY <1>2 DEF Main, InitSchedQueue, StartScheduler, SetRemaining, ExitError,
                ReportWaiting, JoinScheduler, CleanUp, WaitForQueue, TestRemaining,
                RRNext, RRWrap, WakeUpWorker, WaitForWorker, SchedulerDone, Terminated
  <2> QED
    BY <2>1 DEF Admitted, Queued, Printed
<1>3. ASSUME NEW w \in Workers, ReleaseCpu(w)
      PROVE  /\ Admitted' = Admitted /\ Queued' = Queued
             /\ \A v \in Workers : Printed(v)' = Printed(v)
  <2>1. /\ wpc[w] = "release" /\ wpc' = [wpc EXCEPT ![w] = "wait"]
        /\ iter' = [iter EXCEPT ![w] = @ + 1]
    BY <1>3 DEF ReleaseCpu, WorkerStep
  <2> QED
    BY <2>1 DEF TypeOK, Admitted, Queued, Unannounced, Printed
<1>4. ASSUME NEW w \in Workers,
             \/ EnterWait(w) \/ InsertTail(w) \/ WaitForCpu(w) \/ RemoveElem(w)
             \/ PostQueue(w) \/ StepBack(w) \/ LoadRemaining(w)
             \/ StoreRemaining(w) \/ FinalRelease(w)
      PROVE  /\ Admitted' = Admitted /\ Queued' = Queued
             /\ \A v \in Workers : Printed(v)' = Printed(v)
  <2>1. PICK to : wpc' = [wpc EXCEPT ![w] = to]
                  /\ wpc[w] # "release" /\ to # "release"
                  /\ (wpc[w] \in Unannounced <=> to \in Unannounced)
                  /\ (wpc[w] \in {"wait", "work", "release", "exiting"}
                        <=> to \in {"wait", "work", "release", "exiting"})
    BY <1>4 DEF EnterWait, InsertTail, WaitForCpu, RemoveElem, PostQueue, StepBack,
         LoadRemaining, StoreRemaining, FinalRelease, WorkerStep, Unannounced
  <2>2. iter' = iter
    BY <1>4 DEF EnterWait, InsertTail, WaitForCpu, RemoveElem, PostQueue, StepBack,
         LoadRemaining, StoreRemaining, FinalRelease
  <2> QED
    BY <2>1, <2>2 DEF TypeOK, Admitted, Queued, Printed
<1> QED
  BY <1>1, <1>2, <1>3, <1>4 DEF Silent, NumberWorker, Main

\* Only pthread_create gives numbers, and who has exited stays so.
LEMMA NumbersStay ==
  ASSUME IInv, [LogNext]_logVars, ~ NumberWorker
  PROVE  /\ id' = id /\ shared' = shared /\ created' = created
         /\ \A w \in Workers : wpc[w] = "exited" => wpc'[w] = "exited"
<1>1. id' = id /\ shared' = shared
  BY DEF LogNext, logVars, ids, Choose, Silent, LineAdmitted, LineLoop, LineExiting
<1>2. ASSUME NEW w \in Workers, Worker(w)
      PROVE  /\ created' = created
             /\ \A v \in Workers : wpc[v] = "exited" => wpc'[v] = "exited"
  <2>1. wpc[w] # "exited" /\ (\E to : wpc' = [wpc EXCEPT ![w] = to])
        /\ created' = created
    BY <1>2 DEF Worker, WorkerStep, EnterWait, InsertTail, Announce, WaitForCpu,
                Work, ReleaseCpu, Exiting, RemoveElem, PostQueue, StepBack,
                LoadRemaining, StoreRemaining, FinalRelease
  <2> QED
    BY <2>1 DEF IInv, TypeOK
<1>3. CASE UNCHANGED <<created, wpc>>
  BY <1>1, <1>3
<1>4. UNCHANGED <<created, wpc>> \/ \E w \in Workers : Worker(w)
  <2>1. CASE Choose \/ UNCHANGED logVars
    BY <2>1 DEF Choose, FifoNext, RRWalk, SchedStep, logVars
  <2>2. CASE Silent
    BY <2>2 DEF Silent, Worker, SchedStep, InitSchedQueue, StartScheduler,
                SetRemaining, ExitError, ReportWaiting, JoinScheduler, CleanUp,
                WaitForQueue, TestRemaining, RRNext, RRWrap, WakeUpWorker,
                WaitForWorker, SchedulerDone, Terminated
  <2>3. ASSUME NEW w \in Workers, LineAdmitted(w) \/ LineLoop(w) \/ LineExiting(w)
        PROVE  Worker(w)
    BY <2>3 DEF LineAdmitted, LineLoop, LineExiting, Worker
  <2> QED
    BY <2>1, <2>2, <2>3 DEF LogNext
<1> QED
  BY <1>1, <1>2, <1>3, <1>4

\* Numbers come back from workers that have exited, or are shared.
LEMMA NextNumbered == ASSUME IInv, Numbered, [LogNext]_logVars PROVE Numbered'
<1>1. CASE NumberWorker
  <2> DEFINE w == created + 1
  <2>1. /\ w \in Workers /\ created \in Nat /\ created' = w /\ wpc[w] = "none"
        /\ wpc' = [wpc EXCEPT ![w] = "enter"]
    BY <1>1, SchedulerAssumption
       DEF NumberWorker, CreateWorker, IInv, Creation, TypeOK, Workers
  <2>2. PICK k \in {w} \cup {id[u] : u \in 1 .. created} :
          /\ id' = [id EXCEPT ![w] = k]
          /\ shared' = (shared \/ \E u \in 1 .. created :
                                    id[u] = k /\ wpc[u] # "exited")
    BY <1>1 DEF NumberWorker
  <2> HIDE DEF w
  <2>3. k \in 1 .. w
    <3>1. CASE k = w
      BY <2>1, <3>1 DEF Workers
    <3>2. ASSUME NEW u \in 1 .. created, k = id[u] PROVE k \in 1 .. w
      <4>1. u \in Workers /\ u <= created
        BY <2>1, <3>2, SchedulerAssumption DEF Workers, w
      <4>2. id[u] \in 1 .. u
        BY <4>1 DEF Numbered
      <4> QED
        BY <2>1, <3>2, <4>1, <4>2 DEF Workers, w
    <3> QED
      BY <2>2, <3>1, <3>2
  <2>4. k \in 0 .. NumWorkers /\ id' \in [Workers -> 0 .. NumWorkers] /\ id'[w] = k
        /\ \A v \in Workers \ {w} : id'[v] = id[v]
    BY <2>1, <2>2, <2>3, SchedulerAssumption DEF Numbered, Workers
  <2>5. ASSUME NEW v \in Workers, v <= created' PROVE id'[v] \in 1 .. v
    <3>1. CASE v = w
      BY <2>3, <2>4, <3>1
    <3>2. CASE v # w
      <4>1. v <= created
        BY <2>1, <2>5, <3>2 DEF w, Workers
      <4> QED
        BY <2>4, <3>2, <4>1 DEF Numbered
    <3> QED
      BY <3>1, <3>2
  <2>6. ASSUME ~ shared', NEW u \in Workers, NEW v \in Workers,
               u < v, v <= created', id'[u] = id'[v]
        PROVE  wpc'[u] = "exited"
    <3>1. u # w /\ u <= created /\ u \in 1 .. created
      BY <2>1, <2>6 DEF w, Workers
    <3>2. wpc'[u] = wpc[u] /\ id'[u] = id[u] /\ ~ shared
      BY <2>1, <2>2, <2>4, <2>6, <3>1 DEF IInv, TypeOK
    <3>3. CASE v = w
      BY <2>2, <2>4, <2>6, <3>1, <3>2, <3>3
    <3>4. CASE v # w
      <4>1. v <= created /\ id'[v] = id[v]
        BY <2>1, <2>4, <2>6, <3>4 DEF w, Workers
      <4> QED
        BY <2>6, <3>2, <4>1 DEF Numbered
    <3> QED
      BY <3>3, <3>4
  <2> QED
    BY <2>4, <2>5, <2>6 DEF Numbered
<1>2. CASE ~ NumberWorker
  BY <1>2, NumbersStay DEF Numbered
<1> QED
  BY <1>1, <1>2

\* Two workers that are in the queue have two numbers, unless they share one.
LEMMA QueuedNumbers ==
  ASSUME IInv, Numbered
  PROVE  /\ \A w \in Admitted : id[w] \in Workers
         /\ Queued \in SUBSET Admitted
         /\ ~ shared => \A v, w \in Queued : id[v] = id[w] => v = w
<1>1. \A w \in Workers : wpc[w] # "none" => w <= created /\ id[w] \in Workers
  BY SchedulerAssumption DEF IInv, Creation, TypeOK, Numbered, Workers
<1>2. \A v, w \in Workers : v # w => v < w \/ w < v
  BY DEF Workers
<1>3. Queued \in SUBSET Admitted /\ Admitted \in SUBSET Workers
  BY DEF Queued, Admitted, Unannounced
<1>4. ASSUME ~ shared, NEW v \in Queued, NEW w \in Queued, id[v] = id[w]
      PROVE  v = w
  <2>1. /\ v \in Workers /\ wpc[v] # "exited" /\ v <= created
        /\ w \in Workers /\ wpc[w] # "exited" /\ w <= created
    BY <1>1 DEF Queued
  <2> QED
    BY <1>2, <1>4, <2>1 DEF Numbered
<1> QED
  BY <1>1, <1>3, <1>4 DEF Admitted, Unannounced

\* The readers count right, line by line.
LEMMA NextShown ==
  Turning /\ Fresh /\ Numbered /\ Counted /\ Executed /\ [LogNext]_logVars
    => Counted' /\ Executed'
<1> SUFFICES ASSUME Turning, Fresh, Numbered, Counted, Executed, [LogNext]_logVars
             PROVE  Counted' /\ Executed'
  OBVIOUS
<1> USE DEF Turning
<1>t. TypeOK /\ FifoSkips
  BY DEF IInv
<1>q. /\ \A w \in Admitted : id[w] \in Workers
      /\ Queued \in SUBSET Admitted
      /\ ~ shared => \A v, w \in Queued : id[v] = id[w] => v = w
  BY QueuedNumbers
<1>1. CASE NumberWorker \/ Choose \/ Silent \/ UNCHANGED logVars
  <2>1. /\ Admitted' = Admitted /\ Queued' = Queued
        /\ \A v \in Workers : Printed(v)' = Printed(v)
    <3>1. CASE Choose \/ UNCHANGED logVars
      <4>1. UNCHANGED <<wpc, iter>>
        BY <3>1 DEF Choose, FifoNext, RRWalk, logVars
      <4> QED
        BY <4>1 DEF Admitted, Queued, Printed
    <3> QED
      BY <1>1, <3>1, SilentShown
  <2>2. UNCHANGED readers
    BY <1>1 DEF NumberWorker, Choose, Silent, logVars
  <2>3. Admitted \in SUBSET {w \in Workers : id'[w] = id[w]} /\ (shared => shared')
    <3>1. CASE NumberWorker
      <4>1. /\ created + 1 \in Workers /\ wpc[created + 1] = "none"
            /\ \A v \in Workers \ {created + 1} : id'[v] = id[v]
            /\ shared => shared'
        <5>1. created + 1 \in Workers /\ wpc[created + 1] = "none"
          BY <3>1, SchedulerAssumption
             DEF NumberWorker, CreateWorker, IInv, Creation, TypeOK, Workers
        <5>2. PICK k : id' = [id EXCEPT ![created + 1] = k] /\ (shared => shared')
          BY <3>1 DEF NumberWorker
        <5> QED
          BY <5>1, <5>2 DEF Numbered
      <4> QED
        BY <4>1 DEF Admitted, Unannounced
    <3>2. CASE ~ NumberWorker
      BY <1>1, <3>2, NumbersStay DEF Admitted
    <3> QED
      BY <3>1, <3>2
  <2>4. executed' = executed /\ Counted'
    BY <2>1, <2>2 DEF Counted, readers
  <2>5. \A k \in Workers : (\E w \in Admitted' : id'[w] = k)
                          <=> \E w \in Admitted : id[w] = k
    BY <2>1, <2>3
  <2>6. \A w \in Queued' : w \in Queued /\ id'[w] = id[w] /\ Printed(w)' = Printed(w)
    BY <1>q, <2>1, <2>3
  <2>7. Executed'
    BY <2>3, <2>4, <2>5, <2>6 DEF Executed
  <2> QED
    BY <2>4, <2>7
<1>2. ASSUME NEW w \in Workers, LineAdmitted(w) PROVE Counted' /\ Executed'
  <2>1. /\ wpc[w] = "announce" /\ wpc' = [wpc EXCEPT ![w] = "wait"]
        /\ iter' = iter /\ main' = main
    BY <1>2 DEF LineAdmitted, Announce, WorkerStep
  <2>2. /\ w \notin Admitted /\ Admitted' = Admitted \cup {w}
        /\ w \notin Queued /\ Queued' = Queued \cup {w}
        /\ \A v \in Workers : Printed(v)' = Printed(v)
        /\ Printed(w)' = 0
    <3>1. iter[w] = 0
      BY <2>1 DEF Fresh, Unannounced
    <3> QED
      BY <1>t, <2>1, <3>1 DEF TypeOK, Admitted, Queued, Printed, Unannounced
  <2>3. /\ Cardinality(Admitted') = Cardinality(Admitted) + 1
        /\ Cardinality(Queued') = Cardinality(Queued) + 1
    BY <2>2, FiniteShown, FS_AddElement
  <2>4. Cardinality(Queued') <= QueueSize
    <3>1. queue_sem + Cardinality(Inside) = QueueSize /\ queue_sem \in Nat
      BY <1>t, <2>1, CounterSet DEF Counts, Places, TypeOK
    <3>2. Queued' \in SUBSET Inside
      BY <2>1, <2>2 DEF Queued, Inside, LinkedStates
    <3>3. Cardinality(Queued') <= Cardinality(Inside)
      BY <3>2, FiniteWorkers, FS_Subset
    <3>4. Cardinality(Queued') \in Nat /\ Cardinality(Inside) \in Nat
      BY <3>2, FiniteWorkers, FS_Subset, FS_CardinalityType
    <3> QED
      BY <3>1, <3>3, <3>4, SchedulerAssumption
  <2>5. Counted'
    BY <1>2, <2>3, <2>4 DEF LineAdmitted, CountAdmitted, Counted
  <2>6. Executed'
    <3>1. executed' = [executed EXCEPT !.bucket[id[w]] = 0]
          /\ id' = id /\ shared' = shared
      BY <1>2 DEF LineAdmitted, ExecutedAdmitted, ids
    <3>2. id[w] \in Workers
      BY <2>1, SchedulerAssumption DEF Turning, IInv, Creation, TypeOK, Numbered, Workers
    <3>3. /\ executed'.bucket \in [Workers -> Buckets] /\ executed'.bucket[id[w]] = 0
          /\ \A k \in Workers \ {id[w]} : executed'.bucket[k] = executed.bucket[k]
          /\ executed'.ok = executed.ok
          /\ executed' \in [bucket : [Workers -> Buckets], ok : BOOLEAN]
      BY <3>1, <3>2 DEF Executed, Buckets
    <3>4. \A k \in Workers : executed'.bucket[k] # NoBucket
                             <=> \E v \in Admitted' : id'[v] = k
      BY <2>2, <3>1, <3>2, <3>3 DEF Executed, NoBucket
    <3>5. ASSUME ~ shared', NEW v \in Queued' PROVE executed'.bucket[id'[v]] = Printed(v)'
      <4>1. CASE v = w
        BY <2>2, <3>1, <3>3, <4>1
      <4>2. CASE v # w
        <5>1. v \in Queued /\ v \in Workers /\ id[v] \in Workers
          BY <1>q, <2>2, <3>5, <4>2 DEF Queued
        <5>2. id[v] # id[w]
          <6>1. /\ wpc[v] # "exited" /\ wpc[w] # "exited"
                /\ v <= created /\ w <= created
            <7>1. \A u \in Workers : wpc[u] # "none" => u <= created
              BY <1>t DEF Turning, IInv, Creation, TypeOK, Workers
            <7>2. wpc[v] \notin {"exited", "none"} /\ wpc[w] \notin {"exited", "none"}
              BY <2>1, <5>1 DEF Queued
            <7> QED
              BY <5>1, <7>1, <7>2
          <6>2. v < w \/ w < v
            BY <4>2, <5>1 DEF Workers
          <6> QED
            BY <3>1, <3>5, <5>1, <6>1, <6>2 DEF Numbered
        <5> QED
          BY <2>2, <3>1, <3>3, <3>5, <5>1, <5>2 DEF Executed
      <4> QED
        BY <4>1, <4>2
    <3> QED
      BY <3>1, <3>3, <3>4, <3>5 DEF Executed
  <2> QED
    BY <2>5, <2>6
<1>3. ASSUME NEW w \in Workers, LineLoop(w) PROVE Counted' /\ Executed'
  <2>1. /\ wpc[w] = "work" /\ wpc' = [wpc EXCEPT ![w] = "release"] /\ iter' = iter
    BY <1>3 DEF LineLoop, Work, WorkerStep
  <2>2. /\ w \in Admitted /\ Admitted' = Admitted /\ Queued' = Queued
        /\ \A v \in Workers \ {w} : Printed(v)' = Printed(v)
        /\ Printed(w) = iter[w] /\ Printed(w)' = iter[w] + 1 /\ iter[w] \in Nat
    BY <1>t, <2>1 DEF TypeOK, Admitted, Queued, Printed, Unannounced
  <2>3. Counted'
    BY <1>3, <2>2 DEF LineLoop, Counted
  <2>q. w \in Queued /\ id[w] \in Workers
    BY <1>q, <2>1, <2>2 DEF Queued
  <2>4. /\ id' = id /\ shared' = shared
        /\ executed' = [executed EXCEPT
             !.bucket[id[w]] = Bucket(executed.bucket, id[w]) + 1,
             !.ok = executed.ok /\ Bucket(executed.bucket, id[w]) = iter[w]]
    BY <1>3 DEF LineLoop, ExecutedLoop, ids
  <2>5. /\ executed.bucket[id[w]] # NoBucket
        /\ Bucket(executed.bucket, id[w]) = executed.bucket[id[w]]
        /\ executed.bucket[id[w]] \in Nat
    BY <2>q, <2>2 DEF Executed, Bucket, Buckets
  <2>7. /\ executed' \in [bucket : [Workers -> Buckets], ok : BOOLEAN]
        /\ executed'.bucket[id[w]] = executed.bucket[id[w]] + 1
        /\ \A k \in Workers \ {id[w]} : executed'.bucket[k] = executed.bucket[k]
        /\ executed.ok /\ executed.bucket[id[w]] = iter[w] => executed'.ok
    <3>1. executed'.bucket = [executed.bucket EXCEPT
                                ![id[w]] = executed.bucket[id[w]] + 1]
      BY <2>4, <2>5 DEF Executed
    <3>2. executed'.ok = (executed.ok /\ Bucket(executed.bucket, id[w]) = iter[w])
          /\ executed' = [bucket |-> executed'.bucket, ok |-> executed'.ok]
      BY <2>4 DEF Executed
    <3>3. executed.bucket \in [Workers -> Buckets] /\ executed.bucket[id[w]] + 1 \in Buckets
      BY <2>5 DEF Executed, Buckets
    <3>4. executed'.bucket \in [Workers -> Buckets]
      BY <2>q, <3>1, <3>3
    <3> QED
      BY <2>q, <2>5, <3>1, <3>2, <3>3, <3>4
  <2>8. ASSUME ~ shared
        PROVE  /\ executed'.ok
               /\ \A v \in Queued : executed'.bucket[id[v]] = Printed(v)'
    <3>1. executed.ok /\ executed.bucket[id[w]] = iter[w]
      BY <2>q, <2>2, <2>8 DEF Executed
    <3>2. ASSUME NEW v \in Queued, v # w
          PROVE  executed'.bucket[id[v]] = Printed(v)'
      <4>1. id[v] \in Workers /\ id[v] # id[w] /\ v \in Workers
        BY <1>q, <2>q, <2>8, <3>2 DEF Queued
      <4> QED
        BY <2>2, <2>7, <2>8, <3>2, <4>1 DEF Executed
    <3> QED
      BY <2>2, <2>7, <3>1, <3>2
  <2>9. \A k \in Workers : executed'.bucket[k] # NoBucket
                           <=> \E v \in Admitted : id[v] = k
    <3>1. executed'.bucket[id[w]] # NoBucket
      BY <2>5, <2>7 DEF NoBucket
    <3> QED
      BY <2>q, <2>2, <2>7, <3>1 DEF Executed
  <2>6. Executed'
    BY <2>2, <2>4, <2>7, <2>8, <2>9 DEF Executed
  <2> QED
    BY <2>3, <2>6
<1>4. ASSUME NEW w \in Workers, LineExiting(w) PROVE Counted' /\ Executed'
  <2>1. /\ wpc[w] = "exiting" /\ wpc' = [wpc EXCEPT ![w] = "remove"] /\ iter' = iter
    BY <1>4 DEF LineExiting, Exiting, WorkerStep
  <2>2. /\ w \in Admitted /\ Admitted' = Admitted
        /\ w \in Queued /\ Queued' = Queued \ {w}
        /\ \A v \in Workers : Printed(v)' = Printed(v)
        /\ Printed(w) = iter[w] /\ iter[w] \in Nat
    BY <1>t, <2>1 DEF TypeOK, Admitted, Queued, Printed, Unannounced
  <2>3. Cardinality(Queued') = Cardinality(Queued) - 1
    BY <2>2, FiniteShown, FS_RemoveElement
  <2>4. Counted'
    BY <1>4, <2>2, <2>3 DEF LineExiting, CountExiting, Counted
  <2>5. iter[w] = Iterations
    BY <2>1 DEF Turned
  <2>6. /\ id' = id /\ shared' = shared
        /\ executed' = [executed EXCEPT
             !.ok = executed.ok /\ Bucket(executed.bucket, id[w]) = Iterations]
    BY <1>4 DEF LineExiting, ExecutedExiting, ids
  <2>7. /\ executed'.bucket = executed.bucket
        /\ executed' \in [bucket : [Workers -> Buckets], ok : BOOLEAN]
        /\ ~ shared => executed'.ok
    <3>1. ~ shared => executed.ok /\ Bucket(executed.bucket, id[w]) = Iterations
      BY <1>q, <2>2, <2>5 DEF Executed, Bucket, NoBucket
    <3> QED
      BY <2>6, <3>1 DEF Executed
  <2>8. Executed'
    <3>1. \A v \in Queued' : v \in Queued /\ v \in Workers
      BY <2>2 DEF Queued
    <3>2. \A v \in Queued' : Printed(v)' = Printed(v)
      BY <2>2, <3>1
    <3>3. ~ shared => \A v \in Queued' : executed.bucket[id[v]] = Printed(v)
      BY <3>1 DEF Executed
    <3>4. ~ shared' => \A v \in Queued' : executed'.bucket[id'[v]] = Printed(v)'
      BY <2>6, <2>7, <3>2, <3>3
    <3>5. \A k \in Workers : executed'.bucket[k] # NoBucket
                             <=> \E v \in Admitted' : id'[v] = k
      BY <2>2, <2>6, <2>7 DEF Executed
    <3> QED
      BY <2>6, <2>7, <3>4, <3>5 DEF Executed
  <2> QED
    BY <2>4, <2>8
<1> QED
  BY <1>1, <1>2, <1>3, <1>4 DEF LogNext

\* What the readers have counted is right in every reachable state.
THEOREM LogInvariance ==
  LogSpec => [](Turning /\ Fresh /\ Numbered /\ Counted /\ Executed)
<1>1. LogSpec => []Turning
  BY LogKeepsScheduler, TurningInvariance, PTL
<1>2. Turning => IInv
  BY DEF Turning
<1>3. Turning /\ Fresh /\ Numbered /\ Counted /\ Executed /\ [LogNext]_logVars
        => Fresh' /\ Numbered' /\ Counted' /\ Executed'
  BY <1>2, LogStep, NextFresh, NextNumbered, NextShown
<1> QED
  BY <1>1, <1>3, InitShown, PTL DEF LogSpec

\* check_rudimentary (lab4_tests.c:219) rejects no run for its order or its
\* counts of lines, unless two workers had one number at once; but its last
\* line, which counts the numbers, accepts exactly the runs in which no worker
\* got the number of another, exited or not.
THEOREM OnlyReuseIsRejected == LogSpec => []RejectsOnlyReuse
<1>1. ASSUME Turning, Numbered, Counted, Executed PROVE RejectsOnlyReuse
  <2>1. threads_max <= QueueSize /\ (~ shared => executed.ok)
    BY <1>1 DEF Counted, Executed
  <2>2. ASSUME Exited
        PROVE  /\ final_threads = 0 /\ admitted_threads = NumWorkers
               /\ OwnIds <=>
                    Cardinality({k \in Workers : executed.bucket[k] # NoBucket})
                      = NumWorkers
    <3> DEFINE used == {k \in Workers : executed.bucket[k] # NoBucket}
    <3>1. Queued = {} /\ Admitted = Workers
      BY <2>2 DEF Exited, Queued, Admitted, Unannounced
    <3>2. final_threads = 0 /\ admitted_threads = NumWorkers
      BY <1>1, <3>1, FS_EmptySet, FiniteWorkers DEF Counted
    <3>3. \A k \in Workers : k \in used <=> \E w \in Workers : id[w] = k
      BY <1>1, <3>1 DEF Executed
    <3>4. \A w \in Workers : id[w] \in Workers
      BY <1>1, <3>1, QueuedNumbers DEF Turning
    <3>5. id \in Surjection(Workers, used)
      <4>1. id \in [Workers -> used]
        <5>1. \A w \in Workers : id[w] \in used
          BY <3>3, <3>4
        <5> QED
          BY <1>1, <5>1 DEF Numbered
      <4>2. \A k \in used : \E w \in Workers : id[w] = k
        BY <3>3
      <4> QED
        BY <4>1, <4>2 DEF Surjection
    <3>6. Cardinality(used) = NumWorkers <=> id \in Injection(Workers, used)
      BY <3>5, FS_Surjection, FiniteWorkers
    <3>7. id \in Injection(Workers, used) <=> OwnIds
      <4>1. id \in [Workers -> used]
        BY <3>5 DEF Surjection
      <4> QED
        BY <4>1 DEF Injection, IsInjective, OwnIds
    <3> QED
      BY <3>2, <3>6, <3>7
  <2> QED
    BY <2>1, <2>2 DEF RejectsOnlyReuse
<1> QED
  BY <1>1, LogInvariance, PTL

-----------------------------------------------------------------------------
(* Whose turn it is.                                                       *)

\* The scheduler has chosen the worker, and it has not given the CPU back.
Chosen(w) == Serving(w) \/ (sched = "wake" /\ info = w)

\* The turns a worker has had, the one it is having included.
Had(w) == iter[w] + IF Chosen(w) THEN 1 ELSE 0

\* Before main has set the queue up it is empty.
LEMMA EmptyAtFirst == ASSUME IInv, main = "init" PROVE q = <<>> /\ sched = "idle"
<1>1. sched = "idle" /\ created = 0
  BY DEF IInv, Creation
<1>2. \A i \in 1 .. Len(q) : FALSE
  BY <1>1, ListedWorkers DEF IInv, Creation, Listed, Workers, LinkedStates
<1> QED
  BY <1>1, <1>2 DEF IInv, TypeOK

\* While the scheduler is not about to wake a worker or waiting for one, nobody
\* is chosen.
LEMMA NobodyChosen ==
  ASSUME IInv, sched \notin {"wake", "wait_worker"}
  PROVE  \A w \in Workers : ~ Chosen(w)
BY Choosing DEF Chosen

\* The steps of main choose nobody.
LEMMA MainChooses ==
  ASSUME IInv, Main
  PROVE  \A v \in Workers : /\ Chosen(v)' <=> Chosen(v)
                            /\ iter'[v] = iter[v]
<1> USE DEF IInv
<1>1. CASE CreateWorker
  <2>1. created + 1 \in Workers /\ wpc[created + 1] = "none"
    BY <1>1, SchedulerAssumption DEF CreateWorker, Creation, TypeOK, Workers
  <2>2. ~ Chosen(created + 1)
    <3>1. ~ HasCpu(created + 1)
      BY <2>1 DEF Baton, CpuStates
    <3> QED
      BY <2>1, <3>1 DEF Chosen, Serving, HasCpu, Baton
  <2>3. /\ wpc' = [wpc EXCEPT ![created + 1] = "enter"]
        /\ exec' = [exec EXCEPT ![created + 1] = 0]
        /\ UNCHANGED <<sched, info, iter>>
    BY <1>1 DEF CreateWorker
  <2>4. \A v \in Workers \ {created + 1} : wpc'[v] = wpc[v] /\ exec'[v] = exec[v]
    BY <2>3 DEF TypeOK
  <2>5. wpc'[created + 1] = "enter" /\ exec'[created + 1] = 0
    BY <2>1, <2>3 DEF TypeOK
  <2>6. sched = "wake" => info # created + 1
    BY <2>1 DEF Baton
  <2> QED
    BY <2>2, <2>3, <2>4, <2>5, <2>6 DEF Chosen, Serving
<1>2. CASE StartScheduler
  <2>1. /\ sched = "idle" /\ sched' = "queue" /\ UNCHANGED <<wpc, exec, iter>>
    BY <1>2 DEF StartScheduler, Creation
  <2> QED
    BY <2>1 DEF Chosen, Serving
<1>3. CASE InitSchedQueue \/ SetRemaining \/ ExitError \/ ReportWaiting
           \/ JoinScheduler \/ CleanUp
  <2>1. UNCHANGED <<sched, info, wpc, exec, iter>>
    BY <1>3 DEF InitSchedQueue, SetRemaining, ExitError, ReportWaiting,
                JoinScheduler, CleanUp
  <2> QED
    BY <2>1 DEF Chosen, Serving
<1> QED
  BY <1>1, <1>2, <1>3 DEF Main

\* A worker keeps the CPU it has been given until it gives it back or has left
\* the list, and nobody else gets it.
LEMMA WorkerChooses ==
  ASSUME IInv, NEW w \in Workers, Worker(w)
  PROVE  /\ \A v \in Workers \ {w} : /\ Chosen(v)' <=> Chosen(v)
                                     /\ iter'[v] = iter[v]
         /\ Chosen(w)' => Chosen(w)
         /\ ReleaseCpu(w) => ~ Chosen(w)' /\ Chosen(w)
         /\ ~ ReleaseCpu(w) => iter'[w] = iter[w]
         /\ ~ ReleaseCpu(w) /\ ~ RemoveElem(w) => (Chosen(w)' <=> Chosen(w))
<1> USE DEF IInv, WorkerStep, TypeOK
<1>0. UNCHANGED <<sched, info>>
  BY DEF Worker, EnterWait, InsertTail, Announce, WaitForCpu, Work, ReleaseCpu,
       Exiting, RemoveElem, PostQueue, StepBack, LoadRemaining, StoreRemaining,
       FinalRelease
<1>1. CASE WaitForCpu(w)
  <2>1. /\ wpc[w] = "wait" /\ wpc'[w] \in {"work", "exiting"} /\ exec[w] > 0
        /\ iter' = iter
        /\ \A v \in Workers \ {w} : wpc'[v] = wpc[v] /\ exec'[v] = exec[v]
    BY <1>1 DEF WaitForCpu
  <2>2. ~ ReleaseCpu(w)
    BY <2>1 DEF ReleaseCpu
  <2> QED
    BY <1>0, <2>1, <2>2 DEF Chosen, Serving
<1>2. CASE ReleaseCpu(w)
  <2>1. /\ wpc[w] = "release" /\ wpc'[w] = "wait" /\ exec' = exec
        /\ iter' = [iter EXCEPT ![w] = @ + 1]
        /\ \A v \in Workers \ {w} : wpc'[v] = wpc[v]
    BY <1>2 DEF ReleaseCpu
  <2>2. sched = "wait_worker" /\ exec[w] = 0
    BY <2>1, OwnsCpu DEF CpuStates
  <2> QED
    BY <1>0, <1>2, <2>1, <2>2 DEF Chosen, Serving
<1>3. CASE ~ WaitForCpu(w) /\ ~ ReleaseCpu(w)
  <2>1. PICK to : /\ wpc' = [wpc EXCEPT ![w] = to]
                  /\ to \in {"work", "release", "exiting", "remove"}
                       => wpc[w] \in {"work", "release", "exiting", "remove"}
                  /\ wpc[w] \in {"work", "release", "exiting", "remove"}
                       => \/ to \in {"work", "release", "exiting", "remove"}
                          \/ RemoveElem(w)
    BY <1>3 DEF Worker, EnterWait, InsertTail, Announce, Work, Exiting, RemoveElem,
         PostQueue, StepBack, LoadRemaining, StoreRemaining, FinalRelease
  <2>2. UNCHANGED <<iter, exec>>
    BY <1>3 DEF Worker, EnterWait, InsertTail, Announce, Work, Exiting, RemoveElem,
         PostQueue, StepBack, LoadRemaining, StoreRemaining, FinalRelease
  <2>3. \A v \in Workers \ {w} : wpc'[v] = wpc[v]
    BY <2>1
  <2>4. wpc'[w] = to
    BY <2>1
  <2> QED
    BY <1>0, <1>3, <2>1, <2>2, <2>3, <2>4 DEF Chosen, Serving
<1> QED
  BY <1>1, <1>2, <1>3

\* The scheduler wakes whom it has chosen and waits for it.
LEMMA SchedProcChooses ==
  ASSUME IInv, SchedProc
  PROVE  /\ iter' = iter
         /\ ~ (FifoNext \/ RRWalk) =>
              \A v \in Workers : Chosen(v)' <=> Chosen(v)
         /\ FifoNext \/ RRWalk =>
              \A v \in Workers : /\ ~ Chosen(v)
                                 /\ Chosen(v)' <=> sched' = "wake" /\ info' = v
<1> USE DEF IInv, SchedStep, TypeOK
<1>1. iter' = iter
  BY DEF SchedProc, WaitForQueue, TestRemaining, FifoNext, RRNext, RRWrap, RRWalk,
         WakeUpWorker, WaitForWorker, SchedulerDone
<1>2. CASE FifoNext \/ RRWalk
  <2>1. sched \in {"next", "walk"} /\ UNCHANGED <<wpc, exec>>
    BY <1>2 DEF FifoNext, RRWalk
  <2>2. \A v \in Workers : ~ Chosen(v) /\ ~ Serving(v)
    BY <2>1, NobodyChosen DEF Chosen
  <2>3. \A v \in Workers : ~ Serving(v)'
    BY <2>1, <2>2 DEF Serving
  <2> QED
    BY <1>1, <1>2, <2>2, <2>3 DEF Chosen
<1>3. CASE WakeUpWorker
  <2>1. /\ sched = "wake" /\ sched' = "wait_worker" /\ UNCHANGED <<info, wpc>>
        /\ exec' = [exec EXCEPT ![info] = @ + 1] /\ info \in Workers
    BY <1>3 DEF WakeUpWorker, Baton
  <2>2. \A v \in Workers : ~ Serving(v)
    BY <2>1, Choosing
  <2>3. \A v \in Workers \ {info} : exec'[v] = exec[v]
    BY <2>1
  <2>4. exec'[info] > 0
    BY <2>1
  <2>5. ~ (FifoNext \/ RRWalk)
    BY <2>1 DEF FifoNext, RRWalk
  <2> QED
    BY <1>1, <2>1, <2>2, <2>3, <2>4, <2>5 DEF Chosen, Serving
<1>4. CASE WaitForQueue \/ TestRemaining \/ RRNext \/ RRWrap \/ WaitForWorker
           \/ SchedulerDone
  <2>1. /\ sched # "wake" /\ sched' # "wake" /\ UNCHANGED <<wpc, exec>>
        /\ ~ (FifoNext \/ RRWalk)
    BY <1>4 DEF WaitForQueue, TestRemaining, RRNext, RRWrap, WaitForWorker,
         SchedulerDone, FifoNext, RRWalk
  <2> QED
    BY <1>1, <2>1 DEF Chosen, Serving
<1> QED
  BY <1>2, <1>3, <1>4 DEF SchedProc

-----------------------------------------------------------------------------
(* FIFO: the head of the line runs until it leaves.                        *)

\* Only the head runs.
HeadRuns == \A w \in Workers : Chosen(w) => q # <<>> /\ q[1] = w

\* The others in the list have not run yet.
Behind == \A i \in 2 .. Len(q) : iter[q[i]] = 0

\* The loops printed since the last "exiting".
Loops == IF q = <<>> THEN 0
         ELSE IF wpc[q[1]] = "remove" THEN 0 ELSE Printed(q[1])

\* check_executed_fifo knows of these loops, and whose they are.
Reading ==
  fifo = [prev_thread |-> IF Loops = 0 THEN NoThread ELSE q[1],
          counter |-> Loops, ok |-> TRUE]

\* Under FIFO the head of the queue runs, and the log is about it.
FifoLine == Policy = "fifo" => HeadRuns /\ Behind /\ Reading

\* A step that leaves the list alone and gives nobody the CPU.
LEMMA QuietHead ==
  ASSUME TypeOK, HeadRuns, Behind, q' = q,
         \A v \in Workers : Chosen(v)' => Chosen(v),
         \A v \in Workers : iter'[v] = iter[v]
  PROVE  HeadRuns' /\ Behind'
<1>1. \A i \in 2 .. Len(q) : q[i] \in Workers
  BY DEF TypeOK
<1> QED
  BY <1>1 DEF HeadRuns, Behind

\* Taking the head away makes the second the head.
LEMMA NewHead ==
  ASSUME IInv, NEW w \in Workers, RemoveElem(w), q # <<>>, q[1] = w
  PROVE  /\ Len(q) \in Nat \ {0} /\ Len(q') = Len(q) - 1
         /\ \A j \in 1 .. Len(q) - 1 : q'[j] = q[j + 1]
<1>1. q \in Seq(Workers) /\ Len(q) \in Nat \ {0}
  BY DEF IInv, TypeOK
<1>2. PICK at \in 1 .. Len(q) : q[at] = w /\ q' = RemoveAt(q, at)
  BY DEF RemoveElem
<1>3. at = 1
  BY <1>1, <1>2 DEF IInv, Listed
<1>4. /\ Len(RemoveAt(q, 1)) = Len(q) - 1
      /\ \A j \in 1 .. Len(q) - 1 : RemoveAt(q, 1)[j] =
           IF j < 1 THEN q[j] ELSE q[j + 1]
  BY <1>1, <1>2, <1>3, RemoveAtLemma
<1> QED
  BY <1>1, <1>2, <1>3, <1>4

\* Under FIFO the scheduler and the workers keep to the head of the list.
LEMMA NextHead ==
  ASSUME IInv, Fresh, Policy = "fifo", FifoSkips, HeadRuns, Behind, [Next]_vars
  PROVE  HeadRuns' /\ Behind'
<1>t. TypeOK
  BY DEF IInv
<1>1. CASE Main
  <2>1. CASE InitSchedQueue
    <3>1. q = <<>> /\ q' = <<>>
      BY <2>1, EmptyAtFirst DEF InitSchedQueue
    <3> QED
      BY <1>1, <1>t, <3>1, MainChooses, QuietHead
  <2>2. CASE ~ InitSchedQueue
    <3>1. q' = q
      BY <1>1, <2>2 DEF Main, StartScheduler, SetRemaining, CreateWorker, ExitError,
                        ReportWaiting, JoinScheduler, CleanUp
    <3> QED
      BY <1>1, <1>t, <3>1, MainChooses, QuietHead
  <2> QED
    BY <2>1, <2>2
<1>2. ASSUME NEW w \in Workers, Worker(w) PROVE HeadRuns' /\ Behind'
  <2>1. CASE InsertTail(w)
    <3>1. /\ wpc[w] = "insert" /\ q' = Append(q, w) /\ iter' = iter
      BY <2>1 DEF InsertTail, WorkerStep
    <3>2. /\ q \in Seq(Workers) /\ Len(q) \in Nat /\ Len(q') = Len(q) + 1
          /\ q'[Len(q) + 1] = w /\ \A i \in 1 .. Len(q) : q'[i] = q[i]
      BY <1>t, <3>1 DEF TypeOK
    <3>3. \A v \in Workers : Chosen(v)' => Chosen(v)
      BY <1>2, WorkerChooses
    <3>4. HeadRuns'
      <4>1. q # <<>> => q'[1] = q[1]
        BY <3>2
      <4>2. q' # <<>>
        BY <3>2
      <4> QED
        BY <3>3, <4>1, <4>2 DEF HeadRuns
    <3>5. iter[w] = 0
      BY <3>1 DEF Fresh, Unannounced
    <3>6. Behind'
      <4>1. \A i \in 2 .. Len(q) + 1 : i = Len(q) + 1
                                       \/ (i \in 2 .. Len(q) /\ i \in 1 .. Len(q))
        BY <3>2
      <4> QED
        BY <3>1, <3>2, <3>5, <4>1 DEF Behind
    <3> QED
      BY <3>4, <3>6
  <2>2. CASE RemoveElem(w)
    <3>1. /\ wpc[w] = "remove" /\ iter' = iter /\ sched' = sched
          /\ wpc' = [wpc EXCEPT ![w] = "post"] /\ exec' = exec
      BY <2>2 DEF RemoveElem, WorkerStep
    <3>2. q # <<>> /\ q[1] = w
      BY <3>1 DEF HeadRuns, Chosen, Serving
    <3>3. \A v \in Workers : ~ Chosen(v)'
      <4>1. /\ sched = "wait_worker" /\ exec[w] = 0
            /\ \A v \in Workers \ {w} : ~ HasCpu(v)
        BY <3>1, OwnsCpu DEF CpuStates
      <4>2. wpc'[w] = "post" /\ \A v \in Workers \ {w} : wpc'[v] = wpc[v]
        BY <1>t, <3>1 DEF TypeOK
      <4>3. ~ Chosen(w)'
        BY <3>1, <4>1, <4>2 DEF Chosen, Serving
      <4>4. \A v \in Workers \ {w} : ~ Chosen(v)'
        BY <3>1, <4>1, <4>2 DEF Chosen, Serving, HasCpu, CpuStates
      <4> QED
        BY <4>3, <4>4
    <3>4. Behind'
      <4>1. /\ Len(q) \in Nat \ {0} /\ Len(q') = Len(q) - 1
            /\ \A j \in 1 .. Len(q) - 1 : q'[j] = q[j + 1]
        BY <2>2, <3>2, NewHead
      <4>2. \A j \in 2 .. Len(q) - 1 : j \in 1 .. Len(q) - 1 /\ j + 1 \in 2 .. Len(q)
        BY <4>1
      <4> QED
        BY <3>1, <4>1, <4>2 DEF Behind
    <3> QED
      BY <3>3, <3>4 DEF HeadRuns
  <2>3. CASE ReleaseCpu(w)
    <3>1. q' = q /\ Chosen(w) /\ iter' = [iter EXCEPT ![w] = @ + 1]
      BY <1>2, <2>3, WorkerChooses DEF ReleaseCpu
    <3>2. q # <<>> /\ q[1] = w
      BY <3>1 DEF HeadRuns
    <3>3. \A i \in 2 .. Len(q) : q[i] \in Workers /\ q[i] # w
      <4>1. q \in Seq(Workers)
        BY <1>t DEF TypeOK
      <4>2. \A i \in 2 .. Len(q) : i \in 1 .. Len(q) /\ 1 \in 1 .. Len(q) /\ i # 1
        BY <4>1
      <4>3. \A i, j \in 1 .. Len(q) : q[i] = q[j] => i = j
        BY DEF IInv, Listed
      <4>4. \A i \in 2 .. Len(q) : q[i] # q[1]
        BY <4>2, <4>3
      <4> QED
        BY <3>2, <4>1, <4>2, <4>4
    <3>4. Behind'
      BY <1>t, <3>1, <3>3 DEF Behind, TypeOK
    <3>5. HeadRuns'
      BY <1>2, <3>1, WorkerChooses DEF HeadRuns
    <3> QED
      BY <3>4, <3>5
  <2>4. CASE ~ InsertTail(w) /\ ~ RemoveElem(w) /\ ~ ReleaseCpu(w)
    <3>1. q' = q
      BY <1>2, <2>4 DEF Worker, EnterWait, Announce, WaitForCpu, Work, Exiting,
           PostQueue, StepBack, LoadRemaining, StoreRemaining, FinalRelease
    <3>2. \A v \in Workers : (Chosen(v)' => Chosen(v)) /\ iter'[v] = iter[v]
      BY <1>2, <2>4, WorkerChooses
    <3> QED
      BY <1>t, <3>1, <3>2, QuietHead
  <2> QED
    BY <2>1, <2>2, <2>3, <2>4
<1>3. CASE SchedProc
  <2>1. CASE FifoNext
    <3>1. /\ q' = q /\ iter' = iter
          /\ sched' = "wake" => q # <<>> /\ info' = q[1]
      BY <2>1, <1>t DEF FifoNext, SchedStep, TypeOK
    <3>2. \A v \in Workers : Chosen(v)' => sched' = "wake" /\ info' = v
      BY <1>3, <2>1, SchedProcChooses
    <3> QED
      BY <3>1, <3>2 DEF HeadRuns, Behind
  <2>2. CASE RRWalk
    BY <2>2 DEF RRWalk, FifoSkips
  <2>3. CASE ~ FifoNext /\ ~ RRWalk
    <3>1. q' = q
      BY <1>3, <2>3 DEF SchedProc, WaitForQueue, TestRemaining, RRNext, RRWrap,
           WakeUpWorker, WaitForWorker, SchedulerDone
    <3>2. \A v \in Workers : (Chosen(v)' => Chosen(v)) /\ iter'[v] = iter[v]
      BY <1>3, <2>3, SchedProcChooses
    <3> QED
      BY <1>t, <3>1, <3>2, QuietHead
  <2> QED
    BY <2>1, <2>2, <2>3
<1>4. CASE UNCHANGED vars
  BY <1>4 DEF HeadRuns, Behind, Chosen, Serving
<1> QED
  BY <1>1, <1>2, <1>3, <1>4 DEF Next, Terminated

\* A step that moves nobody at the head and prints nothing of it.
LEMMA SameReading ==
  ASSUME TypeOK, Reading, fifo' = fifo, q' = q,
         \A v \in Workers : /\ Printed(v)' = Printed(v)
                            /\ wpc'[v] = "remove" <=> wpc[v] = "remove"
  PROVE  Reading'
<1>1. CASE q = <<>>
  BY <1>1 DEF Reading, Loops
<1>2. CASE q # <<>>
  <2>1. q[1] \in Workers
    BY <1>2 DEF TypeOK
  <2>2. Printed(q[1])' = Printed(q[1]) /\ (wpc'[q[1]] = "remove" <=> wpc[q[1]] = "remove")
    BY <2>1
  <2>3. Loops' = Loops
    BY <1>2, <2>2 DEF Loops, Printed
  <2> QED
    BY <2>3 DEF Reading
<1> QED
  BY <1>1, <1>2

\* Who prints a loop or "exiting" is the head, and its loops are known.
LEMMA HeadPrints ==
  ASSUME TypeOK, HeadRuns, NEW w \in Workers, wpc[w] \in {"work", "exiting"}
  PROVE  /\ q # <<>> /\ q[1] = w /\ Loops = iter[w] /\ iter[w] \in Nat
         /\ Printed(w) = iter[w]
<1>1. q # <<>> /\ q[1] = w
  BY DEF HeadRuns, Chosen, Serving
<1>2. iter[w] \in Nat /\ Printed(w) = iter[w]
  BY DEF Printed, TypeOK
<1>3. Loops = Printed(w)
  <2>1. wpc[q[1]] # "remove"
    BY <1>1
  <2> QED
    BY <1>1, <2>1 DEF Loops
<1> QED
  BY <1>1, <1>2, <1>3

\* Under FIFO check_executed_fifo reads loops of the head only.
LEMMA NextReading ==
  ASSUME Turning, Fresh, Policy = "fifo", HeadRuns, Behind, Reading, [LogNext]_logVars
  PROVE  Reading'
<1> USE DEF Turning
<1>t. TypeOK /\ IInv
  BY DEF IInv
<1>1. CASE Choose \/ UNCHANGED logVars
  <2>1. UNCHANGED <<wpc, iter, q, fifo>>
    BY <1>1 DEF Choose, FifoNext, RRWalk, readers, logVars
  <2> QED
    BY <2>1 DEF Reading, Loops, Printed
<1>2. CASE NumberWorker \/ Silent
  <2>0. fifo' = fifo /\ \A v \in Workers : Printed(v)' = Printed(v)
    BY <1>2, <1>t, SilentShown DEF NumberWorker, Silent, readers
  <2>1. CASE InitSchedQueue
    <3>1. q' = q /\ wpc' = wpc
      BY <1>t, <2>1, EmptyAtFirst DEF InitSchedQueue
    <3> QED
      BY <1>t, <2>0, <3>1, SameReading
  <2>2. CASE CreateWorker
    <3>1. /\ created + 1 \in Workers /\ wpc[created + 1] = "none" /\ q' = q
          /\ wpc' = [wpc EXCEPT ![created + 1] = "enter"]
      BY <1>t, <2>2, SchedulerAssumption DEF CreateWorker, IInv, Creation, TypeOK, Workers
    <3>2. \A v \in Workers : wpc'[v] = "remove" <=> wpc[v] = "remove"
      BY <1>t, <3>1 DEF TypeOK
    <3> QED
      BY <1>t, <2>0, <3>1, <3>2, SameReading
  <2>3. CASE \/ Main /\ ~ InitSchedQueue /\ ~ CreateWorker
             \/ WaitForQueue \/ TestRemaining \/ RRNext \/ RRWrap \/ WakeUpWorker
             \/ WaitForWorker \/ SchedulerDone \/ Terminated
    <3>1. UNCHANGED <<wpc, q>>
      BY <2>3 DEF Main, StartScheduler, SetRemaining, ExitError, ReportWaiting,
           JoinScheduler, CleanUp, WaitForQueue, TestRemaining, RRNext, RRWrap,
           WakeUpWorker, WaitForWorker, SchedulerDone, Terminated
    <3> QED
      BY <1>t, <2>0, <3>1, SameReading
  <2>4. ASSUME NEW w \in Workers, InsertTail(w) PROVE Reading'
    <3>1. /\ wpc[w] = "insert" /\ q' = Append(q, w)
          /\ wpc' = [wpc EXCEPT ![w] = "announce"]
      BY <2>4 DEF InsertTail, WorkerStep
    <3>2. /\ q \in Seq(Workers) /\ Len(q) \in Nat /\ Len(q') = Len(q) + 1
          /\ q'[Len(q) + 1] = w /\ \A i \in 1 .. Len(q) : q'[i] = q[i]
      BY <1>t, <3>1 DEF TypeOK
    <3>3. q' # <<>>
      BY <3>2
    <3>4. CASE q = <<>>
      <4>1. q'[1] = w
        BY <3>2, <3>4
      <4>2. Printed(w)' = 0
        BY <2>0, <3>1 DEF Fresh, Unannounced, Printed
      <4>3. Loops = 0 /\ Loops' = 0
        BY <3>3, <3>4, <4>1, <4>2 DEF Loops, Printed
      <4> QED
        BY <2>0, <4>3 DEF Reading
    <3>5. CASE q # <<>>
      <4>1. q'[1] = q[1] /\ q[1] \in Workers
        BY <3>2, <3>5
      <4>2. wpc'[q[1]] = "remove" <=> wpc[q[1]] = "remove"
        BY <1>t, <3>1, <4>1 DEF TypeOK
      <4>3. Printed(q[1])' = Printed(q[1])
        BY <2>0, <4>1
      <4>4. Loops' = Loops
        BY <3>3, <3>5, <4>1, <4>2, <4>3 DEF Loops, Printed
      <4> QED
        BY <2>0, <4>1, <4>4 DEF Reading
    <3> QED
      BY <3>4, <3>5
  <2>5. ASSUME NEW w \in Workers, RemoveElem(w) PROVE Reading'
    <3>1. /\ wpc[w] = "remove" /\ wpc' = [wpc EXCEPT ![w] = "post"] /\ iter' = iter
      BY <2>5 DEF RemoveElem, WorkerStep
    <3>2. q # <<>> /\ q[1] = w
      BY <3>1 DEF HeadRuns, Chosen, Serving
    <3>3. Loops = 0
      BY <3>1, <3>2 DEF Loops
    <3>4. /\ Len(q) \in Nat \ {0} /\ Len(q') = Len(q) - 1
          /\ \A j \in 1 .. Len(q) - 1 : q'[j] = q[j + 1]
      BY <1>t, <2>5, <3>2, NewHead
    <3>5. ASSUME q' # <<>> PROVE Printed(q[1])' = 0
      <4>1. Len(q') \in Nat \ {0}
        <5>1. q' \in Seq(Workers)
          BY <1>t, <3>2, <2>5, RemoveAtLemma DEF RemoveElem, TypeOK
        <5> QED
          BY <3>5, <5>1
      <4>2. 2 \in 2 .. Len(q) /\ 2 \in 1 .. Len(q) /\ 1 \in 1 .. Len(q) /\ q'[1] = q[2]
        BY <3>4, <4>1
      <4>3. q[2] \in Workers /\ q[2] # w
        <5>1. \A i, j \in 1 .. Len(q) : q[i] = q[j] => i = j
          BY <1>t DEF IInv, Listed
        <5>2. q[2] # q[1]
          BY <4>2, <5>1
        <5>3. q[2] \in Workers
          BY <1>t, <4>2 DEF TypeOK
        <5> QED
          BY <3>2, <5>2, <5>3
      <4>4. iter[q[2]] = 0
        BY <4>2 DEF Behind
      <4>5. wpc[q[2]] # "release"
        BY <3>2, <4>3 DEF HeadRuns, Chosen, Serving
      <4>6. wpc'[q[2]] = wpc[q[2]]
        BY <1>t, <3>1, <4>3 DEF TypeOK
      <4> QED
        BY <3>1, <4>2, <4>4, <4>5, <4>6 DEF Printed
    <3>6. Loops' = 0
      BY <3>5 DEF Loops, Printed
    <3> QED
      BY <2>0, <3>3, <3>6 DEF Reading
  <2>6. ASSUME NEW w \in Workers,
               \/ EnterWait(w) \/ WaitForCpu(w) \/ ReleaseCpu(w) \/ PostQueue(w)
               \/ StepBack(w) \/ LoadRemaining(w) \/ StoreRemaining(w)
               \/ FinalRelease(w)
        PROVE  Reading'
    <3>1. PICK to : /\ wpc' = [wpc EXCEPT ![w] = to]
                    /\ wpc[w] # "remove" /\ to # "remove"
      BY <2>6 DEF EnterWait, WaitForCpu, ReleaseCpu, PostQueue, StepBack,
           LoadRemaining, StoreRemaining, FinalRelease, WorkerStep
    <3>2. q' = q
      BY <2>6 DEF EnterWait, WaitForCpu, ReleaseCpu, PostQueue, StepBack,
           LoadRemaining, StoreRemaining, FinalRelease
    <3>3. \A v \in Workers : wpc'[v] = "remove" <=> wpc[v] = "remove"
      BY <1>t, <3>1 DEF TypeOK
    <3> QED
      BY <1>t, <2>0, <3>2, <3>3, SameReading
  <2> QED
    BY <1>2, <2>1, <2>2, <2>3, <2>4, <2>5, <2>6 DEF NumberWorker, Silent, Main
<1>3. ASSUME NEW w \in Workers, LineAdmitted(w) PROVE Reading'
  <2>1. /\ wpc[w] = "announce" /\ wpc' = [wpc EXCEPT ![w] = "wait"]
        /\ UNCHANGED <<iter, q, fifo>>
    BY <1>3 DEF LineAdmitted, Announce, WorkerStep
  <2>2. \A v \in Workers : /\ Printed(v)' = Printed(v)
                           /\ wpc'[v] = "remove" <=> wpc[v] = "remove"
    BY <1>t, <2>1 DEF TypeOK, Printed
  <2> QED
    BY <1>t, <2>1, <2>2, SameReading
<1>4. ASSUME NEW w \in Workers, LineLoop(w) PROVE Reading'
  <2>1. /\ wpc[w] = "work" /\ wpc' = [wpc EXCEPT ![w] = "release"]
        /\ UNCHANGED <<iter, q>> /\ FifoLoop(w)
    BY <1>4 DEF LineLoop, Work, WorkerStep
  <2>2. q # <<>> /\ q[1] = w /\ Loops = iter[w] /\ iter[w] \in Nat
    BY <1>t, <2>1, HeadPrints
  <2>3. wpc'[w] = "release"
    BY <1>t, <2>1 DEF TypeOK
  <2>4. Loops' = iter[w] + 1
    BY <2>1, <2>2, <2>3 DEF Loops, Printed
  <2>5. fifo' = [prev_thread |-> w, counter |-> iter[w] + 1, ok |-> TRUE]
    <3>1. w # NoThread
      BY DEF Workers, NoThread
    <3> QED
      BY <2>1, <2>2, <3>1 DEF FifoLoop, Reading
  <2>6. Loops' # 0 /\ q'[1] = w
    BY <2>1, <2>2, <2>4
  <2> QED
    BY <2>4, <2>5, <2>6 DEF Reading
<1>5. ASSUME NEW w \in Workers, LineExiting(w) PROVE Reading'
  <2>1. /\ wpc[w] = "exiting" /\ wpc' = [wpc EXCEPT ![w] = "remove"]
        /\ UNCHANGED <<iter, q>> /\ FifoExiting
    BY <1>5 DEF LineExiting, Exiting, WorkerStep
  <2>2. q # <<>> /\ q[1] = w /\ Loops = iter[w]
    BY <1>t, <2>1, HeadPrints
  <2>3. iter[w] = Iterations
    BY <2>1 DEF Turned
  <2>4. Loops' = 0
    BY <1>t, <2>1, <2>2 DEF Loops, TypeOK
  <2>5. fifo' = [prev_thread |-> NoThread, counter |-> 0, ok |-> TRUE]
    BY <2>1, <2>2, <2>3 DEF FifoExiting, Reading
  <2> QED
    BY <2>4, <2>5 DEF Reading
<1> QED
  BY <1>1, <1>2, <1>3, <1>4, <1>5 DEF LogNext

\* The FIFO reader's view is right at first, and each step keeps it right.
LEMMA InitFifoLine == LogInit => FifoLine
BY DEF LogInit, Init, FifoLine, HeadRuns, Behind, Reading, Loops, Chosen, Serving, NoThread

\* Under FIFO every step keeps the head running and the log in step with it.
LEMMA NextFifoLine == Turning /\ Fresh /\ FifoLine /\ [LogNext]_logVars => FifoLine'
<1> SUFFICES ASSUME Turning, Fresh, HeadRuns, Behind, Reading, Policy = "fifo",
                    [LogNext]_logVars
             PROVE  HeadRuns' /\ Behind' /\ Reading'
  BY DEF FifoLine
<1> QED
  BY LogStep, NextHead, NextReading DEF Turning

\* check_executed_fifo (lab4_tests.c:145) never rejects the FIFO scheduler: the
\* loops between two exits are all of one thread and as many as they should be,
\* in whatever order threads join.
THEOREM FifoAccepts == LogSpec => []CheckFifo
<1>1. FifoLine => CheckFifo
  BY DEF FifoLine, Reading, CheckFifo
<1>2. LogSpec => []FifoLine
  BY LogInvariance, InitFifoLine, NextFifoLine, PTL DEF LogSpec
<1> QED
  BY <1>1, <1>2, PTL

-----------------------------------------------------------------------------
(* Round robin: lines of workers, and the place p up to which they have had   *)
(* their turn in this pass.  l is the line, h the turns each worker has had,  *)
(* t[w][u] those of u since w joined or had its own.                        *)

Table == [Workers -> [Workers -> Nat]]

\* The turns of the i-th in line before this pass.
Earlier(l, p, h, i) == h[l[i]] - IF i <= p THEN 1 ELSE 0

\* Who stands further ahead has had no fewer of them.
InOrder(l, p, h) ==
  /\ \A i \in 1 .. Len(l) : Earlier(l, p, h, i) >= 0
  /\ \A i, j \in 1 .. Len(l) : i < j => Earlier(l, p, h, i) >= Earlier(l, p, h, j)

\* The j-th has had no turn since that of the i-th.
Still(p, i, j) ==
  \/ i <= p /\ (j <= i \/ j > p)
  \/ i > p /\ p < j /\ j <= i

\* Nobody has had two turns since then.
OnceOnly(l, p, t) ==
  /\ \A i \in 1 .. Len(l) : \A u \in Workers : t[l[i]][u] <= 1
  /\ \A i, j \in 1 .. Len(l) : Still(p, i, j) => t[l[i]][l[j]] = 0

\* Who has had a turn since w joined or had its own.
Seen(t, w) == {u \in Workers : t[w][u] > 0}

\* They are no more than the places behind it and, before its turn comes, those
\* in front that have been served.
Bounded(l, p, t) ==
  \A i \in 1 .. Len(l) :
    Cardinality(Seen(t, l[i])) <= IF i <= p THEN p - i ELSE QueueSize - (i - p)

\* A fair line: the three together.
FairLine(l, p, h, t) == InOrder(l, p, h) /\ OnceOnly(l, p, t) /\ Bounded(l, p, t)

\* A finite number of workers is seen.
LEMMA FiniteSeen ==
  ASSUME NEW t, NEW w
  PROVE  IsFiniteSet(Seen(t, w)) /\ Cardinality(Seen(t, w)) \in Nat
<1>1. Seen(t, w) \in SUBSET Workers
  BY DEF Seen
<1> QED
  BY <1>1, FiniteWorkers, FS_Subset, FS_CardinalityType

\* A worker that joins has seen nobody, and nobody has seen it.
LEMMA JoinKeeps ==
  ASSUME NEW l \in Seq(Workers), NEW p \in 0 .. Len(l),
         NEW h \in [Workers -> Int], NEW t \in Table, NEW w \in Workers,
         h[w] = 0, \A u \in Workers : t[w][u] = 0, \A u \in Workers : t[u][w] = 0,
         Len(l) < QueueSize, FairLine(l, p, h, t)
  PROVE  FairLine(Append(l, w), p, h, t)
<1> DEFINE n == Len(l)
           m == Append(l, w)
<1>1. /\ n \in Nat /\ Len(m) = n + 1 /\ m[n + 1] = w
      /\ \A i \in 1 .. n : m[i] = l[i] /\ l[i] \in Workers
  OBVIOUS
<1>2. \A i \in 1 .. n + 1 : i \in 1 .. n \/ i = n + 1
  BY <1>1
<1>3. p <= n /\ p \in Nat /\ QueueSize \in Nat /\ n < QueueSize
  BY SchedulerAssumption
<1>h. /\ \A i \in 1 .. n : Earlier(l, p, h, i) >= 0
      /\ \A i, j \in 1 .. n : i < j => Earlier(l, p, h, i) >= Earlier(l, p, h, j)
      /\ \A i \in 1 .. n : \A u \in Workers : t[l[i]][u] <= 1
      /\ \A i, j \in 1 .. n : Still(p, i, j) => t[l[i]][l[j]] = 0
      /\ \A i \in 1 .. n :
           Cardinality(Seen(t, l[i])) <= IF i <= p THEN p - i ELSE QueueSize - (i - p)
  BY DEF FairLine, InOrder, OnceOnly, Bounded
<1> HIDE DEF n, m
<1>4. InOrder(m, p, h)
  <2>1. \A i \in 1 .. n : Earlier(m, p, h, i) = Earlier(l, p, h, i)
    BY <1>1 DEF Earlier
  <2>2. Earlier(m, p, h, n + 1) = 0
    BY <1>1, <1>3 DEF Earlier
  <2>3. \A i \in 1 .. n + 1 : Earlier(m, p, h, i) >= 0
    BY <1>h, <1>2, <2>1, <2>2
  <2>4. ASSUME NEW i \in 1 .. n + 1, NEW j \in 1 .. n + 1, i < j
        PROVE  Earlier(m, p, h, i) >= Earlier(m, p, h, j)
    <3>1. i \in 1 .. n
      BY <1>1, <2>4
    <3>2. CASE j \in 1 .. n
      BY <1>h, <2>1, <2>4, <3>1, <3>2
    <3>3. CASE j = n + 1
      BY <2>2, <2>3, <3>3
    <3> QED
      BY <1>2, <3>2, <3>3
  <2> QED
    BY <1>1, <2>3, <2>4 DEF InOrder
<1>5. OnceOnly(m, p, t)
  <2>1. ASSUME NEW i \in 1 .. n + 1, NEW u \in Workers PROVE t[m[i]][u] <= 1
    <3>1. CASE i = n + 1
      <4>1. t[m[i]][u] = 0
        BY <1>1, <3>1
      <4> QED
        BY <4>1
    <3>2. CASE i \in 1 .. n
      <4>1. m[i] = l[i] /\ t[l[i]][u] <= 1
        BY <1>h, <1>1, <3>2
      <4> QED
        BY <4>1
    <3> QED
      BY <1>2, <3>1, <3>2
  <2>2. ASSUME NEW i \in 1 .. n + 1, NEW j \in 1 .. n + 1, Still(p, i, j)
        PROVE  t[m[i]][m[j]] = 0
    <3>1. m[i] \in Workers /\ m[j] \in Workers
      BY <1>1, <1>2
    <3>2. CASE i = n + 1 \/ j = n + 1
      <4>1. m[i] = w \/ m[j] = w
        BY <1>1, <3>2
      <4> QED
        BY <3>1, <4>1
    <3>3. CASE i \in 1 .. n /\ j \in 1 .. n
      <4>1. m[i] = l[i] /\ m[j] = l[j]
        BY <1>1, <3>3
      <4>2. t[l[i]][l[j]] = 0
        BY <1>h, <2>2, <3>3
      <4> QED
        BY <4>1, <4>2
    <3> QED
      BY <1>2, <3>2, <3>3
  <2> QED
    BY <1>1, <2>1, <2>2 DEF OnceOnly
<1>6. Bounded(m, p, t)
  <2>1. Seen(t, w) = {}
    BY DEF Seen
  <2>2. Cardinality(Seen(t, m[n + 1])) = 0
    BY <1>1, <2>1, FS_EmptySet
  <2>3. ~ (n + 1 <= p) /\ 0 <= QueueSize - ((n + 1) - p)
    BY <1>1, <1>3
  <2>4. ASSUME NEW i \in 1 .. n + 1
        PROVE  Cardinality(Seen(t, m[i]))
                 <= IF i <= p THEN p - i ELSE QueueSize - (i - p)
    <3>1. CASE i = n + 1
      BY <2>2, <2>3, <3>1
    <3>2. CASE i \in 1 .. n
      BY <1>h, <1>1, <3>2
    <3> QED
      BY <1>2, <3>1, <3>2
  <2> QED
    BY <1>1, <2>4 DEF Bounded
<1> QED
  BY <1>4, <1>5, <1>6 DEF FairLine, m

\* When the pass is over everybody has had one turn more before the next.
LEMMA PassKeeps ==
  ASSUME NEW l \in Seq(Workers), NEW h \in [Workers -> Int], NEW t \in Table,
         Len(l) <= QueueSize, FairLine(l, Len(l), h, t)
  PROVE  FairLine(l, 0, h, t)
<1> DEFINE n == Len(l)
<1>1. n \in Nat /\ QueueSize \in Nat /\ \A i \in 1 .. n : l[i] \in Workers
  BY SchedulerAssumption
<1>h. /\ \A i \in 1 .. n : Earlier(l, n, h, i) >= 0
      /\ \A i, j \in 1 .. n : i < j => Earlier(l, n, h, i) >= Earlier(l, n, h, j)
      /\ \A i \in 1 .. n : \A u \in Workers : t[l[i]][u] <= 1
      /\ \A i, j \in 1 .. n : Still(n, i, j) => t[l[i]][l[j]] = 0
      /\ \A i \in 1 .. n :
           Cardinality(Seen(t, l[i])) <= IF i <= n THEN n - i ELSE QueueSize - (i - n)
  BY DEF FairLine, InOrder, OnceOnly, Bounded
<1>2. InOrder(l, 0, h)
  <2>1. \A i \in 1 .. n : /\ Earlier(l, 0, h, i) = h[l[i]]
                          /\ Earlier(l, n, h, i) = h[l[i]] - 1
                          /\ h[l[i]] \in Int
    BY <1>1 DEF Earlier
  <2>2. ASSUME NEW i \in 1 .. n PROVE Earlier(l, 0, h, i) >= 0
    <3>1. h[l[i]] \in Int /\ h[l[i]] - 1 >= 0 /\ Earlier(l, 0, h, i) = h[l[i]]
      BY <1>h, <2>1
    <3> QED
      BY <3>1
  <2>3. ASSUME NEW i \in 1 .. n, NEW j \in 1 .. n, i < j
        PROVE  Earlier(l, 0, h, i) >= Earlier(l, 0, h, j)
    <3>1. Earlier(l, n, h, i) >= Earlier(l, n, h, j)
      BY <1>h, <2>3
    <3> DEFINE x == h[l[i]]
               y == h[l[j]]
    <3>2. /\ Earlier(l, 0, h, i) = x /\ Earlier(l, n, h, i) = x - 1 /\ x \in Int
          /\ Earlier(l, 0, h, j) = y /\ Earlier(l, n, h, j) = y - 1 /\ y \in Int
      BY <2>1
    <3> HIDE DEF x, y
    <3> QED
      BY <3>1, <3>2
  <2> QED
    BY <2>2, <2>3 DEF InOrder
<1>3. OnceOnly(l, 0, t)
  <2>1. \A i, j \in 1 .. n : Still(0, i, j) => Still(n, i, j)
    BY <1>1 DEF Still
  <2> QED
    BY <1>h, <2>1 DEF OnceOnly
<1>4. Bounded(l, 0, t)
  <2>1. ASSUME NEW i \in 1 .. n
        PROVE  Cardinality(Seen(t, l[i]))
                 <= IF i <= 0 THEN 0 - i ELSE QueueSize - (i - 0)
    <3>1. Cardinality(Seen(t, l[i])) <= n - i
      BY <1>h, <1>1
    <3>2. Cardinality(Seen(t, l[i])) \in Nat
      BY FiniteSeen
    <3> QED
      BY <1>1, <3>1, <3>2
  <2> QED
    BY <2>1 DEF Bounded
<1> QED
  BY <1>2, <1>3, <1>4 DEF FairLine

\* The next in line has its turn: all others in line see it, once.
LEMMA TurnKeeps ==
  ASSUME NEW l \in Seq(Workers), NEW p \in 0 .. Len(l) - 1,
         NEW h \in [Workers -> Int], NEW g \in [Workers -> Int],
         NEW t \in Table, NEW s \in Table,
         \A i, j \in 1 .. Len(l) : l[i] = l[j] => i = j,
         g = [h EXCEPT ![l[p + 1]] = @ + 1],
         \A u \in Workers : s[l[p + 1]][u] = 0,
         \A i \in 1 .. Len(l) : i # p + 1 =>
           s[l[i]] = [t[l[i]] EXCEPT ![l[p + 1]] = @ + 1],
         FairLine(l, p, h, t)
  PROVE  FairLine(l, p + 1, g, s)
<1> DEFINE n == Len(l)
           u == l[p + 1]
<1>1. /\ n \in Nat /\ QueueSize \in Nat /\ p \in Nat /\ p + 1 \in 1 .. n
      /\ \A i \in 1 .. n : l[i] \in Workers
  BY SchedulerAssumption
<1>2. u \in Workers /\ \A i \in 1 .. n : i # p + 1 => l[i] # u
  BY <1>1
<1>h. /\ \A i \in 1 .. n : Earlier(l, p, h, i) >= 0
      /\ \A i, j \in 1 .. n : i < j => Earlier(l, p, h, i) >= Earlier(l, p, h, j)
      /\ \A i \in 1 .. n : \A v \in Workers : t[l[i]][v] <= 1
      /\ \A i, j \in 1 .. n : Still(p, i, j) => t[l[i]][l[j]] = 0
      /\ \A i \in 1 .. n :
           Cardinality(Seen(t, l[i])) <= IF i <= p THEN p - i ELSE QueueSize - (i - p)
  BY DEF FairLine, InOrder, OnceOnly, Bounded
<1>3. /\ g = [h EXCEPT ![u] = @ + 1]
      /\ \A v \in Workers : s[u][v] = 0
      /\ \A i \in 1 .. n : i # p + 1 => s[l[i]] = [t[l[i]] EXCEPT ![u] = @ + 1]
      /\ l[p + 1] = u
  OBVIOUS
<1> HIDE DEF n, u
<1>4. InOrder(l, p + 1, g)
  <2>1. ASSUME NEW i \in 1 .. n PROVE Earlier(l, p + 1, g, i) = Earlier(l, p, h, i)
    <3>1. CASE i = p + 1
      <4>1. l[i] = u /\ g[u] = h[u] + 1 /\ h[u] \in Int
        BY <1>2, <1>3, <3>1
      <4> QED
        BY <1>1, <3>1, <4>1 DEF Earlier
    <3>2. CASE i # p + 1
      <4>1. g[l[i]] = h[l[i]]
        BY <1>1, <1>2, <1>3, <3>2
      <4>2. i <= p + 1 <=> i <= p
        BY <1>1, <3>2
      <4> QED
        BY <4>1, <4>2 DEF Earlier
    <3> QED
      BY <3>1, <3>2
  <2>2. \A i \in 1 .. n : Earlier(l, p + 1, g, i) >= 0
    BY <1>h, <2>1
  <2>3. \A i, j \in 1 .. n : i < j =>
          Earlier(l, p + 1, g, i) >= Earlier(l, p + 1, g, j)
    BY <1>h, <2>1
  <2> QED
    BY <2>2, <2>3 DEF InOrder, n
<1>5. \A i \in 1 .. n : i # p + 1 =>
        /\ t[l[i]][u] = 0 /\ s[l[i]][u] = 1
        /\ \A v \in Workers \ {u} : s[l[i]][v] = t[l[i]][v]
  <2> TAKE i \in 1 .. n
  <2> HAVE i # p + 1
  <2>1. Still(p, i, p + 1)
    BY <1>1 DEF Still
  <2>2. t[l[i]][u] = 0
    BY <1>h, <1>1, <1>3, <2>1
  <2> DEFINE f == t[l[i]]
  <2>3. f \in [Workers -> Nat]
    BY <1>1 DEF Table
  <2>4. s[l[i]] = [f EXCEPT ![u] = @ + 1] /\ f[u] = 0
    BY <1>3, <2>2
  <2> DEFINE e == s[l[i]]
  <2>5. u \in Workers /\ e = [f EXCEPT ![u] = @ + 1]
    BY <1>2, <2>4
  <2> HIDE DEF e, f
  <2>6. e[u] = 1
    BY <2>3, <2>4, <2>5
  <2>7. \A v \in Workers \ {u} : e[v] = f[v]
    BY <2>3, <2>5
  <2> QED
    BY <2>2, <2>6, <2>7 DEF e, f
<1>6. OnceOnly(l, p + 1, s)
  <2>1. ASSUME NEW i \in 1 .. n, NEW v \in Workers PROVE s[l[i]][v] <= 1
    <3>1. CASE i = p + 1
      BY <1>3, <3>1
    <3>2. CASE i # p + 1 /\ v = u
      BY <1>5, <3>2
    <3>3. CASE i # p + 1 /\ v # u
      <4>1. s[l[i]][v] = t[l[i]][v]
        BY <1>5, <3>3
      <4>2. t[l[i]][v] <= 1
        BY <1>h
      <4> QED
        BY <4>1, <4>2
    <3> QED
      BY <3>1, <3>2, <3>3
  <2>2. ASSUME NEW i \in 1 .. n, NEW j \in 1 .. n, Still(p + 1, i, j)
        PROVE  s[l[i]][l[j]] = 0
    <3>1. CASE i = p + 1
      BY <1>1, <1>3, <3>1
    <3>2. CASE i # p + 1
      <4>1. j # p + 1 /\ Still(p, i, j)
        BY <1>1, <2>2, <3>2 DEF Still
      <4>2. l[j] \in Workers \ {u}
        BY <1>1, <1>2, <4>1
      <4>3. s[l[i]][l[j]] = t[l[i]][l[j]]
        BY <1>5, <3>2, <4>2
      <4>4. t[l[i]][l[j]] = 0
        BY <1>h, <4>1
      <4> QED
        BY <4>3, <4>4
    <3> QED
      BY <3>1, <3>2
  <2> QED
    BY <2>1, <2>2 DEF OnceOnly, n
<1>7. Bounded(l, p + 1, s)
  <2>1. ASSUME NEW i \in 1 .. n
        PROVE  Cardinality(Seen(s, l[i]))
                 <= IF i <= p + 1 THEN (p + 1) - i ELSE QueueSize - (i - (p + 1))
    <3>1. CASE i = p + 1
      <4>1. Seen(s, l[i]) = {}
        BY <1>3, <3>1 DEF Seen
      <4>2. Cardinality(Seen(s, l[i])) = 0
        BY <4>1, FS_EmptySet
      <4> QED
        BY <1>1, <3>1, <4>2
    <3>2. CASE i # p + 1
      <4>1. Seen(s, l[i]) = Seen(t, l[i]) \cup {u} /\ u \notin Seen(t, l[i])
        <5>1. /\ t[l[i]][u] = 0 /\ s[l[i]][u] = 1
              /\ \A v \in Workers \ {u} : s[l[i]][v] = t[l[i]][v]
          BY <1>5, <3>2
        <5>2. u \in Seen(s, l[i]) /\ u \notin Seen(t, l[i])
          BY <1>2, <5>1 DEF Seen
        <5>3. \A v \in Workers \ {u} : v \in Seen(s, l[i]) <=> v \in Seen(t, l[i])
          BY <5>1 DEF Seen
        <5>4. Seen(s, l[i]) \subseteq Workers /\ Seen(t, l[i]) \subseteq Workers
          BY DEF Seen
        <5> HIDE DEF Seen
        <5> QED
          BY <5>2, <5>3, <5>4
      <4>2. Cardinality(Seen(s, l[i])) = Cardinality(Seen(t, l[i])) + 1
        BY <4>1, FiniteSeen, FS_AddElement
      <4>3. Cardinality(Seen(t, l[i])) \in Nat
        BY FiniteSeen
      <4>4. Cardinality(Seen(t, l[i]))
              <= IF i <= p THEN p - i ELSE QueueSize - (i - p)
        BY <1>h
      <4> HIDE DEF Seen
      <4> QED
        BY <1>1, <3>2, <4>2, <4>3, <4>4
    <3> QED
      BY <3>1, <3>2
  <2> QED
    BY <2>1 DEF Bounded, n
<1> QED
  BY <1>4, <1>6, <1>7 DEF FairLine

\* A worker leaves after its last turn, as the head of the line: whoever stands
\* ahead has had as many turns and would have left before.
LEMMA LeaveKeeps ==
  ASSUME NEW l \in Seq(Workers), NEW p \in 1 .. Len(l),
         NEW h \in [Workers -> Int], NEW g \in [Workers -> Int], NEW t \in Table,
         \A i, j \in 1 .. Len(l) : l[i] = l[j] => i = j,
         h[l[p]] = Iterations + 1,
         \A v \in Workers \ {l[p]} : h[v] <= Iterations /\ g[v] = h[v],
         FairLine(l, p, h, t)
  PROVE  FairLine(RemoveAt(l, p), p - 1, g, t)
<1> DEFINE n == Len(l)
           m == RemoveAt(l, p)
<1>1. /\ n \in Nat /\ QueueSize \in Nat /\ Iterations \in Nat /\ p \in Nat
      /\ 1 \in 1 .. n /\ n >= 1
      /\ \A i \in 1 .. n : l[i] \in Workers
  BY SchedulerAssumption
<1>2. /\ Len(m) = n - 1
      /\ \A j \in 1 .. n - 1 : m[j] = IF j < p THEN l[j] ELSE l[j + 1]
  BY RemoveAtLemma
<1>h. /\ \A i \in 1 .. n : Earlier(l, p, h, i) >= 0
      /\ \A i, j \in 1 .. n : i < j => Earlier(l, p, h, i) >= Earlier(l, p, h, j)
      /\ \A i \in 1 .. n : \A v \in Workers : t[l[i]][v] <= 1
      /\ \A i, j \in 1 .. n : Still(p, i, j) => t[l[i]][l[j]] = 0
      /\ \A i \in 1 .. n :
           Cardinality(Seen(t, l[i])) <= IF i <= p THEN p - i ELSE QueueSize - (i - p)
  BY DEF FairLine, InOrder, OnceOnly, Bounded
<1> HIDE DEF n, m
<1>3. p = 1
  <2> SUFFICES ASSUME p # 1 PROVE FALSE
    OBVIOUS
  <2>1. 1 < p /\ p \in 1 .. n
    BY <1>1 DEF n
  <2>2. Earlier(l, p, h, 1) >= Earlier(l, p, h, p)
    BY <1>h, <1>1, <2>1
  <2>3. l[1] \in Workers \ {l[p]} /\ h[l[1]] \in Int
    BY <1>1, <2>1 DEF n
  <2>4. Earlier(l, p, h, 1) = h[l[1]] - 1 /\ Earlier(l, p, h, p) = (Iterations + 1) - 1
    BY <1>1, <2>1 DEF Earlier
  <2>5. h[l[1]] <= Iterations
    BY <2>3
  <2> QED
    BY <1>1, <2>2, <2>3, <2>4, <2>5
<1>4. \A j \in 1 .. n - 1 : /\ m[j] = l[j + 1] /\ j + 1 \in 1 .. n /\ j + 1 # 1
                            /\ l[j + 1] \in Workers \ {l[1]}
  <2>1. \A j \in 1 .. n - 1 : m[j] = l[j + 1] /\ j + 1 \in 1 .. n /\ j + 1 # 1
    <3> TAKE j \in 1 .. n - 1
    <3>1. ~ (j < p) /\ j + 1 \in 1 .. n /\ j + 1 # 1
      BY <1>1, <1>3
    <3> QED
      BY <1>2, <3>1
  <2> QED
    BY <1>1, <2>1 DEF n
<1>5. InOrder(m, 0, g)
  <2>1. \A j \in 1 .. n - 1 : Earlier(m, 0, g, j) = Earlier(l, 1, h, j + 1)
    <3> TAKE j \in 1 .. n - 1
    <3>1. g[m[j]] = h[l[j + 1]]
      BY <1>3, <1>4
    <3>2. ~ (j <= 0) /\ ~ (j + 1 <= 1)
      BY <1>1
    <3> QED
      BY <3>1, <3>2 DEF Earlier
  <2>2. \A j \in 1 .. n - 1 : Earlier(m, 0, g, j) >= 0
    BY <1>h, <1>3, <1>4, <2>1
  <2>3. ASSUME NEW i \in 1 .. n - 1, NEW j \in 1 .. n - 1, i < j
        PROVE  Earlier(m, 0, g, i) >= Earlier(m, 0, g, j)
    <3>1. i + 1 < j + 1
      BY <2>3
    <3> QED
      BY <1>h, <1>3, <1>4, <2>1, <3>1
  <2> QED
    BY <1>2, <2>2, <2>3 DEF InOrder
<1>6. OnceOnly(m, 0, t)
  <2>1. \A i \in 1 .. n - 1 : \A v \in Workers : t[m[i]][v] <= 1
    BY <1>h, <1>4
  <2>2. ASSUME NEW i \in 1 .. n - 1, NEW j \in 1 .. n - 1, Still(0, i, j)
        PROVE  t[m[i]][m[j]] = 0
    <3>1. Still(1, i + 1, j + 1)
      BY <1>1, <2>2 DEF Still
    <3>2. t[l[i + 1]][l[j + 1]] = 0
      BY <1>h, <1>3, <1>4, <3>1
    <3> QED
      BY <1>4, <3>2
  <2> QED
    BY <1>2, <2>1, <2>2 DEF OnceOnly
<1>7. Bounded(m, 0, t)
  <2>1. ASSUME NEW i \in 1 .. n - 1
        PROVE  Cardinality(Seen(t, m[i]))
                 <= IF i <= 0 THEN 0 - i ELSE QueueSize - (i - 0)
    <3>1. Cardinality(Seen(t, l[i + 1]))
            <= IF i + 1 <= 1 THEN 1 - (i + 1) ELSE QueueSize - ((i + 1) - 1)
      BY <1>h, <1>3, <1>4
    <3>2. ~ (i <= 0) /\ ~ (i + 1 <= 1) /\ (i + 1) - 1 = i - 0
      BY <1>1
    <3>3. m[i] = l[i + 1]
      BY <1>4
    <3> QED
      BY <3>1, <3>2, <3>3
  <2> QED
    BY <1>2, <2>1 DEF Bounded
<1> QED
  BY <1>3, <1>5, <1>6, <1>7 DEF FairLine, m

-----------------------------------------------------------------------------
(* Round robin: the steps of the scheduler are those of a fair line.       *)

\* The turns of each worker, the one it is about to have included.
had == [w \in Workers |-> Had(w)]

\* A worker that is not in the queue yet.
NotYet == {"none", "enter", "insert"}

\* Such a worker has seen nobody, and nobody has seen it.
Unseen ==
  \A w \in Workers : wpc[w] \in NotYet =>
    \A u \in Workers : turns[w][u] = 0 /\ turns[u][w] = 0

\* Under round robin the queue is a fair line.
RRLine ==
  Policy = "rr" =>
    turns \in Table /\ Unseen /\ FairLine(q, Position, had, turns)

\* A number of turns for every worker.
LEMMA HadType == TypeOK => had \in [Workers -> Int]
BY DEF TypeOK, had, Had

\* Nobody joins the queue for a second time.
LEMMA NotYetStays ==
  ASSUME IInv, [Next]_vars, NEW v \in Workers, wpc'[v] \in NotYet
  PROVE  wpc[v] \in NotYet
<1>t. TypeOK
  BY DEF IInv
<1>1. CASE Main
  <2>1. CASE CreateWorker
    <3>1. /\ created + 1 \in Workers /\ wpc[created + 1] = "none"
          /\ wpc' = [wpc EXCEPT ![created + 1] = "enter"]
      BY <1>t, <2>1, SchedulerAssumption DEF CreateWorker, IInv, Creation, TypeOK, Workers
    <3> QED
      BY <1>t, <3>1 DEF TypeOK, NotYet
  <2>2. CASE ~ CreateWorker
    BY <1>1, <2>2 DEF Main, InitSchedQueue, StartScheduler, SetRemaining, ExitError,
         ReportWaiting, JoinScheduler, CleanUp
  <2> QED
    BY <2>1, <2>2
<1>2. ASSUME NEW w \in Workers, Worker(w) PROVE wpc[v] \in NotYet
  <2>1. PICK to : /\ wpc' = [wpc EXCEPT ![w] = to]
                  /\ to \in NotYet => wpc[w] \in NotYet
    BY <1>2 DEF Worker, EnterWait, InsertTail, Announce, WaitForCpu, Work, ReleaseCpu,
         Exiting, RemoveElem, PostQueue, StepBack, LoadRemaining, StoreRemaining,
         FinalRelease, WorkerStep, NotYet
  <2> QED
    BY <1>t, <2>1 DEF TypeOK
<1>3. CASE SchedProc
  BY <1>3 DEF SchedProc, WaitForQueue, TestRemaining, FifoNext, RRNext, RRWrap,
       RRWalk, WakeUpWorker, WaitForWorker, SchedulerDone
<1> QED
  BY <1>1, <1>2, <1>3 DEF Next, Terminated

\* The steps of main do nothing to the line.
LEMMA MainLine ==
  ASSUME Turning, Policy = "rr", Main
  PROVE  q' = q /\ Position' = Position /\ had' = had
<1> USE DEF Turning
<1>1. had' = had
  BY MainChooses DEF had, Had
<1>2. CASE InitSchedQueue
  <2>1. q = <<>> /\ q' = <<>> /\ sched = "idle" /\ sched' = "idle" /\ wpc' = wpc
        /\ currentPosition' = 0
    BY <1>2, EmptyAtFirst DEF InitSchedQueue
  <2>2. ~ Leaving /\ Position = currentPosition
    BY <2>1, Choosing
  <2>3. Position' = 0
    BY <2>1, <2>2 DEF Position, Leaving
  <2>4. Position = 0
    BY <2>1 DEF RRPlace, Place
  <2> QED
    BY <1>1, <2>1, <2>3, <2>4
<1>3. CASE CreateWorker
  <2>1. created + 1 \in Workers /\ wpc[created + 1] = "none"
    BY <1>3, SchedulerAssumption DEF CreateWorker, IInv, Creation, TypeOK, Workers
  <2>2. /\ wpc' = [wpc EXCEPT ![created + 1] = "enter"]
        /\ UNCHANGED <<q, currentPosition>>
    BY <1>3 DEF CreateWorker
  <2>3. Leaving' <=> Leaving
    BY <2>1, <2>2 DEF Leaving, IInv, TypeOK
  <2> QED
    BY <1>1, <2>2, <2>3 DEF Position, Leaving
<1>4. CASE ~ InitSchedQueue /\ ~ CreateWorker
  <2>1. UNCHANGED <<q, currentPosition, wpc>>
    BY <1>4 DEF Main, StartScheduler, SetRemaining, ExitError, ReportWaiting,
         JoinScheduler, CleanUp
  <2> QED
    BY <1>1, <2>1 DEF Position
<1> QED
  BY <1>2, <1>3, <1>4

\* A worker that does not leave does nothing to the line but join its end.
LEMMA WorkerLine ==
  ASSUME Turning, NEW w \in Workers, Worker(w), ~ RemoveElem(w)
  PROVE  /\ Position' = Position /\ had' = had
         /\ ~ InsertTail(w) => q' = q
<1> USE DEF Turning
<1>t. TypeOK /\ IInv
  BY DEF IInv
<1>1. had' = had
  <2>1. CASE ReleaseCpu(w)
    <3>1. /\ iter' = [iter EXCEPT ![w] = @ + 1]
          /\ Chosen(w) /\ ~ Chosen(w)'
          /\ \A v \in Workers \ {w} : Chosen(v)' <=> Chosen(v)
      BY <2>1, <1>t, WorkerChooses DEF ReleaseCpu
    <3>2. Had(w)' = Had(w)
      <4>1. iter'[w] = iter[w] + 1 /\ iter[w] \in Nat
        BY <1>t, <3>1 DEF TypeOK
      <4> QED
        BY <3>1, <4>1 DEF Had
    <3>3. \A v \in Workers \ {w} : Had(v)' = Had(v)
      BY <1>t, <3>1 DEF Had, TypeOK
    <3> QED
      BY <3>2, <3>3 DEF had
  <2>2. CASE ~ ReleaseCpu(w)
    <3>1. \A v \in Workers : (Chosen(v)' <=> Chosen(v)) /\ iter'[v] = iter[v]
      BY <2>2, <1>t, WorkerChooses
    <3> QED
      BY <3>1 DEF had, Had
  <2> QED
    BY <2>1, <2>2
<1>2. ~ InsertTail(w) => q' = q
  BY DEF Worker, EnterWait, Announce, WaitForCpu, Work, ReleaseCpu, Exiting, PostQueue,
       StepBack, LoadRemaining, StoreRemaining, FinalRelease
<1>3. CASE StepBack(w)
  <2>1. /\ wpc[w] = "position" /\ wpc' = [wpc EXCEPT ![w] = "load"]
        /\ currentPosition' = currentPosition - 1
    BY <1>3 DEF StepBack, WorkerStep
  <2>2. \A v \in Workers \ {w} : ~ HasCpu(v)
    BY <1>t, <2>1, OwnsCpu DEF CpuStates
  <2>3. Leaving /\ ~ Leaving'
    BY <1>t, <2>1, <2>2 DEF Leaving, HasCpu, CpuStates, TypeOK
  <2>4. Position' = Position
    BY <2>1, <2>3 DEF Leaving, Position
  <2> QED
    BY <1>1, <1>2, <2>4
<1>4. CASE ~ StepBack(w)
  <2>1. PICK to : /\ wpc' = [wpc EXCEPT ![w] = to]
                  /\ wpc[w] \in {"post", "position"} <=> to \in {"post", "position"}
    BY <1>4 DEF Worker, EnterWait, InsertTail, Announce, WaitForCpu, Work, ReleaseCpu,
         Exiting, PostQueue, LoadRemaining, StoreRemaining, FinalRelease, WorkerStep
  <2>2. currentPosition' = currentPosition
    BY <1>4 DEF Worker, EnterWait, InsertTail, Announce, WaitForCpu, Work, ReleaseCpu,
         Exiting, PostQueue, LoadRemaining, StoreRemaining, FinalRelease
  <2>3. Leaving' <=> Leaving
    BY <1>t, <2>1 DEF Leaving, TypeOK
  <2>4. Position' = Position
    BY <2>2, <2>3 DEF Leaving, Position
  <2> QED
    BY <1>1, <1>2, <2>4
<1> QED
  BY <1>3, <1>4

\* A worker that leaves is the one at the place, and it has had all its turns.
LEMMA LeaverLine ==
  ASSUME Turning, Policy = "rr", NEW w \in Workers, RemoveElem(w)
  PROVE  /\ Position \in 1 .. Len(q) /\ q[Position] = w
         /\ q' = RemoveAt(q, Position) /\ Position' = Position - 1
         /\ had[w] = Iterations + 1
         /\ \A v \in Workers \ {w} : had[v] <= Iterations /\ had'[v] = had[v]
<1> USE DEF Turning
<1>t. TypeOK /\ IInv /\ Worker(w)
  BY DEF IInv, Worker
<1>1. /\ wpc[w] = "remove" /\ wpc' = [wpc EXCEPT ![w] = "post"]
      /\ currentPosition' = currentPosition
  BY DEF RemoveElem, WorkerStep
<1>2. Serving(w) /\ sched = "wait_worker" /\ \A v \in Workers \ {w} : ~ HasCpu(v)
  BY <1>t, <1>1, OwnsCpu DEF Serving, CpuStates
<1>3. currentPosition \in 1 .. Len(q) /\ q[currentPosition] = w
  BY <1>2 DEF RRPlace, Place
<1>4. Position = currentPosition /\ Position' = currentPosition - 1
  <2>1. ~ Leaving
    BY <1>1, <1>2 DEF Leaving, HasCpu, CpuStates
  <2>2. wpc'[w] = "post"
    BY <1>t, <1>1 DEF TypeOK
  <2> QED
    BY <1>1, <2>1, <2>2 DEF Position, Leaving
<1>5. q' = RemoveAt(q, currentPosition)
  <2>1. PICK at \in 1 .. Len(q) : q[at] = w /\ q' = RemoveAt(q, at)
    BY DEF RemoveElem
  <2>2. \A i, j \in 1 .. Len(q) : q[i] = q[j] => i = j
    BY <1>t DEF IInv, Listed
  <2>3. at = currentPosition
    BY <1>3, <2>1, <2>2
  <2> QED
    BY <2>1, <2>3
<1>6. had[w] = Iterations + 1
  <2>1. iter[w] = Iterations /\ Chosen(w)
    BY <1>1, <1>2 DEF Turned, Chosen
  <2> QED
    BY <2>1 DEF had, Had
<1>7. ASSUME NEW v \in Workers \ {w} PROVE had[v] <= Iterations /\ had'[v] = had[v]
  <2>1. ~ Chosen(v)
    BY <1>2 DEF Chosen, Serving, HasCpu, CpuStates
  <2>2. (Chosen(v)' <=> Chosen(v)) /\ iter'[v] = iter[v]
    BY <1>t, WorkerChooses
  <2>3. iter[v] <= Iterations /\ iter[v] \in Nat
    BY <1>t DEF Turned, TypeOK
  <2> QED
    BY <2>1, <2>2, <2>3 DEF had, Had
<1> QED
  BY <1>3, <1>4, <1>5, <1>6, <1>7

\* The scheduler starts a pass, gives the next in line its turn, or does
\* nothing to the line.
LEMMA SchedProcLine ==
  ASSUME Turning, Policy = "rr", SchedProc
  PROVE  /\ q' = q
         /\ ~ RRWalk => /\ had' = had
                        /\ \/ Position' = Position
                           \/ Position = Len(q) /\ Position' = 0
         /\ RRWalk => /\ Position \in 0 .. Len(q) - 1 /\ Position' = Position + 1
                      /\ sched' = "wake" /\ info' = q[Position + 1]
                      /\ had' = [had EXCEPT ![q[Position + 1]] = @ + 1]
<1> USE DEF Turning
<1>t. TypeOK /\ IInv
  BY DEF IInv
<1>0. ~ FifoNext
  BY DEF FifoNext
<1>1. q' = q /\ wpc' = wpc
  BY DEF SchedProc, WaitForQueue, TestRemaining, FifoNext, RRNext, RRWrap, RRWalk,
       WakeUpWorker, WaitForWorker, SchedulerDone
<1>2. CASE RRWalk
  <2>1. /\ sched = "walk" /\ currentPosition \in 0 .. Len(q) - 1
        /\ ~ Leaving /\ Position = currentPosition /\ Len(q) \in Nat
    BY <1>t, <1>2, Choosing DEF RRWalk, RRPlace, Place, TypeOK
  <2>2. WalkTo(currentPosition) = currentPosition
    BY <2>1 DEF WalkTo
  <2>3. /\ sched' = "wake" /\ info' = q[currentPosition + 1]
        /\ currentPosition' = currentPosition + 1
    BY <1>2, <2>1, <2>2 DEF RRWalk
  <2>4. Position' = currentPosition + 1
    BY <1>1, <2>1, <2>3 DEF Position, Leaving
  <2>5. /\ iter' = iter
        /\ \A v \in Workers : /\ ~ Chosen(v)
                              /\ Chosen(v)' <=> info' = v
    BY <1>t, <1>2, <2>3, SchedProcChooses
  <2>6. had' = [had EXCEPT ![q[currentPosition + 1]] = @ + 1]
    <3> DEFINE u == q[currentPosition + 1]
    <3>1. u \in Workers
      BY <1>t, <2>1 DEF TypeOK
    <3>2. \A v \in Workers : had[v] = iter[v] /\ iter[v] \in Nat
      BY <1>t, <2>5 DEF had, Had, TypeOK
    <3>3. \A v \in Workers : had'[v] = iter[v] + IF u = v THEN 1 ELSE 0
      BY <2>3, <2>5 DEF had, Had
    <3>4. had \in [Workers -> Int] /\ had' = [v \in Workers |-> had'[v]]
      BY <1>t, HadType DEF had
    <3> HIDE DEF u
    <3>5. \A v \in Workers : had'[v] = [had EXCEPT ![u] = @ + 1][v]
      BY <3>1, <3>2, <3>3, <3>4
    <3> QED
      BY <3>4, <3>5 DEF u
  <2> QED
    BY <1>1, <1>2, <2>1, <2>3, <2>4, <2>6
<1>3. CASE ~ RRWalk
  <2>1. had' = had
    BY <1>0, <1>3, <1>t, SchedProcChooses DEF had, Had
  <2>2. CASE RRWrap
    <3>1. /\ sched = "wrap"
          /\ currentPosition' =
               IF currentPosition = Len(q) THEN 0 ELSE currentPosition
      BY <2>2 DEF RRWrap, SchedStep
    <3>2. ~ Leaving /\ Position = currentPosition
      BY <1>t, <3>1, Choosing
    <3>3. Position' = currentPosition'
      BY <1>1, <3>2 DEF Position, Leaving
    <3> QED
      BY <1>1, <1>3, <2>1, <3>1, <3>2, <3>3
  <2>3. CASE ~ RRWrap
    <3>1. currentPosition' = currentPosition
      BY <1>3, <2>3 DEF SchedProc, WaitForQueue, TestRemaining, FifoNext, RRNext,
           WakeUpWorker, WaitForWorker, SchedulerDone
    <3> QED
      BY <1>1, <1>3, <2>1, <3>1 DEF Position
  <2> QED
    BY <2>2, <2>3
<1> QED
  BY <1>2, <1>3

-----------------------------------------------------------------------------
(* Round robin: the turns that are counted.                                *)

\* The line is one to which the lemmas above apply.
LEMMA LineTypes ==
  ASSUME Turning, Policy = "rr"
  PROVE  /\ q \in Seq(Workers) /\ Len(q) \in Nat /\ Position \in 0 .. Len(q)
         /\ had \in [Workers -> Int]
         /\ \A i \in 1 .. Len(q) : q[i] \in Workers /\ wpc[q[i]] \in LinkedStates
         /\ \A i, j \in 1 .. Len(q) : q[i] = q[j] => i = j
<1>1. q \in Seq(Workers) /\ had \in [Workers -> Int]
  BY HadType DEF Turning, IInv, TypeOK
<1>2. Position \in 0 .. Len(q)
  BY DEF Turning, RRPlace, Place
<1> QED
  BY <1>1, <1>2 DEF Turning, IInv, Listed

\* A worker about to join has had no turn.
LEMMA NewcomerHad ==
  ASSUME Turning, Fresh, NEW w \in Workers, wpc[w] = "insert"
  PROVE  had[w] = 0
<1>1. iter[w] = 0
  BY DEF Fresh, Unannounced
<1>2. ~ Chosen(w)
  <2>1. ~ HasCpu(w)
    BY DEF Turning, IInv, Baton, CpuStates
  <2>2. ~ (sched = "wake" /\ info = w)
    BY DEF Turning, IInv, Baton
  <2> QED
    BY <2>1, <2>2 DEF Chosen, Serving, HasCpu
<1> QED
  BY <1>1, <1>2 DEF had, Had

\* While turns are counted as they were, those not in the queue stay unseen.
LEMMA SilentUnseen ==
  ASSUME Turning, Unseen, [Next]_vars, turns' = turns
  PROVE  Unseen'
<1>1. \A v \in Workers : wpc'[v] \in NotYet => wpc[v] \in NotYet
  BY NotYetStays DEF Turning
<1> QED
  BY <1>1 DEF Unseen

\* The table t once worker u, chosen from the line l, has had its turn.
TurnCounted(l, u, t) ==
  [w \in Workers |->
     IF w = u THEN [v \in Workers |-> 0]
     ELSE [t[w] EXCEPT ![u] =
             IF \E i \in 1 .. Len(l) : l[i] = w THEN @ + 1 ELSE @]]

\* The chosen worker's turn is counted for all the others in line and for
\* nobody else.
OneTurn(l, u, t, s) ==
  /\ s \in Table
  /\ \A v \in Workers : s[u][v] = 0
  /\ \A i \in 1 .. Len(l) : l[i] # u => s[l[i]] = [t[l[i]] EXCEPT ![u] = @ + 1]
  /\ \A w \in Workers : w # u /\ (\A i \in 1 .. Len(l) : l[i] # w) => s[w] = t[w]
  /\ \A w \in Workers \ {u} : \A v \in Workers \ {u} : s[w][v] = t[w][v]

\* That is what Served does to the table.
LEMMA CountTurn ==
  ASSUME NEW l \in Seq(Workers), NEW u \in Workers, NEW t \in Table
  PROVE  OneTurn(l, u, t, TurnCounted(l, u, t))
<1> DEFINE s == TurnCounted(l, u, t)
<1>0. s = [w \in Workers |->
             IF w = u THEN [v \in Workers |-> 0]
             ELSE [t[w] EXCEPT ![u] =
                     IF \E i \in 1 .. Len(l) : l[i] = w THEN @ + 1 ELSE @]]
  BY DEF TurnCounted
<1> HIDE DEF s
<1>1. \A w \in Workers : t[w] \in [Workers -> Nat]
  BY DEF Table
<1>2. ASSUME NEW w \in Workers PROVE s[w] \in [Workers -> Nat]
  <2>1. CASE w = u
    BY <1>0, <2>1
  <2>2. CASE w # u /\ \E i \in 1 .. Len(l) : l[i] = w
    <3>1. s[w] = [t[w] EXCEPT ![u] = @ + 1]
      BY <1>0, <2>2
    <3> QED
      BY <1>1, <3>1
  <2>3. CASE w # u /\ ~ \E i \in 1 .. Len(l) : l[i] = w
    <3>1. s[w] = [t[w] EXCEPT ![u] = @]
      BY <1>0, <2>3
    <3> QED
      BY <1>1, <3>1
  <2> QED
    BY <2>1, <2>2, <2>3
<1>3. s \in Table
  BY <1>0, <1>2 DEF Table
<1>4. \A v \in Workers : s[u][v] = 0
  BY <1>0
<1>5. \A i \in 1 .. Len(l) : l[i] # u => s[l[i]] = [t[l[i]] EXCEPT ![u] = @ + 1]
  <2>1. \A i \in 1 .. Len(l) : l[i] \in Workers
    OBVIOUS
  <2> QED
    BY <1>0, <2>1
<1>6. ASSUME NEW w \in Workers, w # u, \A i \in 1 .. Len(l) : l[i] # w
      PROVE  s[w] = t[w]
  <2>1. s[w] = [t[w] EXCEPT ![u] = @]
    BY <1>0, <1>6
  <2> QED
    BY <1>1, <2>1
<1>7. ASSUME NEW w \in Workers \ {u}, NEW v \in Workers \ {u}
      PROVE  s[w][v] = t[w][v]
  <2>1. PICK x : s[w] = [t[w] EXCEPT ![u] = x]
    BY <1>0
  <2> QED
    BY <1>1, <2>1
<1> QED
  BY <1>3, <1>4, <1>5, <1>6, <1>7 DEF OneTurn, s

\* The line stays fair.
LEMMA NextRRLine ==
  Turning /\ Fresh /\ PlacesInQueue /\ RRLine /\ [LogNext]_logVars => RRLine'
<1> SUFFICES ASSUME Turning, Fresh, PlacesInQueue, [LogNext]_logVars, Policy = "rr",
                    turns \in Table, Unseen, FairLine(q, Position, had, turns)
             PROVE  turns' \in Table /\ Unseen' /\ FairLine(q, Position, had, turns)'
  BY DEF RRLine
<1>n. [Next]_vars
  BY LogStep
<1>t. TypeOK' /\ TypeOK
  BY <1>n, NextIInv DEF Turning, IInv
<1>h. had' \in [Workers -> Int]
  <2>1. iter' \in [Workers -> Nat]
    BY <1>t DEF TypeOK
  <2>2. \A v \in Workers : Had(v)' \in Int
    BY <2>1 DEF Had
  <2>3. had' = [v \in Workers |-> Had(v)']
    BY DEF had
  <2> QED
    BY <2>2, <2>3
\* A step that does nothing to the line.
<1>0. ASSUME q' = q, Position' = Position, had' = had, turns' = turns
      PROVE  turns' \in Table /\ Unseen' /\ FairLine(q, Position, had, turns)'
  BY <1>0, <1>n, SilentUnseen
<1>1. CASE Choose
  <2>1. RRWalk /\ SchedProc
    BY <1>1 DEF Choose, FifoNext, SchedProc
  <2>2. /\ q' = q /\ Position \in 0 .. Len(q) - 1 /\ Position' = Position + 1
        /\ sched' = "wake" /\ info' = q[Position + 1]
        /\ had' = [had EXCEPT ![q[Position + 1]] = @ + 1]
    BY <2>1, SchedProcLine
  <2>3. Served(info')
    BY <1>1, <2>2 DEF Choose
  <2> DEFINE u == q[Position + 1]
  <2>4. /\ q \in Seq(Workers) /\ had \in [Workers -> Int] /\ Len(q) \in Nat
        /\ \A i \in 1 .. Len(q) : q[i] \in Workers /\ wpc[q[i]] \in LinkedStates
        /\ \A i, j \in 1 .. Len(q) : q[i] = q[j] => i = j
    BY LineTypes
  <2>5. Position + 1 \in 1 .. Len(q) /\ u \in Workers /\ wpc[u] \in LinkedStates
    BY <2>2, <2>4
  <2>6. turns' = TurnCounted(q, u, turns)
    BY <2>2, <2>3 DEF Served, TurnCounted
  <2> HIDE DEF u
  <2>7. /\ turns' \in Table
        /\ \A v \in Workers : turns'[u][v] = 0
        /\ \A i \in 1 .. Len(q) : q[i] # u =>
             turns'[q[i]] = [turns[q[i]] EXCEPT ![u] = @ + 1]
        /\ \A w \in Workers : w # u /\ (\A i \in 1 .. Len(q) : q[i] # w) =>
             turns'[w] = turns[w]
        /\ \A w \in Workers \ {u} : \A v \in Workers \ {u} : turns'[w][v] = turns[w][v]
    <3>1. OneTurn(q, u, turns, turns')
      BY <2>4, <2>5, <2>6, CountTurn
    <3> QED
      BY <3>1 DEF OneTurn
  <2>8. \A i \in 1 .. Len(q) : i # Position + 1 => q[i] # u
    BY <2>4, <2>5 DEF u
  <2>9. FairLine(q, Position + 1, had', turns')
    <3>1. /\ had' = [had EXCEPT ![q[Position + 1]] = @ + 1]
          /\ \A v \in Workers : turns'[q[Position + 1]][v] = 0
          /\ \A i \in 1 .. Len(q) : i # Position + 1 =>
               turns'[q[i]] = [turns[q[i]] EXCEPT ![q[Position + 1]] = @ + 1]
      BY <2>2, <2>7, <2>8 DEF u
    <3> QED
      BY <1>h, <2>2, <2>4, <2>7, <3>1, TurnKeeps
  <2>10. Unseen'
    <3> SUFFICES ASSUME NEW w \in Workers, wpc'[w] \in NotYet, NEW v \in Workers
                 PROVE  turns'[w][v] = 0 /\ turns'[v][w] = 0
      BY DEF Unseen
    <3>1. wpc[w] \in NotYet
      BY <1>n, NotYetStays DEF Turning
    <3>2. w # u /\ \A i \in 1 .. Len(q) : q[i] # w
      BY <2>4, <2>5, <3>1 DEF NotYet, LinkedStates
    <3>3. turns[w][v] = 0 /\ turns[v][w] = 0
      BY <3>1 DEF Unseen
    <3>4. turns'[w][v] = 0
      BY <2>7, <3>2, <3>3
    <3>5. turns'[v][w] = 0
      <4>1. CASE v = u
        BY <2>7, <4>1
      <4>2. CASE v # u
        BY <2>7, <3>2, <3>3, <4>2
      <4> QED
        BY <4>1, <4>2
    <3> QED
      BY <3>4, <3>5
  <2> QED
    BY <2>2, <2>7, <2>9, <2>10
<1>2. CASE NumberWorker \/ Silent
  <2>0. turns' = turns
    BY <1>2 DEF NumberWorker, Silent
  <2>1. CASE Main
    BY <1>0, <2>0, <2>1, MainLine
  <2>2. CASE \/ WaitForQueue \/ TestRemaining \/ RRNext \/ RRWrap \/ WakeUpWorker
             \/ WaitForWorker \/ SchedulerDone
    <3>1. SchedProc /\ ~ RRWalk
      BY <2>2 DEF SchedProc, SchedStep, WaitForQueue, TestRemaining, RRNext, RRWrap,
           WakeUpWorker, WaitForWorker, SchedulerDone, RRWalk
    <3>2. q' = q /\ had' = had
          /\ (Position' = Position \/ (Position = Len(q) /\ Position' = 0))
      BY <3>1, SchedProcLine
    <3>3. CASE Position' = Position
      BY <1>0, <2>0, <3>2, <3>3
    <3>4. CASE Position = Len(q) /\ Position' = 0
      <4>1. Len(q) <= QueueSize
        <5>1. sched # "idle"
          BY <2>2 DEF SchedStep, WaitForQueue, TestRemaining, RRNext, RRWrap,
               WakeUpWorker, WaitForWorker, SchedulerDone
        <5>2. main # "init"
          BY <5>1 DEF Turning, IInv, Creation
        <5> QED
          BY <5>2 DEF PlacesInQueue
      <4>2. FairLine(q, Len(q), had, turns)
        BY <3>4
      <4>3. FairLine(q, 0, had, turns)
        BY <4>1, <4>2, LineTypes, PassKeeps
      <4> QED
        BY <1>n, <2>0, <3>2, <3>4, <4>3, SilentUnseen
    <3> QED
      BY <3>2, <3>3, <3>4
  <2>3. CASE Terminated
    <3>1. UNCHANGED vars
      BY <2>3 DEF Terminated
    <3>2. q' = q /\ Position' = Position /\ had' = had
      BY <3>1 DEF Position, had, Had, Chosen, Serving
    <3> QED
      BY <1>0, <2>0, <3>2
  <2>4. ASSUME NEW w \in Workers, InsertTail(w)
        PROVE  turns' \in Table /\ Unseen' /\ FairLine(q, Position, had, turns)'
    <3>1. wpc[w] = "insert" /\ q' = Append(q, w) /\ Worker(w) /\ ~ RemoveElem(w)
      BY <2>4 DEF InsertTail, WorkerStep, Worker, RemoveElem
    <3>2. Position' = Position /\ had' = had
      BY <3>1, WorkerLine
    <3>3. /\ \A u \in Workers : turns[w][u] = 0
          /\ \A u \in Workers : turns[u][w] = 0
      BY <3>1 DEF Unseen, NotYet
    <3>4. Len(q) < QueueSize
      <4>1. \A i \in 1 .. Len(q) : q[i] # w
        BY <3>1, LineTypes DEF LinkedStates
      <4> QED
        BY <3>1, <4>1, RoomForOne DEF Turning
    <3>5. had[w] = 0
      BY <3>1, NewcomerHad
    <3>6. FairLine(Append(q, w), Position, had, turns)
      BY <3>3, <3>4, <3>5, LineTypes, JoinKeeps
    <3> QED
      BY <1>n, <2>0, <3>1, <3>2, <3>6, SilentUnseen
  <2>5. ASSUME NEW w \in Workers, RemoveElem(w)
        PROVE  turns' \in Table /\ Unseen' /\ FairLine(q, Position, had, turns)'
    <3>1. /\ Position \in 1 .. Len(q) /\ q[Position] = w
          /\ q' = RemoveAt(q, Position) /\ Position' = Position - 1
          /\ had[w] = Iterations + 1
          /\ \A v \in Workers \ {w} : had[v] <= Iterations /\ had'[v] = had[v]
      BY <2>5, LeaverLine
    <3>2. FairLine(RemoveAt(q, Position), Position - 1, had', turns)
      BY <1>h, <3>1, LineTypes, LeaveKeeps
    <3> QED
      BY <1>n, <2>0, <3>1, <3>2, SilentUnseen
  <2>6. ASSUME NEW w \in Workers,
               \/ EnterWait(w) \/ WaitForCpu(w) \/ ReleaseCpu(w) \/ PostQueue(w)
               \/ StepBack(w) \/ LoadRemaining(w) \/ StoreRemaining(w)
               \/ FinalRelease(w)
        PROVE  turns' \in Table /\ Unseen' /\ FairLine(q, Position, had, turns)'
    <3>1. Worker(w) /\ ~ RemoveElem(w) /\ ~ InsertTail(w)
      BY <2>6 DEF Worker, EnterWait, WaitForCpu, ReleaseCpu, PostQueue, StepBack,
           LoadRemaining, StoreRemaining, FinalRelease, RemoveElem, InsertTail,
           WorkerStep
    <3> QED
      BY <1>0, <2>0, <3>1, WorkerLine
  <2> QED
    BY <1>2, <2>1, <2>2, <2>3, <2>4, <2>5, <2>6 DEF NumberWorker, Silent, Main
<1>3. ASSUME NEW w \in Workers, LineAdmitted(w) \/ LineLoop(w) \/ LineExiting(w)
      PROVE  turns' \in Table /\ Unseen' /\ FairLine(q, Position, had, turns)'
  <2>1. turns' = turns /\ (Announce(w) \/ Work(w) \/ Exiting(w))
    BY <1>3 DEF LineAdmitted, LineLoop, LineExiting
  <2>2. Worker(w) /\ ~ RemoveElem(w) /\ ~ InsertTail(w)
    BY <2>1 DEF Worker, Announce, Work, Exiting, RemoveElem, InsertTail, WorkerStep
  <2> QED
    BY <1>0, <2>1, <2>2, WorkerLine
<1>4. CASE UNCHANGED logVars
  <2>1. q' = q /\ Position' = Position /\ had' = had /\ turns' = turns
    BY <1>4 DEF logVars, Position, had, Had, Chosen, Serving
  <2> QED
    BY <1>0, <2>1
<1> QED
  BY <1>1, <1>2, <1>3, <1>4 DEF LogNext

\* At first nobody stands in line.
LEMMA InitRRLine == LogInit => RRLine
<1> SUFFICES ASSUME LogInit PROVE RRLine
  OBVIOUS
<1>1. turns \in Table /\ Unseen /\ q = <<>>
  BY DEF LogInit, Init, Table, Unseen
<1>2. \A i \in 1 .. Len(q) : FALSE
  BY <1>1
<1> QED
  BY <1>1, <1>2 DEF RRLine, FairLine, InOrder, OnceOnly, Bounded

\* In every reachable state of round robin the line is fair.
THEOREM FairInvariance ==
  LogSpec => [](Turning /\ Fresh /\ PlacesInQueue /\ RRLine)
<1>1. LogSpec => []PlacesInQueue
  BY LogKeepsScheduler, PlacesKept, PTL
<1> QED
  BY <1>1, LogInvariance, InitRRLine, NextRRLine, PTL DEF LogSpec

\* Round robin: while a worker waits for its next turn no other worker has two,
\* whoever joins or leaves meanwhile (sched_impl.c:191-229 and 76-92).
THEOREM NobodyIsServedTwice == LogSpec => []NobodyTwice
<1>1. RRLine => NobodyTwice
  BY DEF RRLine, FairLine, OnceOnly, NobodyTwice
<1> QED
  BY <1>1, FairInvariance, PTL

\* And it waits for fewer turns than the queue has places: who has been served
\* before it in this pass leaves as the head of the line or not at all, and the
\* place it leaves is taken at the end.
THEOREM WaitsAreBounded == LogSpec => []WaitBound
<1>1. ASSUME Turning, PlacesInQueue, RRLine PROVE WaitBound
  <2> SUFFICES ASSUME Policy = "rr", NEW i \in 1 .. Len(q)
               PROVE  Cardinality({u \in Workers : turns[q[i]][u] > 0}) < QueueSize
    BY DEF WaitBound
  <2>1. Len(q) \in Nat /\ Position \in 0 .. Len(q) /\ QueueSize \in Nat
    BY <1>1, LineTypes, SchedulerAssumption
  <2>2. Len(q) <= QueueSize
    <3>1. main # "init"
      <4>1. main = "init" => q = <<>>
        BY <1>1, EmptyAtFirst DEF Turning
      <4>2. q # <<>>
        BY <2>1
      <4> QED
        BY <4>1, <4>2
    <3> QED
      BY <1>1, <3>1 DEF PlacesInQueue
  <2> DEFINE c == Cardinality(Seen(turns, q[i]))
  <2>3. c <= IF i <= Position THEN Position - i ELSE QueueSize - (i - Position)
    BY <1>1 DEF RRLine, FairLine, Bounded
  <2>4. c \in Nat
    BY FiniteSeen
  <2> HIDE DEF c
  <2>5. c < QueueSize
    BY <2>1, <2>2, <2>3, <2>4
  <2> QED
    BY <2>5 DEF c, Seen
<1> QED
  BY <1>1, FairInvariance, PTL
=============================================================================
