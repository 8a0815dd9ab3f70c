------------------------------ MODULE CpuTurns ------------------------------
(***************************************************************************)
(* What the scheduler of TeamLastPicked_p4 promises, without a semaphore or *)
(* a thread: workers stand in a line with a limited number of places, one   *)
(* at a time has the CPU, and the policy says whose turn is next.  A worker *)
(* needs Slices turns and one more, in which it leaves the line.            *)
(***************************************************************************)
EXTENDS Integers, SequencesExt

CONSTANTS
  Workers,    \* positive numbers
  Places, Slices,
  Policy      \* "fifo" or "rr"

Nobody == 0

VARIABLES
  line,       \* the workers in the queue, in the order they came
  served,     \* round robin: who has had its turn in this pass
  running,    \* who has the CPU
  slices,     \* turns completed by each worker
  gone        \* workers that have left the line

vars == <<line, served, running, slices, gone>>

InLine == {line[i] : i \in 1 .. Len(line)}

Init ==
  /\ line = <<>> /\ served = {} /\ running = Nobody
  /\ slices = [w \in Workers |-> 0] /\ gone = {}

\* A worker takes a free place at the end of the line, whoever is running.
Admit(w) ==
  /\ w \notin InLine \cup gone
  /\ Len(line) < Places
  /\ line' = Append(line, w)
  /\ UNCHANGED <<served, running, slices, gone>>

\* FIFO: the head of the line.  Round robin: the first in line that has not
\* been served in this pass.
IsNext(i) ==
  IF Policy = "fifo" THEN i = 1
  ELSE line[i] \notin served /\ \A j \in 1 .. i - 1 : line[j] \in served

Dispatch(i) ==
  /\ running = Nobody
  /\ IsNext(i)
  /\ running' = line[i]
  /\ served' = IF Policy = "rr" THEN served \cup {line[i]} ELSE served
  /\ UNCHANGED <<line, slices, gone>>

\* The pass is over when everybody in line has been served.
NewPass ==
  /\ Policy = "rr"
  /\ running = Nobody /\ InLine # {} /\ InLine \subseteq served
  /\ served' = {}
  /\ UNCHANGED <<line, running, slices, gone>>

Yield ==
  /\ running # Nobody /\ running \notin gone
  /\ slices[running] < Slices
  /\ slices' = [slices EXCEPT ![running] = @ + 1]
  /\ running' = Nobody
  /\ UNCHANGED <<line, served, gone>>

\* The worker gives up its place and only then the CPU.
Leave(i) ==
  /\ running = line[i]
  /\ slices[running] = Slices
  /\ line' = RemoveAt(line, i)
  /\ served' = served \ {running}
  /\ gone' = gone \cup {running}
  /\ UNCHANGED <<running, slices>>

Retire ==
  /\ running \in gone
  /\ running' = Nobody
  /\ UNCHANGED <<line, served, slices, gone>>

Next ==
  \/ \E w \in Workers : Admit(w)
  \/ \E i \in 1 .. Len(line) : Dispatch(i) \/ Leave(i)
  \/ NewPass \/ Yield \/ Retire

Spec == Init /\ [][Next]_vars

=============================================================================
