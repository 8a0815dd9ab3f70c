# Verification of the CSE 325 systems projects (Team Last Picked)

The repository holds five independent C programs. This directory models them in
TLA+: modules that TLC checks on small instances, and proofs that TLAPS checks
for every size. `PROJECT.json` lists the components, runs, mutants, theorems and
hazards, and maps every definition that models code to its lines.

## The system

| Part | State | Operations | What is hard | What makes it correct |
|---|---|---|---|---|
| p4 scheduler (`scheduler.c`, `sched_impl.c`, `list.c`) | linked queue of workers, `currentPosition`, semaphores `queue_sem`, `cpu_sem`, one `exec` per worker, `num_workers_remaining` | worker and scheduler operations, behind function tables for `-fifo`, `-rr`, `-dummy` | main, the scheduler and the workers run concurrently with semaphores only; the list and the counter have no lock | one worker has the CPU at a time; fair order; places are reused; every run ends; nothing is freed while used |
| p4 test oracle (`lab4_tests.c`) | the scheduler's output file | line-by-line checks | output order is not event order | accepts correct schedules |
| p3 simulator (`p3.c`, `buffer.c`) | an array of 10 ints on main's stack, a mutex semaphore | producers `enqueue`/`push`, consumers `dequeue`/`pop` | threads interleave; main returns under them | nothing is lost, copied or reordered; bounds hold |
| p5 allocator (`mymem.c`) | pool, list of blocks, `last_allocated` | `initmem`, `mymalloc` (four strategies), `myfree`, `mem_*` | long call sequences; coalescing frees nodes others point to; failing malloc; int against size_t | areas never overlap or move; strategies choose as named; status functions agree |
| p6 file system (`myfilesys.c`, `disk.c`) | 64 file entries, 32 descriptors, blocks of a host file | `make/mount/unmount_fs`, `fs_*` | table limits, renumbering under open descriptors, data shifts through two buffers, a process killed before unmount | files share no byte; descriptors keep their file; a call changes only the bytes it should |
| p2 shell (`shell.c`, `getStrings.c`) | children, command list, position in the input | parse, fork, exec, wait | jobs and foreground children are reaped by the same waits; children share the offset of the batch file | no child is left behind; the commands run as written; the shell ends |
| test runner (p4, p5) with `run_test` of `lab4_tests.c` | child pid, alarm, timeout flag, the file `smp4.out` | fork a test, which forks the program; SIGALRM | alarm against waitpid; programs that outlive their test | a verdict means what it says, and there always is one |

The programs do not call each other. Within p4, the main thread creates the
scheduler thread and the workers; workers and scheduler meet in the queue (shared
list) and in semaphores. In p3, threads meet in the array and the mutex. p5 and p6
are sequential libraries used by a client; p6 keeps its table in memory until
`unmount_fs`, while data goes to the disk at once. The shell and the test runner are
sequential parents of concurrent processes: they meet their children in `wait`, in
signals, and in a file (the batch file, `smp4.out`). The hazards in `PROJECT.json`
say line by line what can go wrong and which property would notice.

## Modules

| Module | Models | State and actions |
|---|---|---|
| `Scheduler` | p4: `scheduler.c` on the operations of `sched_impl.c` | `main`, `sched`, `wpc` are the program counters of the three kinds of thread; the other variables carry the names of the code. One action per semaphore operation, shared access, list call or output line |
| `CpuTurns` | what p4 promises: a line with limited places, one CPU, a policy | abstract specification |
| `SchedulerLog` | `Scheduler` with the readers of `lab4_tests.c` running along its output, and a count of turns | extends each action that prints a line by the readers' step; `id` is the number by which the oracle knows a worker, which may be that of an earlier one |
| `SchedulerList` | `Scheduler` on the doubly linked list of `list.c`, load by load and store by store | `head`, `tail`, `prev`, `next`, where each worker is inside `list.c` (`at`) and what it has loaded (`seen`), and how far the scheduler's walk is (`elt`, `count`); all other steps are those of `Scheduler` by INSTANCE |
| `ProducerConsumer` | p3: `p3.c` and `buffer.c` | `main`, `pc` are program counters; one action per semaphore operation or array access |
| `BoundedBuffer` | what p3 promises: a bounded FIFO or FILO sequence, items move from hand to hand | abstract specification |
| `MyMem` | p5: `mymem.c` | one action per outcome of a call; `list` is the list of blocks, `held` the areas the client has |
| `Allocator` | what p5 promises: disjoint areas placed in the hole the strategy names | abstract specification |
| `FileSystem` | p6: `myfilesys.c` on `disk.c` | `files`, `open_files` are the arrays of the code, `table` and `blocks` are the disk; one action per call, and for a call that writes blocks a second one (`...Killed`) that stops between any two of them; `made` is how far `make_disk` has got |
| `Shell` | p2: `shell.c` and `getStrings.c` | `pc` is where the shell is, `children` the process table, `pos` and `offset` its stdio buffer and the file offset shared with the children; reading and parsing are operators, one action per fork, wait, exec and exit |
| `MCShell` | the inputs the shell is run on | |
| `TestRunner` | p4/p5: `testrunner.c` with `run_test` and the judging of `smp4.out` | `pc` is where the runner is, `test` and `program` the processes, `armed` the alarm, `out` what the file holds of each program's output |
| `SchedulerProofs`, `SchedulerListProofs`, `ProducerConsumerProofs`, `MyMemProofs`, `FileSystemProofs`, `ShellProofs`, `TestRunnerProofs` | proofs about the modules of these names; `SchedulerProofs` is about `SchedulerLog` too | |
| `Induction` | facts about sets of numbers and their order, about sums, about removal from a sequence, about its places, and about folds that the proof modules share | |

The abstract specifications are not mapped to lines: they say what the code is
for and have no list, semaphore or loop in them. The link is the refinement
(`ImplementsCpuTurns`, `ImplementsBoundedBuffer`, `ImplementsAllocator`), with
the mapping at the INSTANCE:

- `Scheduler` to `CpuTurns`: worker `w` has the CPU from the moment
  `next_worker` has chosen it to its post of `cpu_sem`; the workers served in
  this pass are those before `currentPosition`, corrected while a leaving worker
  has removed its element but not yet stepped the position back.
- `ProducerConsumer` to `BoundedBuffer`: the contents are the array with the
  hole closed that a shift has in it; an item is in the buffer after the last
  statement of `enqueue` or `push` and out of it after the first of `pop`.
- `MyMem` to `Allocator`: areas are the client's own books; the list has
  disappeared, holes are what lies between areas.

Definitions named after a defect (`...Forgotten`, `...Early`, preceded by
"Mutant:") are the faulty variants that show that each property can fail; no
specification uses them.

## Runs

| Run | Bounds | Shows |
|---|---|---|
| `SchedulerRR` | 3 workers, 2 places, 2 iterations | hand-over of the CPU (`OneOnCpu`), the unlocked counter (`RemainingRaceFree`, `RemainingExact`), the position (`PlaceKept`), the oracle's basic checks, with numbers of workers that come back (`RejectsOnlyReuse`), fairness of round robin (`NobodyTwice`, `WaitBound`), refinement, termination |
| `SchedulerFifo` | the same | `PlacesInQueue`, `check_executed_fifo` rejects no run (`CheckFifo`), refinement of a line whose head alone is served until it leaves, termination |
| `SchedulerList` | 3 workers, 2 places, 1 iteration | list calls are atomic unless two workers race in them (`AtomicUnlessRaced`, `WellLinked`); even then `list_size` returns (`WalkEnds`), at the end nothing is freed while used (`UnusedWhenFreed`) or twice (`FreedOnce`) |
| `SchedulerListLost` (violated) | 2 workers, 2 places, 1 iteration | two first insertions at once lose an element, and the scheduler spins for ever |
| `SchedulerOrder` (violated) | 2 workers, 2 places, 2 iterations | the round robin oracle rejects a fair schedule when a worker joins after the start of a pass and prints before the first loop of that pass |
| `ProducerConsumer` | array of 3, 1 or 2 producers and 1 consumer (and rejected numbers), 2 items, both modes (and a rejected one) | mutual exclusion, no gaps, no overflow, what is printed, refinement; the semaphore is always released |
| `MyMem` | pools of 3 and 6 bytes, requests of 1, 2, 3, 6, an int of 3 bits | list, strategies, coalescing and status functions against areas and holes |
| `MyMemNextFit` (violated) | pool of 3 | next-fit refuses a request that fits the hole at `last_allocated` |
| `FileSystem` | 2 names, a table of 3, 2 descriptors, 2 data blocks of 2 bytes, files of up to 2 bytes, 5 changing calls and 2 mounts | files share no byte, in memory and on disk, between whatever two writes the process is killed, and there are none on a disk that `make_disk` did not finish (`NoSharedBytes`); the table limits (`TypeOK`); deleting (if `shiftBlocks` gets its memory), truncating and writing move or change no bytes they should not (`ContentsKept`); reading (`ReadsOwnBytes`); descriptors (`DescriptorsKeepFile`) |
| `FileSystemDelete` (violated) | the same | `fs_delete` without memory in `shiftBlocks` moves the table and not the bytes |
| `Shell` | two lines out of twelve (jobs, empty commands, quit) with three endings, and every text of at most 3 characters; from a terminal and a file | no child left at the prompt (`ChildrenReaped`); the right commands in the right order (`RunsAsWritten`); the shell ends (`ShellEnds`) |
| `TestRunner` | 3 tests; stop at the first failure or never | `PassMeansPassed`; `EveryTestEnds` |

Why the bounds are enough to be interesting: 3 workers on 2 places is the least with
a worker that waits outside, one that waits inside and one that runs, so that
somebody enters while somebody leaves; 2 iterations make a second pass. An array of
3 has a first, a middle and a last element, so both shifts and the walk of `enqueue`
pass through every branch. Two producers and a consumer are the least that can both
overfill and empty the array under each other's hands; a second consumer does what
the first does, and the theorems cover any number. A pool of 6 with requests of 1
and 2 reaches three holes, ties between holes, and merges on neither, either and
both sides. With an int of 3 bits, 6 is beyond what the int can say, so the
comparisons of an int with a size_t in best and worst fit are exercised where they
wrap; 6 = 2^3 - 2 is the largest pool for which they work, since `bestSize = mySize
+ 1` becomes 0 for 2^w - 1. (With a pool of 7 the refinement fails at the first
`mymalloc(7)` of best fit.) `reply` pairs the answer with the request, so that a
refusal is judged by what was asked for.

`FileSystem`: a file of 2 bytes behind one of 1 byte straddles two blocks, one
behind one of 2 starts at a block's end, and two files of 2 fill the disk; a
third entry, which a second file of the same name takes because only the first
entry is compared (`SCAN`, 32 of 64 in the code), fills the table. Five changes
are enough to create, write, delete or truncate, and write again. The two names
are interchangeable, so `NameSymmetry` is sound: nothing but equality is asked of
a name, and the run has no liveness property. `Shell`: 2 lines are the least
with a child that a line could leave to the next, and 3 commands on a line let a
job end before, between and after the waits. `TestRunner`: of 3 tests the first
can time out while the second passes on what the first one's program has left,
or judge while it writes, and the third can see what is left of both.

Deadlock is checked everywhere but in `SchedulerList` (after a race the
scheduler spins with no step to take), in `MyMem` (the program may stop in
"lost" or "hung"; calls are otherwise always possible), in `FileSystem` (its
bounds on calls and mounts can be used up), and in `Shell` and `TestRunner`
(programs that end, or that wait for a process which need not end).

The findings, one run each:

- `SchedulerListLost`: the unlocked `list_insert_tail` loses an element.
- `SchedulerOrder`: `check_executed_rr` rejects a correct schedule. `rr_next_worker`
  starts a new pass (`sched_impl.c:204-208`); a worker joins and prints "in scheduler
  queue"; then the worker chosen for the new pass prints its loop, the first of the new
  step, and the newcomer, which has the number of the step before, counts as left
  over (`lab4_tests.c:195-199`). A line printed after that loop is accepted.
- `MyMemNextFit`: next-fit refuses the hole at `last_allocated`.
- `FileSystemDelete`: `fs_delete` does not learn that `shiftBlocks` had no memory.

### Disagreements without a run

- `lab4_tests.c:252` expects `check_executed` to accept every run. It keys its buckets by
  `pthread_t` cut to an int (84-99) and counts them (142); the workers are detached, the
  number of one that has exited may come back with the next, and then a correct run
  is rejected. `RejectsOnlyReuse` says that these are the only ones.
- `mymem.c:97` promises NULL if nothing fits. The first next-fit call after `initmem`
  starts at the pool, which is no node (90), and follows what it finds there: the
  search, which ends where it started (193), may go round the list for ever. `MyMem`
  has this as the status "hung".
- `myfilesys.c:56` says that `mount_fs` copies the table from the disk. When a process was
  killed in `make_disk` after `disk.c:24` and before the first write of line 31 the file
  is empty, `block_read` takes the 0 bytes it gets for success (`disk.c:119`), and
  `mount_fs` returns 0 with the buffer as `malloc` gave it (`unread` in `FileSystem`).
- `shell.c:141`: in batch mode a child whose `execvp` fails calls `exit`, which
  moves the offset of the batch file, shared with the shell, back over what the
  child's copy of the stdio buffer still holds. The shell reads these lines again
  when its own buffer is empty: for the two lines `nosuch` and `echo one`, echo
  runs twice, and some files are read for ever. `_exit` would not do this. The
  properties of `Shell` claim nothing once `rewound` is true; with `<>(pc = "done")`
  in place of `ShellEnds` TLC finds the endless reading.
- TeamLastPicked_p2/README:12-18 says that the shell does not wait before all
  commands of a line have been started; `shell.c:151` waits for each command
  that is not a job.
- `testDisk.c:91` expects that a name cannot be created twice; `fs_create`
  compares it with the first 32 of 64 entries only (`myfilesys.c:196`).
- `testDisk.c:328-336` expects that writing one file leaves the next alone;
  `fs_write` does not read the block it starts in (344), and overwrites the rest
  of it with what `malloc` returned. The test passes if that is the block
  written before.
- `testDisk.c:360-362` expects that truncating a file keeps the next one;
  `fs_truncate` shifts by `length - 1` (475), which is what is cut off only in a
  case like that of the test, 5 bytes cut to 3.
- A write beyond the end of the disk reports success (`block_write`'s result is
  not looked at), `mount_fs` without memory leaves the disk open so that it can
  not be tried again (51-55), `fs_open("")` finds a free entry.
- `testrunner.c:90-93`: after a failed fork the test runs inline and `child_pid`
  stays -1, so that the assertion at 84 ends the runner at the next test.
- `testrunner.c:240` parses `-f3` from the `f` on, so that `atoi` returns 0: no limit
  instead of 3. `ErrorLimits` has both values the program can have.
- TeamLastPicked_p3/README:10 gives 1 to 9 threads where `p3.c` accepts 1 to
  10, and `mem_small_free` counts blocks of exactly the size although its comment
  says smaller. `check_for_done` accepts only if "Scheduler: done!" is the last
  line, but main's "waiting for scheduler" line (`scheduler.c:224`) is printed by
  another thread and may come after it.

## Fairness

`Scheduler` and `SchedulerList` assume that each thread that can take a step
eventually does: they are kernel threads. Weak fairness per thread suffices:
`exec` and `cpu_sem` have one waiter each, and every worker passes `queue_sem`
once, so waiting at it ends even if the kernel does not serve in order.
`ProducerConsumer` assumes the same of its threads and of main up to the
`sleep(300)`; the end of the sleep is not forced, so what must happen has to
happen while the simulation runs. Who gets the mutex is left open: the code
gives no order and no bound, and none is claimed. `MyMem` is sequential and
states no liveness, and neither does `FileSystem`.

`Shell`: the shell and each of its children are processes that get the CPU, and
commands end; a foreground command that never ends keeps the shell for ever, as
it should. `TestRunner` assumes less: the runner gets the CPU and the alarm comes.
A test or its program may stop anywhere, which is what the alarm is for; a test
that runs inline because fork failed has no alarm, and `EveryTestEnds` claims
nothing of it.

## Proofs

All proof modules follow one argument: an inductive invariant `IInv`, shown to
hold initially and to be kept by every step, one step of the proof per action;
the properties follow from it.

`SchedulerProofs` (any number of workers, places and iterations, both policies,
from `SchedulerAssumption` alone). `OneOnCpu` is not inductive: it does not say
who may be woken. `IInv` adds which workers exist (`Creation`), that the list
holds each worker between joining and leaving exactly once (`Listed`), and the
baton (`Baton`): when the scheduler does not wait, nobody has the CPU and
`cpu_sem` is 0; when it does, either `cpu_sem` is 1, or the chosen worker alone
has been posted and not yet run, or is running. Theorems: `TypeCorrect`,
`MutualExclusion`, `RaceFreedom` (the comment at `scheduler.c:26-29`).

Its second part adds to that invariant what is counted (`Counts`): what a
worker has loaded of `num_workers_remaining` is still its value when it stores,
since the scheduler lets one worker out at a time (`Loaded`); the free places and
the workers that have one make `queue_size` (`Places`); and when the scheduler has
found the counter at zero every worker has exited, because the last to decrement
it had the CPU and gave it back before (`Finished`). Theorems: `CounterExact`,
`PlacesKept`, `CleanExitHolds`.

Its third part adds whose turn it is. `PlaceKept` is not inductive: between
`rr_next_worker` and the worker's first step nobody runs yet. `Place` says at each
step of the scheduler where the position is: on the chosen worker from the walk
on, below the end before the walk, one too far only while a worker leaves. With the
places (`Places`, so that a worker that joins finds room) and the iterations done
(`Turned`) every step is then a step of `CpuTurns` or changes nothing of it:
`InsertTail` is Admit, `FifoNext` and `RRWalk` are Dispatch, `RRWrap` at the end is
NewPass, `ReleaseCpu` is Yield, `RemoveElem` is Leave, `FinalRelease` is Retire.
Theorems: `PositionKept`, `Refinement`.

Its fourth part is about the output and the order of service. The log only
watches (`LogKeepsScheduler`: `LogSpec => Spec`), so all the above holds under it.
`Numbered` says which numbers workers have: their own or that of an earlier worker,
which has exited unless `shared` is true. The readers' counters are the lines printed
(`Counted`), and `check_executed` has a bucket for each number that was admitted; while
no two live workers shared one, the bucket of a worker in the queue holds its loops,
because the line that admits a worker clears what a predecessor has left there
(`Executed`). With `Places` that gives `OnlyReuseIsRejected`: no line is rejected, and the
count of buckets at the end accepts exactly the runs without a number given twice.
Under FIFO the head alone runs and those
behind it have not begun (`HeadRuns`, `Behind`), so the thread and counter that
`check_executed_fifo` remembers are always those of the head (`Reading`): that is
`FifoAccepts`. Fairness of round robin is a fact about a line, a position in it, the
turns everybody has had, and the table of turns `SchedulerLog` keeps
(`FairLine`): who stands further ahead has had no fewer turns (`InOrder`), nobody
has been served twice since another was (`OnceOnly`), and those a worker has seen
served since are among the places behind it and, once the pass is under way, the
ones in front already served (`Bounded`). Joining, a turn, a new pass, and leaving
each keep this (`JoinKeeps`, `TurnKeeps`, `PassKeeps`, `LeaveKeeps`). The last is
the delicate one, since a place is given away while others wait: it works because
workers do the same number of iterations and the order of leaving is therefore
that of joining, so that a leaver is the head. Theorems: `NobodyIsServedTwice`,
`WaitsAreBounded`.

`SchedulerListProofs` (any number of workers and places, from
`SchedulerListAssumption`) is about the pointers, in three parts. The first holds
whatever the races do: `r` in `Order` numbers the elements in the order in which
they became `lst->tail`, and every `next`, every `prev` read backwards and every
`elt->next` that a removal has read leads from an element with a smaller number to
one with a larger number or with none yet (`Forward`, `Backward`). A pointer that is
loaded in one step and stored in another is in this order too (`Ahead`, `Behind`),
whatever was stored meanwhile. A store can lose an element but never turn a pointer
round, so each element that `list_size` counts is further in the order than the one
before (`Far`), even if the list changes under the walk: `WalksEnd`. This is why the
finding of `SchedulerListLost` is a lost worker and an endless `wait_for_queue`, and
not an endless `list_size`. The second part holds until two workers have been in
`list.c` at once. `Inside` says for each line of the two functions what the worker
there finds of head, tail, `prev` and `next`: for instance that between lines 50 and
52 the tail is the last but one, and between 72 and 74 exactly one `prev` points to
the element that has left. With it every step keeps the sequence that hangs from the
head, but for the store of line 46 or 50, which appends, and the one of line 69 or
71, which removes. The scheduler's walks go on between these steps, element by
element. `Walked` says where a walk is: on the `count`-th element of that sequence,
which holds because what is removed during a walk would be the worker that has the
CPU, and then the scheduler does not walk, while an insertion adds behind. So a walk
that reaches the end, or the position, has seen what one look would have seen:
`WellLinkedUnlessRaced`, `CallsAreAtomic`, and `ImplementsScheduler`, by which the
theorems of `SchedulerProofs` hold of the pointers in every run without a race. The
third part asks what of `IInv` and `Counts` is left when a race has made anything of
the list (`Unharmed`). `Listed` is lost, and with it the reason why the scheduler
never chooses somebody who has left or waits outside. What remains is that pointers
lead only to elements of workers that exist (`PointersKnown`) and a weaker `Baton`:
the chosen worker has the CPU, or it has been posted and may never come for it, in
which case the scheduler waits for ever and nothing is freed. That is enough for the
counter, the places and the end: `RacesAreConfined`, `NothingUsedIsFreed`,
`OneRunsAfterRaces`. The lemmas about a chain of pointers (`ChainMet`,
`ChainAppend`, `ChainRemove`) are stated for any sequence.

`ProducerConsumerProofs` (any array size, number of threads and items, from
`ProducerConsumerAssumption`). `IInv` says for each line of the critical section
what its thread knows of the array (`Section`), e.g. that the elements below
`i` are in use while counting; it stays true because `MutualExclusion` keeps
others away. The lemmas about `View` show that shifting moves the hole and
changes nothing else. Theorems: `TypeCorrect`, `OneInCriticalSection`,
`Compact`, `NoOverflow`, `Reports`, and `Refinement`, that the simulator
implements `BoundedBuffer`.

`MyMemProofs` (any set of requests, any set of pools with a largest member - a
`size_t` has one - and any width of the int, from `MyMemAssumption`).
`LastAllocatedListed` needs to know that coalescing removes what it merges and
nothing else; the refinement needs the whole shape of the list. `IInv` says that the
blocks tile the pool (`Tiled`: each starts where the one before ends), that no two
free ones are neighbours (`Coalesced`), and that the used ones are exactly the areas
in the client's books (`Books`); that its size is one the client asked for
(`Asked`). Theorems: `Invariance`, `TypeCorrect`, `LastListed`. For the refinement,
the holes that `Allocator` finds between areas are the free blocks (`HolesAre`), and
what each strategy's walk returns is the hole `Allocator` would take (`FitChosen`).
The walks are folds over the list, which the community modules define by a function
on sets of positions that satisfies an equation. `Induction` proves that the
function exists (`FoldExists`) and that a fold over `1 .. n` is the last state of a
run that takes one position after the other (`Runs`); that a set of natural numbers
has a least element (`LeastElement`) then carries over what every step keeps, in the
form of `Counting`. `Implements` has the hypothesis `PoolsFit`: the largest pool and
one more fit into the int, because `mymem.c` compares sizes in an int with a
`size_t`, and `bestSize = mySize + 1` wraps. TLC shows the refinement fail beyond
it, and the bounds of the runs satisfy it. `StatusIsTold` (`StatusAgrees`, under
`PoolsFit` too) compares sums that are taken in different ways: `mem_allocated` and
`mem_free` go over the list, the specification over the client's set of areas. Both
count the bytes they cover: `Induction` proves that the sizes of areas that do not
overlap add up to the number of numbers in them (`SumExists`, `SumCovers`), so that
what blocks and areas with the same bytes amount to is the same. Holes and small
holes are matched one to one with free blocks, and `mem_largest_free` is a fold
whose run keeps the largest seen. `OnlyNextFitRefusesWhatFits` proves that the
finding about next-fit is confined to it.

`FileSystemProofs` (any size of the table, the disk, its blocks and the files, from
`FileSystemAssumption`). `NoSharedBytes` speaks of any two files; what is inductive
is said of an entry and the one before it (`Packed`): entries with a name are those
with a size, one in use has one in use before it, and it starts no earlier than that
one ends. A table on the disk is packed or still the zeros of `make_disk`, in which
nothing has a name; so a process that is killed between any two block writes leaves
nothing to repair in the table, and `FileSystemInv` adds only that an open
descriptor names an entry in use, and that a table other than zeros is that of a
disk with all its blocks (`DiskIsWhole`): on one that `make_disk` did not finish the
table is zeros, which have no free entry, until `make_fs` is called again.
`FillFrom` is a fold; `FillRun` takes it apart into steps (`FoldRun` in
`Induction`), and from that come what `fs_create`, `fs_write`, `fs_truncate` and
`fs_delete` make of the table (`CreateKeepsPacked`, `GrowKeepsPacked`,
`TruncateKeepsPacked`, `DeleteKeepsPacked`). Theorems: `FileSystemInvariance`,
`TypeCorrect`, `NoFilesShareBytes`, `DescriptorsKeepTheirFile`.

The bytes take the three loops over blocks. A byte has one block and one place in
it (`DivMod`), and both forms of carrying a block over leave the byte they stand for
alone (`CarryIs`, `CarryFullIs`), although they differ in what they make of the end
of a block. `ShiftIs` says what `shiftBlocks` does: nothing in front of the place it
shifts to, and behind it each byte comes down by `numShift`, as far as there are
bytes on the disk. Its invariant says of the two buffers and the disk together
which bytes have come down (`Moved`). The second buffer is written back too, with
what was in its block before; this undoes nothing because the place that is
written is never past the block that is read (`Behindhand`). What is in front stays
even when `fs_truncate` shifts by -1 and `memcpy` reads one byte in front of its
buffer (`Front`). `WriteIs` and `ReadsInOrder` do the same for `fs_write` and
`fs_read`. With `Tight` (no gap between files) the new
places of the table are exactly those the bytes have been moved to
(`DeletePlaces`, `TruncatePlaces`). When `shiftBlocks` gets no memory, that is no longer
so for `fs_delete` (`FileSystemDelete`), while `fs_truncate` leaves what is in front
alone all the more. Theorems: `ReadsTheirOwnBytes`,
`FilesKeepTheirContents`.

`ShellProofs` (any set of inputs, from `ShellAssumption`). `ChildrenReaped` holds
because the waits at the end of a line are enough. While commands are started
`IInv` says that the children left are among those numbered by the commands
taken; from the first `wait` on, which may take any child, only their number
matters: at most as many are left as waits are to come. Theorem: `NoChildLeft`.

`RunsAsWritten` takes most of the module. Its invariant `InOrder` says of any state
in which no child has moved the offset: what has been tried, then the commands in
hand, then those of the text that is still unread (`ToCome`), is what the whole text
asks for. A command that is tried moves from the second part to the first, an
empty one or `quit` disappears from both sides; these are the steps of a fold
(`NextCommand`). What is hard is reading a line (`AfterReadLine`): the code takes
characters one by one from a buffer, and the specification cuts the whole text into
lines, each line at its semicolons and each part into words. All three are
`Stretches`, the maximal runs of characters that are no delimiter, numbered in
the order of their first characters (`Ranks`, `NthIs` in `Induction`). So the
proof says what a further character makes of the stretches of a string
(`CharacterBegins` and the lemmas next to it), with that shows that the stretches
on both sides of a delimiter are those of the two sides in turn, and carries this over
to the lines of a text, with the byte 255 that ends a line or, at the start of one, the
input. Theorems: `InOrderAlways`, `RunsAsWrittenHolds`. Once a child has moved the
offset the property claims nothing, as said above.

`TestRunnerProofs` (any number of tests and any limit, from
`TestRunnerAssumption`). `IInv` ties what the process of the current test can be
doing to the step the runner is at (`Phase`), and says what `smp4.out` holds as
long as no earlier test has been killed: the other programs have ended, and the
file has the output of the current one alone (`File`). A verdict of "pass" then
rests on that output (`Passes`). Theorem: `PassesAreSound`.

Only model-checked: `FreedOnce` of `SchedulerList` after a race (without one it follows
from `CleanExitHolds`), which needs to know in which order a scheduler serves what
is left of any corrupted list; the properties that the code violates; and
every liveness property (TLAPS has no proof rules for fairness and ENABLED here).
Recursion over data that is not a fold with a provable step, and the library's
induction theorems, which take an operator, are out of the provers' reach.

## Abstractions

- Thread scheduling is an arbitrary interleaving of the steps named; memory is
  sequentially consistent. Where C has a data race the model interleaves
  single loads and stores (`num_workers_remaining--`, `list.c`). In `SchedulerList`
  an insertion, a removal and the scheduler's `list_size` and walk to the position
  read and write pointer by pointer, in the order of the source (the Makefile builds
  without optimisation). Two accesses are one step only where no other thread can
  reach what one of them touches; the module says where. `destroy_sched_queue` runs when
  all workers have exited and is one step.
- A worker gets a number of its own or that of any worker created before, as
  `pthread_t` cut to an int may be; what `check_executed` does with the numbers of two
  live workers that are equal only when cut is in the model (`shared`) and judged by no
  property.
- Output is kept only where `lab4_tests.c` reads it. Sleeps take any time.
- `init_thread_info` and `init_sched_queue` ignore allocation failures; the
  model lets those allocations succeed. `pthread_create` failing ends the
  process in p4 and is ignored in p3: both are modelled.
- p3: after main returns its array holds anything and claims about its contents
  end; the mutex and the loop bounds are still claimed.
- p5: what C leaves undefined (reading the pool as a node) ends in "lost",
  "hung", or a null pointer. A node is identified by its address in the pool,
  which does not change while it is listed. A pool has at least one byte: `initmem`
  would take 0 too, and what `malloc(0)` returns is the library's choice.
- p6: the client calls `fs_` functions only while a file system is mounted, with
  descriptors it has open, offsets that are not negative and names that are not
  empty. What `malloc` returns and what lies behind an array can be anything.
  When `mount_fs` has taken such a buffer for the file table (`unread`), what the client
  does with that table, other than calling `make_fs`, is not followed.
  Host I/O neither fails nor stops half-way through a block. A killed process
  leaves every `write` made so far in the host file: a crash of the host itself,
  which could lose some of them, is left out.
- p2: a character is one of eight that the parser tells apart, and `quit` is one of
  them. The input holds no NUL byte, which would end the C string that is parsed.
  The input fits into one stdio buffer, so that the buffer is refilled only at the
  end. A child is numbered by its place in the line, which tells apart all that can
  exist at one time. Memory does not run out.
- Test runner: a test is its own pid, and no other process of the machine gets it
  after the test has been reaped; the kill that may follow (138) is then without
  effect. What the oracle says of a file is left open, so that a property cannot
  rest on it; a missing file makes the test crash. Of a program's output the file
  holds nothing, a part or all, or pieces torn by another program that has emptied
  the file under it.

## Not modelled, and what is left

- The dummy policy of p4: every operation is empty and nothing is promised of it.
- The header parsing of `lab4_tests.c` and `check_for_done`; `list_insert_head`,
  which has no caller.
- Test programs (`testBuffer.c`, `memorytests.c`, `testDisk.c`, `test.c`,
  `infinite.c`): clients without state of their own; the models' clients make any
  sequence of calls. The early shell in `lstuyves_p3_shell` runs one line and
  waits for it. Archives (`*.tgz`, `*.zip`) hold copies of the sources.

Worth doing next: that no element is freed twice after a race either (`FreedOnce`),
as a theorem; an abstract set of files that `FileSystem` implements, with the loss
that `fs_write` and `fs_truncate` bring made part of it.
