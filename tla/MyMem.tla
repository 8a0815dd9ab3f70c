-------------------------------- MODULE MyMem --------------------------------
(***************************************************************************)
(* The memory allocator of TeamLastPicked_p5, mymem.c: a list of blocks     *)
(* that tile the pool, four placement strategies, coalescing on free.  The  *)
(* program is sequential; a step is one call of the client.                 *)
(*                                                                         *)
(* Pointers into the pool are offsets from its start.  The doubly linked    *)
(* list is a sequence of nodes.  The ptr of a node never changes while it   *)
(* is in the list (only a new node gets one, and coalescing keeps the       *)
(* first), so last_allocated, which points to a node, is modelled by that   *)
(* node's ptr.                                                              *)
(***************************************************************************)
EXTENDS Integers, Sequences, FiniteSets, SequencesExt, FiniteSetsExt

CONSTANTS
  Pools,       \* sizes that initmem is called with
  Requests,    \* sizes that mymalloc is called with, >= 1 (mymem.c:100)
  IntBits      \* width of int, in which some sizes are kept

ASSUME MyMemAssumption ==
  /\ Pools \subseteq Nat \ {0}
  /\ \E most \in Pools : \A sz \in Pools : sz <= most   \* a size_t
  /\ Requests \subseteq Nat \ {0}
  /\ IntBits \in Nat \ {0}

Strategies == {"best", "worst", "first", "next"}

NULL == -1
POOL == -4        \* last_allocated = myMemory: not a node at all
NONE == <<0, NULL>>   \* the last call was not mymalloc
START == -3

VARIABLES
  status,              \* "running", "hung", or "lost": an assertion failed or
                       \* the program did what C leaves undefined
  myStrategy, mySize,
  list,                \* the nodes from head to last, each [ptr, size, free]
  last_allocated,      \* the ptr of a node, POOL or NULL
  reply,               \* what mymalloc was asked for and returned
  held                 \* the client's own books: the areas it has, [ptr, size]

pool == <<myStrategy, mySize>>
vars == <<status, pool, list, last_allocated, reply, held>>

Listed == {list[k].ptr : k \in DOMAIN list}

Init ==
  /\ status = "running"
  /\ myStrategy = "notset" /\ mySize = 0
  /\ list = <<>>
  /\ last_allocated = NULL
  /\ reply = NONE
  /\ held = {}

-----------------------------------------------------------------------------
(* initmem                                                                 *)

\* Everything is released, then malloc of the pool or of the first node may
\* fail; the code does not look at the second.
InitMem(strategy, sz) ==
  /\ status = "running"
  /\ myStrategy' = strategy /\ mySize' = sz
  /\ held' = {} /\ reply' = NONE
  /\ \/ /\ list' = <<[ptr |-> 0, size |-> sz, free |-> TRUE]>>
        /\ last_allocated' = POOL
        /\ UNCHANGED status
     \/ /\ list' = <<>>
        /\ status' \in {"running", "lost"}
        /\ UNCHANGED last_allocated

-----------------------------------------------------------------------------
(* mymalloc                                                                *)

\* best and worst fit keep a size_t in an int and compare the int with a size_t:
\* what is negative in the int is larger than any block.
InInt(n) == LET m == n % 2^IntBits
            IN IF m < 2^(IntBits - 1) THEN m ELSE m - 2^IntBits
Below(size, n) == n < 0 \/ size < n
Above(size, n) == n >= 0 /\ size > n

Suitable(k, requested) == list[k].free /\ list[k].size >= requested

Smallest(S) == IF S = {} THEN 0 ELSE Min(S)

\* Each strategy returns the place of its block in the list, 0 for none.
FirstFit(requested) == Smallest({k \in DOMAIN list : Suitable(k, requested)})

\* Mutant: of blocks of the same size, the last.
BestFitLast(requested) ==
  LET Look(best, k) ==
        IF Suitable(k, requested)
           /\ (Below(list[k].size, best.size) \/ list[k].size = best.size)
          THEN [at |-> k, size |-> InInt(list[k].size)] ELSE best
  IN FoldLeftDomain(Look, [at |-> 0, size |-> InInt(mySize + 1)], list).at

BestFit(requested) ==
  LET Look(best, k) ==
        IF Suitable(k, requested) /\ Below(list[k].size, best.size)
          THEN [at |-> k, size |-> InInt(list[k].size)] ELSE best
  IN FoldLeftDomain(Look, [at |-> 0, size |-> InInt(mySize + 1)], list).at

WorstFit(requested) ==
  LET Look(worst, k) ==
        IF Suitable(k, requested) /\ Above(list[k].size, worst.size)
          THEN [at |-> k, size |-> InInt(list[k].size)] ELSE worst
  IN FoldLeftDomain(Look, [at |-> 0, size |-> 0], list).at

\* From the node behind last_allocated round the list; the node itself ends the
\* search, suitable or not.
NextFit(requested) ==
  LET from == IF last_allocated = POOL THEN 0
              ELSE CHOOSE k \in DOMAIN list : list[k].ptr = last_allocated
      Step(d) == ((from + d - 1) % Len(list)) + 1
      found == {d \in 1 .. Len(list) : /\ Step(d) # from
                                       /\ Suitable(Step(d), requested)}
  IN IF found = {} THEN 0 ELSE Step(Min(found))

Fit(requested) ==
  CASE myStrategy = "first" -> FirstFit(requested)
    [] myStrategy = "best"  -> BestFit(requested)
    [] myStrategy = "worst" -> WorstFit(requested)
    [] myStrategy = "next"  -> NextFit(requested)

\* A new node behind the one at place after.
InsertIntoList(nodes, after, new) == InsertAt(nodes, after + 1, new)

\* The block is split if it is larger than requested.
Take(k, requested) ==
  LET b == list[k]
      used == [ptr |-> b.ptr, size |-> requested, free |-> FALSE]
      leftover == [ptr |-> b.ptr + requested, size |-> b.size - requested,
                   free |-> TRUE]
  IN list' = IF b.size > requested
               THEN InsertIntoList([list EXCEPT ![k] = used], k, leftover)
               ELSE [list EXCEPT ![k] = used]

\* next-fit starts with what it takes for the next pointer of a node: before
\* the first allocation that is uninitialised memory of the pool, and a node
\* long freed if initmem has failed.
FollowsGarbage ==
  myStrategy = "next" /\ (last_allocated = POOL \/ list = <<>>)

MyMalloc(requested) ==
  /\ status = "running" /\ myStrategy # "notset"
  /\ ~ (myStrategy = "next" /\ list = <<>>)
  /\ Fit(requested) # 0
  /\ LET k == Fit(requested)
     IN \/ /\ Take(k, requested)
           /\ last_allocated' = list[k].ptr
           /\ reply' = <<requested, list[k].ptr>>
           /\ held' = held \cup {[ptr |-> list[k].ptr, size |-> requested]}
        \/ /\ list[k].size > requested        \* no memory for the leftover
           /\ reply' = <<requested, NULL>>
           /\ UNCHANGED <<list, last_allocated, held>>
  /\ UNCHANGED <<status, pool>>

MyMallocFails(requested) ==
  /\ status = "running" /\ myStrategy # "notset"
  /\ ~ FollowsGarbage
  /\ Fit(requested) = 0
  /\ reply' = <<requested, NULL>>
  /\ UNCHANGED <<status, pool, list, last_allocated, held>>

\* The search of next-fit ends at last_allocated, which it never meets if that
\* is not a node.
MyMallocHangs(requested) ==
  /\ status = "running"
  /\ FollowsGarbage /\ list # <<>> /\ Fit(requested) = 0
  /\ status' = "hung"
  /\ UNCHANGED <<pool, list, last_allocated, reply, held>>

\* The garbage was not NULL, or the assertion that a strategy is set fails.
MyMallocLost ==
  /\ status = "running"
  /\ FollowsGarbage \/ myStrategy = "notset"
  /\ status' = "lost"
  /\ UNCHANGED <<pool, list, last_allocated, reply, held>>

-----------------------------------------------------------------------------
(* myfree                                                                  *)

At(block) == Smallest({k \in DOMAIN list : list[k].ptr = block})
Size(k, counts) == IF counts THEN list[k].size ELSE 0

\* Mutant: the last of the blocks stays in the list.
MergeKeepsFinal(first, final, size) ==
  list' = SubSeq(list, 1, first - 1)
          \o <<[ptr |-> list[first].ptr, size |-> size, free |-> TRUE]>>
          \o SubSeq(list, final, Len(list))

\* The blocks from first to final become one, in the first's node.
Merge(first, final, size) ==
  list' = SubSeq(list, 1, first - 1)
          \o <<[ptr |-> list[first].ptr, size |-> size, free |-> TRUE]>>
          \o SubSeq(list, final + 1, Len(list))

\* Mutant: a free block behind is not joined.
MyFreeNotBehind(block) ==
  LET k == At(block)
      before == k > 1 /\ list[k - 1].free
      first == IF before THEN k - 1 ELSE k
  IN /\ status = "running"
     /\ k # 0 /\ ~ list[k].free
     /\ Merge(first, k, Size(k - 1, before) + list[k].size)
     /\ last_allocated' = list[first].ptr
     /\ reply' = NONE
     /\ held' = {a \in held : a.ptr # block}
     /\ UNCHANGED <<status, pool>>

\* Mutant: last_allocated is left alone.
MyFreeKeepLast(block) ==
  LET k == At(block)
      before == k > 1 /\ list[k - 1].free
      after == k < Len(list) /\ list[k + 1].free
      first == IF before THEN k - 1 ELSE k
      final == IF after THEN k + 1 ELSE k
  IN /\ status = "running"
     /\ k # 0 /\ ~ list[k].free
     /\ Merge(first, final,
              Size(k - 1, before) + list[k].size + Size(k + 1, after))
     /\ reply' = NONE
     /\ held' = {a \in held : a.ptr # block}
     /\ UNCHANGED <<status, pool, last_allocated>>

\* A used block is freed, and joined with the free blocks on either side.
MyFree(block) ==
  LET k == At(block)
      before == k > 1 /\ list[k - 1].free
      after == k < Len(list) /\ list[k + 1].free
      first == IF before THEN k - 1 ELSE k
      final == IF after THEN k + 1 ELSE k
  IN /\ status = "running"
     /\ k # 0 /\ ~ list[k].free
     /\ Merge(first, final,
              Size(k - 1, before) + list[k].size + Size(k + 1, after))
     /\ last_allocated' = list[first].ptr
     /\ reply' = NONE
     /\ held' = {a \in held : a.ptr # block}
     /\ UNCHANGED <<status, pool>>

\* A block that is free already, or no block at all: a warning.
MyFreeWarns(block) ==
  /\ status = "running"
  /\ At(block) # 0 => list[At(block)].free
  /\ reply' = NONE
  /\ UNCHANGED <<status, pool, list, last_allocated, held>>

-----------------------------------------------------------------------------
Terminated == status # "running" /\ UNCHANGED vars

Next ==
  \/ \E strategy \in Strategies \cup {"notset"}, sz \in Pools :
       InitMem(strategy, sz)
  \/ \E requested \in Requests :
       \/ MyMalloc(requested) \/ MyMallocFails(requested)
       \/ MyMallocHangs(requested)
  \/ MyMallocLost
  \/ \E block \in 0 .. Max(Pools) : MyFree(block) \/ MyFreeWarns(block)
  \/ Terminated

Spec == Init /\ [][Next]_vars

-----------------------------------------------------------------------------
(* The status functions; all but the last return an int.                   *)

FreeBlocks == {k \in DOMAIN list : list[k].free}
UsedBlocks == DOMAIN list \ FreeBlocks

\* Sum of the sizes of the blocks at the given places.
Bytes(S) == MapThenSumSet(LAMBDA k : list[k].size, S)

mem_holes == Cardinality(FreeBlocks)
mem_allocated == InInt(Bytes(UsedBlocks))
mem_free == InInt(Bytes(FreeBlocks))
mem_total == InInt(mySize)
mem_largest_free ==
  LET Look(max, k) == IF list[k].free /\ Above(list[k].size, max)
                        THEN InInt(list[k].size) ELSE max
  IN FoldLeftDomain(Look, 0, list)
mem_small_free(size) ==      \* size is an int, and not negative
  Cardinality({k \in FreeBlocks : list[k].size <= size})
mem_is_alloc(ptr) == IF At(ptr) = 0 THEN TRUE ELSE ~ list[At(ptr)].free

-----------------------------------------------------------------------------
(* Correctness.                                                            *)

TypeOK ==
  /\ status \in {"running", "hung", "lost"}
  /\ myStrategy \in Strategies \cup {"notset"} /\ mySize \in Pools \cup {0}
  /\ list \in Seq([ptr : 0 .. Max(Pools), size : 1 .. Max(Pools), free : BOOLEAN])
  /\ Cardinality(Listed) = Len(list)
  /\ last_allocated \in Nat \cup {POOL, NULL}
  /\ reply \in (Requests \X (Nat \cup {NULL})) \cup {NONE}
  /\ \A a \in held : a \in [ptr : Nat, size : Nat]

\* last_allocated never points to a node that coalescing or initmem has freed,
\* although the functions that free nodes do not know about it.
LastAllocatedListed ==
  list # <<>> => last_allocated \in Listed \cup {POOL}

\* The status functions tell the client what follows from the areas it has, as
\* far as an int can say it: how many holes lie between them, how much is free,
\* and what the largest request is that can succeed.
A == INSTANCE Allocator WITH
  pool <- IF list = <<>> THEN 0 ELSE mySize,
  strategy <- myStrategy,
  live <- held,
  rover <- IF last_allocated \in Listed THEN last_allocated ELSE START

StatusAgrees ==
  list # <<>> =>
    LET used == MapThenSumSet(LAMBDA a : a.size, held)
    IN /\ mem_holes = Cardinality(A!Holes)
       /\ mem_allocated = InInt(used)
       /\ mem_free = InInt(mem_total - used)
       /\ mem_largest_free = IF A!Holes = {} THEN 0
                             ELSE InInt(Max({h.size : h \in A!Holes}))
       /\ \A n \in 0 .. 2^(IntBits - 1) - 1 :
            mem_small_free(n) = Cardinality({h \in A!Holes : h.size <= n})
       /\ \A a \in held : mem_is_alloc(a.ptr)
       /\ \A h \in A!Holes : ~ mem_is_alloc(h.ptr)

\* The list of blocks and the scans of mymalloc implement the set of areas and
\* the strategies of Allocator.
ImplementsAllocator == A!Spec

\* mymem.c:97-98: if the requested block is not available mymalloc returns
\* NULL, otherwise a pointer to a block.
AllocatesIfAvailable ==
  [][\A r \in Requests :
       MyMallocFails(r) => \A h \in A!Holes : list # <<>> => h.size < r]_vars

=============================================================================
