------------------------------ MODULE Allocator ------------------------------
(***************************************************************************)
(* What mymem.h of TeamLastPicked_p5 promises: a pool of bytes from which    *)
(* the client gets areas that never overlap and never move, placed in the   *)
(* hole that the strategy names.  A hole is a stretch of free bytes between *)
(* two areas; the allocator is a set of areas and has no list.              *)
(***************************************************************************)
EXTENDS Integers, FiniteSets

CONSTANTS Pools, Requests, NONE, NULL, START

VARIABLES
  pool,        \* its size; 0 if there is none
  strategy,
  live,        \* the client's areas, each [ptr, size]
  rover,       \* where next-fit goes on from; START: from the beginning
  reply        \* what mymalloc was asked for and returned; NONE if another
               \* call came since

vars == <<pool, strategy, live, rover, reply>>

End(a) == a.ptr + a.size
Starts == {p \in {0} \cup {End(a) : a \in live} :
             p < pool /\ \A a \in live : a.ptr # p}
HoleEnd(p) == CHOOSE e \in {pool} \cup {a.ptr : a \in live} :
                e > p /\ \A a \in live : a.ptr > p => e <= a.ptr
Holes == {[ptr |-> p, size |-> HoleEnd(p) - p] : p \in Starts}

\* Next-fit does not look at the hole it starts from.
Candidates(r) ==
  {h \in Holes : h.size >= r /\ (strategy = "next" => h.ptr # rover)}

\* h comes before g in the order of the strategy; the lower one if in doubt.
Before(h, g) == h.ptr < g.ptr
Ahead(h) == rover = START \/ h.ptr > rover
Preferred(h, g) ==
  CASE strategy = "first" -> Before(h, g)
    [] strategy = "best"  -> h.size < g.size \/ (h.size = g.size /\ Before(h, g))
    [] strategy = "worst" -> h.size > g.size \/ (h.size = g.size /\ Before(h, g))
    [] strategy = "next"  -> IF Ahead(h) = Ahead(g) THEN Before(h, g)
                                                    ELSE Ahead(h)

Chosen(h, r) ==
  h \in Candidates(r) /\ \A g \in Candidates(r) \ {h} : Preferred(h, g)

Init ==
  /\ pool = 0 /\ strategy = "notset" /\ live = {}
  /\ rover = START /\ reply = NONE

\* All areas are gone; if there is no memory there is no pool.
Reset ==
  /\ pool' \in Pools \cup {0}
  /\ strategy' \in {"best", "worst", "first", "next", "notset"}
  /\ live' = {} /\ rover' = START /\ reply' = NONE

Alloc(r) ==
  /\ \E h \in Holes :
       /\ Chosen(h, r)
       /\ live' = live \cup {[ptr |-> h.ptr, size |-> r]}
       /\ rover' = h.ptr
       /\ reply' = <<r, h.ptr>>
  /\ UNCHANGED <<pool, strategy>>

\* No candidate, or no memory to note the rest of the hole in.
Refuse(r) ==
  /\ \A h \in Holes : Chosen(h, r) => h.size > r
  /\ reply' = <<r, NULL>>
  /\ UNCHANGED <<pool, strategy, live, rover>>

\* The area becomes part of a hole, from which next-fit goes on.
Free(a) ==
  /\ live' = live \ {a}
  /\ rover' \in {h.ptr : h \in Holes'}
  /\ rover' <= a.ptr /\ \A h \in Holes' : h.ptr <= a.ptr => h.ptr <= rover'
  /\ reply' = NONE
  /\ UNCHANGED <<pool, strategy>>

\* Freeing what is not allocated.
Ignore == reply' = NONE /\ UNCHANGED <<pool, strategy, live, rover>>

Next ==
  \/ Reset \/ Ignore
  \/ \E r \in Requests : Alloc(r) \/ Refuse(r)
  \/ \E a \in live : Free(a)

Spec == Init /\ [][Next]_vars

=============================================================================
