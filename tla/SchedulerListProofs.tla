------------------------- MODULE SchedulerListProofs -------------------------
(***************************************************************************)
(* What the linked list of list.c is worth without a lock, for every       *)
(* number of workers: its calls are atomic until two workers are in them   *)
(* at once, and even after that a walk over the list ends, one worker has  *)
(* the CPU, none is forgotten in the counts, and main frees nothing that   *)
(* somebody uses.                                                          *)
(***************************************************************************)
EXTENDS SchedulerList, Induction

-----------------------------------------------------------------------------
(* A walk.                                                                 *)

Links == [Workers -> Workers \cup {NULL}]

\* The walk along the pointers nx from the element h.
Walk(h, nx) ==
  CHOOSE f : f = [k \in 1 .. NumWorkers + 1 |->
                    IF k = 1 THEN h
                    ELSE IF f[k - 1] = NULL THEN NULL ELSE nx[f[k - 1]]]

\* Each step of a walk follows from the one before.
IsWalk(f, n, h, nx) ==
  /\ f \in [1 .. n -> Workers \cup {NULL}]
  /\ n > 0 => f[1] = h
  /\ \A k \in 2 .. n : f[k] = IF f[k - 1] = NULL THEN NULL ELSE nx[f[k - 1]]

\* There is a walk of any length.
LEMMA WalkExists ==
  ASSUME NEW h \in Workers \cup {NULL}, NEW nx \in Links, NEW n \in Nat
  PROVE  \E f : IsWalk(f, n, h, nx)
<1> DEFINE Done == {k \in Nat : \E f : IsWalk(f, k, h, nx)}
<1>1. 0 \in Done
  <2>1. IsWalk([k \in 1 .. 0 |-> NULL], 0, h, nx)
    BY DEF IsWalk
  <2> QED
    BY <2>1
<1>2. ASSUME NEW k \in Nat, NEW f, IsWalk(f, k, h, nx)
      PROVE  \E g : IsWalk(g, k + 1, h, nx)
  <2> DEFINE to == IF k = 0 THEN h ELSE IF f[k] = NULL THEN NULL ELSE nx[f[k]]
             g == [j \in 1 .. k + 1 |-> IF j = k + 1 THEN to ELSE f[j]]
  <2>1. to \in Workers \cup {NULL}
    <3>1. k # 0 => f[k] \in Workers \cup {NULL}
      BY <1>2 DEF IsWalk
    <3> QED
      BY <3>1 DEF Links
  <2>2. \A j \in 1 .. k : f[j] \in Workers \cup {NULL}
    BY <1>2 DEF IsWalk
  <2> HIDE DEF to
  <2>3. g \in [1 .. k + 1 -> Workers \cup {NULL}]
    BY <2>1, <2>2
  <2>4. g[1] = h
    <3>1. CASE k = 0
      BY <3>1 DEF to
    <3>2. CASE k # 0
      BY <1>2, <3>2 DEF IsWalk
    <3> QED
      BY <3>1, <3>2
  <2>5. ASSUME NEW j \in 2 .. k + 1
        PROVE  g[j] = IF g[j - 1] = NULL THEN NULL ELSE nx[g[j - 1]]
    <3>1. g[j - 1] = f[j - 1]
      BY <2>5
    <3>2. CASE j = k + 1
      <4>1. g[j] = to /\ k # 0 /\ j - 1 = k
        BY <3>2
      <4> QED
        BY <3>1, <4>1 DEF to
    <3>3. CASE j # k + 1
      <4>1. j \in 2 .. k /\ g[j] = f[j]
        BY <3>3
      <4> QED
        BY <1>2, <3>1, <4>1 DEF IsWalk
    <3> QED
      BY <3>2, <3>3
  <2> HIDE DEF g
  <2> QED
    BY <2>3, <2>4, <2>5 DEF IsWalk
<1>3. \A k \in Done : k + 1 \in Done
  BY <1>2
<1>4. Done = Nat
  <2>1. Done \in SUBSET Nat
    OBVIOUS
  <2> HIDE DEF Done
  <2> QED
    BY <1>1, <1>3, <2>1, Counting
<1> QED
  BY <1>4

\* So Walk is one.
LEMMA WalkIs ==
  ASSUME NEW h \in Workers \cup {NULL}, NEW nx \in Links
  PROVE  IsWalk(Walk(h, nx), NumWorkers + 1, h, nx)
<1> DEFINE n == NumWorkers + 1
           W(f) == [k \in 1 .. n |->
                      IF k = 1 THEN h
                      ELSE IF f[k - 1] = NULL THEN NULL ELSE nx[f[k - 1]]]
<1>1. n \in Nat /\ n > 0
  BY SchedulerListAssumption
<1>2. PICK f : IsWalk(f, n, h, nx)
  BY <1>1, WalkExists
<1>3. f = W(f)
  <2>1. \A k \in 1 .. n : f[k] = W(f)[k]
    <3> TAKE k \in 1 .. n
    <3>1. CASE k = 1
      BY <1>1, <1>2, <3>1 DEF IsWalk
    <3>2. CASE k # 1
      <4>1. k \in 2 .. n
        BY <1>1, <3>2
      <4> QED
        BY <1>2, <3>2, <4>1 DEF IsWalk
    <3> QED
      BY <3>1, <3>2
  <2> QED
    BY <1>2, <2>1 DEF IsWalk
<1>4. Walk(h, nx) = W(Walk(h, nx))
  <2>1. \E g : g = W(g)
    BY <1>3
  <2>2. Walk(h, nx) = CHOOSE g : g = W(g)
    BY DEF Walk
  <2> HIDE DEF W
  <2> QED
    BY <2>1, <2>2
<1> DEFINE g == Walk(h, nx)
<1> HIDE DEF g
<1>5. g = W(g)
  BY <1>4 DEF g
<1>6. /\ g[1] = h
      /\ \A k \in 2 .. n : g[k] = IF g[k - 1] = NULL THEN NULL ELSE nx[g[k - 1]]
  <2>1. \A k \in 1 .. n : g[k] = IF k = 1 THEN h ELSE IF g[k - 1] = NULL THEN NULL ELSE nx[g[k - 1]]
    BY <1>5
  <2> QED
    BY <1>1, <2>1
<1>7. \A k \in 1 .. n : g[k] \in Workers \cup {NULL}
  <2> DEFINE S == {k \in 0 .. n : k > 0 => g[k] \in Workers \cup {NULL}}
  <2>1. 0 \in S
    BY <1>1
  <2>2. \A k \in 0 .. n : k \in S /\ k < n => k + 1 \in S
    <3> TAKE k \in 0 .. n
    <3> HAVE k \in S /\ k < n
    <3>1. CASE k = 0
      BY <1>1, <1>6, <3>1
    <3>2. CASE k # 0
      <4>0. k > 0 /\ k + 1 \in 2 .. n /\ (k + 1) - 1 = k
        BY <1>1, <3>2
      <4>1. g[k] \in Workers \cup {NULL} /\ k + 1 \in 2 .. n /\ (k + 1) - 1 = k
        BY <4>0
      <4>2. g[k + 1] \in Workers \cup {NULL}
        BY <1>6, <4>1 DEF Links
      <4> QED
        BY <4>1, <4>2
    <3> QED
      BY <3>1, <3>2
  <2> HIDE DEF S
  <2>3. \A k \in 0 .. n : k \in S
    BY <1>1, <2>1, <2>2, CountingTo
  <2> QED
    BY <2>3 DEF S
<1>8. g \in [1 .. n -> Workers \cup {NULL}]
  BY <1>5, <1>7
<1> QED
  BY <1>6, <1>8 DEF IsWalk, g

\* What a walk from the head meets.
LEMMA ElemWalk == Elem = Walk(head, next) /\ Elem' = Walk(head', next')
BY DEF Elem, Walk

-----------------------------------------------------------------------------
(* The order of the elements.  Their links point from those that became    *)
(* the tail earlier to those that did later or have yet to, whatever races *)
(* there have been: so no walk goes in a circle.                           *)

\* r numbers the elements in the order in which they became the tail.
Before(r, x, y) == r[x] > 0 /\ (r[y] = 0 \/ r[x] < r[y])

Forward(r, nx) == \A w \in Workers : nx[w] # NULL => Before(r, w, nx[w])
Backward(r, pv) == \A w \in Workers : pv[w] # NULL => Before(r, pv[w], w)

\* The c-th element that a walk counts has been the tail as the c-th or later, or
\* has yet to be and c - 1 others have.
Far(r, been, e, c) ==
  e # NULL => r[e] >= c \/ (r[e] = 0 /\ Cardinality(been) >= c - 1)

\* been is the set of the elements that have been the tail; ah and bh are the
\* pointers that workers have loaded and will store or store through.
Ordered(r, been, tl, nx, pv, ah, bh, e, c) ==
  /\ r \in [Workers -> Nat]
  /\ been \in SUBSET Workers
  /\ \A w \in Workers : r[w] > 0 <=> w \in been
  /\ \A w \in Workers : r[w] <= Cardinality(been)
  /\ tl # NULL => tl \in been
  /\ Forward(r, nx) /\ Backward(r, pv) /\ Forward(r, ah) /\ Backward(r, bh)
  /\ Far(r, been, e, c)

\* There are finitely many workers.
LEMMA FiniteThreads ==
  /\ IsFiniteSet(Workers) /\ Cardinality(Workers) = NumWorkers
  /\ \A been \in SUBSET Workers :
       /\ IsFiniteSet(been) /\ Cardinality(been) \in Nat
       /\ Cardinality(been) <= NumWorkers
       /\ been # Workers => Cardinality(been) < NumWorkers
<1>1. IsFiniteSet(Workers) /\ Cardinality(Workers) = NumWorkers
  BY FS_Interval, SchedulerListAssumption DEF Workers
<1>2. ASSUME NEW been \in SUBSET Workers
      PROVE  /\ IsFiniteSet(been) /\ Cardinality(been) \in Nat
             /\ Cardinality(been) <= NumWorkers
             /\ been # Workers => Cardinality(been) < NumWorkers
  BY <1>1, FS_Subset, FS_CardinalityType, SchedulerListAssumption
<1> QED
  BY <1>1, <1>2

\* An element that becomes the tail is the last in the order.
LEMMA Grow ==
  ASSUME NEW r, NEW been, NEW tl, NEW nx \in Links, NEW pv \in Links, NEW ah \in Links,
         NEW bh \in Links, NEW e \in Workers \cup {NULL}, NEW c \in Nat,
         Ordered(r, been, tl, nx, pv, ah, bh, e, c), NEW w \in Workers \ been
  PROVE  \E s : Ordered(s, been \cup {w}, w, nx, pv, ah, bh, e, c)
<1> DEFINE m == Cardinality(been)
           s == [r EXCEPT ![w] = m + 1]
<1>1. /\ r \in [Workers -> Nat] /\ been \in SUBSET Workers
      /\ \A x \in Workers : (r[x] > 0 <=> x \in been) /\ r[x] <= m
  BY DEF Ordered
<1>2. m \in Nat /\ IsFiniteSet(been)
  BY <1>1, FiniteThreads
<1>3. Cardinality(been \cup {w}) = m + 1
  BY <1>2, FS_AddElement
<1>4. r[w] = 0
  BY <1>1
<1>f. e # NULL => r[e] >= c \/ (r[e] = 0 /\ m >= c - 1)
  BY DEF Ordered, Far
<1> HIDE DEF m
<1>5. s \in [Workers -> Nat] /\ s[w] = m + 1 /\ \A x \in Workers \ {w} : s[x] = r[x]
  BY <1>1, <1>2
<1> HIDE DEF s
<1>6. ASSUME NEW x \in Workers, NEW y \in Workers, Before(r, x, y)
      PROVE  Before(s, x, y)
  <2>1. x # w /\ r[x] > 0 /\ s[x] = r[x] /\ r[x] \in Nat /\ r[x] <= m
    BY <1>1, <1>4, <1>5, <1>6 DEF Before
  <2>2. CASE y = w
    BY <1>2, <1>5, <2>1, <2>2 DEF Before
  <2>3. CASE y # w
    BY <1>5, <1>6, <2>1, <2>3 DEF Before
  <2> QED
    BY <2>2, <2>3
<1>7. Forward(s, nx) /\ Forward(s, ah)
  <2>1. Forward(r, nx) /\ Forward(r, ah)
    BY DEF Ordered
  <2>2. \A x \in Workers : /\ nx[x] # NULL => nx[x] \in Workers
                           /\ ah[x] # NULL => ah[x] \in Workers
    BY DEF Links
  <2> QED
    BY <1>6, <2>1, <2>2 DEF Forward
<1>8. Backward(s, pv) /\ Backward(s, bh)
  <2>1. Backward(r, pv) /\ Backward(r, bh)
    BY DEF Ordered
  <2>2. \A x \in Workers : /\ pv[x] # NULL => pv[x] \in Workers
                           /\ bh[x] # NULL => bh[x] \in Workers
    BY DEF Links
  <2> QED
    BY <1>6, <2>1, <2>2 DEF Backward
<1>9. \A x \in Workers : s[x] > 0 <=> x \in been \cup {w}
  BY <1>1, <1>2, <1>5
<1>10. \A x \in Workers : s[x] <= m + 1
  BY <1>1, <1>2, <1>5
<1>11. e # NULL => s[e] >= c \/ (s[e] = 0 /\ m + 1 >= c - 1)
  <2> SUFFICES ASSUME e # NULL
               PROVE  s[e] >= c \/ (s[e] = 0 /\ m + 1 >= c - 1)
    OBVIOUS
  <2>1. CASE e = w
    BY <1>2, <1>4, <1>5, <1>f, <2>1
  <2>2. CASE e # w
    BY <1>1, <1>2, <1>5, <1>f, <2>2
  <2> QED
    BY <2>1, <2>2
<1>12. Far(s, been \cup {w}, e, c)
  BY <1>3, <1>11 DEF Far
<1> QED
  BY <1>1, <1>3, <1>5, <1>7, <1>8, <1>9, <1>10, <1>12 DEF Ordered

\* A walk goes along the order.
LEMMA OrderGoesOn ==
  ASSUME NEW r, NEW been, NEW tl, NEW nx \in Links, NEW pv, NEW ah, NEW bh,
         NEW e \in Workers \cup {NULL}, NEW c \in Nat, e = NULL => c = 0,
         Ordered(r, been, tl, nx, pv, ah, bh, e, c), NEW h \in Workers \cup {NULL}
  PROVE  Far(r, been, IF e = NULL THEN h ELSE nx[e], c + 1)
<1> DEFINE m == Cardinality(been)
<1>1. /\ r \in [Workers -> Nat] /\ been \in SUBSET Workers /\ Forward(r, nx)
      /\ \A x \in Workers : (r[x] > 0 <=> x \in been) /\ r[x] <= m
      /\ e # NULL => r[e] >= c \/ (r[e] = 0 /\ m >= c - 1)
  BY DEF Ordered, Far
<1>2. m \in Nat
  BY <1>1, FiniteThreads
<1> HIDE DEF m
<1>3. CASE e = NULL
  <2>1. h # NULL => r[h] \in Nat
    BY <1>1
  <2>2. h # NULL => r[h] >= c + 1 \/ (r[h] = 0 /\ m >= (c + 1) - 1)
    BY <1>2, <1>3, <2>1
  <2> QED
    BY <1>3, <2>2 DEF Far, m
<1>4. CASE e # NULL
  <2> DEFINE y == nx[e]
  <2>1. e \in Workers /\ y \in Workers \cup {NULL}
    BY <1>4 DEF Links
  <2>2. y # NULL => Before(r, e, y)
    BY <1>1, <2>1 DEF Forward
  <2>3. r[e] \in Nat /\ r[e] <= m /\ (y # NULL => r[y] \in Nat)
    BY <1>1, <2>1
  <2> HIDE DEF y
  <2>4. y # NULL => r[y] >= c + 1 \/ (r[y] = 0 /\ m >= (c + 1) - 1)
    BY <1>1, <1>2, <1>4, <2>2, <2>3 DEF Before
  <2> QED
    BY <1>4, <2>4 DEF Far, m, y
<1> QED
  BY <1>3, <1>4

\* So it counts no more elements than there are.
LEMMA OrderEnds ==
  ASSUME NEW r, NEW been, NEW tl, NEW nx, NEW pv, NEW ah, NEW bh,
         NEW e \in Workers \cup {NULL}, NEW c \in Nat, e = NULL => c = 0,
         Ordered(r, been, tl, nx, pv, ah, bh, e, c)
  PROVE  c <= NumWorkers
<1> DEFINE m == Cardinality(been)
<1>1. /\ r \in [Workers -> Nat] /\ been \in SUBSET Workers
      /\ \A x \in Workers : (r[x] > 0 <=> x \in been) /\ r[x] <= m
      /\ e # NULL => r[e] >= c \/ (r[e] = 0 /\ m >= c - 1)
  BY DEF Ordered, Far
<1>2. m \in Nat /\ m <= NumWorkers /\ (been # Workers => m < NumWorkers) /\ NumWorkers \in Nat
  BY <1>1, FiniteThreads, SchedulerListAssumption
<1> HIDE DEF m
<1>3. CASE e = NULL
  BY <1>2, <1>3
<1>4. CASE e # NULL
  <2>1. e \in Workers /\ r[e] \in Nat /\ r[e] <= m /\ (r[e] > 0 <=> e \in been)
    BY <1>1, <1>4
  <2>2. r[e] = 0 => m < NumWorkers
    BY <1>2, <2>1
  <2> QED
    BY <1>1, <1>2, <1>4, <2>1, <2>2
<1> QED
  BY <1>3, <1>4

-----------------------------------------------------------------------------
(* The list as long as no two workers have been in list.c at once.         *)

At(s, k) == IF k \in 1 .. Len(s) THEN s[k] ELSE NULL

\* The walk from h along nx meets the elements of s, which are all different.
Chain(s, h, nx) ==
  /\ s \in Seq(Workers)
  /\ \A i, j \in 1 .. Len(s) : s[i] = s[j] => i = j
  /\ h = At(s, 1)
  /\ \A k \in 1 .. Len(s) : nx[s[k]] = At(s, k + 1)

\* What a walk meets before it ends.
Met(h, nx) ==
  [k \in 1 .. Cardinality({j \in Workers : Walk(h, nx)[j] # NULL}) |-> Walk(h, nx)[k]]

\* What Linked says is what a walk from the head meets.
LEMMA LinkedIsMet == Linked = Met(head, next) /\ Linked' = Met(head', next')
BY ElemWalk DEF Linked, Met

\* The numbers up to n.
LEMMA UpTo == ASSUME NEW n \in Nat PROVE Cardinality(1 .. n) = n
BY FS_Interval, 1 \in Int, n \in Int

\* A chain fits into the workers.
LEMMA ChainShort ==
  ASSUME NEW s \in Seq(Workers), \A i, j \in 1 .. Len(s) : s[i] = s[j] => i = j
  PROVE  Len(s) \in Nat /\ Len(s) <= NumWorkers
<1>1. s \in [1 .. Len(s) -> Workers] /\ Len(s) \in Nat
  BY LenProperties
<1>2. s \in Injection(1 .. Len(s), Workers)
  BY <1>1 DEF Injection, IsInjective
<1>3. Cardinality(1 .. Len(s)) <= Cardinality(Workers)
  BY <1>2, FiniteThreads, FS_Injection
<1>4. Cardinality(1 .. Len(s)) = Len(s)
  BY <1>1, UpTo
<1> QED
  BY <1>1, <1>3, <1>4, FiniteThreads

\* The walk meets exactly the elements of the chain.
LEMMA ChainMet ==
  ASSUME NEW h, NEW nx \in Links, NEW s, Chain(s, h, nx)
  PROVE  Met(h, nx) = s
<1> DEFINE n == NumWorkers + 1
           f == Walk(h, nx)
           m == Len(s)
<1>1. /\ s \in Seq(Workers) /\ \A i, j \in 1 .. m : s[i] = s[j] => i = j
      /\ h = At(s, 1) /\ \A k \in 1 .. m : nx[s[k]] = At(s, k + 1)
  BY DEF Chain
<1>2. /\ m \in Nat /\ m <= NumWorkers /\ NumWorkers \in Nat
      /\ n \in Nat /\ \A k \in 1 .. m : s[k] \in Workers
  BY <1>1, ChainShort, SchedulerListAssumption
<1>3. h \in Workers \cup {NULL}
  BY <1>1, <1>2 DEF At
<1>4. IsWalk(f, n, h, nx)
  BY <1>3, WalkIs
<1> HIDE DEF f
<1> DEFINE S == {k \in 0 .. n : k > 0 => f[k] = At(s, k)}
<1>5. \A k \in 0 .. n : k \in S /\ k < n => k + 1 \in S
  <2> SUFFICES ASSUME NEW k \in 0 .. n, k \in S, k < n PROVE k + 1 \in S
    OBVIOUS
  <2>1. k + 1 \in 1 .. n /\ k \in Nat
    BY <1>2
  <2>2. CASE k = 0
    <3>1. f[1] = h /\ k + 1 = 1
      BY <1>2, <1>4, <2>2 DEF IsWalk
    <3> QED
      BY <1>1, <2>1, <3>1
  <2>3. CASE k # 0
    <3>1. k + 1 \in 2 .. n /\ (k + 1) - 1 = k /\ f[k] = At(s, k)
      BY <2>1, <2>3
    <3>2. f[k + 1] = IF f[k] = NULL THEN NULL ELSE nx[f[k]]
      BY <1>4, <3>1 DEF IsWalk
    <3>3. CASE k \in 1 .. m
      <4>1. At(s, k) = s[k] /\ s[k] \in Workers /\ s[k] # NULL
        BY <1>2, <3>3 DEF At, Workers, NULL
      <4>2. f[k + 1] = At(s, k + 1)
        BY <1>1, <3>1, <3>2, <3>3, <4>1
      <4> QED
        BY <2>1, <4>2
    <3>4. CASE k \notin 1 .. m
      <4>1. At(s, k) = NULL /\ At(s, k + 1) = NULL
        BY <1>2, <2>1, <2>3, <3>4 DEF At
      <4>2. f[k + 1] = At(s, k + 1)
        BY <3>1, <3>2, <4>1
      <4> QED
        BY <2>1, <4>2
    <3> QED
      BY <3>3, <3>4
  <2> QED
    BY <2>2, <2>3
<1>6. \A k \in 0 .. n : k \in S
  <2>1. 0 \in S
    BY <1>2
  <2> HIDE DEF S
  <2> QED
    BY <1>2, <1>5, <2>1, CountingTo
<1>7. \A k \in 1 .. n : f[k] = At(s, k)
  BY <1>2, <1>6
<1> HIDE DEF S
<1>8. {j \in Workers : f[j] # NULL} = 1 .. m
  <2>1. \A j \in Workers : j \in 1 .. n
    BY <1>2 DEF Workers
  <2>2. \A j \in Workers : f[j] # NULL <=> j \in 1 .. m
    BY <1>2, <1>7, <2>1 DEF At, Workers, NULL
  <2>3. 1 .. m \subseteq Workers
    BY <1>2 DEF Workers
  <2> QED
    BY <2>2, <2>3
<1>9. Cardinality(1 .. m) = m
  BY <1>2, UpTo
<1>10. Met(h, nx) = [k \in 1 .. m |-> f[k]]
  BY <1>8, <1>9 DEF Met, f
<1>11. \A k \in 1 .. m : f[k] = s[k]
  BY <1>2, <1>7 DEF At
<1>12. s = [k \in 1 .. m |-> s[k]]
  BY <1>1, LenProperties
<1> QED
  BY <1>10, <1>11, <1>12

\* An element whose next pointer is NULL is linked to an empty list.
LEMMA ChainFirst ==
  ASSUME NEW w \in Workers, NEW nx, nx[w] = NULL
  PROVE  Chain(<<w>>, w, nx)
<1>1. <<w>> \in Seq(Workers) /\ Len(<<w>>) = 1 /\ <<w>>[1] = w
  OBVIOUS
<1> QED
  BY <1>1 DEF Chain, At

\* Or behind the tail of a list.
LEMMA ChainAppend ==
  ASSUME NEW h, NEW nx \in Links, NEW s, Chain(s, h, nx), s # <<>>,
         NEW w \in Workers, nx[w] = NULL, \A k \in 1 .. Len(s) : s[k] # w
  PROVE  Chain(Append(s, w), h, [nx EXCEPT ![At(s, Len(s))] = w])
<1> DEFINE m == Len(s)
           t == Append(s, w)
           ny == [nx EXCEPT ![At(s, Len(s))] = w]
<1>1. /\ s \in Seq(Workers) /\ \A i, j \in 1 .. m : s[i] = s[j] => i = j
      /\ h = At(s, 1) /\ \A k \in 1 .. m : nx[s[k]] = At(s, k + 1)
  BY DEF Chain
<1>2. m \in Nat \ {0} /\ \A k \in 1 .. m : s[k] \in Workers
  BY <1>1, EmptySeq, ElementOfSeq
<1>3. /\ t \in Seq(Workers) /\ Len(t) = m + 1
      /\ (\A k \in 1 .. m : t[k] = s[k]) /\ t[m + 1] = w
  BY <1>1, AppendProperties
<1>4. At(s, m) = s[m] /\ s[m] \in Workers
  BY <1>2 DEF At
<1>5. \A x \in Workers : ny[x] = IF x = s[m] THEN w ELSE nx[x]
  BY <1>4 DEF Links
<1> HIDE DEF m, t, ny
<1>6. ASSUME NEW i \in 1 .. m + 1, NEW j \in 1 .. m + 1, t[i] = t[j] PROVE i = j
  <2>1. \A k \in 1 .. m : t[k] # t[m + 1]
    BY <1>3 DEF m
  <2>2. (i \in 1 .. m \/ i = m + 1) /\ (j \in 1 .. m \/ j = m + 1)
    BY <1>2
  <2> QED
    BY <1>1, <1>3, <1>6, <2>1, <2>2
<1>7. h = At(t, 1)
  <2>1. 1 \in 1 .. m /\ 1 \in 1 .. m + 1
    BY <1>2
  <2> QED
    BY <1>1, <1>3, <2>1 DEF At, m
<1>8. ASSUME NEW k \in 1 .. m + 1 PROVE ny[t[k]] = At(t, k + 1)
  <2>1. CASE k = m + 1
    <3>1. w # s[m] /\ t[k] = w
      BY <1>2, <1>3, <2>1 DEF m
    <3>2. k + 1 \notin 1 .. m + 1
      BY <1>2, <2>1
    <3> QED
      BY <1>3, <1>5, <3>1, <3>2 DEF At
  <2>2. CASE k = m
    <3>1. t[k] = s[m] /\ k + 1 \in 1 .. m + 1 /\ k + 1 = m + 1
      BY <1>2, <1>3, <2>2
    <3> QED
      BY <1>3, <1>4, <1>5, <3>1 DEF At
  <2>3. CASE k # m /\ k # m + 1
    <3>1. k \in 1 .. m /\ k + 1 \in 1 .. m /\ m \in 1 .. m /\ k + 1 \in 1 .. m + 1
      BY <1>2, <2>3
    <3>2. s[k] # s[m] /\ s[k] \in Workers
      BY <1>1, <1>2, <2>3, <3>1
    <3>3. ny[t[k]] = nx[s[k]] /\ t[k + 1] = s[k + 1]
      BY <1>3, <1>5, <3>1, <3>2
    <3> QED
      BY <1>1, <1>3, <3>1, <3>3 DEF At, m
  <2> QED
    BY <2>1, <2>2, <2>3
<1>9. Chain(t, h, ny)
  BY <1>3, <1>6, <1>7, <1>8 DEF Chain
<1> QED
  BY <1>9 DEF t, ny, m

\* What is left of a chain without its i-th element.
LEMMA AtRemove ==
  ASSUME NEW s \in Seq(Workers), NEW i \in 1 .. Len(s)
  PROVE  /\ RemoveAt(s, i) \in Seq(Workers) /\ Len(RemoveAt(s, i)) = Len(s) - 1
         /\ Len(s) \in Nat
         /\ \A k \in Nat : At(RemoveAt(s, i), k) = IF k < i THEN At(s, k) ELSE At(s, k + 1)
<1> DEFINE t == RemoveAt(s, i)
<1>1. /\ t \in Seq(Workers) /\ Len(t) = Len(s) - 1 /\ Len(s) \in Nat
      /\ \A j \in 1 .. Len(s) - 1 : t[j] = IF j < i THEN s[j] ELSE s[j + 1]
  BY RemoveAtLemma, LenProperties
<1> HIDE DEF t
<1>2. ASSUME NEW k \in Nat PROVE At(t, k) = IF k < i THEN At(s, k) ELSE At(s, k + 1)
  <2>1. CASE k \in 1 .. Len(s) - 1
    <3>1. k \in 1 .. Len(s) /\ k + 1 \in 1 .. Len(s)
      BY <1>1, <2>1
    <3> QED
      BY <1>1, <2>1, <3>1 DEF At
  <2>2. CASE k \notin 1 .. Len(s) - 1
    <3>1. At(t, k) = NULL /\ (k = 0 \/ k >= Len(s))
      BY <1>1, <2>2 DEF At
    <3>2. CASE k = 0
      BY <3>1, <3>2 DEF At
    <3>3. CASE k >= Len(s) /\ k # 0
      <4>1. k + 1 \notin 1 .. Len(s) /\ ~ (k < i)
        BY <1>1, <3>3
      <4> QED
        BY <3>1, <4>1 DEF At
    <3> QED
      BY <3>1, <3>2, <3>3
  <2> QED
    BY <2>1, <2>2
<1> QED
  BY <1>1, <1>2 DEF t

\* The pointer to the i-th element is set to its successor.
Bypass(s, i, h, nx, hh, ny) ==
  IF i = 1 THEN hh = At(s, 2) /\ ny = nx
           ELSE hh = h /\ ny = [nx EXCEPT ![s[i - 1]] = At(s, i + 1)]

\* That unlinks it.
LEMMA ChainRemove ==
  ASSUME NEW h, NEW nx \in Links, NEW s, Chain(s, h, nx), NEW i \in 1 .. Len(s),
         NEW hh, NEW ny, Bypass(s, i, h, nx, hh, ny)
  PROVE  /\ Chain(RemoveAt(s, i), hh, ny)
         /\ \A w \in Workers : (\E k \in 1 .. Len(RemoveAt(s, i)) : RemoveAt(s, i)[k] = w)
              <=> w # s[i] /\ \E k \in 1 .. Len(s) : s[k] = w
<1> DEFINE m == Len(s)
           t == RemoveAt(s, i)
<1>1. /\ s \in Seq(Workers) /\ \A j, k \in 1 .. m : s[j] = s[k] => j = k
      /\ h = At(s, 1) /\ \A k \in 1 .. m : nx[s[k]] = At(s, k + 1)
  BY DEF Chain
<1>2. m \in Nat \ {0} /\ i \in 1 .. m /\ \A k \in 1 .. m : s[k] \in Workers
  BY <1>1, ElementOfSeq, LenProperties
<1>3. /\ t \in Seq(Workers) /\ Len(t) = m - 1
      /\ \A k \in Nat : At(t, k) = IF k < i THEN At(s, k) ELSE At(s, k + 1)
  BY <1>1, AtRemove
<1>e. \A k \in 1 .. m - 1 : t[k] = IF k < i THEN s[k] ELSE s[k + 1]
  BY <1>1, RemoveAtLemma
<1> HIDE DEF t, m
<1>4. ASSUME NEW j \in 1 .. m - 1, NEW k \in 1 .. m - 1, t[j] = t[k] PROVE j = k
  <2> DEFINE a == IF j < i THEN j ELSE j + 1
             b == IF k < i THEN k ELSE k + 1
  <2>1. a \in 1 .. m /\ b \in 1 .. m /\ (a = b => j = k)
    BY <1>2
  <2>2. t[j] = s[a] /\ t[k] = s[b]
    BY <1>e
  <2> HIDE DEF a, b
  <2> QED
    BY <1>1, <1>4, <2>1, <2>2
<1>5. hh = At(t, 1)
  <2>1. At(t, 1) = IF 1 < i THEN At(s, 1) ELSE At(s, 2)
    BY <1>3
  <2> QED
    BY <1>1, <1>2, <2>1 DEF Bypass
<1>6. \A x \in Workers : ny[x] = IF i # 1 /\ x = s[i - 1] THEN At(s, i + 1) ELSE nx[x]
  <2>1. CASE i = 1
    BY <2>1 DEF Bypass
  <2>2. CASE i # 1
    <3>1. i - 1 \in 1 .. m
      BY <1>2, <2>2
    <3>2. s[i - 1] \in Workers /\ ny = [nx EXCEPT ![s[i - 1]] = At(s, i + 1)]
      BY <1>2, <2>2, <3>1 DEF Bypass
    <3> QED
      BY <2>2, <3>2 DEF Links
  <2> QED
    BY <2>1, <2>2
<1>7. ASSUME NEW k \in 1 .. m - 1 PROVE ny[t[k]] = At(t, k + 1)
  <2>1. At(t, k + 1) = IF k + 1 < i THEN At(s, k + 1) ELSE At(s, (k + 1) + 1)
    <3>1. k + 1 \in Nat
      BY <1>2
    <3> QED
      BY <1>3, <3>1
  <2>2. k \in 1 .. m /\ k + 1 \in 1 .. m /\ k \in Nat
    BY <1>2
  <2>3. CASE k + 1 < i
    <3>1. t[k] = s[k] /\ i - 1 \in 1 .. m /\ k # i - 1 /\ i # 1
      BY <1>2, <1>e, <2>2, <2>3
    <3>2. s[k] # s[i - 1] /\ s[k] \in Workers
      BY <1>1, <1>2, <2>2, <3>1
    <3> QED
      BY <1>1, <1>6, <2>1, <2>2, <2>3, <3>1, <3>2
  <2>4. CASE k + 1 = i
    <3>1. t[k] = s[k] /\ i - 1 = k /\ i # 1
      BY <1>2, <1>e, <2>2, <2>4
    <3>2. s[k] \in Workers
      BY <1>2, <2>2
    <3> QED
      BY <1>6, <2>1, <2>4, <3>1, <3>2
  <2>5. CASE i < k + 1
    <3>1. t[k] = s[k + 1] /\ (i # 1 => i - 1 \in 1 .. m) /\ k + 1 # i - 1
      BY <1>2, <1>e, <2>2, <2>5
    <3>2. s[k + 1] \in Workers /\ (i # 1 => s[k + 1] # s[i - 1])
      BY <1>1, <1>2, <2>2, <3>1
    <3>3. ny[t[k]] = nx[s[k + 1]]
      BY <1>6, <3>1, <3>2
    <3> QED
      BY <1>1, <1>2, <2>1, <2>2, <2>5, <3>3
  <2> QED
    BY <1>2, <2>2, <2>3, <2>4, <2>5
<1>8. Chain(t, hh, ny)
  BY <1>3, <1>4, <1>5, <1>7 DEF Chain
<1>9. ASSUME NEW w \in Workers
      PROVE  (\E k \in 1 .. Len(t) : t[k] = w)
               <=> w # s[i] /\ \E k \in 1 .. m : s[k] = w
  <2>1. ASSUME NEW k \in 1 .. m - 1, t[k] = w
        PROVE  w # s[i] /\ \E j \in 1 .. m : s[j] = w
    <3>1. k \in 1 .. m /\ k + 1 \in 1 .. m
      BY <1>2
    <3>2. CASE k < i
      BY <1>1, <1>2, <1>e, <2>1, <3>1, <3>2
    <3>3. CASE ~ (k < i)
      <4>1. t[k] = s[k + 1] /\ k + 1 # i
        BY <1>2, <1>e, <3>3
      <4> QED
        BY <1>1, <1>2, <2>1, <3>1, <4>1
    <3> QED
      BY <3>2, <3>3
  <2>2. ASSUME NEW k \in 1 .. m, s[k] = w, w # s[i]
        PROVE  \E j \in 1 .. m - 1 : t[j] = w
    <3>1. CASE k < i
      <4>1. k \in 1 .. m - 1
        BY <1>2, <3>1
      <4> QED
        BY <1>e, <2>2, <3>1, <4>1
    <3>2. CASE k > i
      <4>1. k - 1 \in 1 .. m - 1 /\ ~ (k - 1 < i) /\ (k - 1) + 1 = k
        BY <1>2, <3>2
      <4> QED
        BY <1>e, <2>2, <4>1
    <3> QED
      BY <1>2, <2>2, <3>1, <3>2
  <2> QED
    BY <1>3, <2>1, <2>2
<1> QED
  BY <1>8, <1>9 DEF t, m

-----------------------------------------------------------------------------
(* What holds with and without a race.                                     *)

InsertStates == {"first_tail", "read_back", "first_head", "set_prev", "retest_tail",
                 "read_tail", "link", "clear_next", "new_tail"}
RemoveStates == {"test_head", "read_next", "unlink", "test_next", "reread_next",
                 "link_back", "test_last", "retreat", "clear"}

\* The elements that have been linked but have not been the tail yet are those
\* whose worker is in list_insert_tail, before it makes them the tail.
Untailed(pc, a) ==
  \/ pc \in {"none", "enter"}
  \/ pc = "insert" /\ a \notin {"read_back", "first_head"}
  \/ a \in {"clear_next", "new_tail"}
BeenTail == {w \in Workers : ~ Untailed(wpc[w], at[w])}

\* The points of list.c that fit a step of a worker.
Fits(a, pc) ==
  /\ a \in InsertStates \ {"clear_next", "new_tail"} => pc = "insert"
  /\ a \in {"clear_next", "new_tail"} => pc \in {"insert", "announce"}
  /\ a \in {"test_head", "read_next", "unlink"} => pc = "remove"
  /\ a \in RemoveStates \ {"test_head", "read_next", "unlink"} => pc = "post"

\* Where in list.c a worker can be.
Calls == \A w \in Workers : Fits(at[w], wpc[w])

PointerTypes ==
  /\ head \in Workers \cup {NULL} /\ tail \in Workers \cup {NULL}
  /\ prev \in Links /\ next \in Links /\ seen \in Links

\* The scheduler is on a walk only while its step is one.
WalkTypes ==
  /\ elt \in Workers \cup {NULL} /\ count \in Nat
  /\ InListSize /\ elt = NULL => count = 0
  /\ InListSize \/ sched = "walk" \/ (elt = NULL /\ count = 0)
  /\ main \in {"init", "start"} => sched = "idle"

ListTypes ==
  /\ PointerTypes /\ WalkTypes
  /\ at \in [Workers -> {"out"} \cup InsertStates \cup RemoveStates]
  /\ raced \in BOOLEAN
  /\ wpc \in [Workers -> C!WorkerStates]
  /\ created \in Nat /\ \A w \in Workers : w > created => wpc[w] = "none"

\* The pointers that a worker has loaded and stores in an element before them,
\* or stores through, and those that lead back.
Ahead == [w \in Workers |-> IF at[w] \in {"unlink", "link_back"} THEN seen[w] ELSE NULL]
Behind == [w \in Workers |-> IF at[w] = "link" THEN seen[w] ELSE NULL]

\* The element that list_size has counted last.
CountedLast == IF InListSize THEN elt ELSE NULL

Order == \E r : Ordered(r, BeenTail, tail, next, prev, Ahead, Behind, CountedLast, count)

HeapInv == ListTypes /\ Calls /\ Order

USE DEF listVars, callVars, walkVars, others, vars, C!vars, C!mainVars, C!schedVars,
        C!workerLocals, C!queueVars

\* Nobody has joined.
LEMMA InitHeapInv == Init => HeapInv
<1> SUFFICES ASSUME Init PROVE HeapInv
  OBVIOUS
<1>1. ListTypes
  BY DEF Init, C!Init, ListTypes, PointerTypes, WalkTypes, InListSize, Links, C!WorkerStates,
         C!Workers, Workers
<1>2. Calls
  BY DEF Init, Calls, Fits, InsertStates, RemoveStates
<1>3. BeenTail = {}
  BY DEF Init, C!Init, BeenTail, Untailed, C!Workers, Workers
<1>4. /\ tail = NULL /\ next = [w \in Workers |-> NULL] /\ prev = [w \in Workers |-> NULL]
      /\ Ahead = [w \in Workers |-> NULL] /\ Behind = [w \in Workers |-> NULL]
      /\ CountedLast = NULL
  BY DEF Init, Ahead, Behind, CountedLast
<1>5. Ordered([w \in Workers |-> 0], {}, tail, next, prev, Ahead, Behind, CountedLast, count)
  BY <1>4, FS_EmptySet DEF Ordered, Forward, Backward, Far
<1> QED
  BY <1>1, <1>2, <1>3, <1>5 DEF HeapInv, Order

\* The steps in which worker w stays outside of list.c.
LEMMA OutsideMoves ==
  ASSUME NEW w \in Workers, OutsideList(w)
  PROVE  /\ UNCHANGED <<callVars, walkVars>> /\ UNCHANGED <<main, sched, created>>
         /\ at[w] = "out"
         /\ \E to : /\ wpc' = [wpc EXCEPT ![w] = to]
                    /\ wpc[w] # "insert" /\ to \in C!WorkerStates
                    /\ to \in {"none", "enter"} => wpc[w] = to
                    /\ to = "insert" <=> wpc[w] = "enter"
                    /\ wpc[w] # "none" /\ to # "none"
                    /\ wpc[w] \in C!LinkedStates <=> to \in C!LinkedStates
<1>1. CASE C!EnterWait(w)
  <2>1. /\ wpc[w] = "enter" /\ wpc' = [wpc EXCEPT ![w] = "insert"]
        /\ UNCHANGED <<main, sched, created>>
    BY <1>1 DEF C!EnterWait, C!WorkerStep
  <2>2. "insert" \in C!WorkerStates /\ "insert" \notin C!LinkedStates
        /\ "enter" \notin C!LinkedStates
    BY DEF C!WorkerStates, C!LinkedStates
  <2> QED
    BY <2>1, <2>2 DEF OutsideList
<1>2. CASE C!Announce(w) \/ C!Work(w) \/ C!ReleaseCpu(w) \/ C!Exiting(w)
  BY <1>2 DEF OutsideList, C!Announce, C!Work, C!ReleaseCpu, C!Exiting, C!WorkerStep,
              C!WorkerStates, C!LinkedStates, C!CpuStates
<1>3. CASE C!WaitForCpu(w)
  <2>1. PICK to \in {"work", "exiting"} : wpc' = [wpc EXCEPT ![w] = to]
    BY <1>3 DEF C!WaitForCpu, C!WorkerStep
  <2> QED
    BY <1>3, <2>1 DEF OutsideList, C!WaitForCpu, C!WorkerStep, C!WorkerStates,
                      C!LinkedStates, C!CpuStates
<1>4. CASE \/ C!PostQueue(w) \/ C!StepBack(w) \/ C!LoadRemaining(w)
           \/ C!StoreRemaining(w) \/ C!FinalRelease(w)
  BY <1>4 DEF OutsideList, C!PostQueue, C!StepBack, C!LoadRemaining, C!StoreRemaining,
              C!FinalRelease, C!WorkerStep, C!WorkerStates, C!LinkedStates, C!CpuStates
<1> QED
  BY <1>1, <1>2, <1>3, <1>4 DEF OutsideList

\* What a step leaves of the scheduler's walk.
WalkKept ==
  /\ WalkTypes'
  /\ \A r : Ordered(r, BeenTail, tail, next, prev, Ahead, Behind, CountedLast, count)
              => Far(r, BeenTail, CountedLast', count')

\* It stands still.
LEMMA WalkStands ==
  ASSUME HeapInv, UNCHANGED <<walkVars, sched>>,
         main' \in {"init", "start"} => main \in {"init", "start"}
  PROVE  WalkKept
BY DEF HeapInv, ListTypes, WalkTypes, InListSize, CountedLast, Ordered, WalkKept

\* The scheduler reads the head or the next of an element.
LEMMA LookTypes == HeapInv => Look \in Workers \cup {NULL}
BY DEF HeapInv, ListTypes, PointerTypes, WalkTypes, Links, Look

\* It goes on or it ends.
LEMMA WalkGoesOn == ASSUME HeapInv, ListWalk PROVE WalkKept
<1>1. /\ Look \in Workers \cup {NULL} /\ elt \in Workers \cup {NULL} /\ count \in Nat
      /\ head \in Workers \cup {NULL} /\ next \in Links
      /\ InListSize /\ elt = NULL => count = 0
      /\ main \in {"init", "start"} => sched = "idle"
  BY LookTypes DEF HeapInv, ListTypes, PointerTypes, WalkTypes
<1>m. sched # "idle" /\ main \notin {"init", "start"} /\ main' \notin {"init", "start"}
  <2>1. sched # "idle"
    BY DEF ListWalk, CountElem, InListSize, WaitForQueue, RRNext, RRWrap, RRStep, RRWalk,
           CountedAll, C!SchedStep
  <2>2. main' = main \/ main' = "failed"
    BY DEF ListWalk, CountElem, GoOn, WaitForQueue, RRNext, RRWrap, RRStep, RRWalk, CountedAll
  <2> QED
    BY <1>1, <2>1, <2>2
<1>2. CASE CountElem
  <2>1. /\ InListSize /\ Look # NULL /\ elt' = Look /\ count' = count + 1 /\ sched' = sched
    BY <1>2 DEF CountElem, GoOn
  <2>2. InListSize' /\ CountedLast' = Look /\ CountedLast = elt
    BY <2>1 DEF InListSize, CountedLast
  <2>3. WalkTypes'
    BY <1>1, <1>m, <2>1, <2>2 DEF WalkTypes
  <2>4. ASSUME NEW r, Ordered(r, BeenTail, tail, next, prev, Ahead, Behind, CountedLast, count)
        PROVE  Far(r, BeenTail, CountedLast', count')
    <3>1. Far(r, BeenTail, IF elt = NULL THEN head ELSE next[elt], count + 1)
      BY <1>1, <2>1, <2>2, <2>4, OrderGoesOn
    <3> QED
      BY <2>1, <2>2, <3>1 DEF Look
  <2> QED
    BY <2>3, <2>4 DEF WalkKept
<1>3. CASE RRStep
  <2>1. sched = "walk" /\ sched' = sched /\ elt' = Look /\ count' = count + 1
    BY <1>3 DEF RRStep, GoOn
  <2>2. ~ InListSize'
    BY <2>1 DEF InListSize
  <2> QED
    BY <1>1, <1>m, <2>1, <2>2 DEF WalkTypes, CountedLast, Far, WalkKept
<1>4. CASE WaitForQueue \/ RRNext \/ RRWrap \/ RRWalk
  <2>1. elt' = NULL /\ count' = 0
    BY <1>4 DEF WaitForQueue, RRNext, RRWrap, RRWalk, CountedAll
  <2> QED
    BY <1>m, <2>1 DEF WalkTypes, CountedLast, Far, WalkKept
<1> QED
  BY <1>2, <1>3, <1>4 DEF ListWalk

\* It is on no walk outside of one.
LEMMA OutsideWalkKept == ASSUME HeapInv, OutsideWalk PROVE WalkKept
<1>1. UNCHANGED walkVars /\ sched # "walk" /\ ~ InListSize
  BY DEF OutsideWalk, C!TestRemaining, C!FifoNext, C!WakeUpWorker, C!WaitForWorker,
         C!SchedulerDone, C!SchedStep, InListSize
<1>2. elt' = NULL /\ count' = 0
  BY <1>1 DEF HeapInv, ListTypes, WalkTypes
<1>3. main' = main /\ sched # "idle" /\ (main \in {"init", "start"} => sched = "idle")
  BY DEF OutsideWalk, C!TestRemaining, C!FifoNext, C!WakeUpWorker, C!WaitForWorker,
         C!SchedulerDone, C!SchedStep, HeapInv, ListTypes, WalkTypes
<1> QED
  BY <1>2, <1>3 DEF WalkTypes, CountedLast, Far, WalkKept

\* The steps of main and of the scheduler.
LEMMA OthersMove ==
  ASSUME HeapInv, Main \/ SchedProc
  PROVE  /\ UNCHANGED callVars /\ WalkKept
         /\ \/ wpc' = wpc /\ created' = created
            \/ created' = created + 1 /\ wpc' = [wpc EXCEPT ![created + 1] = "enter"]
<1>1. CASE Main
  <2>1. UNCHANGED callVars /\ UNCHANGED walkVars
    BY <1>1 DEF Main
  <2>2. CASE C!CreateWorker
    <3>1. /\ created' = created + 1 /\ wpc' = [wpc EXCEPT ![created + 1] = "enter"]
          /\ sched' = sched /\ main' \notin {"init", "start"}
      BY <2>2 DEF C!CreateWorker
    <3> QED
      BY <2>1, <3>1, WalkStands
  <2>3. CASE C!StartScheduler
    <3>1. /\ wpc' = wpc /\ created' = created /\ main' \notin {"init", "start"}
          /\ main = "start"
      BY <2>3 DEF C!StartScheduler
    <3>2. elt = NULL /\ count = 0
      BY <3>1 DEF HeapInv, ListTypes, WalkTypes, InListSize
    <3>3. WalkKept
      BY <2>1, <3>1, <3>2 DEF WalkTypes, CountedLast, Far, WalkKept
    <3> QED
      BY <2>1, <3>1, <3>3
  <2>4. CASE ~ C!CreateWorker /\ ~ C!StartScheduler
    <3>1. /\ wpc' = wpc /\ created' = created /\ sched' = sched
          /\ main' \in {"init", "start"} => main \in {"init", "start"}
      BY <1>1, <2>4 DEF Main, C!Main, C!InitSchedQueue, C!SetRemaining,
         C!ExitError, C!ReportWaiting, C!JoinScheduler, C!CleanUp
    <3> QED
      BY <2>1, <3>1, WalkStands
  <2> QED
    BY <2>2, <2>3, <2>4
<1>2. CASE ListWalk
  <2>1. UNCHANGED callVars /\ wpc' = wpc /\ created' = created
    BY <1>2 DEF ListWalk, CountElem, GoOn, CountedAll, WaitForQueue, RRNext, RRWrap, RRStep, RRWalk
  <2> QED
    BY <1>2, <2>1, WalkGoesOn
<1>3. CASE OutsideWalk
  <2>1. UNCHANGED callVars /\ wpc' = wpc /\ created' = created
    BY <1>3 DEF OutsideWalk, C!TestRemaining, C!FifoNext, C!WakeUpWorker, C!WaitForWorker,
       C!SchedulerDone
  <2> QED
    BY <1>3, <2>1, OutsideWalkKept
<1> QED
  BY <1>1, <1>2, <1>3 DEF SchedProc

\* What a step outside of list.c keeps.
OutsideKept ==
  /\ wpc' \in [Workers -> C!WorkerStates]
  /\ created' \in Nat /\ \A w \in Workers : w > created' => wpc'[w] = "none"
  /\ BeenTail' = BeenTail
  /\ \A w \in Workers : at[w] # "out" => wpc'[w] = wpc[w]

\* A step outside of list.c changes nothing of its state.
LEMMA OutsideHeapInv ==
  ASSUME HeapInv, UNCHANGED callVars, WalkKept,
         \/ UNCHANGED <<wpc, created>>
         \/ created' = created + 1 /\ wpc' = [wpc EXCEPT ![created + 1] = "enter"]
         \/ \E w \in Workers : OutsideList(w)
  PROVE  HeapInv'
<1> USE DEF HeapInv
<1>1. OutsideKept
  <2>1. CASE UNCHANGED <<wpc, created>>
    BY <2>1 DEF OutsideKept, ListTypes, BeenTail, Untailed
  <2>2. CASE created' = created + 1 /\ wpc' = [wpc EXCEPT ![created + 1] = "enter"]
    <3> DEFINE new == created + 1
    <3>1. /\ new \in Nat /\ new = created + 1
          /\ new \in Workers => wpc[new] = "none"
      BY DEF ListTypes, Workers
    <3>2. "enter" \in C!WorkerStates
      BY DEF C!WorkerStates
    <3> HIDE DEF new
    <3>3. wpc' = [wpc EXCEPT ![new] = "enter"] /\ created' = new
      BY <2>2, <3>1
    <3>4. new \in Workers => at[new] = "out"
      <4>1. \A w \in Workers : at[w] # "out" => wpc[w] # "none"
        BY DEF ListTypes, InsertStates, RemoveStates, Calls, Fits
      <4> QED
        BY <3>1, <4>1
    <3>5. \A w \in Workers : wpc'[w] = IF w = new THEN "enter" ELSE wpc[w]
      BY <3>3 DEF ListTypes
    <3>6. wpc' \in [Workers -> C!WorkerStates]
      BY <3>2, <3>3 DEF ListTypes
    <3>7. BeenTail' = BeenTail
      BY <3>1, <3>5 DEF BeenTail, Untailed
    <3>8. \A w \in Workers : w > new => wpc'[w] = "none"
      BY <3>1, <3>5 DEF ListTypes, Workers
    <3>9. \A w \in Workers : at[w] # "out" => wpc'[w] = wpc[w]
      BY <3>4, <3>5
    <3> QED
      BY <3>1, <3>3, <3>6, <3>7, <3>8, <3>9 DEF OutsideKept
  <2>3. ASSUME NEW w \in Workers, OutsideList(w) PROVE OutsideKept
    <3>1. PICK to : /\ wpc' = [wpc EXCEPT ![w] = to]
                    /\ wpc[w] # "insert" /\ to \in C!WorkerStates
                    /\ to \in {"none", "enter"} => wpc[w] = to
                    /\ to = "insert" <=> wpc[w] = "enter"
                    /\ wpc[w] # "none" /\ to # "none"
      BY <2>3, OutsideMoves
    <3>2. created' = created /\ at[w] = "out"
      BY <2>3, OutsideMoves
    <3>3. \A v \in Workers : wpc'[v] = IF v = w THEN to ELSE wpc[v]
      BY <3>1 DEF ListTypes
    <3>4. wpc' \in [Workers -> C!WorkerStates]
      BY <3>1 DEF ListTypes
    <3>5. \A v \in Workers : v > created' => wpc'[v] = "none"
      BY <3>1, <3>2, <3>3 DEF ListTypes
    <3>6. \A v \in Workers : Untailed(wpc'[v], at'[v]) <=> Untailed(wpc[v], at[v])
      <4> TAKE v \in Workers
      <4>1. CASE v = w
        <5>1. at'[w] = "out" /\ wpc'[w] = to
          BY <3>2, <3>3
        <5> QED
          BY <3>1, <3>2, <4>1, <5>1 DEF Untailed
      <4>2. CASE v # w
        BY <3>3, <4>2 DEF Untailed
      <4> QED
        BY <4>1, <4>2
    <3>7. BeenTail' = BeenTail
      BY <3>6 DEF BeenTail
    <3>8. \A v \in Workers : at[v] # "out" => wpc'[v] = wpc[v]
      BY <3>2, <3>3
    <3> QED
      BY <3>2, <3>4, <3>5, <3>7, <3>8 DEF OutsideKept, ListTypes
  <2> QED
    BY <2>1, <2>2, <2>3
<1>2. ListTypes'
  BY <1>1 DEF OutsideKept, ListTypes, PointerTypes, WalkKept
<1>3. Calls'
  <2>1. ASSUME NEW w \in Workers PROVE Fits(at[w], wpc'[w])
    <3>1. CASE at[w] = "out"
      BY <3>1 DEF Fits, InsertStates, RemoveStates
    <3>2. CASE at[w] # "out"
      BY <1>1, <3>2 DEF OutsideKept, Calls
    <3> QED
      BY <3>1, <3>2
  <2> QED
    BY <2>1 DEF Calls
<1>4. Order'
  <2>1. PICK r : Ordered(r, BeenTail, tail, next, prev, Ahead, Behind, CountedLast, count)
    BY DEF Order
  <2>2. Ahead' = Ahead /\ Behind' = Behind
    BY DEF Ahead, Behind
  <2>3. Far(r, BeenTail, CountedLast', count')
    BY <2>1 DEF WalkKept
  <2>4. Ordered(r, BeenTail, tail, next, prev, Ahead, Behind, CountedLast', count')
    BY <2>1, <2>3 DEF Ordered
  <2>5. Ordered(r, BeenTail', tail', next', prev', Ahead', Behind', CountedLast', count')
    BY <1>1, <2>2, <2>4 DEF OutsideKept
  <2> QED
    BY <2>5 DEF Order
<1> QED
  BY <1>2, <1>3, <1>4

-----------------------------------------------------------------------------
(* The steps of list.c.                                                    *)

\* A pointer is set to NULL or along the order.
LEMMA SetForward ==
  ASSUME NEW r, NEW nx \in Links, Forward(r, nx), NEW x \in Workers,
         NEW y \in Workers \cup {NULL}, y # NULL => Before(r, x, y)
  PROVE  Forward(r, [nx EXCEPT ![x] = y]) /\ [nx EXCEPT ![x] = y] \in Links
<1> DEFINE m == [nx EXCEPT ![x] = y]
<1>1. m \in Links /\ \A w \in Workers : m[w] = IF w = x THEN y ELSE nx[w]
  BY DEF Links
<1> HIDE DEF m
<1>2. Forward(r, m)
  BY <1>1 DEF Forward
<1> QED
  BY <1>1, <1>2 DEF m

\* Or a pointer back against it.
LEMMA SetBackward ==
  ASSUME NEW r, NEW pv \in Links, Backward(r, pv), NEW x \in Workers,
         NEW y \in Workers \cup {NULL}, y # NULL => Before(r, y, x)
  PROVE  Backward(r, [pv EXCEPT ![x] = y]) /\ [pv EXCEPT ![x] = y] \in Links
<1> DEFINE m == [pv EXCEPT ![x] = y]
<1>1. m \in Links /\ \A w \in Workers : m[w] = IF w = x THEN y ELSE pv[w]
  BY DEF Links
<1> HIDE DEF m
<1>2. Backward(r, m)
  BY <1>1 DEF Backward
<1> QED
  BY <1>1, <1>2 DEF m

\* Both pointers past an element go along the order.
LEMMA Across ==
  ASSUME NEW r \in [Workers -> Nat], NEW x \in Workers, NEW y \in Workers, NEW z \in Workers,
         Before(r, x, y), Before(r, y, z)
  PROVE  Before(r, x, z)
BY DEF Before

\* A step in list.c moves its worker there.
LEMMA CallMoves ==
  ASSUME HeapInv, NEW w \in Workers, NEW from,
         NEW to \in {"out"} \cup InsertStates \cup RemoveStates,
         Goto(w, from, to)
  PROVE  /\ at' \in [Workers -> {"out"} \cup InsertStates \cup RemoveStates]
         /\ at[w] = from /\ at'[w] = to /\ \A v \in Workers \ {w} : at'[v] = at[v]
         /\ raced' \in BOOLEAN
<1>1. at \in [Workers -> {"out"} \cup InsertStates \cup RemoveStates] /\ raced \in BOOLEAN
  BY DEF HeapInv, ListTypes
<1>2. at' = [at EXCEPT ![w] = to] /\ at[w] = from
  BY DEF Goto
<1>3. raced' \in BOOLEAN
  BY <1>1, Zenon DEF Goto
<1> QED
  BY <1>1, <1>2, <1>3

\* A step in list.c that brings its worker from one point to the next, and to
\* the program counter pc.
CallTo(w, from, to, pc) ==
  /\ Goto(w, from, to)
  /\ to \in {"out"} \cup InsertStates \cup RemoveStates
  /\ pc \in C!WorkerStates /\ wpc' = [wpc EXCEPT ![w] = pc]
  /\ wpc[w] \in {"insert", "announce", "remove", "post"}
  /\ pc \in {"insert", "announce", "remove", "post"}
  /\ Fits(to, pc)
  /\ \A v \in Workers \ {w} : seen'[v] = seen[v]
  /\ UNCHANGED <<created, sched, walkVars>>
  /\ main' = main \/ main' = "failed"

\* The program counters that list.c meets.
LEMMA CallStates == {"insert", "announce", "remove", "post"} \subseteq C!WorkerStates
BY DEF C!WorkerStates, C!LinkedStates, C!CpuStates

\* The pointer that w has loaded is one along the order, if it needs that next.
Holds(r, w, to) ==
  /\ to \in {"unlink", "link_back"} /\ seen'[w] # NULL => Before(r, w, seen'[w])
  /\ to = "link" /\ seen'[w] # NULL => Before(r, seen'[w], w)

\* What a step in list.c keeps.
LEMMA CallKeeps ==
  ASSUME HeapInv, NEW w \in Workers, NEW from, NEW to, NEW pc,
         CallTo(w, from, to, pc), PointerTypes'
  PROVE  /\ ListTypes' /\ Calls'
         /\ BeenTail' \ {w} = BeenTail \ {w} /\ BeenTail \in SUBSET Workers
         /\ BeenTail' \in SUBSET Workers
         /\ w \in BeenTail <=> ~ Untailed(wpc[w], from)
         /\ w \in BeenTail' <=> ~ Untailed(pc, to)
         /\ CountedLast' = CountedLast /\ count' = count
<1>0. /\ Goto(w, from, to) /\ to \in {"out"} \cup InsertStates \cup RemoveStates
      /\ UNCHANGED <<created, sched, elt, count>>
      /\ pc \in C!WorkerStates /\ wpc' = [wpc EXCEPT ![w] = pc]
      /\ wpc[w] # "none" /\ Fits(to, pc)
      /\ main' \in {"init", "start"} => main \in {"init", "start"}
  BY DEF CallTo
<1>1. /\ at' \in [Workers -> {"out"} \cup InsertStates \cup RemoveStates]
      /\ at[w] = from /\ at'[w] = to /\ \A v \in Workers \ {w} : at'[v] = at[v]
      /\ raced' \in BOOLEAN
  BY <1>0, CallMoves
<1>2. /\ wpc' \in [Workers -> C!WorkerStates] /\ wpc'[w] = pc
      /\ \A v \in Workers \ {w} : wpc'[v] = wpc[v]
  BY <1>0 DEF HeapInv, ListTypes
<1>w. WalkKept
  BY <1>0, WalkStands
<1>3. ListTypes'
  BY <1>0, <1>1, <1>2, <1>w DEF HeapInv, ListTypes, WalkKept
<1>4. Calls'
  BY <1>0, <1>1, <1>2 DEF HeapInv, Calls
<1>5. BeenTail' \ {w} = BeenTail \ {w}
  BY <1>1, <1>2 DEF BeenTail, Untailed
<1>6. /\ w \in BeenTail <=> ~ Untailed(wpc[w], from)
      /\ w \in BeenTail' <=> ~ Untailed(pc, to)
  BY <1>1, <1>2 DEF BeenTail, Untailed
<1>7. CountedLast' = CountedLast /\ count' = count
  BY <1>0 DEF CountedLast, InListSize
<1>8. BeenTail \in SUBSET Workers /\ BeenTail' \in SUBSET Workers
  BY DEF BeenTail
<1> QED
  BY <1>3, <1>4, <1>5, <1>6, <1>7, <1>8

\* Its worker holds pointers along the order.
LEMMA CallHolds ==
  ASSUME HeapInv, NEW w \in Workers, NEW from, NEW to, NEW pc,
         CallTo(w, from, to, pc), PointerTypes',
         NEW r, Forward(r, Ahead), Backward(r, Behind), Holds(r, w, to)
  PROVE  Forward(r, Ahead') /\ Backward(r, Behind')
<1>1. Goto(w, from, to) /\ to \in {"out"} \cup InsertStates \cup RemoveStates
      /\ \A v \in Workers \ {w} : seen'[v] = seen[v]
  BY DEF CallTo
<1>2. at'[w] = to /\ \A v \in Workers \ {w} : at'[v] = at[v]
  BY <1>1, CallMoves
<1>3. \A v \in Workers \ {w} : Ahead'[v] = Ahead[v] /\ Behind'[v] = Behind[v]
  BY <1>1, <1>2 DEF Ahead, Behind
<1>4. /\ Ahead'[w] = (IF to \in {"unlink", "link_back"} THEN seen'[w] ELSE NULL)
      /\ Behind'[w] = (IF to = "link" THEN seen'[w] ELSE NULL)
  BY <1>2 DEF Ahead, Behind
<1>5. ASSUME NEW v \in Workers, Ahead'[v] # NULL PROVE Before(r, v, Ahead'[v])
  <2>1. CASE v = w
    BY <1>4, <1>5, <2>1 DEF Holds
  <2>2. CASE v # w
    BY <1>3, <1>5, <2>2 DEF Forward
  <2> QED
    BY <2>1, <2>2
<1>6. ASSUME NEW v \in Workers, Behind'[v] # NULL PROVE Before(r, Behind'[v], v)
  <2>1. CASE v = w
    BY <1>4, <1>6, <2>1 DEF Holds
  <2>2. CASE v # w
    BY <1>3, <1>6, <2>2 DEF Backward
  <2> QED
    BY <2>1, <2>2
<1> QED
  BY <1>5, <1>6 DEF Forward, Backward

\* What is left to show of a step in list.c: the pointers keep their order.
LEMMA CallOrder ==
  ASSUME HeapInv, NEW w \in Workers, NEW from, NEW to, NEW pc,
         CallTo(w, from, to, pc), PointerTypes',
         Untailed(wpc[w], from) <=> Untailed(pc, to),
         NEW r, Ordered(r, BeenTail, tail, next, prev, Ahead, Behind, CountedLast, count),
         Forward(r, next'), Backward(r, prev'), Holds(r, w, to),
         tail' # NULL => tail' \in BeenTail
  PROVE  HeapInv'
<1>1. /\ ListTypes' /\ Calls'
      /\ BeenTail' \ {w} = BeenTail \ {w} /\ BeenTail \in SUBSET Workers
      /\ BeenTail' \in SUBSET Workers
      /\ w \in BeenTail <=> ~ Untailed(wpc[w], from)
      /\ w \in BeenTail' <=> ~ Untailed(pc, to)
      /\ CountedLast' = CountedLast /\ count' = count
  BY CallKeeps
<1>2. BeenTail' = BeenTail
  BY <1>1
<1>3. Forward(r, Ahead') /\ Backward(r, Behind')
  BY CallHolds DEF Ordered
<1>4. Ordered(r, BeenTail, tail', next', prev', Ahead', Behind', CountedLast, count)
  BY <1>3 DEF Ordered
<1>5. Ordered(r, BeenTail', tail', next', prev', Ahead', Behind', CountedLast', count')
  BY <1>1, <1>2, <1>4
<1> QED
  BY <1>1, <1>5 DEF HeapInv, Order

\* Or the element becomes the tail.
LEMMA CallGrows ==
  ASSUME HeapInv, NEW w \in Workers, NEW from, NEW to, NEW pc,
         CallTo(w, from, to, pc), PointerTypes',
         Untailed(wpc[w], from), ~ Untailed(pc, to),
         NEW r, Ordered(r, BeenTail, tail, next, prev, Ahead, Behind, CountedLast, count),
         Forward(r, next'), Backward(r, prev'), to \notin {"unlink", "link_back", "link"},
         tail' = w
  PROVE  HeapInv'
<1>1. /\ ListTypes' /\ Calls'
      /\ BeenTail' \ {w} = BeenTail \ {w} /\ BeenTail \in SUBSET Workers
      /\ BeenTail' \in SUBSET Workers
      /\ w \in BeenTail <=> ~ Untailed(wpc[w], from)
      /\ w \in BeenTail' <=> ~ Untailed(pc, to)
      /\ CountedLast' = CountedLast /\ count' = count
  BY CallKeeps
<1>2. BeenTail' = BeenTail \cup {w} /\ w \in Workers \ BeenTail
  BY <1>1
<1>3. Holds(r, w, to)
  BY DEF Holds
<1>4. Forward(r, Ahead') /\ Backward(r, Behind')
  BY <1>3, CallHolds DEF Ordered
<1>5. Ordered(r, BeenTail, tail, next', prev', Ahead', Behind', CountedLast, count)
  BY <1>4 DEF Ordered
<1>6. /\ next' \in Links /\ prev' \in Links /\ Ahead' \in Links /\ Behind' \in Links
      /\ CountedLast \in Workers \cup {NULL} /\ count \in Nat
  <2>1. Ahead' \in Links /\ Behind' \in Links /\ CountedLast' \in Workers \cup {NULL}
    BY <1>1 DEF ListTypes, PointerTypes, WalkTypes, Links, Ahead, Behind, CountedLast
  <2>2. count' \in Nat /\ next' \in Links /\ prev' \in Links
    BY <1>1 DEF ListTypes, WalkTypes, PointerTypes
  <2> QED
    BY <1>1, <2>1, <2>2
<1>7. \E s : Ordered(s, BeenTail \cup {w}, w, next', prev', Ahead', Behind', CountedLast, count)
  BY <1>2, <1>5, <1>6, Grow
<1>8. PICK s : Ordered(s, BeenTail \cup {w}, w, next', prev', Ahead', Behind', CountedLast, count)
  BY <1>7
<1>9. Ordered(s, BeenTail', tail', next', prev', Ahead', Behind', CountedLast', count')
  BY <1>1, <1>2, <1>8
<1> QED
  BY <1>1, <1>9 DEF HeapInv, Order

\* list_insert_tail keeps the order.
LEMMA InsertHeapInv ==
  ASSUME HeapInv, NEW w \in Workers,
         \/ TestTail(w) \/ FirstTail(w) \/ ReadBack(w) \/ FirstHead(w) \/ SetPrev(w)
         \/ RetestTail(w) \/ ReadTail(w) \/ LinkBehind(w) \/ ClearNext(w) \/ NewTail(w)
  PROVE  HeapInv'
<1>t. /\ head \in Workers \cup {NULL} /\ tail \in Workers \cup {NULL}
      /\ prev \in Links /\ next \in Links /\ seen \in Links
      /\ prev[w] \in Workers \cup {NULL} /\ next[w] \in Workers \cup {NULL}
      /\ seen[w] \in Workers \cup {NULL}
      /\ wpc[w] \in C!WorkerStates /\ wpc = [wpc EXCEPT ![w] = wpc[w]]
      /\ Fits(at[w], wpc[w]) /\ w \in Workers /\ NULL \in Workers \cup {NULL}
  BY DEF HeapInv, ListTypes, PointerTypes, Calls, Links
<1>p. \A x \in Workers \cup {NULL} :
         [seen EXCEPT ![w] = x] \in Links /\ [seen EXCEPT ![w] = x][w] = x
         /\ \A v \in Workers \ {w} : [seen EXCEPT ![w] = x][v] = seen[v]
  BY <1>t DEF Links
<1>r. PICK r : Ordered(r, BeenTail, tail, next, prev, Ahead, Behind, CountedLast, count)
  BY DEF HeapInv, Order
<1>o. /\ r \in [Workers -> Nat] /\ Forward(r, next) /\ Backward(r, prev)
      /\ Forward(r, Ahead) /\ Backward(r, Behind)
      /\ BeenTail \in SUBSET Workers
      /\ \A x \in Workers : r[x] > 0 <=> x \in BeenTail
      /\ tail # NULL => tail \in BeenTail
  BY <1>r DEF Ordered
<1>1. CASE TestTail(w)
  <2> DEFINE to == IF tail = NULL THEN "first_tail" ELSE "set_prev"
  <2>1. /\ Goto(w, "out", to)
        /\ UNCHANGED <<main, created, sched, elt, count>>
        /\ UNCHANGED <<head, tail, prev, next, seen>>
        /\ wpc[w] = "insert" /\ wpc' = [wpc EXCEPT ![w] = "insert"]
    BY <1>1, <1>t DEF TestTail, Goto, Fits, InsertStates, RemoveStates
  <2>2. Forward(r, next') /\ Backward(r, prev') /\ next' \in Links /\ prev' \in Links
    BY <1>t, <1>o, <2>1
  <2>3. PointerTypes' /\ \A v \in Workers \ {w} : seen'[v] = seen[v]
    BY <1>t, <1>p, <2>1, <2>2 DEF PointerTypes
  <2>4. CallTo(w, "out", to, "insert")
    BY <1>t, <2>1, <2>3, CallStates DEF CallTo, Fits, InsertStates, RemoveStates
  <2>5. Untailed(wpc[w], "out") <=> Untailed("insert", to)
    BY <2>1 DEF Untailed
  <2>6. Holds(r, w, to)
    BY DEF Holds
  <2>7. tail' # NULL => tail' \in BeenTail
    BY <1>o, <2>1
  <2> QED
    BY <1>r, <2>2, <2>3, <2>4, <2>5, <2>6, <2>7, CallOrder
<1>2. CASE FirstTail(w)
  <2>1. /\ Goto(w, "first_tail", "read_back")
        /\ UNCHANGED <<main, created, sched, elt, count>>
        /\ tail' = w
        /\ next' = [next EXCEPT ![w] = NULL] /\ prev' = [prev EXCEPT ![w] = NULL]
        /\ UNCHANGED <<head, seen>>
        /\ wpc[w] = "insert" /\ wpc' = [wpc EXCEPT ![w] = "insert"]
    BY <1>2, <1>t DEF FirstTail, Goto, Fits, InsertStates, RemoveStates
  <2>2. Forward(r, next') /\ Backward(r, prev') /\ next' \in Links /\ prev' \in Links
    BY <1>t, <1>o, <2>1, SetForward, SetBackward
  <2>3. PointerTypes' /\ \A v \in Workers \ {w} : seen'[v] = seen[v]
    BY <1>t, <1>p, <2>1, <2>2 DEF PointerTypes
  <2>4. CallTo(w, "first_tail", "read_back", "insert")
    BY <1>t, <2>1, <2>3, CallStates DEF CallTo, Fits, InsertStates, RemoveStates
  <2>5. Untailed(wpc[w], "first_tail") /\ ~ Untailed("insert", "read_back")
    BY <2>1 DEF Untailed
  <2> QED
    <3>1. tail' = w
      BY <2>1
    <3> QED
      BY <1>r, <2>2, <2>3, <2>4, <2>5, <3>1, CallGrows
<1>3. CASE ReadBack(w)
  <2>0. PICK p \in Workers \cup {NULL} : seen' = [seen EXCEPT ![w] = p]
    BY <1>3, <1>t DEF ReadBack
  <2>1. /\ Goto(w, "read_back", "first_head")
        /\ UNCHANGED <<main, created, sched, elt, count>>
        /\ seen' = [seen EXCEPT ![w] = p]
        /\ UNCHANGED <<head, tail, prev, next>>
        /\ wpc[w] = "insert" /\ wpc' = [wpc EXCEPT ![w] = "insert"]
    BY <1>3, <1>t, <2>0 DEF ReadBack, Goto, Fits, InsertStates, RemoveStates
  <2>2. Forward(r, next') /\ Backward(r, prev') /\ next' \in Links /\ prev' \in Links
    BY <1>t, <1>o, <2>1
  <2>3. PointerTypes' /\ \A v \in Workers \ {w} : seen'[v] = seen[v]
    BY <1>t, <1>p, <2>1, <2>2 DEF PointerTypes
  <2>4. CallTo(w, "read_back", "first_head", "insert")
    BY <1>t, <2>1, <2>3, CallStates DEF CallTo, Fits, InsertStates, RemoveStates
  <2>5. Untailed(wpc[w], "read_back") <=> Untailed("insert", "first_head")
    BY <2>1 DEF Untailed
  <2>6. Holds(r, w, "first_head")
    BY DEF Holds
  <2>7. tail' # NULL => tail' \in BeenTail
    BY <1>o, <2>1
  <2> QED
    BY <1>r, <2>2, <2>3, <2>4, <2>5, <2>6, <2>7, CallOrder
<1>4. CASE FirstHead(w)
  <2>1. /\ Goto(w, "first_head", "out")
        /\ UNCHANGED <<main, created, sched, elt, count>>
        /\ head' = seen[w]
        /\ UNCHANGED <<tail, prev, next, seen>>
        /\ wpc[w] = "insert" /\ wpc' = [wpc EXCEPT ![w] = "announce"]
    BY <1>4, <1>t DEF FirstHead, Goto, Fits, InsertStates, RemoveStates, Linking
  <2>2. Forward(r, next') /\ Backward(r, prev') /\ next' \in Links /\ prev' \in Links
    BY <1>t, <1>o, <2>1
  <2>3. PointerTypes' /\ \A v \in Workers \ {w} : seen'[v] = seen[v]
    BY <1>t, <1>p, <2>1, <2>2 DEF PointerTypes
  <2>4. CallTo(w, "first_head", "out", "announce")
    BY <1>t, <2>1, <2>3, CallStates DEF CallTo, Fits, InsertStates, RemoveStates
  <2>5. Untailed(wpc[w], "first_head") <=> Untailed("announce", "out")
    BY <2>1 DEF Untailed
  <2>6. Holds(r, w, "out")
    BY DEF Holds
  <2>7. tail' # NULL => tail' \in BeenTail
    BY <1>o, <2>1
  <2> QED
    BY <1>r, <2>2, <2>3, <2>4, <2>5, <2>6, <2>7, CallOrder
<1>5. CASE SetPrev(w)
  <2>1. /\ Goto(w, "set_prev", "retest_tail")
        /\ UNCHANGED <<main, created, sched, elt, count>>
        /\ prev' = [prev EXCEPT ![w] = tail]
        /\ UNCHANGED <<head, tail, next, seen>>
        /\ wpc[w] = "insert" /\ wpc' = [wpc EXCEPT ![w] = "insert"]
    BY <1>5, <1>t DEF SetPrev, Goto, Fits, InsertStates, RemoveStates
  <2>2. Forward(r, next') /\ Backward(r, prev') /\ next' \in Links /\ prev' \in Links
    <3>1. w \notin BeenTail
      BY <2>1 DEF BeenTail, Untailed, Goto
    <3>2. tail # NULL => Before(r, tail, w)
      BY <1>o, <1>t, <3>1 DEF Before
    <3> QED
      BY <1>t, <1>o, <2>1, <3>2, SetBackward
  <2>3. PointerTypes' /\ \A v \in Workers \ {w} : seen'[v] = seen[v]
    BY <1>t, <1>p, <2>1, <2>2 DEF PointerTypes
  <2>4. CallTo(w, "set_prev", "retest_tail", "insert")
    BY <1>t, <2>1, <2>3, CallStates DEF CallTo, Fits, InsertStates, RemoveStates
  <2>5. Untailed(wpc[w], "set_prev") <=> Untailed("insert", "retest_tail")
    BY <2>1 DEF Untailed
  <2>6. Holds(r, w, "retest_tail")
    BY DEF Holds
  <2>7. tail' # NULL => tail' \in BeenTail
    BY <1>o, <2>1
  <2> QED
    BY <1>r, <2>2, <2>3, <2>4, <2>5, <2>6, <2>7, CallOrder
<1>6. CASE RetestTail(w)
  <2> DEFINE to == IF tail = NULL THEN "clear_next" ELSE "read_tail"
  <2>1. /\ Goto(w, "retest_tail", to)
        /\ UNCHANGED <<main, created, sched, elt, count>>
        /\ UNCHANGED <<head, tail, prev, next, seen>>
        /\ wpc[w] = "insert" /\ wpc' = [wpc EXCEPT ![w] = "insert"]
    BY <1>6, <1>t DEF RetestTail, Goto, Fits, InsertStates, RemoveStates
  <2>2. Forward(r, next') /\ Backward(r, prev') /\ next' \in Links /\ prev' \in Links
    BY <1>t, <1>o, <2>1
  <2>3. PointerTypes' /\ \A v \in Workers \ {w} : seen'[v] = seen[v]
    BY <1>t, <1>p, <2>1, <2>2 DEF PointerTypes
  <2>4. CallTo(w, "retest_tail", to, "insert")
    BY <1>t, <2>1, <2>3, CallStates DEF CallTo, Fits, InsertStates, RemoveStates
  <2>5. Untailed(wpc[w], "retest_tail") <=> Untailed("insert", to)
    BY <2>1 DEF Untailed
  <2>6. Holds(r, w, to)
    BY DEF Holds
  <2>7. tail' # NULL => tail' \in BeenTail
    BY <1>o, <2>1
  <2> QED
    BY <1>r, <2>2, <2>3, <2>4, <2>5, <2>6, <2>7, CallOrder
<1>7. CASE ReadTail(w)
  <2>1. /\ Goto(w, "read_tail", "link")
        /\ UNCHANGED <<main, created, sched, elt, count>>
        /\ seen' = [seen EXCEPT ![w] = tail]
        /\ UNCHANGED <<head, tail, prev, next>>
        /\ wpc[w] = "insert" /\ wpc' = [wpc EXCEPT ![w] = "insert"]
    BY <1>7, <1>t DEF ReadTail, Goto, Fits, InsertStates, RemoveStates
  <2>2. Forward(r, next') /\ Backward(r, prev') /\ next' \in Links /\ prev' \in Links
    BY <1>t, <1>o, <2>1
  <2>3. PointerTypes' /\ \A v \in Workers \ {w} : seen'[v] = seen[v]
    BY <1>t, <1>p, <2>1, <2>2 DEF PointerTypes
  <2>4. CallTo(w, "read_tail", "link", "insert")
    BY <1>t, <2>1, <2>3, CallStates DEF CallTo, Fits, InsertStates, RemoveStates
  <2>5. Untailed(wpc[w], "read_tail") <=> Untailed("insert", "link")
    BY <2>1 DEF Untailed
  <2>6. Holds(r, w, "link")
    <3>1. w \notin BeenTail
      BY <2>1 DEF BeenTail, Untailed, Goto
    <3>2. tail # NULL => Before(r, tail, w)
      BY <1>o, <1>t, <3>1 DEF Before
    <3>3. seen'[w] = tail
      BY <1>t, <1>p, <2>1
    <3> QED
      BY <3>2, <3>3 DEF Holds
  <2>7. tail' # NULL => tail' \in BeenTail
    BY <1>o, <2>1
  <2> QED
    BY <1>r, <2>2, <2>3, <2>4, <2>5, <2>6, <2>7, CallOrder
<1>8. CASE LinkBehind(w)
  <2>1. /\ Goto(w, "link", "clear_next")
        /\ UNCHANGED <<created, sched, elt, count>> /\ (main' = main \/ main' = "failed")
        /\ next' = next \/ (seen[w] # NULL /\ next' = [next EXCEPT ![seen[w]] = w])
        /\ UNCHANGED <<head, tail, prev, seen>>
        /\ wpc[w] = "insert" /\ wpc' = [wpc EXCEPT ![w] = "announce"]
    BY <1>8, <1>t DEF LinkBehind, Goto, Fits, InsertStates, RemoveStates, Linking
  <2>2. Forward(r, next') /\ Backward(r, prev') /\ next' \in Links /\ prev' \in Links
    <3>1. Behind[w] = seen[w]
      BY <2>1 DEF Behind, Goto
    <3>2. seen[w] # NULL => Before(r, seen[w], w)
      BY <1>o, <3>1 DEF Backward
    <3> QED
      BY <1>t, <1>o, <2>1, <3>2, SetForward
  <2>3. PointerTypes' /\ \A v \in Workers \ {w} : seen'[v] = seen[v]
    BY <1>t, <1>p, <2>1, <2>2 DEF PointerTypes
  <2>4. CallTo(w, "link", "clear_next", "announce")
    BY <1>t, <2>1, <2>3, CallStates DEF CallTo, Fits, InsertStates, RemoveStates
  <2>5. Untailed(wpc[w], "link") <=> Untailed("announce", "clear_next")
    BY <2>1 DEF Untailed
  <2>6. Holds(r, w, "clear_next")
    BY DEF Holds
  <2>7. tail' # NULL => tail' \in BeenTail
    BY <1>o, <2>1
  <2> QED
    BY <1>r, <2>2, <2>3, <2>4, <2>5, <2>6, <2>7, CallOrder
<1>9. CASE ClearNext(w)
  <2>1. /\ Goto(w, "clear_next", "new_tail")
        /\ UNCHANGED <<main, created, sched, elt, count>>
        /\ next' = [next EXCEPT ![w] = NULL]
        /\ UNCHANGED <<head, tail, prev, seen>>
        /\ wpc[w] \in {"insert", "announce"} /\ wpc' = [wpc EXCEPT ![w] = wpc[w]]
    BY <1>9, <1>t DEF ClearNext, Goto, Fits, InsertStates, RemoveStates
  <2>2. Forward(r, next') /\ Backward(r, prev') /\ next' \in Links /\ prev' \in Links
    BY <1>t, <1>o, <2>1, SetForward
  <2>3. PointerTypes' /\ \A v \in Workers \ {w} : seen'[v] = seen[v]
    BY <1>t, <1>p, <2>1, <2>2 DEF PointerTypes
  <2>4. CallTo(w, "clear_next", "new_tail", wpc[w])
    BY <1>t, <2>1, <2>3, CallStates DEF CallTo, Fits, InsertStates, RemoveStates
  <2>5. Untailed(wpc[w], "clear_next") <=> Untailed(wpc[w], "new_tail")
    BY <2>1 DEF Untailed
  <2>6. Holds(r, w, "new_tail")
    BY DEF Holds
  <2>7. tail' # NULL => tail' \in BeenTail
    BY <1>o, <2>1
  <2> QED
    BY <1>r, <2>2, <2>3, <2>4, <2>5, <2>6, <2>7, CallOrder
<1>10. CASE NewTail(w)
  <2>1. /\ Goto(w, "new_tail", "out")
        /\ UNCHANGED <<main, created, sched, elt, count>>
        /\ tail' = w
        /\ UNCHANGED <<head, prev, next, seen>>
        /\ wpc[w] \in {"insert", "announce"} /\ wpc' = [wpc EXCEPT ![w] = "announce"]
    BY <1>10, <1>t DEF NewTail, Goto, Fits, InsertStates, RemoveStates, Linking
  <2>2. Forward(r, next') /\ Backward(r, prev') /\ next' \in Links /\ prev' \in Links
    BY <1>t, <1>o, <2>1
  <2>3. PointerTypes' /\ \A v \in Workers \ {w} : seen'[v] = seen[v]
    BY <1>t, <1>p, <2>1, <2>2 DEF PointerTypes
  <2>4. CallTo(w, "new_tail", "out", "announce")
    BY <1>t, <2>1, <2>3, CallStates DEF CallTo, Fits, InsertStates, RemoveStates
  <2>5. Untailed(wpc[w], "new_tail") /\ ~ Untailed("announce", "out")
    BY <2>1 DEF Untailed
  <2> QED
    <3>1. tail' = w
      BY <2>1
    <3> QED
      BY <1>r, <2>2, <2>3, <2>4, <2>5, <3>1, CallGrows
<1> QED
  BY <1>1, <1>2, <1>3, <1>4, <1>5, <1>6, <1>7, <1>8, <1>9, <1>10


\* list_remove_elem keeps the order.
LEMMA RemoveHeapInv ==
  ASSUME HeapInv, NEW w \in Workers,
         \/ TestPrev(w) \/ TestHead(w) \/ NotHead(w) \/ ReadNext(w) \/ Unlink(w) \/ TestNext(w)
         \/ RereadNext(w) \/ LinkBack(w) \/ TestLast(w) \/ RetreatTail(w) \/ ClearElem(w)
  PROVE  HeapInv'
<1>t. /\ head \in Workers \cup {NULL} /\ tail \in Workers \cup {NULL}
      /\ prev \in Links /\ next \in Links /\ seen \in Links
      /\ prev[w] \in Workers \cup {NULL} /\ next[w] \in Workers \cup {NULL}
      /\ seen[w] \in Workers \cup {NULL}
      /\ wpc[w] \in C!WorkerStates /\ wpc = [wpc EXCEPT ![w] = wpc[w]]
      /\ Fits(at[w], wpc[w]) /\ w \in Workers /\ NULL \in Workers \cup {NULL}
  BY DEF HeapInv, ListTypes, PointerTypes, Calls, Links
<1>p. \A x \in Workers \cup {NULL} :
         [seen EXCEPT ![w] = x] \in Links /\ [seen EXCEPT ![w] = x][w] = x
         /\ \A v \in Workers \ {w} : [seen EXCEPT ![w] = x][v] = seen[v]
  BY <1>t DEF Links
<1>r. PICK r : Ordered(r, BeenTail, tail, next, prev, Ahead, Behind, CountedLast, count)
  BY DEF HeapInv, Order
<1>o. /\ r \in [Workers -> Nat] /\ Forward(r, next) /\ Backward(r, prev)
      /\ Forward(r, Ahead) /\ Backward(r, Behind)
      /\ BeenTail \in SUBSET Workers
      /\ \A x \in Workers : r[x] > 0 <=> x \in BeenTail
      /\ tail # NULL => tail \in BeenTail
  BY <1>r DEF Ordered
<1>b. /\ prev[w] # NULL => Before(r, prev[w], w)
      /\ next[w] # NULL => Before(r, w, next[w])
      /\ Ahead[w] # NULL => Before(r, w, Ahead[w]) /\ Ahead[w] \in Workers
      /\ prev[w] # NULL /\ Ahead[w] # NULL => Before(r, prev[w], Ahead[w])
  <2>1. Ahead[w] \in Workers \cup {NULL}
    BY <1>t DEF Ahead
  <2>2. /\ prev[w] # NULL => Before(r, prev[w], w)
        /\ next[w] # NULL => Before(r, w, next[w])
        /\ Ahead[w] # NULL => Before(r, w, Ahead[w])
    BY <1>o DEF Forward, Backward
  <2> QED
    BY <1>t, <1>o, <2>1, <2>2, Across
<1>1. CASE TestPrev(w)
  <2> DEFINE to == IF prev[w] # NULL THEN "read_next" ELSE "test_head"
  <2>1. /\ Goto(w, "out", to)
        /\ UNCHANGED <<main, created, sched, elt, count>>
        /\ UNCHANGED <<head, tail, prev, next, seen>>
        /\ wpc[w] = "remove" /\ wpc' = [wpc EXCEPT ![w] = "remove"]
    BY <1>1, <1>t DEF TestPrev, Goto, Fits, InsertStates, RemoveStates
  <2>2. Forward(r, next') /\ Backward(r, prev') /\ next' \in Links /\ prev' \in Links
    BY <1>t, <1>o, <2>1
  <2>3. PointerTypes' /\ \A v \in Workers \ {w} : seen'[v] = seen[v]
    BY <1>t, <1>p, <2>1, <2>2 DEF PointerTypes
  <2>4. CallTo(w, "out", to, "remove")
    BY <1>t, <2>1, <2>3, CallStates DEF CallTo, Fits, InsertStates, RemoveStates
  <2>5. Untailed(wpc[w], "out") <=> Untailed("remove", to)
    BY <2>1 DEF Untailed
  <2>6. Holds(r, w, to)
    BY DEF Holds
  <2>7. tail' # NULL => tail' \in BeenTail
    BY <1>o, <2>1
  <2> QED
    BY <1>r, <2>2, <2>3, <2>4, <2>5, <2>6, <2>7, CallOrder
<1>2. CASE TestHead(w)
  <2>1. /\ Goto(w, "test_head", "read_next")
        /\ UNCHANGED <<main, created, sched, elt, count>>
        /\ UNCHANGED <<head, tail, prev, next, seen>>
        /\ wpc[w] = "remove" /\ wpc' = [wpc EXCEPT ![w] = "remove"]
    BY <1>2, <1>t DEF TestHead, Goto, Fits, InsertStates, RemoveStates
  <2>2. Forward(r, next') /\ Backward(r, prev') /\ next' \in Links /\ prev' \in Links
    BY <1>t, <1>o, <2>1
  <2>3. PointerTypes' /\ \A v \in Workers \ {w} : seen'[v] = seen[v]
    BY <1>t, <1>p, <2>1, <2>2 DEF PointerTypes
  <2>4. CallTo(w, "test_head", "read_next", "remove")
    BY <1>t, <2>1, <2>3, CallStates DEF CallTo, Fits, InsertStates, RemoveStates
  <2>5. Untailed(wpc[w], "test_head") <=> Untailed("remove", "read_next")
    BY <2>1 DEF Untailed
  <2>6. Holds(r, w, "read_next")
    BY DEF Holds
  <2>7. tail' # NULL => tail' \in BeenTail
    BY <1>o, <2>1
  <2> QED
    BY <1>r, <2>2, <2>3, <2>4, <2>5, <2>6, <2>7, CallOrder
<1>3. CASE NotHead(w)
  <2>1. /\ Goto(w, "test_head", "test_next")
        /\ UNCHANGED <<main, created, sched, elt, count>>
        /\ UNCHANGED <<head, tail, prev, next, seen>>
        /\ wpc[w] = "remove" /\ wpc' = [wpc EXCEPT ![w] = "post"]
    BY <1>3, <1>t DEF NotHead, Goto, Fits, InsertStates, RemoveStates, Unlinking
  <2>2. Forward(r, next') /\ Backward(r, prev') /\ next' \in Links /\ prev' \in Links
    BY <1>t, <1>o, <2>1
  <2>3. PointerTypes' /\ \A v \in Workers \ {w} : seen'[v] = seen[v]
    BY <1>t, <1>p, <2>1, <2>2 DEF PointerTypes
  <2>4. CallTo(w, "test_head", "test_next", "post")
    BY <1>t, <2>1, <2>3, CallStates DEF CallTo, Fits, InsertStates, RemoveStates
  <2>5. Untailed(wpc[w], "test_head") <=> Untailed("post", "test_next")
    BY <2>1 DEF Untailed
  <2>6. Holds(r, w, "test_next")
    BY DEF Holds
  <2>7. tail' # NULL => tail' \in BeenTail
    BY <1>o, <2>1
  <2> QED
    BY <1>r, <2>2, <2>3, <2>4, <2>5, <2>6, <2>7, CallOrder
<1>4. CASE ReadNext(w)
  <2>1. /\ Goto(w, "read_next", "unlink")
        /\ UNCHANGED <<main, created, sched, elt, count>>
        /\ seen' = [seen EXCEPT ![w] = next[w]]
        /\ UNCHANGED <<head, tail, prev, next>>
        /\ wpc[w] = "remove" /\ wpc' = [wpc EXCEPT ![w] = "remove"]
    BY <1>4, <1>t DEF ReadNext, Goto, Fits, InsertStates, RemoveStates
  <2>2. Forward(r, next') /\ Backward(r, prev') /\ next' \in Links /\ prev' \in Links
    BY <1>t, <1>o, <2>1
  <2>3. PointerTypes' /\ \A v \in Workers \ {w} : seen'[v] = seen[v]
    BY <1>t, <1>p, <2>1, <2>2 DEF PointerTypes
  <2>4. CallTo(w, "read_next", "unlink", "remove")
    BY <1>t, <2>1, <2>3, CallStates DEF CallTo, Fits, InsertStates, RemoveStates
  <2>5. Untailed(wpc[w], "read_next") <=> Untailed("remove", "unlink")
    BY <2>1 DEF Untailed
  <2>6. Holds(r, w, "unlink")
    <3>1. seen'[w] = next[w]
      BY <1>t, <1>p, <2>1
    <3> QED
      BY <1>b, <3>1 DEF Holds
  <2>7. tail' # NULL => tail' \in BeenTail
    BY <1>o, <2>1
  <2> QED
    BY <1>r, <2>2, <2>3, <2>4, <2>5, <2>6, <2>7, CallOrder
<1>5. CASE Unlink(w)
  <2>1. /\ Goto(w, "unlink", "test_next")
        /\ UNCHANGED <<main, created, sched, elt, count>>
        /\ next' = next \/ (prev[w] # NULL /\ next' = [next EXCEPT ![prev[w]] = seen[w]])
        /\ head' = head \/ head' = seen[w]
        /\ UNCHANGED <<tail, prev, seen>>
        /\ wpc[w] = "remove" /\ wpc' = [wpc EXCEPT ![w] = "post"]
    BY <1>5, <1>t DEF Unlink, Goto, Fits, InsertStates, RemoveStates, Unlinking
  <2>2. Forward(r, next') /\ Backward(r, prev') /\ next' \in Links /\ prev' \in Links
    <3>1. Ahead[w] = seen[w]
      BY <2>1 DEF Ahead, Goto
    <3> QED
      BY <1>t, <1>o, <1>b, <2>1, <3>1, SetForward
  <2>3. PointerTypes' /\ \A v \in Workers \ {w} : seen'[v] = seen[v]
    BY <1>t, <1>p, <2>1, <2>2 DEF PointerTypes
  <2>4. CallTo(w, "unlink", "test_next", "post")
    BY <1>t, <2>1, <2>3, CallStates DEF CallTo, Fits, InsertStates, RemoveStates
  <2>5. Untailed(wpc[w], "unlink") <=> Untailed("post", "test_next")
    BY <2>1 DEF Untailed
  <2>6. Holds(r, w, "test_next")
    BY DEF Holds
  <2>7. tail' # NULL => tail' \in BeenTail
    BY <1>o, <2>1
  <2> QED
    BY <1>r, <2>2, <2>3, <2>4, <2>5, <2>6, <2>7, CallOrder
<1>6. CASE TestNext(w)
  <2> DEFINE to == IF next[w] # NULL THEN "reread_next" ELSE "test_last"
  <2>1. /\ Goto(w, "test_next", to)
        /\ UNCHANGED <<main, created, sched, elt, count>>
        /\ UNCHANGED <<head, tail, prev, next, seen>>
        /\ wpc[w] = "post" /\ wpc' = [wpc EXCEPT ![w] = "post"]
    BY <1>6, <1>t DEF TestNext, Goto, Fits, InsertStates, RemoveStates
  <2>2. Forward(r, next') /\ Backward(r, prev') /\ next' \in Links /\ prev' \in Links
    BY <1>t, <1>o, <2>1
  <2>3. PointerTypes' /\ \A v \in Workers \ {w} : seen'[v] = seen[v]
    BY <1>t, <1>p, <2>1, <2>2 DEF PointerTypes
  <2>4. CallTo(w, "test_next", to, "post")
    BY <1>t, <2>1, <2>3, CallStates DEF CallTo, Fits, InsertStates, RemoveStates
  <2>5. Untailed(wpc[w], "test_next") <=> Untailed("post", to)
    BY <2>1 DEF Untailed
  <2>6. Holds(r, w, to)
    BY DEF Holds
  <2>7. tail' # NULL => tail' \in BeenTail
    BY <1>o, <2>1
  <2> QED
    BY <1>r, <2>2, <2>3, <2>4, <2>5, <2>6, <2>7, CallOrder
<1>7. CASE RereadNext(w)
  <2>1. /\ Goto(w, "reread_next", "link_back")
        /\ UNCHANGED <<main, created, sched, elt, count>>
        /\ seen' = [seen EXCEPT ![w] = next[w]]
        /\ UNCHANGED <<head, tail, prev, next>>
        /\ wpc[w] = "post" /\ wpc' = [wpc EXCEPT ![w] = "post"]
    BY <1>7, <1>t DEF RereadNext, Goto, Fits, InsertStates, RemoveStates
  <2>2. Forward(r, next') /\ Backward(r, prev') /\ next' \in Links /\ prev' \in Links
    BY <1>t, <1>o, <2>1
  <2>3. PointerTypes' /\ \A v \in Workers \ {w} : seen'[v] = seen[v]
    BY <1>t, <1>p, <2>1, <2>2 DEF PointerTypes
  <2>4. CallTo(w, "reread_next", "link_back", "post")
    BY <1>t, <2>1, <2>3, CallStates DEF CallTo, Fits, InsertStates, RemoveStates
  <2>5. Untailed(wpc[w], "reread_next") <=> Untailed("post", "link_back")
    BY <2>1 DEF Untailed
  <2>6. Holds(r, w, "link_back")
    <3>1. seen'[w] = next[w]
      BY <1>t, <1>p, <2>1
    <3> QED
      BY <1>b, <3>1 DEF Holds
  <2>7. tail' # NULL => tail' \in BeenTail
    BY <1>o, <2>1
  <2> QED
    BY <1>r, <2>2, <2>3, <2>4, <2>5, <2>6, <2>7, CallOrder
<1>8. CASE LinkBack(w)
  <2>1. /\ Goto(w, "link_back", "clear")
        /\ UNCHANGED <<main, created, sched, elt, count>>
        /\ prev' = [prev EXCEPT ![seen[w]] = prev[w]]
        /\ UNCHANGED <<head, tail, next, seen>>
        /\ wpc[w] = "post" /\ wpc' = [wpc EXCEPT ![w] = "post"]
    BY <1>8, <1>t DEF LinkBack, Goto, Fits, InsertStates, RemoveStates
  <2>2. Forward(r, next') /\ Backward(r, prev') /\ next' \in Links /\ prev' \in Links
    <3>1. Ahead[w] = seen[w]
      BY <2>1 DEF Ahead, Goto
    <3>2. CASE seen[w] # NULL
      BY <1>t, <1>o, <1>b, <2>1, <3>1, <3>2, SetBackward
    <3>3. CASE seen[w] = NULL
      <4>1. NULL \notin Workers
        BY DEF NULL, Workers
      <4>2. prev' = prev
        BY <1>t, <2>1, <3>3, <4>1 DEF Links
      <4> QED
        BY <1>t, <1>o, <2>1, <4>2
    <3> QED
      BY <3>2, <3>3
  <2>3. PointerTypes' /\ \A v \in Workers \ {w} : seen'[v] = seen[v]
    BY <1>t, <1>p, <2>1, <2>2 DEF PointerTypes
  <2>4. CallTo(w, "link_back", "clear", "post")
    BY <1>t, <2>1, <2>3, CallStates DEF CallTo, Fits, InsertStates, RemoveStates
  <2>5. Untailed(wpc[w], "link_back") <=> Untailed("post", "clear")
    BY <2>1 DEF Untailed
  <2>6. Holds(r, w, "clear")
    BY DEF Holds
  <2>7. tail' # NULL => tail' \in BeenTail
    BY <1>o, <2>1
  <2> QED
    BY <1>r, <2>2, <2>3, <2>4, <2>5, <2>6, <2>7, CallOrder
<1>9. CASE TestLast(w)
  <2> DEFINE to == IF tail = w THEN "retreat" ELSE "clear"
  <2>1. /\ Goto(w, "test_last", to)
        /\ UNCHANGED <<main, created, sched, elt, count>>
        /\ UNCHANGED <<head, tail, prev, next, seen>>
        /\ wpc[w] = "post" /\ wpc' = [wpc EXCEPT ![w] = "post"]
    BY <1>9, <1>t DEF TestLast, Goto, Fits, InsertStates, RemoveStates
  <2>2. Forward(r, next') /\ Backward(r, prev') /\ next' \in Links /\ prev' \in Links
    BY <1>t, <1>o, <2>1
  <2>3. PointerTypes' /\ \A v \in Workers \ {w} : seen'[v] = seen[v]
    BY <1>t, <1>p, <2>1, <2>2 DEF PointerTypes
  <2>4. CallTo(w, "test_last", to, "post")
    BY <1>t, <2>1, <2>3, CallStates DEF CallTo, Fits, InsertStates, RemoveStates
  <2>5. Untailed(wpc[w], "test_last") <=> Untailed("post", to)
    BY <2>1 DEF Untailed
  <2>6. Holds(r, w, to)
    BY DEF Holds
  <2>7. tail' # NULL => tail' \in BeenTail
    BY <1>o, <2>1
  <2> QED
    BY <1>r, <2>2, <2>3, <2>4, <2>5, <2>6, <2>7, CallOrder
<1>10. CASE RetreatTail(w)
  <2>1. /\ Goto(w, "retreat", "clear")
        /\ UNCHANGED <<main, created, sched, elt, count>>
        /\ tail' = prev[w]
        /\ UNCHANGED <<head, prev, next, seen>>
        /\ wpc[w] = "post" /\ wpc' = [wpc EXCEPT ![w] = "post"]
    BY <1>10, <1>t DEF RetreatTail, Goto, Fits, InsertStates, RemoveStates
  <2>2. Forward(r, next') /\ Backward(r, prev') /\ next' \in Links /\ prev' \in Links
    BY <1>t, <1>o, <2>1
  <2>3. PointerTypes' /\ \A v \in Workers \ {w} : seen'[v] = seen[v]
    BY <1>t, <1>p, <2>1, <2>2 DEF PointerTypes
  <2>4. CallTo(w, "retreat", "clear", "post")
    BY <1>t, <2>1, <2>3, CallStates DEF CallTo, Fits, InsertStates, RemoveStates
  <2>5. Untailed(wpc[w], "retreat") <=> Untailed("post", "clear")
    BY <2>1 DEF Untailed
  <2>6. Holds(r, w, "clear")
    BY DEF Holds
  <2>7. tail' # NULL => tail' \in BeenTail
    BY <1>t, <1>o, <1>b, <2>1 DEF Before
  <2> QED
    BY <1>r, <2>2, <2>3, <2>4, <2>5, <2>6, <2>7, CallOrder
<1>11. CASE ClearElem(w)
  <2>1. /\ Goto(w, "clear", "out")
        /\ UNCHANGED <<main, created, sched, elt, count>>
        /\ next' = [next EXCEPT ![w] = NULL] /\ prev' = [prev EXCEPT ![w] = NULL]
        /\ UNCHANGED <<head, tail, seen>>
        /\ wpc[w] = "post" /\ wpc' = [wpc EXCEPT ![w] = "post"]
    BY <1>11, <1>t DEF ClearElem, Goto, Fits, InsertStates, RemoveStates
  <2>2. Forward(r, next') /\ Backward(r, prev') /\ next' \in Links /\ prev' \in Links
    BY <1>t, <1>o, <2>1, SetForward, SetBackward
  <2>3. PointerTypes' /\ \A v \in Workers \ {w} : seen'[v] = seen[v]
    BY <1>t, <1>p, <2>1, <2>2 DEF PointerTypes
  <2>4. CallTo(w, "clear", "out", "post")
    BY <1>t, <2>1, <2>3, CallStates DEF CallTo, Fits, InsertStates, RemoveStates
  <2>5. Untailed(wpc[w], "clear") <=> Untailed("post", "out")
    BY <2>1 DEF Untailed
  <2>6. Holds(r, w, "out")
    BY DEF Holds
  <2>7. tail' # NULL => tail' \in BeenTail
    BY <1>o, <2>1
  <2> QED
    BY <1>r, <2>2, <2>3, <2>4, <2>5, <2>6, <2>7, CallOrder
<1> QED
  BY <1>1, <1>2, <1>3, <1>4, <1>5, <1>6, <1>7, <1>8, <1>9, <1>10, <1>11


\* Every step keeps the order.
LEMMA NextHeapInv == HeapInv /\ [Next]_vars => HeapInv'
<1> SUFFICES ASSUME HeapInv, [Next]_vars PROVE HeapInv'
  OBVIOUS
<1>1. CASE Main \/ SchedProc
  BY <1>1, OthersMove, OutsideHeapInv
<1>2. ASSUME NEW w \in Workers, OutsideList(w) PROVE HeapInv'
  <2>1. UNCHANGED <<callVars, walkVars>> /\ UNCHANGED <<main, sched, created>>
    BY <1>2, OutsideMoves
  <2>2. WalkKept
    BY <2>1, WalkStands
  <2> QED
    BY <1>2, <2>1, <2>2, OutsideHeapInv
<1>3. CASE UNCHANGED vars \/ (UNCHANGED <<callVars, walkVars>> /\ C!Terminated)
  <2>1. UNCHANGED <<callVars, walkVars>> /\ UNCHANGED <<main, sched, wpc, created>>
    BY <1>3 DEF C!Terminated
  <2>2. WalkKept
    BY <2>1, WalkStands
  <2> QED
    BY <2>1, <2>2, OutsideHeapInv
<1>4. ASSUME NEW w \in Workers, ListCall(w) PROVE HeapInv'
  BY <1>4, InsertHeapInv, RemoveHeapInv DEF ListCall, Insertion, Removal
<1> QED
  BY <1>1, <1>2, <1>3, <1>4 DEF Next, Worker

\* It holds in every reachable state, whatever races there have been.
THEOREM HeapInvariance == Spec => []HeapInv
BY InitHeapInv, NextHeapInv, PTL DEF Spec

\* list_size returns on whatever list the races leave, and whatever is stored
\* while it walks (list.c:11-18): no walk goes in a circle.
THEOREM WalksEnd == Spec => []WalkEnds
<1>1. ASSUME HeapInv PROVE WalkEnds
  <2>1. PICK r : Ordered(r, BeenTail, tail, next, prev, Ahead, Behind, CountedLast, count)
    BY <1>1 DEF HeapInv, Order
  <2>2. CASE InListSize
    <3>1. CountedLast = elt
      BY <2>2 DEF CountedLast
    <3>2. elt \in Workers \cup {NULL} /\ count \in Nat /\ (elt = NULL => count = 0)
      BY <1>1, <2>2 DEF HeapInv, ListTypes, WalkTypes
    <3>3. Ordered(r, BeenTail, tail, next, prev, Ahead, Behind, elt, count)
      BY <2>1, <3>1
    <3> QED
      BY <3>2, <3>3, OrderEnds DEF WalkEnds
  <2> QED
    BY <2>2 DEF WalkEnds
<1> QED
  BY <1>1, HeapInvariance, PTL

-----------------------------------------------------------------------------
(* What a call of list.c finds and leaves.                                 *)

\* The pointers pv lead back.
Mirrored(s, pv) == \A k \in 1 .. Len(s) : pv[s[k]] = At(s, k - 1)

\* The list outside of a call.
Neat(s, tl, pv) == tl = At(s, Len(s)) /\ Mirrored(s, pv)

\* w has left its place before the i-th element of s, which does not know yet.
LeftPlace(i, s, w, tl, pv, nx) ==
  /\ pv[w] = At(s, i - 1) /\ nx[w] = At(s, i)
  /\ tl = IF i = Len(s) + 1 THEN w ELSE At(s, Len(s))
  /\ \A k \in 1 .. Len(s) : pv[s[k]] = IF k = i THEN w ELSE At(s, k - 1)

\* What w finds at the point a of list.c, alone there.
Inside(a, s, w, tl, pv, nx, sn) ==
  /\ a \in {"out", "first_tail", "set_prev", "test_head", "read_next", "unlink", "clear"}
       => Neat(s, tl, pv)
  /\ a \in {"first_tail", "read_back", "first_head"} => s = <<>>
  /\ a \in {"read_back", "first_head"} => tl = w /\ pv[w] = NULL /\ nx[w] = NULL
  /\ a = "first_head" => sn[w] = w
  /\ a \in {"set_prev", "retest_tail", "read_tail", "link", "clear_next", "new_tail"}
       => s # <<>>
  /\ a \in {"retest_tail", "read_tail", "link"} => Neat(s, tl, pv) /\ pv[w] = tl
  /\ a = "link" => sn[w] = tl
  /\ a \in {"clear_next", "new_tail"} => At(s, Len(s)) = w /\ Mirrored(s, pv)
  /\ a = "test_head" => pv[w] = NULL
  /\ a = "unlink" => sn[w] = nx[w]
  /\ a \in {"test_next", "reread_next", "link_back", "test_last"} =>
       \E i \in 1 .. Len(s) + 1 : LeftPlace(i, s, w, tl, pv, nx)
  /\ a \in {"reread_next", "link_back"} => nx[w] # NULL
  /\ a = "link_back" => sn[w] = nx[w]
  /\ a = "test_last" => nx[w] = NULL
  /\ a = "retreat" => tl = w /\ pv[w] = At(s, Len(s)) /\ Mirrored(s, pv)

In(s, w) == \E k \in 1 .. Len(s) : s[k] = w

\* The elements of s are those whose workers are in the queue.
Members(s, pcs) == \A w \in Workers : In(s, w) <=> pcs[w] \in C!LinkedStates

ShapeOf(s, h, tl, nx, pv, sn, a, pcs) ==
  /\ Chain(s, h, nx) /\ Members(s, pcs)
  /\ \A u, v \in Workers : a[u] # "out" /\ a[v] # "out" => u = v
  /\ \A w \in Workers : (\A u \in Workers \ {w} : a[u] = "out") =>
       Inside(a[w], s, w, tl, pv, nx, sn)

Shape == raced \/ ShapeOf(Linked, head, tail, next, prev, seen, at, wpc)

\* Pointers of an element that is not linked do not matter.
LEMMA Elsewhere ==
  ASSUME NEW s \in Seq(Workers), NEW w \in Workers, ~ In(s, w), NEW y,
         NEW nx \in Links, NEW pv \in Links
  PROVE  /\ \A h : Chain(s, h, nx) => Chain(s, h, [nx EXCEPT ![w] = y])
         /\ Mirrored(s, pv) => Mirrored(s, [pv EXCEPT ![w] = y])
<1> DEFINE ny == [nx EXCEPT ![w] = y]
           pw == [pv EXCEPT ![w] = y]
<1>1. \A k \in 1 .. Len(s) : s[k] \in Workers /\ s[k] # w
  BY ElementOfSeq DEF In
<1>2. \A x \in Workers : x # w => ny[x] = nx[x] /\ pw[x] = pv[x]
  BY DEF Links
<1> HIDE DEF ny, pw
<1>3. \A k \in 1 .. Len(s) : ny[s[k]] = nx[s[k]] /\ pw[s[k]] = pv[s[k]]
  BY <1>1, <1>2
<1>4. ASSUME NEW h, Chain(s, h, nx) PROVE Chain(s, h, ny)
  BY <1>3, <1>4 DEF Chain
<1>5. Mirrored(s, pv) => Mirrored(s, pw)
  BY <1>3 DEF Mirrored
<1> QED
  BY <1>4, <1>5 DEF ny, pw

\* What w finds.
Found(w, from) ==
  /\ ~ raced /\ at[w] = from /\ \A u \in Workers \ {w} : at[u] = "out"
  /\ Chain(Linked, head, next) /\ Members(Linked, wpc)
  /\ Inside(from, Linked, w, tail, prev, next, seen)

\* What a worker finds that goes on inside a call without a race.
LEMMA Finds ==
  ASSUME Shape, NEW w \in Workers, NEW from, NEW to, Goto(w, from, to), ~ raced'
  PROVE  Found(w, from)
<1>1. ~ raced /\ at[w] = from /\ \A u \in Workers \ {w} : at[u] = "out"
  BY DEF Goto
<1> QED
  BY <1>1 DEF Shape, ShapeOf, Found

\* What w leaves: the list t.
Left(w, to, t) ==
  /\ Chain(t, head', next') /\ Members(t, wpc')
  /\ Inside(to, t, w, tail', prev', next', seen')

\* What it leaves, if the elements are linked the way it needs them next.
LEMMA Leaves ==
  ASSUME HeapInv, NEW w \in Workers, NEW from,
         NEW to \in {"out"} \cup InsertStates \cup RemoveStates,
         Goto(w, from, to), ~ raced', next' \in Links, NEW t, Left(w, to, t)
  PROVE  Shape' /\ Linked' = t
<1>1. at'[w] = to /\ \A u \in Workers \ {w} : at[u] = "out" /\ at'[u] = "out"
  BY CallMoves DEF Goto
<1>2. Linked' = t
  BY LinkedIsMet, ChainMet DEF Left
<1>3. ASSUME NEW v \in Workers, \A u \in Workers \ {v} : at'[u] = "out"
      PROVE  Inside(at'[v], t, v, tail', prev', next', seen')
  <2>1. CASE v = w
    BY <1>1, <2>1 DEF Left
  <2>2. CASE v # w
    <3>1. at'[v] = "out" /\ to = "out"
      BY <1>1, <1>3, <2>2
    <3>2. Inside("out", t, w, tail', prev', next', seen')
      BY <3>1 DEF Left
    <3>3. Neat(t, tail', prev')
      BY <3>2 DEF Inside
    <3> QED
      BY <3>1, <3>3 DEF Inside
  <2> QED
    BY <2>1, <2>2
<1>4. ShapeOf(t, head', tail', next', prev', seen', at', wpc')
  BY <1>1, <1>3 DEF ShapeOf, Left
<1> QED
  BY <1>2, <1>4 DEF Shape

\* The list of the scheduler's model does not change.
Silent == Linked' = Linked /\ UNCHANGED <<others, wpc>>

\* A step that leaves the list and the rest alone is none of Scheduler's.
LEMMA SilentStutters == Silent => UNCHANGED C!vars
BY DEF Silent

\* An element that has not been the tail points nowhere.
LEMMA FreshNext ==
  ASSUME HeapInv, NEW w \in Workers, Untailed(wpc[w], at[w])
  PROVE  next[w] = NULL
<1>1. PICK r : Ordered(r, BeenTail, tail, next, prev, Ahead, Behind, CountedLast, count)
  BY DEF HeapInv, Order
<1>2. w \notin BeenTail
  BY DEF BeenTail
<1>3. ~ (r[w] > 0) /\ Forward(r, next)
  BY <1>1, <1>2 DEF Ordered
<1> QED
  BY <1>3 DEF Forward, Before

\* What is known of the pointers and program counters.
LEMMA Pointers ==
  ASSUME HeapInv, NEW w \in Workers
  PROVE  /\ head \in Workers \cup {NULL} /\ tail \in Workers \cup {NULL}
         /\ prev \in Links /\ next \in Links /\ seen \in Links
         /\ wpc \in [Workers -> C!WorkerStates]
         /\ at[w] \in {"first_tail", "read_back", "first_head", "set_prev", "retest_tail",
                       "read_tail", "link"} => wpc[w] = "insert"
         /\ at[w] \in {"clear_next", "new_tail"} => wpc[w] \in {"insert", "announce"}
         /\ at[w] \in {"test_head", "read_next", "unlink"} => wpc[w] = "remove"
         /\ at[w] \in {"test_next", "reread_next", "link_back", "test_last", "retreat",
                       "clear"} => wpc[w] = "post"
BY DEF HeapInv, ListTypes, PointerTypes, Calls, Fits, InsertStates, RemoveStates

\* What a worker that inserts or removes is to the scheduler's model.
LEMMA LinkedStatesAre ==
  /\ "insert" \notin C!LinkedStates /\ "post" \notin C!LinkedStates
  /\ "announce" \in C!LinkedStates /\ "remove" \in C!LinkedStates
BY DEF C!LinkedStates

\* The last element of a list.
LEMMA LastAt ==
  ASSUME NEW s \in Seq(Workers)
  PROVE  /\ Len(s) \in Nat
         /\ s = <<>> <=> At(s, Len(s)) = NULL
         /\ s = <<>> <=> Len(s) = 0
         /\ s # <<>> => /\ Len(s) \in 1 .. Len(s) /\ At(s, Len(s)) = s[Len(s)]
                        /\ At(s, Len(s)) \in Workers /\ In(s, At(s, Len(s)))
<1>1. Len(s) \in Nat /\ (s = <<>> <=> Len(s) = 0)
  BY LenProperties, EmptySeq
<1>2. CASE s = <<>>
  BY <1>1, <1>2 DEF At
<1>3. CASE s # <<>>
  <2>1. Len(s) \in 1 .. Len(s)
    BY <1>1, <1>3
  <2>2. s[Len(s)] \in Workers
    BY <2>1, ElementOfSeq
  <2> QED
    BY <1>1, <1>3, <2>1, <2>2 DEF At, In, Workers, NULL
<1> QED
  BY <1>2, <1>3

\* A step that loads or tests pointers, and what it knows then.
LEMMA ReadShape ==
  ASSUME HeapInv, Shape, NEW w \in Workers, NEW from,
         NEW to \in {"out"} \cup InsertStates \cup RemoveStates,
         Goto(w, from, to), ~ raced', UNCHANGED <<others, wpc, head, tail, prev, next>>,
         Found(w, from) => Inside(to, Linked, w, tail, prev, next, seen')
  PROVE  Shape' /\ Silent
<1>1. Found(w, from)
  BY Finds
<1>2. Left(w, to, Linked)
  BY <1>1 DEF Found, Left
<1>3. next' \in Links
  BY Pointers
<1>4. Shape' /\ Linked' = Linked
  BY <1>2, <1>3, Leaves
<1> QED
  BY <1>4 DEF Silent

\* What w finds of the whole list.
LEMMA FoundList ==
  ASSUME NEW w \in Workers, NEW from, Found(w, from)
  PROVE  /\ at[w] = from /\ Chain(Linked, head, next) /\ Members(Linked, wpc)
         /\ Linked \in Seq(Workers) /\ Len(Linked) \in Nat
         /\ Inside(from, Linked, w, tail, prev, next, seen)
         /\ Neat(Linked, tail, prev) => (Linked = <<>> <=> tail = NULL)
BY LastAt DEF Found, Chain, Neat

\* The tests and loads of list_insert_tail.
LEMMA InsertReadShape ==
  ASSUME HeapInv, Shape, NEW w \in Workers, ~ raced',
         TestTail(w) \/ ReadBack(w) \/ RetestTail(w) \/ ReadTail(w)
  PROVE  Shape' /\ Silent
<1>s. seen \in Links /\ tail \in Workers \cup {NULL}
  BY Pointers
<1>1. CASE TestTail(w)
  <2> DEFINE to == IF tail = NULL THEN "first_tail" ELSE "set_prev"
  <2>1. Goto(w, "out", to) /\ UNCHANGED <<others, wpc, head, tail, prev, next, seen>>
    BY <1>1 DEF TestTail
  <2>2. Found(w, "out") => Inside(to, Linked, w, tail, prev, next, seen')
    BY <2>1, FoundList DEF Inside
  <2>3. to \in {"out"} \cup InsertStates \cup RemoveStates
    BY DEF InsertStates
  <2> HIDE DEF to
  <2> QED
    BY <2>1, <2>2, <2>3, ReadShape
<1>2. CASE ReadBack(w)
  <2>1. PICK p \in {w, tail} : seen' = [seen EXCEPT ![w] = p]
    BY <1>2 DEF ReadBack
  <2>2. /\ Goto(w, "read_back", "first_head")
        /\ UNCHANGED <<others, wpc, head, tail, prev, next>>
    BY <1>2 DEF ReadBack
  <2>3. seen'[w] = p
    BY <1>s, <2>1 DEF Links
  <2>4. Found(w, "read_back") => Inside("first_head", Linked, w, tail, prev, next, seen')
    BY <2>3, FoundList DEF Inside
  <2> QED
    BY <2>2, <2>4, ReadShape DEF InsertStates
<1>3. CASE RetestTail(w)
  <2>1. /\ Goto(w, "retest_tail", IF tail = NULL THEN "clear_next" ELSE "read_tail")
        /\ UNCHANGED <<others, wpc, head, tail, prev, next, seen>>
    BY <1>3 DEF RetestTail
  <2>2. Found(w, "retest_tail")
    BY <2>1, Finds
  <2>3. tail # NULL
    BY <2>2, FoundList DEF Inside
  <2>4. Found(w, "retest_tail") => Inside("read_tail", Linked, w, tail, prev, next, seen')
    BY <2>1, FoundList DEF Inside
  <2> QED
    BY <2>1, <2>3, <2>4, ReadShape DEF InsertStates
<1>4. CASE ReadTail(w)
  <2>1. /\ Goto(w, "read_tail", "link") /\ seen' = [seen EXCEPT ![w] = tail]
        /\ UNCHANGED <<others, wpc, head, tail, prev, next>>
    BY <1>4 DEF ReadTail
  <2>2. seen'[w] = tail
    BY <1>s, <2>1 DEF Links
  <2>3. Found(w, "read_tail") => Inside("link", Linked, w, tail, prev, next, seen')
    BY <2>2, FoundList DEF Inside
  <2> QED
    BY <2>1, <2>3, ReadShape DEF InsertStates
<1> QED
  BY <1>1, <1>2, <1>3, <1>4

\* A call of list_insert_tail that starts on an empty list.
LEMMA FirstShape ==
  ASSUME HeapInv, Shape, NEW w \in Workers, ~ raced', FirstTail(w) \/ FirstHead(w)
  PROVE  Shape' /\ (Silent \/ C!InsertTail(w))
<1> DEFINE s == Linked
<1>n. <<>> \in Seq(Workers) /\ Len(<<>>) = 0
  OBVIOUS
<1>e. \A h : Chain(<<>>, h, next) => h = NULL
  BY <1>n DEF Chain, At
<1>1. CASE FirstTail(w)
  <2>1. /\ Goto(w, "first_tail", "read_back") /\ tail' = w
        /\ next' = [next EXCEPT ![w] = NULL] /\ prev' = [prev EXCEPT ![w] = NULL]
        /\ UNCHANGED <<others, wpc, head, seen>>
    BY <1>1 DEF FirstTail
  <2>2. Found(w, "first_tail")
    BY <2>1, Finds
  <2>3. s = <<>> /\ Chain(<<>>, head, next) /\ Members(<<>>, wpc)
    BY <2>2 DEF Found, Inside
  <2>4. prev'[w] = NULL /\ next'[w] = NULL /\ next' \in Links
    BY <2>1, Pointers DEF Links
  <2>5. Chain(<<>>, head', next')
    BY <1>n, <1>e, <2>1, <2>3 DEF Chain, At
  <2>6. Left(w, "read_back", <<>>)
    BY <2>1, <2>3, <2>4, <2>5 DEF Left, Inside
  <2>7. Shape' /\ Linked' = <<>>
    BY <2>1, <2>4, <2>6, Leaves DEF InsertStates
  <2> QED
    BY <2>1, <2>3, <2>7 DEF Silent
<1>2. CASE FirstHead(w)
  <2>1. /\ Goto(w, "first_head", "out") /\ head' = seen[w] /\ Linking(w)
        /\ UNCHANGED <<others, tail, prev, next, seen>>
    BY <1>2 DEF FirstHead
  <2>2. Found(w, "first_head")
    BY <2>1, Finds
  <2>3. /\ s = <<>> /\ Members(<<>>, wpc) /\ tail = w /\ prev[w] = NULL /\ next[w] = NULL
        /\ seen[w] = w /\ at[w] = "first_head"
    BY <2>2 DEF Found, Inside
  <2>4. head' = w /\ Chain(<<w>>, head', next')
    BY <2>1, <2>3, ChainFirst
  <2>5. \A v \in Workers : In(<<w>>, v) <=> v = w
    BY DEF In
  <2>6. \A v \in Workers : ~ In(<<>>, v)
    BY <1>n DEF In
  <2>7. Members(<<w>>, wpc')
    BY <2>1, <2>3, <2>5, <2>6, Pointers, LinkedStatesAre DEF Members, Linking
  <2>8. Neat(<<w>>, tail', prev')
    BY <2>1, <2>3 DEF Neat, Mirrored, At
  <2>9. Left(w, "out", <<w>>)
    BY <2>4, <2>7, <2>8 DEF Left, Inside
  <2>10. next' \in Links
    BY <2>1, Pointers
  <2>11. Shape' /\ Linked' = <<w>>
    BY <2>1, <2>9, <2>10, Leaves
  <2>12. Linked' = Append(Linked, w)
    BY <2>3, <2>11
  <2>13. wpc[w] = "insert"
    BY <2>3, Pointers
  <2> QED
    BY <2>1, <2>11, <2>12, <2>13 DEF C!InsertTail, C!WorkerStep, Linking, Goto, C!Alive
<1> QED
  BY <1>1, <1>2

\* The element is not linked yet: its pointers may be set.
LEMMA SetPrevShape ==
  ASSUME HeapInv, Shape, NEW w \in Workers, ~ raced', SetPrev(w)
  PROVE  Shape' /\ Silent
<1> DEFINE s == Linked
<1>1. /\ Goto(w, "set_prev", "retest_tail") /\ prev' = [prev EXCEPT ![w] = tail]
      /\ UNCHANGED <<others, wpc, head, tail, next, seen>>
  BY DEF SetPrev
<1>2. Found(w, "set_prev")
  BY <1>1, Finds
<1>3. /\ Chain(s, head, next) /\ Members(s, wpc) /\ s # <<>> /\ Neat(s, tail, prev)
      /\ at[w] = "set_prev"
  BY <1>2 DEF Found, Inside
<1>4. ~ In(s, w) /\ s \in Seq(Workers)
  BY <1>3, Pointers, LinkedStatesAre DEF Members, Chain
<1>5. prev'[w] = tail /\ prev \in Links /\ next \in Links
  BY <1>1, Pointers DEF Links
<1> HIDE DEF s
<1>6. Mirrored(s, prev')
  BY <1>1, <1>3, <1>4, <1>5, Elsewhere DEF Neat
<1>7. Inside("retest_tail", s, w, tail, prev', next, seen)
  BY <1>3, <1>5, <1>6 DEF Inside, Neat
<1>8. Left(w, "retest_tail", s)
  BY <1>1, <1>3, <1>7 DEF Left
<1>9. Shape' /\ Linked' = s
  BY <1>1, <1>5, <1>8, Leaves DEF InsertStates
<1> QED
  BY <1>1, <1>9 DEF Silent, s

\* That store.
LEMMA LinkShape ==
  ASSUME HeapInv, Shape, NEW w \in Workers, ~ raced', LinkBehind(w)
  PROVE  Shape' /\ C!InsertTail(w)
<1> DEFINE s == Linked
           t == Append(s, w)
<1>1. Goto(w, "link", "clear_next") /\ Linking(w) /\ at[w] = "link"
      /\ UNCHANGED <<head, tail, prev, seen>>
  BY DEF LinkBehind, Goto
<1>2. Found(w, "link")
  BY <1>1, Finds
<1>3. /\ Chain(s, head, next) /\ Members(s, wpc) /\ s # <<>>
      /\ Neat(s, tail, prev) /\ prev[w] = tail /\ seen[w] = tail
  BY <1>2 DEF Found, Inside
<1>4. s \in Seq(Workers) /\ tail # NULL /\ tail = At(s, Len(s)) /\ tail \in Workers
  BY <1>3, LastAt DEF Chain, Neat
<1>5. next' = [next EXCEPT ![tail] = w] /\ UNCHANGED others
  BY <1>3, <1>4 DEF LinkBehind
<1>6. wpc[w] = "insert" /\ next \in Links /\ prev \in Links /\ wpc \in [Workers -> C!WorkerStates]
  BY <1>1, Pointers
<1>7. next[w] = NULL
  BY <1>1, <1>6, FreshNext DEF Untailed
<1>8. ~ In(s, w)
  BY <1>3, <1>6, LinkedStatesAre DEF Members
<1> HIDE DEF s
<1>9. Chain(t, head', next')
  <2>1. \A k \in 1 .. Len(s) : s[k] # w
    BY <1>8 DEF In
  <2> QED
    BY <1>1, <1>3, <1>4, <1>5, <1>6, <1>7, <2>1, ChainAppend
<1>10. next' \in Links
  BY <1>4, <1>5, <1>6 DEF Links
<1>11. /\ Len(s) \in Nat /\ Len(t) = Len(s) + 1
       /\ (\A k \in 1 .. Len(s) : t[k] = s[k]) /\ t[Len(s) + 1] = w
       /\ t # <<>>
  BY <1>4, AppendProperties, LenProperties
<1> HIDE DEF t
<1>12. \A v \in Workers : In(t, v) <=> In(s, v) \/ v = w
  <2> TAKE v \in Workers
  <2>1. ASSUME NEW k \in 1 .. Len(s) + 1, t[k] = v PROVE In(s, v) \/ v = w
    <3>1. CASE k = Len(s) + 1
      BY <1>11, <2>1, <3>1
    <3>2. CASE k # Len(s) + 1
      <4>1. k \in 1 .. Len(s)
        BY <1>11, <3>2
      <4> QED
        BY <1>11, <2>1, <4>1 DEF In
    <3> QED
      BY <3>1, <3>2
  <2>2. ASSUME NEW k \in 1 .. Len(s), s[k] = v PROVE In(t, v)
    <3>1. k \in 1 .. Len(t) /\ t[k] = v
      BY <1>11, <2>2
    <3> QED
      BY <3>1 DEF In
  <2>3. In(t, w)
    <3>1. Len(s) + 1 \in 1 .. Len(t)
      BY <1>11
    <3> QED
      BY <1>11, <3>1 DEF In
  <2> QED
    BY <1>11, <2>1, <2>2, <2>3 DEF In
<1>13. Members(t, wpc')
  BY <1>1, <1>3, <1>6, <1>12, LinkedStatesAre DEF Members, Linking
<1>14. Mirrored(t, prev)
  <2> SUFFICES ASSUME NEW k \in 1 .. Len(t) PROVE prev[t[k]] = At(t, k - 1)
    BY DEF Mirrored
  <2>1. CASE k \in 1 .. Len(s)
    <3>1. prev[t[k]] = At(s, k - 1)
      BY <1>3, <1>11, <2>1 DEF Neat, Mirrored
    <3>2. k - 1 \in 1 .. Len(s) <=> k - 1 \in 1 .. Len(t)
      BY <1>11, <2>1
    <3> QED
      BY <1>11, <3>1, <3>2 DEF At
  <2>2. CASE k \notin 1 .. Len(s)
    <3>1. k = Len(s) + 1 /\ k - 1 = Len(s)
      BY <1>11, <2>2
    <3>2. Len(s) \in 1 .. Len(s) /\ Len(s) \in 1 .. Len(t)
      BY <1>3, <1>4, <1>11, LastAt
    <3> QED
      BY <1>3, <1>4, <1>11, <3>1, <3>2 DEF At
  <2> QED
    BY <2>1, <2>2
<1>15. At(t, Len(t)) = w
  <2>1. Len(s) + 1 \in 1 .. Len(t)
    BY <1>11
  <2> QED
    BY <1>11, <2>1 DEF At
<1>16. Inside("clear_next", t, w, tail', prev', next', seen')
  BY <1>1, <1>11, <1>14, <1>15 DEF Inside
<1>17. Left(w, "clear_next", t)
  BY <1>9, <1>13, <1>16 DEF Left
<1>18. Shape' /\ Linked' = t
  BY <1>1, <1>10, <1>17, Leaves DEF InsertStates
<1>19. Linked' = Append(Linked, w)
  BY <1>18 DEF s, t
<1> QED
  BY <1>1, <1>5, <1>6, <1>18, <1>19 DEF C!InsertTail, C!WorkerStep, Linking, Goto, C!Alive

\* The rest of the call.
LEMMA TailShape ==
  ASSUME HeapInv, Shape, NEW w \in Workers, ~ raced', ClearNext(w) \/ NewTail(w)
  PROVE  Shape' /\ Silent
<1> DEFINE s == Linked
<1>1. ASSUME NEW a \in {"clear_next", "new_tail"}, Found(w, a)
      PROVE  /\ Chain(s, head, next) /\ Members(s, wpc) /\ s # <<>>
             /\ At(s, Len(s)) = w /\ Mirrored(s, prev)
             /\ next[w] = NULL /\ wpc[w] = "announce"
  <2>1. /\ Chain(s, head, next) /\ Members(s, wpc) /\ s # <<>>
        /\ At(s, Len(s)) = w /\ Mirrored(s, prev) /\ at[w] = a
    BY <1>1 DEF Found, Inside
  <2>2. /\ s \in Seq(Workers) /\ Len(s) \in 1 .. Len(s) /\ s[Len(s)] = w
        /\ In(s, w) /\ Len(s) \in Nat
    BY <2>1, LastAt DEF Chain
  <2>3. next[w] = At(s, Len(s) + 1)
    BY <2>1, <2>2 DEF Chain
  <2>4. Len(s) + 1 \notin 1 .. Len(s)
    BY <2>2
  <2>5. wpc[w] \in C!LinkedStates
    BY <2>1, <2>2 DEF Members
  <2> QED
    BY <2>1, <2>3, <2>4, <2>5, Pointers, LinkedStatesAre DEF At
<1>2. CASE ClearNext(w)
  <2>1. /\ Goto(w, "clear_next", "new_tail") /\ next' = [next EXCEPT ![w] = NULL]
        /\ UNCHANGED <<others, wpc, head, tail, prev, seen>>
    BY <1>2 DEF ClearNext
  <2>2. Found(w, "clear_next")
    BY <2>1, Finds
  <2>3. /\ Chain(s, head, next) /\ Members(s, wpc) /\ s # <<>>
        /\ At(s, Len(s)) = w /\ Mirrored(s, prev) /\ next[w] = NULL
    BY <1>1, <2>2
  <2>4. next' = next /\ next \in Links
    BY <2>1, <2>3, Pointers DEF Links
  <2>5. Left(w, "new_tail", s)
    BY <2>1, <2>3, <2>4 DEF Left, Inside
  <2> HIDE DEF s
  <2>6. Shape' /\ Linked' = s
    BY <2>1, <2>4, <2>5, Leaves DEF InsertStates
  <2> QED
    BY <2>1, <2>6 DEF Silent, s
<1>3. CASE NewTail(w)
  <2>1. /\ Goto(w, "new_tail", "out") /\ tail' = w /\ Linking(w)
        /\ UNCHANGED <<others, head, prev, next, seen>>
    BY <1>3 DEF NewTail
  <2>2. Found(w, "new_tail")
    BY <2>1, Finds
  <2>3. /\ Chain(s, head, next) /\ Members(s, wpc) /\ s # <<>>
        /\ At(s, Len(s)) = w /\ Mirrored(s, prev) /\ wpc[w] = "announce"
    BY <1>1, <2>2
  <2>4. wpc' = wpc /\ next' \in Links
    BY <2>1, <2>3, Pointers DEF Linking
  <2>5. Left(w, "out", s)
    BY <2>1, <2>3, <2>4 DEF Left, Inside, Neat
  <2> HIDE DEF s
  <2>6. Shape' /\ Linked' = s
    BY <2>1, <2>4, <2>5, Leaves
  <2> QED
    BY <2>1, <2>4, <2>6 DEF Silent, s
<1> QED
  BY <1>2, <1>3

\* The tests and loads of list_remove_elem.
LEMMA RemoveReadShape ==
  ASSUME HeapInv, Shape, NEW w \in Workers, ~ raced',
         \/ TestPrev(w) \/ TestHead(w) \/ NotHead(w) \/ ReadNext(w)
         \/ TestNext(w) \/ RereadNext(w) \/ TestLast(w)
  PROVE  Shape' /\ Silent
<1>s. seen \in Links
  BY Pointers
<1>1. CASE TestPrev(w)
  <2> DEFINE to == IF prev[w] # NULL THEN "read_next" ELSE "test_head"
  <2>1. Goto(w, "out", to) /\ UNCHANGED <<others, wpc, head, tail, prev, next, seen>>
    BY <1>1 DEF TestPrev
  <2>2. Found(w, "out") => Inside(to, Linked, w, tail, prev, next, seen')
    BY <2>1, FoundList DEF Inside
  <2>3. to \in {"out"} \cup InsertStates \cup RemoveStates
    BY DEF RemoveStates
  <2> HIDE DEF to
  <2> QED
    BY <2>1, <2>2, <2>3, ReadShape
<1>2. CASE TestHead(w)
  <2>1. /\ Goto(w, "test_head", "read_next")
        /\ UNCHANGED <<others, wpc, head, tail, prev, next, seen>>
    BY <1>2 DEF TestHead
  <2>2. Found(w, "test_head") => Inside("read_next", Linked, w, tail, prev, next, seen')
    BY <2>1, FoundList DEF Inside
  <2> QED
    BY <2>1, <2>2, ReadShape DEF RemoveStates
<1>3. CASE NotHead(w)
  <2>1. Goto(w, "test_head", "test_next") /\ head # w /\ at[w] = "test_head"
    BY <1>3 DEF NotHead, Goto
  <2>2. Found(w, "test_head")
    BY <2>1, Finds
  <2> DEFINE s == Linked
  <2>3. /\ Chain(s, head, next) /\ Members(s, wpc) /\ Neat(s, tail, prev) /\ prev[w] = NULL
        /\ s \in Seq(Workers) /\ Len(s) \in Nat
    BY <2>2, FoundList DEF Inside
  <2>4. In(s, w)
    BY <2>1, <2>3, Pointers, LinkedStatesAre DEF Members
  <2> HIDE DEF s
  <2>5. PICK k \in 1 .. Len(s) : s[k] = w
    BY <2>4 DEF In
  <2>6. prev[w] = At(s, k - 1) /\ head = At(s, 1)
    BY <2>3, <2>5 DEF Neat, Mirrored, Chain
  <2>7. k = 1
    <3> SUFFICES ASSUME k # 1 PROVE FALSE
      OBVIOUS
    <3>1. k - 1 \in 1 .. Len(s)
      BY <2>3
    <3>2. At(s, k - 1) \in Workers
      BY <2>3, <3>1, ElementOfSeq DEF At
    <3> QED
      BY <2>3, <2>6, <3>2 DEF Workers, NULL
  <2>8. head = w
    BY <2>3, <2>5, <2>6, <2>7 DEF At
  <2> QED
    BY <2>1, <2>8
<1>4. CASE ReadNext(w)
  <2>1. /\ Goto(w, "read_next", "unlink") /\ seen' = [seen EXCEPT ![w] = next[w]]
        /\ UNCHANGED <<others, wpc, head, tail, prev, next>>
    BY <1>4 DEF ReadNext
  <2>2. seen'[w] = next[w]
    BY <1>s, <2>1 DEF Links
  <2>3. Found(w, "read_next") => Inside("unlink", Linked, w, tail, prev, next, seen')
    BY <2>2, FoundList DEF Inside
  <2> QED
    BY <2>1, <2>3, ReadShape DEF RemoveStates
<1>5. CASE TestNext(w)
  <2> DEFINE to == IF next[w] # NULL THEN "reread_next" ELSE "test_last"
  <2>1. Goto(w, "test_next", to) /\ UNCHANGED <<others, wpc, head, tail, prev, next, seen>>
    BY <1>5 DEF TestNext
  <2>2. Found(w, "test_next") => Inside(to, Linked, w, tail, prev, next, seen')
    BY <2>1, FoundList DEF Inside
  <2>3. to \in {"out"} \cup InsertStates \cup RemoveStates
    BY DEF RemoveStates
  <2> HIDE DEF to
  <2> QED
    BY <2>1, <2>2, <2>3, ReadShape
<1>6. CASE RereadNext(w)
  <2>1. /\ Goto(w, "reread_next", "link_back") /\ seen' = [seen EXCEPT ![w] = next[w]]
        /\ UNCHANGED <<others, wpc, head, tail, prev, next>>
    BY <1>6 DEF RereadNext
  <2>2. seen'[w] = next[w]
    BY <1>s, <2>1 DEF Links
  <2>3. Found(w, "reread_next") => Inside("link_back", Linked, w, tail, prev, next, seen')
    BY <2>2, FoundList DEF Inside
  <2> QED
    BY <2>1, <2>3, ReadShape DEF RemoveStates
<1>7. CASE TestLast(w)
  <2> DEFINE to == IF tail = w THEN "retreat" ELSE "clear"
  <2>1. Goto(w, "test_last", to) /\ UNCHANGED <<others, wpc, head, tail, prev, next, seen>>
    BY <1>7 DEF TestLast
  <2>2. ASSUME Found(w, "test_last") PROVE Inside(to, Linked, w, tail, prev, next, seen')
    <3> DEFINE s == Linked
    <3>1. /\ s \in Seq(Workers) /\ Len(s) \in Nat /\ next[w] = NULL
          /\ Members(s, wpc) /\ at[w] = "test_last"
          /\ \E i \in 1 .. Len(s) + 1 : LeftPlace(i, s, w, tail, prev, next)
      BY <2>2, FoundList DEF Inside
    <3> HIDE DEF s
    <3>2. PICK i \in 1 .. Len(s) + 1 : LeftPlace(i, s, w, tail, prev, next)
      BY <3>1
    <3>3. i = Len(s) + 1
      <4> SUFFICES ASSUME i # Len(s) + 1 PROVE FALSE
        OBVIOUS
      <4>1. i \in 1 .. Len(s)
        BY <3>1
      <4>2. At(s, i) \in Workers
        BY <3>1, <4>1, ElementOfSeq DEF At
      <4> QED
        BY <3>1, <3>2, <4>2 DEF LeftPlace, Workers, NULL
    <3>4. i - 1 = Len(s) /\ i \notin 1 .. Len(s)
      BY <3>1, <3>3
    <3>5. tail = w /\ prev[w] = At(s, Len(s)) /\ Mirrored(s, prev)
      BY <3>2, <3>3, <3>4 DEF LeftPlace, Mirrored
    <3>6. to = "retreat"
      BY <3>5
    <3> HIDE DEF to
    <3> QED
      BY <3>5, <3>6 DEF Inside, s
  <2>3. to \in {"out"} \cup InsertStates \cup RemoveStates
    BY DEF RemoveStates
  <2> HIDE DEF to
  <2> QED
    BY <2>1, <2>2, <2>3, ReadShape
<1> QED
  BY <1>1, <1>2, <1>3, <1>4, <1>5, <1>6, <1>7

\* That store.
LEMMA UnlinkShape ==
  ASSUME HeapInv, Shape, NEW w \in Workers, ~ raced', Unlink(w)
  PROVE  Shape' /\ C!RemoveElem(w)
<1> DEFINE s == Linked
<1>1. Goto(w, "unlink", "test_next") /\ Unlinking(w) /\ at[w] = "unlink"
      /\ UNCHANGED <<others, tail, prev, seen>>
  BY DEF Unlink, Goto
<1>2. Found(w, "unlink")
  BY <1>1, Finds
<1>3. /\ Chain(s, head, next) /\ Members(s, wpc) /\ Neat(s, tail, prev)
      /\ seen[w] = next[w]
  BY <1>2 DEF Found, Inside
<1>4. /\ wpc[w] = "remove" /\ next \in Links /\ prev \in Links
      /\ wpc \in [Workers -> C!WorkerStates]
  BY <1>1, Pointers
<1>5. In(s, w)
  BY <1>3, <1>4, LinkedStatesAre DEF Members
<1>6. PICK i \in 1 .. Len(s) : s[i] = w
  BY <1>5 DEF In
<1> DEFINE t == RemoveAt(s, i)
<1>7. /\ s \in Seq(Workers) /\ Len(s) \in Nat /\ \A k \in 1 .. Len(s) : s[k] \in Workers
      /\ \A j, k \in 1 .. Len(s) : s[j] = s[k] => j = k
      /\ head = At(s, 1) /\ \A k \in 1 .. Len(s) : next[s[k]] = At(s, k + 1)
  BY <1>3, LenProperties, ElementOfSeq DEF Chain
<1>8. seen[w] = At(s, i + 1) /\ next[w] = At(s, i + 1) /\ prev[w] = At(s, i - 1)
  BY <1>3, <1>6, <1>7 DEF Neat, Mirrored
<1>9. IF prev[w] # NULL THEN next' = [next EXCEPT ![prev[w]] = seen[w]] /\ UNCHANGED head
                        ELSE head' = seen[w] /\ UNCHANGED next
  BY DEF Unlink
<1> HIDE DEF s
<1>10. Bypass(s, i, head, next, head', next') /\ next' \in Links /\ next'[w] = next[w]
  <2>1. CASE i = 1
    <3>1. prev[w] = NULL
      BY <1>8, <2>1 DEF At
    <3>3. head' = seen[w] /\ next' = next
      BY <1>9, <3>1, Zenon
    <3>4. seen[w] = At(s, 2)
      BY <1>8, <2>1
    <3> QED
      BY <1>4, <2>1, <3>3, <3>4 DEF Bypass
  <2>2. CASE i # 1
    <3>1. i - 1 \in 1 .. Len(s) /\ i - 1 # i
      BY <1>7, <2>2
    <3>2. prev[w] = s[i - 1] /\ s[i - 1] \in Workers /\ s[i - 1] # w
      BY <1>6, <1>7, <1>8, <3>1 DEF At
    <3>3. prev[w] # NULL
      BY <3>2 DEF Workers, NULL
    <3>4. next' = [next EXCEPT ![prev[w]] = seen[w]] /\ head' = head
      BY <1>9, <3>3, Zenon
    <3>5. seen[w] \in Workers \cup {NULL}
      BY <1>7, <1>8 DEF At
    <3>6. next' \in Links /\ next'[w] = next[w]
      BY <1>4, <3>2, <3>4, <3>5 DEF Links
    <3>7. next' = [next EXCEPT ![s[i - 1]] = At(s, i + 1)]
      BY <1>8, <3>2, <3>4
    <3> QED
      BY <2>2, <3>4, <3>6, <3>7 DEF Bypass
  <2> QED
    BY <2>1, <2>2
<1>11. /\ Chain(t, head', next')
       /\ \A v \in Workers : In(t, v) <=> v # w /\ In(s, v)
  <2>1. /\ Chain(RemoveAt(s, i), head', next')
        /\ \A v \in Workers : (\E k \in 1 .. Len(RemoveAt(s, i)) : RemoveAt(s, i)[k] = v)
             <=> v # s[i] /\ \E k \in 1 .. Len(s) : s[k] = v
    BY <1>3, <1>4, <1>10, ChainRemove
  <2> QED
    BY <1>6, <2>1 DEF In
<1>12. Members(t, wpc')
  BY <1>1, <1>3, <1>4, <1>11, LinkedStatesAre DEF Members, Unlinking
<1>13. /\ Len(t) = Len(s) - 1
       /\ \A k \in Nat : At(t, k) = IF k < i THEN At(s, k) ELSE At(s, k + 1)
  BY <1>7, AtRemove
<1>e. \A k \in 1 .. Len(s) - 1 : t[k] = IF k < i THEN s[k] ELSE s[k + 1]
  BY <1>7, RemoveAtLemma
<1> HIDE DEF t
<1>14. LeftPlace(i, t, w, tail, prev, next')
  <2>1. prev[w] = At(t, i - 1)
    <3>1. i - 1 \in Nat /\ i - 1 < i
      BY <1>7
    <3>2. At(t, i - 1) = At(s, i - 1)
      BY <1>13, <3>1
    <3> QED
      BY <1>8, <3>2
  <2>2. next'[w] = At(t, i)
    <3>1. i \in Nat /\ ~ (i < i)
      BY <1>7
    <3>2. At(t, i) = At(s, i + 1)
      BY <1>13, <3>1
    <3> QED
      BY <1>8, <1>10, <3>2
  <2>3. tail = IF i = Len(t) + 1 THEN w ELSE At(t, Len(t))
    <3>1. tail = At(s, Len(s))
      BY <1>3 DEF Neat
    <3>2. CASE i = Len(s)
      BY <1>6, <1>7, <1>13, <3>1, <3>2 DEF At
    <3>3. CASE i # Len(s)
      <4>0. Len(s) \in Nat /\ Len(t) = Len(s) - 1
        BY <1>7, <1>13
      <4>1. Len(t) \in Nat /\ ~ (Len(t) < i) /\ Len(t) + 1 = Len(s) /\ i # Len(t) + 1
        BY <3>3, <4>0
      <4>2. At(t, Len(t)) = At(s, Len(t) + 1)
        BY <1>13, <4>1
      <4> QED
        BY <3>1, <4>1, <4>2
    <3> QED
      BY <3>2, <3>3
  <2>4. ASSUME NEW k \in 1 .. Len(t)
        PROVE  prev[t[k]] = IF k = i THEN w ELSE At(t, k - 1)
    <3>0. Len(t) = Len(s) - 1 /\ Len(s) \in Nat
      BY <1>7, <1>13
    <3>1. /\ k \in 1 .. Len(s) - 1 /\ k \in 1 .. Len(s) /\ k + 1 \in 1 .. Len(s)
          /\ k - 1 \in Nat /\ (k - 1) + 1 = k /\ (k + 1) - 1 = k
      BY <3>0
    <3>2. At(t, k - 1) = IF k - 1 < i THEN At(s, k - 1) ELSE At(s, k)
      BY <1>13, <3>1
    <3>3. prev[s[k]] = At(s, k - 1) /\ prev[s[k + 1]] = At(s, k)
      BY <1>3, <3>1 DEF Neat, Mirrored
    <3>4. CASE k < i
      <4>1. t[k] = s[k] /\ k # i /\ k - 1 < i
        BY <1>7, <1>e, <3>1, <3>4
      <4> QED
        BY <3>2, <3>3, <4>1
    <3>5. CASE k = i
      <4>1. t[k] = s[k + 1] /\ At(s, k) = w
        BY <1>6, <1>7, <1>e, <3>1, <3>5 DEF At
      <4> QED
        BY <3>3, <3>5, <4>1
    <3>6. CASE k > i
      <4>1. t[k] = s[k + 1] /\ k # i /\ ~ (k - 1 < i)
        BY <1>7, <1>e, <3>1, <3>6
      <4> QED
        BY <3>2, <3>3, <4>1
    <3> QED
      BY <1>7, <3>1, <3>4, <3>5, <3>6
  <2> QED
    BY <2>1, <2>2, <2>3, <2>4 DEF LeftPlace
<1>15. i \in 1 .. Len(t) + 1
  BY <1>7, <1>13
<1>16. Inside("test_next", t, w, tail', prev', next', seen')
  BY <1>1, <1>14, <1>15 DEF Inside
<1>17. Left(w, "test_next", t)
  BY <1>11, <1>12, <1>16 DEF Left
<1>18. Shape' /\ Linked' = t
  BY <1>1, <1>10, <1>17, Leaves DEF RemoveStates
<1>19. \E j \in 1 .. Len(Linked) : Linked[j] = w /\ Linked' = C!RemoveAt(Linked, j)
  <2>1. RemoveAt(s, i) = C!RemoveAt(s, i)
    BY DEF RemoveAt, C!RemoveAt
  <2>2. Linked' = C!RemoveAt(s, i)
    BY <1>18, <2>1 DEF t
  <2> QED
    BY <1>6, <2>2 DEF s
<1> QED
  BY <1>1, <1>4, <1>18, <1>19 DEF C!RemoveElem, C!WorkerStep, Unlinking, Goto, C!Alive

\* The rest of the call.
LEMMA BackShape ==
  ASSUME HeapInv, Shape, NEW w \in Workers, ~ raced',
         LinkBack(w) \/ RetreatTail(w) \/ ClearElem(w)
  PROVE  Shape' /\ Silent
<1> DEFINE s == Linked
<1>1. CASE LinkBack(w)
  <2>1. /\ Goto(w, "link_back", "clear") /\ UNCHANGED <<others, wpc, head, tail, next, seen>>
        /\ prev' = [prev EXCEPT ![seen[w]] = prev[w]]
    BY <1>1 DEF LinkBack
  <2>2. Found(w, "link_back")
    BY <2>1, Finds
  <2>3. /\ Chain(s, head, next) /\ Members(s, wpc) /\ next[w] # NULL /\ seen[w] = next[w]
        /\ \E i \in 1 .. Len(s) + 1 : LeftPlace(i, s, w, tail, prev, next)
    BY <2>2 DEF Found, Inside
  <2>4. PICK i \in 1 .. Len(s) + 1 : LeftPlace(i, s, w, tail, prev, next)
    BY <2>3
  <2>5. /\ s \in Seq(Workers) /\ Len(s) \in Nat /\ \A k \in 1 .. Len(s) : s[k] \in Workers
        /\ \A j, k \in 1 .. Len(s) : s[j] = s[k] => j = k
    BY <2>3, LenProperties, ElementOfSeq DEF Chain
  <2>6. /\ prev[w] = At(s, i - 1) /\ next[w] = At(s, i)
        /\ tail = IF i = Len(s) + 1 THEN w ELSE At(s, Len(s))
        /\ \A k \in 1 .. Len(s) : prev[s[k]] = IF k = i THEN w ELSE At(s, k - 1)
    BY <2>4 DEF LeftPlace
  <2>7. prev \in Links /\ next' \in Links
    BY <2>1, Pointers
  <2> HIDE DEF s
  <2>8. i \in 1 .. Len(s) /\ i # Len(s) + 1 /\ seen[w] = s[i] /\ s[i] \in Workers
    BY <2>3, <2>5, <2>6 DEF At
  <2>9. \A x \in Workers : prev'[x] = IF x = s[i] THEN At(s, i - 1) ELSE prev[x]
    BY <2>1, <2>6, <2>7, <2>8 DEF Links
  <2>10. Mirrored(s, prev')
    <3> SUFFICES ASSUME NEW k \in 1 .. Len(s) PROVE prev'[s[k]] = At(s, k - 1)
      BY DEF Mirrored
    <3>1. CASE k = i
      BY <2>8, <2>9, <3>1
    <3>2. CASE k # i
      <4>1. s[k] # s[i] /\ s[k] \in Workers
        BY <2>5, <2>8, <3>2
      <4> QED
        BY <2>6, <2>9, <3>2, <4>1
    <3> QED
      BY <3>1, <3>2
  <2>11. Neat(s, tail, prev')
    BY <2>6, <2>8, <2>10 DEF Neat
  <2>12. Left(w, "clear", s)
    BY <2>1, <2>3, <2>11 DEF Left, Inside, s
  <2>13. Shape' /\ Linked' = s
    BY <2>1, <2>7, <2>12, Leaves DEF RemoveStates
  <2> QED
    BY <2>1, <2>13 DEF Silent, s
<1>2. CASE RetreatTail(w)
  <2>1. /\ Goto(w, "retreat", "clear") /\ tail' = prev[w]
        /\ UNCHANGED <<others, wpc, head, prev, next, seen>>
    BY <1>2 DEF RetreatTail
  <2>2. Found(w, "retreat")
    BY <2>1, Finds
  <2>3. /\ Chain(s, head, next) /\ Members(s, wpc)
        /\ prev[w] = At(s, Len(s)) /\ Mirrored(s, prev)
    BY <2>2 DEF Found, Inside
  <2>4. Left(w, "clear", s)
    BY <2>1, <2>3 DEF Left, Inside, Neat
  <2>5. next' \in Links
    BY <2>1, Pointers
  <2> HIDE DEF s
  <2>6. Shape' /\ Linked' = s
    BY <2>1, <2>4, <2>5, Leaves DEF RemoveStates
  <2> QED
    BY <2>1, <2>6 DEF Silent, s
<1>3. CASE ClearElem(w)
  <2>1. /\ Goto(w, "clear", "out") /\ UNCHANGED <<others, wpc, head, tail, seen>>
        /\ next' = [next EXCEPT ![w] = NULL] /\ prev' = [prev EXCEPT ![w] = NULL]
    BY <1>3 DEF ClearElem
  <2>2. Found(w, "clear")
    BY <2>1, Finds
  <2>3. /\ Chain(s, head, next) /\ Members(s, wpc) /\ Neat(s, tail, prev)
        /\ at[w] = "clear"
    BY <2>2 DEF Found, Inside
  <2>4. ~ In(s, w) /\ s \in Seq(Workers)
    BY <2>3, Pointers, LinkedStatesAre DEF Members, Chain
  <2>5. prev \in Links /\ next \in Links
    BY Pointers
  <2> HIDE DEF s
  <2>6. Chain(s, head', next')
    BY <2>1, <2>3, <2>4, <2>5, Elsewhere
  <2>7. Mirrored(s, prev')
    BY <2>1, <2>3, <2>4, <2>5, Elsewhere DEF Neat
  <2>8. Left(w, "out", s)
    BY <2>1, <2>3, <2>6, <2>7 DEF Left, Inside, Neat
  <2>9. next' \in Links
    BY <2>1, <2>5 DEF Links
  <2>10. Shape' /\ Linked' = s
    BY <2>1, <2>8, <2>9, Leaves
  <2> QED
    BY <2>1, <2>10 DEF Silent, s
<1> QED
  BY <1>1, <1>2, <1>3

-----------------------------------------------------------------------------
(* The calls are atomic.                                                   *)

\* A step outside of list.c adds nobody to the queue and takes nobody out.
LEMMA OutsideMembers ==
  ASSUME HeapInv, NEW s, Members(s, wpc),
         \/ UNCHANGED <<wpc, created>>
         \/ Main \/ SchedProc
         \/ \E w \in Workers : OutsideList(w)
  PROVE  Members(s, wpc')
<1>0. wpc \in [Workers -> C!WorkerStates]
  BY DEF HeapInv, ListTypes
<1>1. CASE UNCHANGED <<wpc, created>>
  BY <1>1
<1>2. CASE created' = created + 1 /\ wpc' = [wpc EXCEPT ![created + 1] = "enter"]
  <2>1. created + 1 \in Workers => wpc[created + 1] = "none"
    BY DEF HeapInv, ListTypes, Workers
  <2>2. "none" \notin C!LinkedStates /\ "enter" \notin C!LinkedStates
    BY DEF C!LinkedStates
  <2>3. \A w \in Workers : wpc'[w] \in C!LinkedStates <=> wpc[w] \in C!LinkedStates
    BY <1>0, <1>2, <2>1, <2>2
  <2> QED
    BY <2>3 DEF Members
<1>3. ASSUME NEW w \in Workers, OutsideList(w) PROVE Members(s, wpc')
  <2>1. PICK to : /\ wpc' = [wpc EXCEPT ![w] = to]
                  /\ wpc[w] \in C!LinkedStates <=> to \in C!LinkedStates
    BY <1>3, OutsideMoves
  <2>2. \A v \in Workers : wpc'[v] \in C!LinkedStates <=> wpc[v] \in C!LinkedStates
    BY <1>0, <2>1
  <2> QED
    BY <2>2 DEF Members
<1> QED
  BY <1>1, <1>2, <1>3, OthersMove

\* Nor does it touch the list.
LEMMA OutsideShape ==
  ASSUME HeapInv, Shape, UNCHANGED callVars,
         \/ UNCHANGED <<wpc, created>>
         \/ Main \/ SchedProc
         \/ \E w \in Workers : OutsideList(w)
  PROVE  Shape' /\ Linked' = Linked
<1>1. Linked' = Linked
  BY LinkedIsMet
<1>2. Members(Linked, wpc) => Members(Linked, wpc')
  BY OutsideMembers
<1>3. Shape'
  BY <1>1, <1>2 DEF Shape, ShapeOf
<1> QED
  BY <1>1, <1>3

\* Without a race a step in list.c is one of Scheduler, or nothing to it.
LEMMA CallShape ==
  ASSUME HeapInv, Shape, NEW w \in Workers, ListCall(w), ~ raced'
  PROVE  Shape' /\ (Silent \/ C!InsertTail(w) \/ C!RemoveElem(w))
<1>1. CASE Insertion(w)
  BY <1>1, InsertReadShape, FirstShape, SetPrevShape, LinkShape, TailShape DEF Insertion
<1>2. CASE Removal(w)
  BY <1>2, RemoveReadShape, UnlinkShape, BackShape DEF Removal
<1> QED
  BY <1>1, <1>2 DEF ListCall

\* As long as nobody races, the list keeps its shape.
LEMMA NextShape == ASSUME HeapInv, Shape, [Next]_vars PROVE Shape'
<1>1. CASE Main \/ SchedProc
  BY <1>1, OthersMove, OutsideShape
<1>2. ASSUME NEW w \in Workers, OutsideList(w) PROVE Shape'
  BY <1>2, OutsideMoves, OutsideShape
<1>3. CASE UNCHANGED vars \/ (UNCHANGED <<callVars, walkVars>> /\ C!Terminated)
  <2>1. UNCHANGED callVars /\ UNCHANGED <<wpc, created>>
    BY <1>3 DEF C!Terminated
  <2> QED
    BY <2>1, OutsideShape
<1>4. ASSUME NEW w \in Workers, ListCall(w) PROVE Shape'
  <2>1. CASE raced'
    BY <2>1 DEF Shape
  <2>2. CASE ~ raced'
    BY <1>4, <2>2, CallShape
  <2> QED
    BY <2>1, <2>2
<1> QED
  BY <1>1, <1>2, <1>3, <1>4 DEF Next, Worker

\* The list is empty when the program starts.
LEMMA InitShape == Init => Shape
<1> SUFFICES ASSUME Init PROVE Shape
  OBVIOUS
<1>n. <<>> \in Seq(Workers) /\ Len(<<>>) = 0
  OBVIOUS
<1>1. head = NULL /\ tail = NULL /\ next \in Links
  BY DEF Init, Links
<1>2. Chain(<<>>, head, next)
  BY <1>n, <1>1 DEF Chain, At
<1>3. Linked = <<>>
  BY <1>1, <1>2, ChainMet, LinkedIsMet
<1>4. Members(<<>>, wpc)
  <2>1. \A w \in Workers : wpc[w] = "none"
    BY DEF Init, C!Init, C!Workers, Workers
  <2>2. "none" \notin C!LinkedStates
    BY DEF C!LinkedStates
  <2> QED
    BY <1>n, <2>1, <2>2 DEF Members, In
<1>5. \A w \in Workers : at[w] = "out"
  BY DEF Init
<1>6. Neat(<<>>, tail, prev)
  BY <1>n, <1>1 DEF Neat, Mirrored, At
<1>7. \A w \in Workers : Inside("out", <<>>, w, tail, prev, next, seen)
  BY <1>6 DEF Inside
<1> QED
  BY <1>2, <1>3, <1>4, <1>5, <1>7 DEF Shape, ShapeOf

-----------------------------------------------------------------------------
(* The theorems on the list.                                               *)

\* Until there has been a race the pointers are those of a doubly linked list
\* of the workers in the queue, in the middle of a call but for what the call
\* has yet to do.
THEOREM ShapeInvariance == Spec => [](HeapInv /\ Shape)
<1>1. Init => HeapInv /\ Shape
  BY InitHeapInv, InitShape
<1>2. (HeapInv /\ Shape) /\ [Next]_vars => (HeapInv /\ Shape)'
  BY NextHeapInv, NextShape
<1> QED
  BY <1>1, <1>2, PTL DEF Spec

\* Between two calls prev mirrors next, and tail is the last element of the
\* walk, as long as no two workers have been in list.c at once (list.c:42-79).
THEOREM WellLinkedUnlessRaced == Spec => []WellLinked
<1>1. ASSUME HeapInv, Shape PROVE WellLinked
  <2> SUFFICES ASSUME ~ raced, \A w \in Workers : at[w] = "out"
               PROVE  /\ tail = IF Linked = <<>> THEN NULL ELSE Linked[Len(Linked)]
                      /\ \A k \in 1 .. Len(Linked) :
                           /\ prev[Linked[k]] = IF k = 1 THEN NULL ELSE Linked[k - 1]
                           /\ next[Linked[k]] = IF k = Len(Linked) THEN NULL ELSE Linked[k + 1]
    BY DEF WellLinked
  <2> DEFINE s == Linked
  <2>1. /\ Chain(s, head, next)
        /\ \A w \in Workers : Inside("out", s, w, tail, prev, next, seen)
    BY <1>1 DEF Shape, ShapeOf
  <2>2. /\ s \in Seq(Workers) /\ Len(s) \in Nat /\ \A k \in 1 .. Len(s) : s[k] \in Workers
    BY <2>1, LenProperties, ElementOfSeq DEF Chain
  <2> HIDE DEF s
  <2>3. Neat(s, tail, prev)
    <3>1. CASE Workers # {}
      BY <2>1, <3>1 DEF Inside
    <3>2. CASE Workers = {}
      <4>1. tail = NULL
        BY <1>1, <3>2 DEF HeapInv, ListTypes, PointerTypes
      <4>2. 1 .. Len(s) = {}
        BY <2>2, <3>2
      <4> QED
        BY <4>1, <4>2 DEF Neat, Mirrored, At
    <3> QED
      BY <3>1, <3>2
  <2>4. tail = IF s = <<>> THEN NULL ELSE s[Len(s)]
    BY <2>2, <2>3, LastAt DEF Neat
  <2>5. ASSUME NEW k \in 1 .. Len(s)
        PROVE  /\ prev[s[k]] = IF k = 1 THEN NULL ELSE s[k - 1]
               /\ next[s[k]] = IF k = Len(s) THEN NULL ELSE s[k + 1]
    <3>1. prev[s[k]] = At(s, k - 1) /\ next[s[k]] = At(s, k + 1)
      BY <2>1, <2>3 DEF Neat, Mirrored, Chain
    <3>2. k - 1 \in 1 .. Len(s) <=> k # 1
      BY <2>2
    <3>3. k + 1 \in 1 .. Len(s) <=> k # Len(s)
      BY <2>2
    <3> QED
      BY <3>1, <3>2, <3>3 DEF At
  <2> QED
    BY <2>4, <2>5 DEF s
<1> QED
  BY <1>1, ShapeInvariance, PTL

-----------------------------------------------------------------------------
(* The scheduler's walks.                                                  *)

\* What is proved of Scheduler in SchedulerProofs, of the list here.
CP == INSTANCE SchedulerProofs
        WITH q <- Linked, final_threads <- 0, threads_max <- 0,
             admitted_threads <- {}, executed <- 0, fifo <- 0, rr <- 0, turns <- 0,
             id <- 0, shared <- FALSE

\* Both instances speak of the same module.
LEMMA SameNext == [C!Next]_(C!vars) <=> [CP!Next]_(CP!vars)
BY DEF C!Next, CP!Next, C!vars, CP!vars, C!mainVars, CP!mainVars, C!schedVars,
       CP!schedVars, C!workerLocals, CP!workerLocals, C!queueVars, CP!queueVars,
       C!Main, CP!Main, C!SchedProc, CP!SchedProc, C!Worker, CP!Worker,
       C!Terminated, CP!Terminated, C!Exited, CP!Exited, C!Alive, CP!Alive,
       C!InitSchedQueue, C!StartScheduler, C!SetRemaining, C!CreateWorker,
       C!ExitError, C!ReportWaiting, C!JoinScheduler, C!CleanUp, CP!InitSchedQueue,
       CP!StartScheduler, CP!SetRemaining, CP!CreateWorker, CP!ExitError,
       CP!ReportWaiting, CP!JoinScheduler, CP!CleanUp, C!EnterWait, C!InsertTail,
       C!Announce, C!WaitForCpu, C!Work, C!ReleaseCpu, C!Exiting, C!RemoveElem,
       C!PostQueue, C!StepBack, C!LoadRemaining, C!StoreRemaining, C!FinalRelease,
       CP!EnterWait, CP!InsertTail, CP!Announce, CP!WaitForCpu, CP!Work,
       CP!ReleaseCpu, CP!Exiting, CP!RemoveElem, CP!PostQueue, CP!StepBack,
       CP!LoadRemaining, CP!StoreRemaining, CP!FinalRelease, C!WaitForQueue,
       C!TestRemaining, C!FifoNext, C!RRNext, C!RRWrap, C!RRWalk, C!WakeUpWorker,
       C!WaitForWorker, C!SchedulerDone, CP!WaitForQueue, CP!TestRemaining,
       CP!FifoNext, CP!RRNext, CP!RRWrap, CP!RRWalk, CP!WakeUpWorker,
       CP!WaitForWorker, CP!SchedulerDone, C!WorkerStep, CP!WorkerStep, C!SchedStep,
       CP!SchedStep, C!WalkTo, CP!WalkTo, C!Workers, CP!Workers, C!NULL, CP!NULL,
       C!RemoveAt, CP!RemoveAt, C!Last, CP!Last

\* What is assumed of the constants here is assumed there.
LEMMA SameAssumption == CP!SchedulerAssumption
BY SchedulerListAssumption DEF CP!SchedulerAssumption

\* Both instances start alike.
LEMMA SameInit == C!Init <=> CP!Init
BY DEF C!Init, CP!Init, C!Workers, CP!Workers, C!NULL, CP!NULL

\* Before a race the scheduler has counted along the list, and a walk to the
\* place in the line has not gone past it.
Walked ==
  /\ elt # NULL => count \in 1 .. Len(Linked) /\ Linked[count] = elt
  /\ elt = NULL => count = 0
  /\ sched = "walk" => count = 0 \/ count <= currentPosition

\* Before a race: the list, the walk over it and the scheduler around it.
Sound == Shape /\ Walked /\ CP!IInv /\ CP!RRPlace /\ CP!FifoSkips

\* A walk reads the next of the elements that are linked.
LEMMA LookIs ==
  ASSUME HeapInv, Sound, ~ raced
  PROVE  /\ Linked \in Seq(Workers) /\ Len(Linked) \in Nat
         /\ count \in 0 .. Len(Linked) /\ Look = At(Linked, count + 1)
         /\ Look = NULL <=> count = Len(Linked)
         /\ count = 0 <=> elt = NULL
<1> DEFINE s == Linked
<1>1. /\ s \in Seq(Workers) /\ Len(s) \in Nat /\ \A k \in 1 .. Len(s) : s[k] \in Workers
      /\ head = At(s, 1) /\ \A k \in 1 .. Len(s) : next[s[k]] = At(s, k + 1)
  BY LenProperties, ElementOfSeq DEF Sound, Shape, ShapeOf, Chain
<1>2. /\ elt # NULL => count \in 1 .. Len(s) /\ s[count] = elt
      /\ elt = NULL => count = 0
  BY DEF Sound, Walked
<1> HIDE DEF s
<1>3. count \in 0 .. Len(s) /\ (count = 0 <=> elt = NULL)
  BY <1>1, <1>2
<1>4. Look = At(s, count + 1)
  BY <1>1, <1>2 DEF Look
<1>5. At(s, count + 1) = NULL <=> count = Len(s)
  <2>1. CASE count = Len(s)
    <3>1. count + 1 \notin 1 .. Len(s)
      BY <1>1, <2>1
    <3> QED
      BY <2>1, <3>1 DEF At
  <2>2. CASE count # Len(s)
    <3>1. count + 1 \in 1 .. Len(s)
      BY <1>1, <1>3, <2>2
    <3>2. At(s, count + 1) \in Workers
      BY <1>1, <3>1 DEF At
    <3> QED
      BY <2>2, <3>2 DEF Workers, NULL
  <2> QED
    BY <2>1, <2>2
<1> QED
  BY <1>1, <1>3, <1>4, <1>5 DEF s

\* A walk one element on.
LEMMA GoesOn ==
  ASSUME HeapInv, Sound, ~ raced, GoOn, Look # NULL,
         sched = "walk" => count < currentPosition
  PROVE  Walked' /\ UNCHANGED C!vars
<1>1. Linked' = Linked
  BY LinkedIsMet DEF GoOn
<1>2. /\ count \in 0 .. Len(Linked) /\ Len(Linked) \in Nat /\ count # Len(Linked)
      /\ Look = At(Linked, count + 1)
  BY LookIs
<1>3. count + 1 \in 1 .. Len(Linked)
  BY <1>2
<1>4. Linked[count + 1] = Look
  BY <1>2, <1>3 DEF At
<1>5. currentPosition \in Int
  BY DEF Sound, CP!IInv, CP!TypeOK
<1>6. /\ elt' = Look /\ count' = count + 1
      /\ UNCHANGED <<main, created, sched, info, wpc, iter, loaded, currentPosition,
                     queue_sem, cpu_sem, exec, num_workers_remaining>>
  BY DEF GoOn
<1>7. sched' = "walk" => count' <= currentPosition'
  BY <1>2, <1>5, <1>6
<1>8. Walked'
  BY <1>1, <1>3, <1>4, <1>6, <1>7 DEF Walked
<1> QED
  BY <1>1, <1>6, <1>8

\* Before a race the scheduler's calls of list.c do what those of Scheduler do
\* in one step.
LEMMA WalkMaps ==
  ASSUME HeapInv, Sound, ~ raced, ListWalk
  PROVE  Walked' /\ [C!SchedProc]_(C!vars)
<1> USE DEF CountedAll, C!SchedStep
<1>1. Linked' = Linked
  BY LinkedIsMet DEF ListWalk, CountElem, GoOn, WaitForQueue, RRNext, RRWrap, RRStep, RRWalk
<1>2. /\ Linked \in Seq(Workers) /\ Len(Linked) \in Nat
      /\ count \in 0 .. Len(Linked) /\ Look = At(Linked, count + 1)
      /\ Look = NULL <=> count = Len(Linked)
      /\ Linked = <<>> <=> Len(Linked) = 0
  BY LookIs, EmptySeq
<1>3. CASE CountElem
  <2>1. sched # "walk" /\ GoOn /\ Look # NULL
    BY <1>3 DEF CountElem, InListSize
  <2> QED
    BY <2>1, GoesOn
<1>4. CASE WaitForQueue
  <2>1. Linked # <<>>
    BY <1>2, <1>4 DEF WaitForQueue
  <2>2. C!WaitForQueue
    BY <1>1, <1>4, <2>1 DEF WaitForQueue, C!WaitForQueue
  <2> QED
    BY <1>4, <2>2 DEF WaitForQueue, Walked, C!SchedProc
<1>5. CASE RRNext
  <2>1. count = 0 <=> Linked = <<>>
    BY <1>2, <1>5 DEF RRNext
  <2>2. C!RRNext
    BY <1>1, <1>5, <2>1 DEF RRNext, C!RRNext, NULL, C!NULL
  <2> QED
    BY <1>5, <2>2 DEF RRNext, Walked, C!SchedProc
<1>6. CASE RRWrap
  <2>1. count = Len(Linked)
    BY <1>2, <1>6 DEF RRWrap
  <2>2. C!RRWrap
    BY <1>1, <1>6, <2>1 DEF RRWrap, C!RRWrap
  <2> QED
    BY <1>6, <2>2 DEF RRWrap, Walked, C!SchedProc
<1>7. ASSUME sched = "walk"
      PROVE  currentPosition \in 0 .. Len(Linked) - 1 /\ (count = 0 \/ count <= currentPosition)
  <2>1. Policy = "rr"
    BY <1>7, SchedulerListAssumption DEF Sound, CP!FifoSkips
  <2>2. CP!IInv /\ CP!Place /\ sched # "wait_worker"
    BY <1>7, <2>1 DEF Sound, CP!RRPlace
  <2>3. CP!Position = currentPosition
    BY <2>2, CP!Choosing, SameAssumption
  <2>4. currentPosition \in 0 .. Len(Linked) /\ currentPosition < Len(Linked)
    BY <1>7, <2>2, <2>3 DEF CP!Place
  <2>5. currentPosition \in 0 .. Len(Linked) - 1
    BY <1>2, <2>4
  <2> QED
    BY <1>7, <2>5 DEF Sound, Walked
<1>8. CASE RRStep
  <2>1. sched = "walk" /\ GoOn /\ count < currentPosition
    BY <1>8 DEF RRStep
  <2>2. Look # NULL
    BY <1>2, <1>7, <2>1
  <2> QED
    BY <2>1, <2>2, GoesOn
<1>9. CASE RRWalk
  <2>1. sched = "walk" /\ count >= currentPosition
    BY <1>9 DEF RRWalk
  <2>2. count = currentPosition /\ count < Len(Linked) /\ count \in Nat
    BY <1>2, <1>7, <2>1
  <2>3. C!WalkTo(currentPosition) = count
    BY <1>2, <2>2 DEF C!WalkTo
  <2>4. Look # NULL /\ Look = Linked[count + 1]
    BY <1>2, <2>2 DEF At
  <2>5. C!RRWalk
    BY <1>1, <1>9, <2>2, <2>3, <2>4 DEF RRWalk, C!RRWalk, C!Alive
  <2>6. sched' = "wake" /\ elt' = NULL /\ count' = 0
    BY <1>9, <2>4 DEF RRWalk
  <2> QED
    BY <2>5, <2>6 DEF Walked, C!SchedProc
<1> QED
  BY <1>3, <1>4, <1>5, <1>6, <1>8, <1>9 DEF ListWalk

\* Nobody takes an element out while the scheduler walks: it waits for the
\* worker that does.
LEMMA WalkUndisturbed ==
  ASSUME HeapInv, Sound, ~ raced, NEW w \in Workers,
         Silent \/ C!InsertTail(w) \/ C!RemoveElem(w),
         UNCHANGED <<sched, currentPosition, walkVars>>
  PROVE  Walked'
<1>1. CASE Linked' = Linked
  BY <1>1 DEF Sound, Walked
<1>2. CASE C!InsertTail(w)
  <2>1. Linked' = Append(Linked, w)
    BY <1>2 DEF C!InsertTail
  <2>2. Linked \in Seq(Workers) /\ Len(Linked) \in Nat
    BY LookIs
  <2>3. /\ Len(Linked') = Len(Linked) + 1
        /\ \A k \in 1 .. Len(Linked) : Linked'[k] = Linked[k]
    BY <2>1, <2>2, AppendProperties
  <2> QED
    BY <2>2, <2>3 DEF Sound, Walked
<1>3. CASE C!RemoveElem(w)
  <2>1. wpc[w] = "remove"
    BY <1>3 DEF C!RemoveElem, C!WorkerStep
  <2>2. sched = "wait_worker"
    BY <2>1 DEF Sound, CP!IInv, CP!Baton, CP!HasCpu, CP!CpuStates, CP!Workers, Workers
  <2>3. elt = NULL /\ count = 0
    BY <2>2 DEF HeapInv, ListTypes, WalkTypes, InListSize
  <2> QED
    BY <2>2, <2>3 DEF Walked
<1> QED
  BY <1>1, <1>2, <1>3 DEF Silent

-----------------------------------------------------------------------------
(* The refinement.                                                         *)

\* The steps of the scheduler.
LEMMA SchedProcMaps ==
  ASSUME HeapInv, Sound, ~ raced, SchedProc
  PROVE  Walked' /\ [C!Next]_(C!vars)
<1>1. CASE ListWalk
  BY <1>1, WalkMaps DEF C!Next
<1>2. CASE OutsideWalk
  <2>1. UNCHANGED <<callVars, walkVars>>
    BY <1>2 DEF OutsideWalk
  <2>2. sched # "walk" /\ ~ InListSize /\ sched' # "walk"
    BY <1>2 DEF OutsideWalk, C!TestRemaining, C!FifoNext, C!WakeUpWorker, C!WaitForWorker,
       C!SchedulerDone, C!SchedStep, InListSize
  <2>3. elt' = NULL /\ count' = 0
    BY <2>1, <2>2 DEF HeapInv, ListTypes, WalkTypes
  <2>4. C!SchedProc
    BY <1>2 DEF OutsideWalk, C!SchedProc
  <2> QED
    BY <2>2, <2>3, <2>4 DEF Walked, C!Next
<1> QED
  BY <1>1, <1>2 DEF SchedProc

\* A step that neither touches the list nor walks.
LEMMA WalkWaits ==
  ASSUME HeapInv, Sound, ~ raced, UNCHANGED <<callVars, walkVars>>,
         sched' = sched \/ sched' # "walk",
         sched = "walk" => currentPosition' = currentPosition
  PROVE  Walked'
<1>1. Linked' = Linked
  BY LinkedIsMet
<1> QED
  BY <1>1 DEF Sound, Walked

\* Nobody moves the scheduler's place while it walks there.
LEMMA PositionWaits ==
  ASSUME HeapInv, Sound, ~ raced,
         \/ C!Main \/ C!Terminated \/ UNCHANGED vars
         \/ \E w \in Workers : OutsideList(w)
  PROVE  /\ sched' = sched \/ sched' # "walk"
         /\ sched = "walk" => currentPosition' = currentPosition
<1>1. CASE C!Main
  BY <1>1 DEF C!Main, C!InitSchedQueue, C!StartScheduler, C!SetRemaining, C!CreateWorker,
     C!ExitError, C!ReportWaiting, C!JoinScheduler, C!CleanUp, Sound, CP!IInv, CP!Creation
<1>2. CASE C!Terminated \/ UNCHANGED vars
  BY <1>2 DEF C!Terminated
<1>3. ASSUME NEW w \in Workers, OutsideList(w)
      PROVE  sched' = sched /\ (sched = "walk" => currentPosition' = currentPosition)
  <2>1. sched' = sched
    BY <1>3, OutsideMoves
  <2>2. CASE C!StepBack(w)
    <3>1. wpc[w] = "position"
      BY <2>2 DEF C!StepBack, C!WorkerStep
    <3>2. sched = "wait_worker"
      BY <3>1 DEF Sound, CP!IInv, CP!Baton, CP!HasCpu, CP!CpuStates, CP!Workers, Workers
    <3> QED
      BY <2>1, <3>2
  <2>3. CASE ~ C!StepBack(w)
    BY <1>3, <2>1, <2>3 DEF OutsideList, C!EnterWait, C!Announce, C!WaitForCpu, C!Work,
       C!ReleaseCpu, C!Exiting, C!PostQueue, C!LoadRemaining, C!StoreRemaining, C!FinalRelease
  <2> QED
    BY <2>2, <2>3
<1> QED
  BY <1>1, <1>2, <1>3

\* Until there is a race every step is one of Scheduler.
LEMMA NextMaps ==
  ASSUME HeapInv, Sound, ~ raced, ~ raced', [Next]_vars
  PROVE  Walked' /\ [C!Next]_(C!vars)
<1>1. CASE SchedProc
  BY <1>1, SchedProcMaps
<1>2. CASE Main
  BY <1>2, PositionWaits, WalkWaits DEF Main, C!Next
<1>3. ASSUME NEW w \in Workers, OutsideList(w) PROVE Walked' /\ C!Next
  <2>1. UNCHANGED <<callVars, walkVars>>
    BY <1>3 DEF OutsideList
  <2>2. Walked'
    BY <1>3, <2>1, PositionWaits, WalkWaits
  <2>3. C!Worker(w)
    BY <1>3 DEF OutsideList, C!Worker
  <2> QED
    BY <2>2, <2>3 DEF C!Next, C!Workers, Workers
<1>4. CASE UNCHANGED <<callVars, walkVars>> /\ C!Terminated
  BY <1>4, PositionWaits, WalkWaits DEF C!Next
<1>5. CASE UNCHANGED vars
  <2>1. UNCHANGED <<callVars, walkVars>> /\ UNCHANGED <<sched, currentPosition>>
    BY <1>5
  <2>2. UNCHANGED C!vars
    BY <1>5
  <2> QED
    BY <2>1, <2>2, WalkWaits
<1>6. ASSUME NEW w \in Workers, ListCall(w) PROVE Walked' /\ [C!Next]_(C!vars)
  <2>1. Silent \/ C!InsertTail(w) \/ C!RemoveElem(w)
    BY <1>6, CallShape DEF Sound
  <2>2. UNCHANGED <<sched, currentPosition, walkVars>>
    BY <1>6 DEF ListCall, Insertion, Removal, TestTail, FirstTail, ReadBack, FirstHead, SetPrev,
       RetestTail, ReadTail, LinkBehind, ClearNext, NewTail, TestPrev, TestHead, NotHead, ReadNext,
       Unlink, TestNext, RereadNext, LinkBack, TestLast, RetreatTail, ClearElem
  <2>3. Walked'
    BY <2>1, <2>2, WalkUndisturbed
  <2>4. C!InsertTail(w) \/ C!RemoveElem(w) => C!Next
    BY DEF C!Next, C!Worker, C!Workers, Workers
  <2> QED
    BY <2>1, <2>3, <2>4, SilentStutters
<1> QED
  BY <1>1, <1>2, <1>3, <1>4, <1>5, <1>6 DEF Next, Worker

\* A race is never forgotten.
LEMMA RacedStays == ASSUME raced, [Next]_vars PROVE raced'
<1>1. ASSUME NEW w, NEW from, NEW to, Goto(w, from, to) PROVE raced'
  BY <1>1 DEF Goto
<1>2. ASSUME NEW w \in Workers, ListCall(w) PROVE raced'
  BY <1>1, <1>2 DEF ListCall, Insertion, Removal, TestTail, FirstTail, ReadBack, FirstHead, SetPrev,
       RetestTail, ReadTail, LinkBehind, ClearNext, NewTail, TestPrev, TestHead, NotHead, ReadNext,
       Unlink, TestNext, RereadNext, LinkBack, TestLast, RetreatTail, ClearElem
<1>3. CASE ~ \E w \in Workers : ListCall(w)
  <2>1. raced' = raced
    BY <1>3 DEF Next, Main, SchedProc, ListWalk, CountElem, GoOn, WaitForQueue, RRNext, RRWrap,
       CountedAll, RRStep, RRWalk, OutsideWalk, Worker, OutsideList, vars, callVars
  <2> QED
    BY <2>1
<1> QED
  BY <1>2, <1>3

\* At first the list is sound.
LEMMA SoundAtFirst == Init => HeapInv /\ Sound
<1> SUFFICES ASSUME Init PROVE HeapInv /\ Sound
  OBVIOUS
<1>1. HeapInv /\ Shape
  BY InitHeapInv, InitShape
<1>2. CP!Init
  BY SameInit DEF Init
<1>3. CP!IInv
  BY <1>2, CP!InitIInv, SameAssumption
<1>4. CP!RRPlace
  BY <1>2, CP!InitPlace, SameAssumption DEF CP!RRPlace
<1>5. sched = "idle"
  BY <1>2 DEF CP!Init
<1>6. elt = NULL /\ count = 0
  BY DEF Init
<1> QED
  BY <1>1, <1>3, <1>4, <1>5, <1>6 DEF Sound, Walked, CP!FifoSkips

\* The invariant: the scheduler and its list are sound until there is a race.
LEMMA NextSound == HeapInv /\ (raced \/ Sound) /\ [Next]_vars => HeapInv' /\ (raced' \/ Sound')
<1> SUFFICES ASSUME HeapInv, raced \/ Sound, [Next]_vars, ~ raced' PROVE HeapInv' /\ Sound'
  BY NextHeapInv
<1>1. ~ raced /\ Sound
  BY RacedStays
<1>2. HeapInv' /\ Shape'
  BY <1>1, NextHeapInv, NextShape DEF Sound
<1>3. Walked' /\ [CP!Next]_(CP!vars)
  BY <1>1, NextMaps, SameNext
<1>4. CP!IInv'
  BY <1>1, <1>3, CP!NextIInv, SameAssumption DEF Sound
<1>5. CP!RRPlace'
  BY <1>1, <1>3, CP!NextPlace, SameAssumption DEF Sound
<1>6. CP!FifoSkips'
  BY <1>1, <1>3, CP!NextFifoSkips, SameAssumption DEF Sound
<1> QED
  BY <1>2, <1>3, <1>4, <1>5, <1>6 DEF Sound

\* As long as nobody races, every step is one of Scheduler, in which the calls
\* of list.c are atomic and each walk is one look, also when the scheduler goes
\* from element to element in the middle of a call (sched_impl.c:67 and 76 call
\* list.c without a lock, 181-237 walk the list).
THEOREM CallsAreAtomic == Spec => AtomicUnlessRaced
<1>1. Init => HeapInv /\ (raced \/ Sound)
  BY SoundAtFirst
<1>2. HeapInv /\ (raced \/ Sound) /\ [Next]_vars => (HeapInv /\ (raced \/ Sound))'
  BY NextSound
<1>3. HeapInv /\ (raced \/ Sound) /\ [Next]_vars => [raced' \/ [C!Next]_(C!vars)]_vars
  BY NextMaps, RacedStays
<1> QED
  BY <1>1, <1>2, <1>3, PTL DEF Spec, AtomicUnlessRaced

\* A run in which no two workers ever are in list.c at once is one of Scheduler:
\* what is proved of Scheduler holds of it.
THEOREM ImplementsScheduler == Spec /\ [](~ raced) => C!Spec
<1>1. Init => C!Init /\ HeapInv /\ (raced \/ Sound)
  BY SoundAtFirst DEF Init
<1>2. HeapInv /\ (raced \/ Sound) /\ [Next]_vars => (HeapInv /\ (raced \/ Sound))'
  BY NextSound
<1>3. HeapInv /\ (raced \/ Sound) /\ [Next]_vars /\ ~ raced' => [C!Next]_(C!vars)
  BY NextMaps, RacedStays
<1> QED
  BY <1>1, <1>2, <1>3, PTL DEF Spec, C!Spec

-----------------------------------------------------------------------------
(* What no race can harm.                                                  *)

\* The pointers lead to workers of K or nowhere.
Within(K, h, tl, nx, pv, sn) ==
  /\ h \in K \cup {NULL} /\ tl \in K \cup {NULL}
  /\ \A w \in Workers : nx[w] \in K \cup {NULL} /\ pv[w] \in K \cup {NULL}
                        /\ sn[w] \in K \cup {NULL}

Known == {w \in Workers : wpc[w] # "none"}
PointersKnown ==
  Within(Known, head, tail, next, prev, seen) /\ elt \in Known \cup {NULL}

Types ==
  /\ main \in C!MainStates /\ sched \in C!SchedStates
  /\ created \in 0 .. NumWorkers
  /\ info \in Workers \cup {NULL}
  /\ loaded \in [Workers -> Int]
  /\ currentPosition \in Int
  /\ queue_sem \in Nat /\ cpu_sem \in Nat
  /\ exec \in [Workers -> Nat]
  /\ num_workers_remaining \in Int

\* Which workers exist, and how far main has come.
Creation ==
  /\ \A w \in Workers : wpc[w] = "none" <=> w > created
  /\ main \in {"init", "start", "count"} => created = 0
  /\ main = "create" => created < NumWorkers
  /\ main \in {"init", "start"} => sched = "idle"
  /\ sched \notin {"idle", "queue"} => created > 0

\* Nobody has the CPU unless the scheduler waits for it, and then either one
\* worker, the chosen one, has it or it has been given back.  On a corrupted
\* list the one chosen may have left already: then the scheduler waits for ever.
Baton ==
  /\ sched # "wait_worker" => cpu_sem = 0 /\ \A w \in Workers : ~ C!HasCpu(w)
  /\ sched = "wake" => info \in Known
  /\ sched = "wait_worker" =>
       \/ cpu_sem = 1 /\ \A w \in Workers : ~ C!HasCpu(w)
       \/ /\ cpu_sem = 0
          /\ info \in Known
          /\ \A w \in Workers : C!HasCpu(w) => w = info
          /\ \/ exec[info] = 1 /\ wpc[info] \notin C!CpuStates
             \/ exec[info] = 0 /\ wpc[info] \in C!CpuStates

\* The workers that have not yet counted themselves out, and those that have
\* one of the places.
Staying == {w \in Workers : wpc[w] \notin {"final", "exited"}}
Placed == {w \in Workers : wpc[w] \in {"insert", "post"} \cup C!LinkedStates}

\* What is counted: no decrement is lost, a place is free or taken, and the
\* scheduler stops when all workers have gone.
Counted ==
  main \notin {"init", "start", "count", "failed"} =>
    num_workers_remaining = Cardinality(Staying)
Loaded == \A w \in Workers : wpc[w] = "store" => loaded[w] = num_workers_remaining
Places == main # "init" => queue_sem + Cardinality(Placed) = QueueSize
Finished ==
  /\ sched \in {"print", "done"} => \A w \in Workers : wpc[w] = "exited"
  /\ main \in {"cleanup", "end"} => sched = "done"

Unharmed == /\ PointersKnown /\ Types /\ Creation /\ Baton
            /\ Counted /\ Loaded /\ Places /\ Finished

\* A walk from a pointer of K meets workers of K.
LEMMA MetWorkers ==
  ASSUME NEW K \in SUBSET Workers, NEW h \in K \cup {NULL}, NEW nx \in Links,
         \A w \in Workers : nx[w] \in K \cup {NULL}
  PROVE  Met(h, nx) \in Seq(Workers) /\ \A k \in 1 .. Len(Met(h, nx)) : Met(h, nx)[k] \in K
<1> DEFINE n == NumWorkers + 1
           f == Walk(h, nx)
           D == {j \in Workers : f[j] # NULL}
           m == Cardinality(D)
<1>1. n \in Nat /\ n = NumWorkers + 1 /\ NumWorkers \in Nat
  BY SchedulerListAssumption
<1>2. IsWalk(f, n, h, nx)
  BY WalkIs
<1>d. D \in SUBSET Workers /\ \A j \in Workers : j \in D <=> f[j] # NULL
  OBVIOUS
<1>m. Met(h, nx) = [k \in 1 .. m |-> f[k]]
  BY DEF Met
<1> HIDE DEF f, n
<1>3. m \in Nat /\ m <= NumWorkers /\ IsFiniteSet(D)
  BY <1>d, FiniteThreads
<1> HIDE DEF D, m
<1>4. /\ f[1] = h
      /\ \A k \in 1 .. n : k # n =>
           f[k + 1] = IF f[k] = NULL THEN NULL ELSE nx[f[k]]
  <2>1. n > 0
    BY <1>1
  <2>2. \A k \in 1 .. n : k # n => k + 1 \in 2 .. n /\ (k + 1) - 1 = k
    BY <1>1
  <2> QED
    BY <1>2, <2>1, <2>2 DEF IsWalk
<1>5. \A k \in 1 .. n : f[k] \in K \cup {NULL}
  <2> DEFINE S == {k \in 0 .. n : k > 0 => f[k] \in K \cup {NULL}}
  <2>1. 0 \in S
    BY <1>1
  <2>2. \A k \in 0 .. n : k \in S /\ k < n => k + 1 \in S
    <3> SUFFICES ASSUME NEW k \in 0 .. n, k \in S, k < n PROVE k + 1 \in S
      OBVIOUS
    <3>1. k + 1 \in 0 .. n
      BY <1>1
    <3>2. CASE k = 0
      BY <1>4, <3>1, <3>2
    <3>3. CASE k # 0
      <4>1. k \in 1 .. n /\ k # n /\ f[k] \in K \cup {NULL}
        BY <1>1, <3>3
      <4>2. f[k + 1] \in K \cup {NULL}
        BY <1>4, <4>1
      <4> QED
        BY <3>1, <4>2
    <3> QED
      BY <3>2, <3>3
  <2> HIDE DEF S
  <2>3. \A k \in 0 .. n : k \in S
    BY <1>1, <2>1, <2>2, CountingTo
  <2> QED
    BY <1>1, <2>3 DEF S
<1>6. ASSUME NEW k \in 1 .. n, f[k] = NULL
      PROVE  \A j \in 1 .. n : j >= k => f[j] = NULL
  <2> DEFINE S == {j \in 0 .. n : j >= k => f[j] = NULL}
  <2>0. k \in Nat /\ k > 0 /\ k <= n
    BY <1>1
  <2>1. 0 \in S
    BY <1>1, <2>0
  <2>2. \A j \in 0 .. n : j \in S /\ j < n => j + 1 \in S
    <3> SUFFICES ASSUME NEW j \in 0 .. n, j \in S, j < n PROVE j + 1 \in S
      OBVIOUS
    <3>1. j + 1 \in 0 .. n
      BY <1>1
    <3>2. CASE j + 1 = k
      BY <1>6, <3>1, <3>2
    <3>3. CASE j >= k
      <4>1. j \in 1 .. n /\ j # n /\ f[j] = NULL
        BY <1>1, <2>0, <3>3
      <4> QED
        BY <1>4, <3>1, <4>1
    <3>4. CASE j + 1 < k
      BY <1>1, <2>0, <3>1, <3>4
    <3> QED
      BY <2>0, <3>2, <3>3, <3>4
  <2> HIDE DEF S
  <2>3. \A j \in 0 .. n : j \in S
    BY <1>1, <2>1, <2>2, CountingTo
  <2> QED
    BY <1>1, <2>3 DEF S
<1>7. ASSUME NEW k \in 1 .. m PROVE f[k] \in K
  <2>1. k \in 1 .. n /\ k - 1 \in Nat /\ k - 1 < m
    BY <1>1, <1>3
  <2> SUFFICES ASSUME f[k] = NULL PROVE FALSE
    BY <1>5, <2>1
  <2>2. D \subseteq 1 .. k - 1
    <3> SUFFICES ASSUME NEW j \in D PROVE j \in 1 .. k - 1
      OBVIOUS
    <3>1. j \in Workers /\ f[j] # NULL
      BY <1>d
    <3>2. j \in 1 .. n
      BY <1>1, <3>1 DEF Workers
    <3>3. ~ (j >= k)
      BY <1>6, <2>1, <3>1, <3>2
    <3> QED
      BY <2>1, <3>2, <3>3
  <2>3. IsFiniteSet(1 .. k - 1) /\ Cardinality(1 .. k - 1) = k - 1
    <3>1. IsFiniteSet(1 .. k - 1)
      BY <2>1, FS_Interval, 1 \in Int, k - 1 \in Int
    <3>2. Cardinality(1 .. k - 1) = k - 1
      BY <2>1, UpTo
    <3> QED
      BY <3>1, <3>2
  <2>4. m <= k - 1
    <3>1. Cardinality(D) <= Cardinality(1 .. k - 1)
      BY <2>2, <2>3, FS_Subset
    <3> QED
      BY <2>3, <3>1 DEF m
  <2> QED
    BY <1>3, <2>1, <2>4
<1>8. [k \in 1 .. m |-> f[k]] \in [1 .. m -> Workers]
  BY <1>7
<1>9. /\ [k \in 1 .. m |-> f[k]] \in Seq(Workers)
      /\ Len([k \in 1 .. m |-> f[k]]) = m
  BY <1>3, <1>8
<1> QED
  BY <1>m, <1>7, <1>9

\* The elements that the scheduler can meet belong to workers that exist.
LEMMA LinkedKnown ==
  ASSUME HeapInv, PointersKnown
  PROVE  /\ Linked \in Seq(Workers) /\ Len(Linked) \in Nat
         /\ \A k \in 1 .. Len(Linked) : Linked[k] \in Known
<1>1. Known \in SUBSET Workers
  BY DEF Known
<1>2. /\ head \in Known \cup {NULL} /\ next \in Links
      /\ \A w \in Workers : next[w] \in Known \cup {NULL}
  BY DEF HeapInv, ListTypes, PointerTypes, PointersKnown, Within
<1>3. /\ Met(head, next) \in Seq(Workers)
      /\ \A k \in 1 .. Len(Met(head, next)) : Met(head, next)[k] \in Known
  BY <1>1, <1>2, MetWorkers
<1> QED
  BY <1>3, LinkedIsMet, LenProperties

-----------------------------------------------------------------------------
(* The steps in list.c.                                                    *)

\* What a call of list.c does to the program counter of its worker.
Moved(from, to) ==
  /\ from \in {"insert", "announce", "remove", "post"}
  /\ \/ to = from
     \/ from = "insert" /\ to = "announce"
     \/ from = "remove" /\ to = "post"

\* A call of list.c touches nothing but the list, unless it takes the process
\* down.
LEMMA CallTouches ==
  ASSUME HeapInv, PointersKnown, NEW w \in Workers, ListCall(w)
  PROVE  /\ Within(Known, head', tail', next', prev', seen')
         /\ UNCHANGED <<created, sched, info, loaded, currentPosition, queue_sem, cpu_sem,
                        exec, num_workers_remaining, elt>>
         /\ main # "failed" /\ main' \in {main, "failed"}
         /\ \E pc : wpc' = [wpc EXCEPT ![w] = pc] /\ Moved(wpc[w], pc)
<1>1. /\ wpc = [wpc EXCEPT ![w] = wpc[w]]
      /\ prev \in Links /\ next \in Links /\ seen \in Links
      /\ main # "failed"
  BY DEF HeapInv, ListTypes, PointerTypes, Goto, C!Alive, ListCall, Insertion, Removal, TestTail,
         FirstTail, ReadBack, FirstHead, SetPrev, RetestTail, ReadTail, LinkBehind, ClearNext,
         NewTail, TestPrev, TestHead, NotHead, ReadNext, Unlink, TestNext, RereadNext, LinkBack,
         TestLast, RetreatTail, ClearElem
<1>2. /\ at[w] \in InsertStates \ {"clear_next", "new_tail"} => wpc[w] = "insert"
      /\ at[w] \in {"clear_next", "new_tail"} => wpc[w] \in {"insert", "announce"}
      /\ at[w] \in {"test_head", "read_next", "unlink"} => wpc[w] = "remove"
      /\ at[w] \in RemoveStates \ {"test_head", "read_next", "unlink"} => wpc[w] = "post"
  BY DEF HeapInv, Calls, Fits
<1>3. Within(Known, head, tail, next, prev, seen) /\ NULL \notin Workers
  BY DEF PointersKnown, Workers, NULL
<1>4. wpc[w] \in {"insert", "announce", "remove", "post"} => w \in Known
  BY DEF Known
<1> USE DEF InsertStates, RemoveStates
<1>5. CASE TestTail(w) \/ RetestTail(w) \/ TestPrev(w) \/ TestHead(w) \/ TestNext(w) \/ TestLast(w)
  BY <1>1, <1>2, <1>3, <1>5 DEF TestTail, RetestTail, TestPrev, TestHead, TestNext, TestLast,
     Goto, Moved
<1>6. CASE FirstTail(w)
  BY <1>1, <1>2, <1>3, <1>4, <1>6 DEF FirstTail, Goto, Moved, Within, Links
<1>7. CASE FirstHead(w)
  BY <1>1, <1>2, <1>3, <1>4, <1>7 DEF FirstHead, Goto, Linking, Moved, Within, Links
<1>8. CASE SetPrev(w)
  BY <1>1, <1>2, <1>3, <1>4, <1>8 DEF SetPrev, Goto, Moved, Within, Links
<1>r. CASE ReadBack(w) \/ ReadTail(w) \/ ReadNext(w) \/ RereadNext(w)
  <2>1. PICK p \in Known \cup {NULL} : seen' = [seen EXCEPT ![w] = p]
    BY <1>2, <1>3, <1>4, <1>r DEF ReadBack, ReadTail, ReadNext, RereadNext, Goto, Within
  <2>2. UNCHANGED <<others, wpc, listVars>> /\ Moved(wpc[w], wpc[w])
    BY <1>2, <1>r DEF ReadBack, ReadTail, ReadNext, RereadNext, Goto, Moved
  <2>3. Within(Known, head', tail', next', prev', seen')
    BY <1>1, <1>3, <2>1, <2>2 DEF Within, Links
  <2> QED
    BY <1>1, <2>2, <2>3
<1>9. CASE LinkBehind(w)
  <2>1. Within(Known, head', tail', next', prev', seen')
    BY <1>1, <1>2, <1>3, <1>4, <1>9 DEF LinkBehind, Goto, Within, Links
  <2>2. main' \in {main, "failed"}
    BY <1>9 DEF LinkBehind
  <2>3. wpc' = [wpc EXCEPT ![w] = "announce"] /\ Moved(wpc[w], "announce")
    BY <1>2, <1>9 DEF LinkBehind, Goto, Linking, Moved
  <2> QED
    BY <1>1, <1>9, <2>1, <2>2, <2>3 DEF LinkBehind
<1>10. CASE ClearNext(w)
  BY <1>1, <1>2, <1>3, <1>4, <1>10 DEF ClearNext, Goto, Moved, Within, Links
<1>11. CASE NewTail(w)
  BY <1>1, <1>2, <1>3, <1>4, <1>11 DEF NewTail, Goto, Linking, Moved, Within, Links
<1>12. CASE NotHead(w)
  BY <1>1, <1>2, <1>3, <1>12 DEF NotHead, Goto, Unlinking, Moved
<1>13. CASE Unlink(w)
  <2>1. Within(Known, head', tail', next', prev', seen')
    BY <1>1, <1>3, <1>13 DEF Unlink, Within, Links
  <2>2. wpc' = [wpc EXCEPT ![w] = "post"] /\ Moved(wpc[w], "post")
    BY <1>2, <1>13 DEF Unlink, Goto, Unlinking, Moved
  <2> QED
    BY <1>1, <1>13, <2>1, <2>2 DEF Unlink
<1>14. CASE LinkBack(w)
  BY <1>1, <1>2, <1>3, <1>4, <1>14 DEF LinkBack, Goto, Moved, Within, Links
<1>15. CASE RetreatTail(w)
  BY <1>1, <1>2, <1>3, <1>4, <1>15 DEF RetreatTail, Goto, Moved, Within, Links
<1>16. CASE ClearElem(w)
  BY <1>1, <1>2, <1>3, <1>4, <1>16 DEF ClearElem, Goto, Moved, Within, Links
<1> QED
  BY <1>5, <1>6, <1>7, <1>8, <1>r, <1>9, <1>10, <1>11, <1>12, <1>13, <1>14, <1>15, <1>16
     DEF ListCall, Insertion, Removal

\* So it harms nothing of this.
LEMMA CallUnharmed ==
  ASSUME HeapInv, Unharmed, NEW w \in Workers, ListCall(w)
  PROVE  Unharmed'
<1> USE DEF Unharmed
<1>1. /\ Within(Known, head', tail', next', prev', seen')
      /\ UNCHANGED <<created, sched, info, loaded, currentPosition, queue_sem, cpu_sem,
                     exec, num_workers_remaining, elt>>
      /\ main # "failed" /\ main' \in {main, "failed"}
  BY CallTouches
<1>2. PICK pc : wpc' = [wpc EXCEPT ![w] = pc] /\ Moved(wpc[w], pc)
  BY CallTouches
<1>3. wpc \in [Workers -> C!WorkerStates]
  BY DEF HeapInv, ListTypes
<1>4. \A v \in Workers : wpc'[v] = IF v = w THEN pc ELSE wpc[v]
  BY <1>2, <1>3
<1>5. /\ wpc[w] \in {"insert", "announce", "remove", "post"}
      /\ pc \in {"insert", "announce", "remove", "post"}
      /\ pc \in C!CpuStates <=> wpc[w] \in C!CpuStates
  BY <1>2 DEF Moved, C!CpuStates
<1>6. /\ wpc[w] \in {"insert", "post"} \cup C!LinkedStates
      /\ pc \in {"insert", "post"} \cup C!LinkedStates
  BY <1>5 DEF C!LinkedStates
<1>7. Known' = Known /\ Staying' = Staying /\ Placed' = Placed
  BY <1>4, <1>5, <1>6 DEF Known, Staying, Placed
<1>8. \A v \in Workers : C!HasCpu(v)' <=> C!HasCpu(v)
  BY <1>1, <1>4, <1>5 DEF C!HasCpu
<1>9. main \notin {"init", "start", "count"}
  BY <1>5 DEF Creation, Workers
<1>a. PointersKnown'
  BY <1>1, <1>7 DEF PointersKnown
<1>b. Types'
  <2>1. main' \in C!MainStates
    BY <1>1 DEF Types, C!MainStates
  <2> QED
    BY <1>1, <2>1 DEF Types
<1>c. Creation'
  BY <1>1, <1>4, <1>5, <1>9 DEF Creation
<1>d. Baton'
  <2>1. info \in Known =>
          info \in Workers /\ (wpc'[info] \in C!CpuStates <=> wpc[info] \in C!CpuStates)
    BY <1>4, <1>5 DEF Known
  <2> QED
    BY <1>1, <1>7, <1>8, <2>1 DEF Baton
<1>e. Counted' /\ Places'
  BY <1>1, <1>7, <1>9 DEF Counted, Places
<1>f. Loaded'
  BY <1>1, <1>4, <1>5 DEF Loaded
<1>g. Finished'
  BY <1>1, <1>5 DEF Finished
<1> QED
  BY <1>a, <1>b, <1>c, <1>d, <1>e, <1>f, <1>g

-----------------------------------------------------------------------------
(* The steps outside of list.c.                                            *)

\* A worker outside of list.c moves on, and it was there.
OutsideTo(w, from, to) ==
  /\ UNCHANGED <<callVars, walkVars>> /\ at[w] = "out" /\ main # "failed"
  /\ UNCHANGED <<main, created, sched, info>>
  /\ wpc[w] = from /\ wpc' = [wpc EXCEPT ![w] = to]
  /\ from # "none" /\ to # "none" /\ from # "exited"

\* What that leaves alone.
LEMMA OutsideKeeps ==
  ASSUME HeapInv, Unharmed, NEW w \in Workers, NEW from, NEW to, OutsideTo(w, from, to)
  PROVE  /\ PointersKnown' /\ Creation' /\ Finished' /\ Known' = Known /\ w \in Known
         /\ UNCHANGED <<main, sched, info>> /\ wpc[w] = from /\ from # "exited"
         /\ main \notin {"init", "start", "count"}
         /\ \A v \in Workers : wpc'[v] = IF v = w THEN to ELSE wpc[v]
         /\ Staying' = IF to \in {"final", "exited"} THEN Staying \ {w} ELSE Staying \cup {w}
         /\ Placed' = IF to \in {"insert", "post"} \cup C!LinkedStates
                      THEN Placed \cup {w} ELSE Placed \ {w}
<1> USE DEF Unharmed
<1>1. /\ UNCHANGED <<main, created, sched, info, head, tail, next, prev, seen, elt>>
      /\ wpc[w] = from /\ wpc' = [wpc EXCEPT ![w] = to]
      /\ from # "none" /\ to # "none" /\ from # "exited"
  BY DEF OutsideTo
<1>2. \A v \in Workers : wpc'[v] = IF v = w THEN to ELSE wpc[v]
  BY <1>1 DEF HeapInv, ListTypes
<1>3. Known' = Known /\ w \in Known
  BY <1>1, <1>2 DEF Known
<1>4. PointersKnown'
  BY <1>1, <1>3 DEF PointersKnown, Within
<1>5. Creation'
  BY <1>1, <1>2 DEF Creation
<1>6. Finished'
  BY <1>1, <1>2 DEF Finished
<1>7. main \notin {"init", "start", "count"}
  BY <1>1 DEF Creation, Workers
<1>8. /\ Staying' = IF to \in {"final", "exited"} THEN Staying \ {w} ELSE Staying \cup {w}
      /\ Placed' = IF to \in {"insert", "post"} \cup C!LinkedStates
                   THEN Placed \cup {w} ELSE Placed \ {w}
  BY <1>2 DEF Staying, Placed
<1> QED
  BY <1>1, <1>2, <1>3, <1>4, <1>5, <1>6, <1>7, <1>8

\* Nobody takes the CPU or gives it back.
LEMMA KeepsBaton ==
  ASSUME HeapInv, Unharmed, NEW w \in Workers, NEW from, NEW to, OutsideTo(w, from, to),
         from \in C!CpuStates <=> to \in C!CpuStates, UNCHANGED <<cpu_sem, exec>>
  PROVE  Baton'
<1>1. /\ Known' = Known /\ \A v \in Workers : wpc'[v] = IF v = w THEN to ELSE wpc[v]
      /\ UNCHANGED <<sched, info>> /\ wpc[w] = from
  BY OutsideKeeps
<1>2. \A v \in Workers : C!HasCpu(v)' <=> C!HasCpu(v)
  BY <1>1 DEF C!HasCpu
<1>3. info \in Known =>
        info \in Workers /\ (wpc'[info] \in C!CpuStates <=> wpc[info] \in C!CpuStates)
  BY <1>1 DEF Known
<1> QED
  BY <1>1, <1>2, <1>3 DEF Unharmed, Baton

\* Nobody is counted in or out.
LEMMA KeepsCounts ==
  ASSUME HeapInv, Unharmed, NEW w \in Workers, NEW from, NEW to, OutsideTo(w, from, to),
         from = "final" <=> to \in {"final", "exited"}, to # "store",
         from \in {"insert", "post"} \cup C!LinkedStates
           <=> to \in {"insert", "post"} \cup C!LinkedStates,
         UNCHANGED <<loaded, queue_sem, num_workers_remaining>>
  PROVE  Counted' /\ Loaded' /\ Places'
<1>1. /\ \A v \in Workers : wpc'[v] = IF v = w THEN to ELSE wpc[v]
      /\ wpc[w] = from /\ main' = main /\ from # "exited"
      /\ Staying' = IF to \in {"final", "exited"} THEN Staying \ {w} ELSE Staying \cup {w}
      /\ Placed' = IF to \in {"insert", "post"} \cup C!LinkedStates
                   THEN Placed \cup {w} ELSE Placed \ {w}
  BY OutsideKeeps
<1>2. Staying' = Staying /\ Placed' = Placed
  BY <1>1 DEF Staying, Placed
<1> QED
  BY <1>1, <1>2 DEF Unharmed, Counted, Loaded, Places

\* There are finitely many of those that are counted.
LEMMA FiniteCounts == /\ IsFiniteSet(Staying) /\ Cardinality(Staying) \in Nat
                      /\ IsFiniteSet(Placed) /\ Cardinality(Placed) \in Nat
BY FiniteThreads DEF Staying, Placed

\* The worker that has the CPU is the one the scheduler waits for.
LEMMA Owns ==
  ASSUME Unharmed, NEW w \in Workers, wpc[w] \in C!CpuStates
  PROVE  /\ sched = "wait_worker" /\ info = w /\ cpu_sem = 0 /\ exec[w] = 0
         /\ \A v \in Workers \ {w} : ~ C!HasCpu(v)
<1>1. C!HasCpu(w)
  BY DEF C!HasCpu
<1>2. sched = "wait_worker" /\ cpu_sem = 0 /\ info = w
  BY <1>1 DEF Unharmed, Baton
<1> QED
  BY <1>1, <1>2 DEF Unharmed, Baton

\* The steps of a worker outside of list.c harm nothing of this.
LEMMA OutsideUnharmed ==
  ASSUME HeapInv, Unharmed, NEW w \in Workers, OutsideList(w)
  PROVE  Unharmed'
<1>0. UNCHANGED <<callVars, walkVars>> /\ at[w] = "out" /\ wpc \in [Workers -> C!WorkerStates]
  BY DEF OutsideList, HeapInv, ListTypes
<1>t. Types
  BY DEF Unharmed
<1>s. /\ "enter" \notin C!CpuStates \cup C!LinkedStates
      /\ "insert" \notin C!CpuStates \cup C!LinkedStates
      /\ "wait" \in C!LinkedStates /\ "announce" \in C!LinkedStates
      /\ "work" \in C!LinkedStates /\ "release" \in C!LinkedStates
      /\ "exiting" \in C!LinkedStates /\ "post" \notin C!LinkedStates
      /\ {"position", "load", "store", "final", "exited"} \cap C!LinkedStates = {}
      /\ {"work", "release", "exiting", "remove", "post", "position", "load", "store", "final"}
           \subseteq C!CpuStates
      /\ {"wait", "announce", "exited"} \cap C!CpuStates = {}
  BY DEF C!CpuStates, C!LinkedStates, C!WorkerStates
<1> USE DEF C!WorkerStep, C!Alive
<1>1. CASE C!EnterWait(w)
  <2>1. OutsideTo(w, "enter", "insert")
    BY <1>0, <1>1 DEF C!EnterWait, OutsideTo
  <2>2. /\ queue_sem' = queue_sem - 1 /\ queue_sem > 0
        /\ UNCHANGED <<loaded, currentPosition, cpu_sem, exec, num_workers_remaining>>
    BY <1>1 DEF C!EnterWait
  <2>3. Baton'
    BY <1>s, <2>1, <2>2, KeepsBaton
  <2>4. /\ Staying' = Staying \cup {w} /\ Placed' = Placed \cup {w}
        /\ \A v \in Workers : wpc'[v] = IF v = w THEN "insert" ELSE wpc[v]
        /\ PointersKnown' /\ Creation' /\ Finished' /\ wpc[w] = "enter"
        /\ main' = main /\ main \notin {"init", "start", "count"}
    BY <2>1, OutsideKeeps
  <2>5. w \in Staying /\ w \notin Placed
    BY <1>s, <2>4 DEF Staying, Placed
  <2>6. Cardinality(Placed') = Cardinality(Placed) + 1
    BY <2>4, <2>5, FiniteCounts, FS_AddElement
  <2>7. Places'
    BY <1>t, <2>2, <2>4, <2>6, FiniteCounts, SchedulerListAssumption DEF Unharmed, Types, Places
  <2>8. Counted' /\ Loaded'
    BY <2>2, <2>4, <2>5 DEF Unharmed, Counted, Loaded
  <2>9. Types'
    BY <1>t, <2>1, <2>2 DEF Types, OutsideTo
  <2> QED
    BY <2>3, <2>4, <2>7, <2>8, <2>9 DEF Unharmed
<1>2. ASSUME NEW from, NEW to, OutsideTo(w, from, to),
             from \in C!CpuStates <=> to \in C!CpuStates,
             from = "final" <=> to \in {"final", "exited"}, to # "store",
             from \in {"insert", "post"} \cup C!LinkedStates
               <=> to \in {"insert", "post"} \cup C!LinkedStates,
             UNCHANGED <<cpu_sem, exec, loaded, queue_sem, num_workers_remaining>>,
             currentPosition' \in Int
      PROVE  Unharmed'
  <2>1. Baton'
    BY <1>2, KeepsBaton
  <2>2. Counted' /\ Loaded' /\ Places'
    BY <1>2, KeepsCounts
  <2>3. PointersKnown' /\ Creation' /\ Finished'
    BY <1>2, OutsideKeeps
  <2>4. Types'
    BY <1>t, <1>2 DEF Types, OutsideTo
  <2> QED
    BY <2>1, <2>2, <2>3, <2>4 DEF Unharmed
<1>3. CASE C!Announce(w)
  <2>1. OutsideTo(w, "announce", "wait")
    BY <1>0, <1>3 DEF C!Announce, OutsideTo
  <2>2. UNCHANGED <<cpu_sem, exec, loaded, queue_sem, num_workers_remaining, currentPosition>>
    BY <1>3 DEF C!Announce
  <2> QED
    BY <1>2, <1>s, <1>t, <2>1, <2>2 DEF Types
<1>4. CASE C!Work(w)
  <2>1. OutsideTo(w, "work", "release")
    BY <1>0, <1>4 DEF C!Work, OutsideTo
  <2>2. UNCHANGED <<cpu_sem, exec, loaded, queue_sem, num_workers_remaining, currentPosition>>
    BY <1>4 DEF C!Work
  <2> QED
    BY <1>2, <1>s, <1>t, <2>1, <2>2 DEF Types
<1>5. CASE C!Exiting(w)
  <2>1. OutsideTo(w, "exiting", "remove")
    BY <1>0, <1>5 DEF C!Exiting, OutsideTo
  <2>2. UNCHANGED <<cpu_sem, exec, loaded, queue_sem, num_workers_remaining, currentPosition>>
    BY <1>5 DEF C!Exiting
  <2>3. "remove" \in C!LinkedStates
    BY DEF C!LinkedStates
  <2> QED
    BY <1>2, <1>s, <1>t, <2>1, <2>2, <2>3 DEF Types
<1>6. CASE C!StepBack(w)
  <2>1. OutsideTo(w, "position", "load")
    BY <1>0, <1>6 DEF C!StepBack, OutsideTo
  <2>2. /\ UNCHANGED <<cpu_sem, exec, loaded, queue_sem, num_workers_remaining>>
        /\ currentPosition' = currentPosition - 1
    BY <1>6 DEF C!StepBack
  <2>3. currentPosition' \in Int
    BY <1>t, <2>2 DEF Types
  <2> QED
    BY <1>2, <1>s, <2>1, <2>2, <2>3
<1>7. CASE C!LoadRemaining(w)
  <2>1. OutsideTo(w, "load", "store")
    BY <1>0, <1>7 DEF C!LoadRemaining, OutsideTo
  <2>2. /\ UNCHANGED <<cpu_sem, exec, queue_sem, num_workers_remaining, currentPosition>>
        /\ loaded' = [loaded EXCEPT ![w] = num_workers_remaining]
    BY <1>7 DEF C!LoadRemaining
  <2>3. Baton'
    BY <1>s, <2>1, <2>2, KeepsBaton
  <2>4. /\ Staying' = Staying \cup {w} /\ Placed' = Placed \ {w}
        /\ \A v \in Workers : wpc'[v] = IF v = w THEN "store" ELSE wpc[v]
        /\ PointersKnown' /\ Creation' /\ Finished' /\ wpc[w] = "load"
        /\ main' = main
    BY <1>s, <2>1, OutsideKeeps
  <2>5. Staying' = Staying /\ Placed' = Placed
    BY <1>s, <2>4 DEF Staying, Placed
  <2>6. Counted' /\ Places'
    BY <2>2, <2>4, <2>5 DEF Unharmed, Counted, Places
  <2>7. Loaded'
    BY <1>t, <2>2, <2>4 DEF Unharmed, Types, Loaded
  <2>8. Types'
    BY <1>t, <2>1, <2>2 DEF Types, OutsideTo
  <2> QED
    BY <2>3, <2>4, <2>6, <2>7, <2>8 DEF Unharmed
<1>8. CASE C!StoreRemaining(w)
  <2>1. OutsideTo(w, "store", "final")
    BY <1>0, <1>8 DEF C!StoreRemaining, OutsideTo
  <2>2. /\ UNCHANGED <<cpu_sem, exec, queue_sem, loaded, currentPosition>>
        /\ num_workers_remaining' = loaded[w] - 1
    BY <1>8 DEF C!StoreRemaining
  <2>3. Baton'
    BY <1>s, <2>1, <2>2, KeepsBaton
  <2>4. /\ Staying' = Staying \ {w} /\ Placed' = Placed \ {w}
        /\ \A v \in Workers : wpc'[v] = IF v = w THEN "final" ELSE wpc[v]
        /\ PointersKnown' /\ Creation' /\ Finished' /\ wpc[w] = "store"
        /\ main' = main
    BY <1>s, <2>1, OutsideKeeps
  <2>5. Placed' = Placed /\ w \in Staying
    BY <1>s, <2>4 DEF Staying, Placed
  <2>6. Cardinality(Staying') = Cardinality(Staying) - 1
    BY <2>4, <2>5, FiniteCounts, FS_RemoveElement
  <2>7. num_workers_remaining' = num_workers_remaining - 1
    BY <2>2, <2>4 DEF Unharmed, Loaded
  <2>8. Counted' /\ Places'
    <3>1. main' \notin {"init", "start", "count", "failed"} =>
            num_workers_remaining = Cardinality(Staying)
      BY <2>4 DEF Unharmed, Counted
    <3> QED
      BY <2>2, <2>4, <2>5, <2>6, <2>7, <3>1 DEF Unharmed, Counted, Places
  <2>9. Loaded'
    <3>1. \A v \in Workers \ {w} : wpc[v] # "store"
      BY <1>s, <2>4, Owns DEF C!HasCpu
    <3> QED
      BY <2>4, <3>1 DEF Loaded
  <2>10. Types'
    <3>1. loaded[w] - 1 \in Int
      BY <1>t DEF Types
    <3> QED
      BY <1>t, <2>1, <2>2, <3>1 DEF Types, OutsideTo
  <2> QED
    BY <2>3, <2>4, <2>8, <2>9, <2>10 DEF Unharmed
<1>9. CASE C!PostQueue(w)
  <2>1. OutsideTo(w, "post", "position")
    BY <1>0, <1>9 DEF C!PostQueue, OutsideTo
  <2>2. /\ queue_sem' = queue_sem + 1
        /\ UNCHANGED <<loaded, currentPosition, cpu_sem, exec, num_workers_remaining>>
    BY <1>9 DEF C!PostQueue
  <2>3. Baton'
    BY <1>s, <2>1, <2>2, KeepsBaton
  <2>4. /\ Staying' = Staying \cup {w} /\ Placed' = Placed \ {w}
        /\ \A v \in Workers : wpc'[v] = IF v = w THEN "position" ELSE wpc[v]
        /\ PointersKnown' /\ Creation' /\ Finished' /\ wpc[w] = "post"
        /\ main' = main /\ main \notin {"init", "start", "count"}
    BY <1>s, <2>1, OutsideKeeps
  <2>5. w \in Staying /\ w \in Placed
    BY <2>4 DEF Staying, Placed
  <2>6. Cardinality(Placed') = Cardinality(Placed) - 1
    BY <2>4, <2>5, FiniteCounts, FS_RemoveElement
  <2>7. Places'
    BY <1>t, <2>2, <2>4, <2>6, FiniteCounts, SchedulerListAssumption DEF Unharmed, Types, Places
  <2>8. Counted' /\ Loaded'
    <3>1. Staying' = Staying
      BY <2>4, <2>5
    <3> QED
      BY <2>2, <2>4, <3>1 DEF Unharmed, Counted, Loaded
  <2>9. Types'
    BY <1>t, <2>1, <2>2 DEF Types, OutsideTo
  <2> QED
    BY <2>3, <2>4, <2>7, <2>8, <2>9 DEF Unharmed
<1>10. CASE C!WaitForCpu(w)
  <2>1. PICK to \in {"work", "exiting"} : wpc' = [wpc EXCEPT ![w] = to]
    BY <1>10 DEF C!WaitForCpu
  <2>2. OutsideTo(w, "wait", to) /\ to \in C!CpuStates /\ to \in C!LinkedStates
    BY <1>0, <1>s, <1>10, <2>1 DEF C!WaitForCpu, OutsideTo
  <2>3. /\ exec[w] > 0 /\ exec' = [exec EXCEPT ![w] = @ - 1]
        /\ UNCHANGED <<loaded, queue_sem, cpu_sem, num_workers_remaining, currentPosition>>
    BY <1>10 DEF C!WaitForCpu
  <2>4. Counted' /\ Loaded' /\ Places'
    BY <1>s, <2>1, <2>2, <2>3, KeepsCounts
  <2>5. /\ PointersKnown' /\ Creation' /\ Finished' /\ Known' = Known
        /\ \A v \in Workers : wpc'[v] = IF v = w THEN to ELSE wpc[v]
        /\ UNCHANGED <<sched, info>>
    BY <2>2, OutsideKeeps
  <2>6. exec[w] \in Nat /\ exec \in [Workers -> Nat]
    BY <1>t DEF Types
  <2>7. exec' \in [Workers -> Nat] /\ exec'[w] = exec[w] - 1
        /\ \A v \in Workers \ {w} : exec'[v] = exec[v]
    BY <2>3, <2>6
  <2>8. C!HasCpu(w)
    BY <2>3 DEF C!HasCpu
  <2>9. /\ sched = "wait_worker" /\ info = w /\ cpu_sem = 0 /\ exec[w] = 1 /\ w \in Known
        /\ \A v \in Workers \ {w} : ~ C!HasCpu(v)
    BY <2>3, <2>8 DEF Unharmed, Baton
  <2>10. \A v \in Workers \ {w} : ~ C!HasCpu(v)'
    BY <2>5, <2>7, <2>9 DEF C!HasCpu
  <2>11. Baton'
    BY <2>2, <2>3, <2>5, <2>7, <2>9, <2>10 DEF Baton
  <2>12. Types'
    BY <1>t, <2>2, <2>3, <2>7 DEF Types, OutsideTo
  <2> QED
    BY <2>4, <2>5, <2>11, <2>12 DEF Unharmed
<1>11. CASE C!ReleaseCpu(w) \/ C!FinalRelease(w)
  <2>1. PICK from, to :
          /\ OutsideTo(w, from, to) /\ from \in C!CpuStates /\ to \notin C!CpuStates
          /\ from = "final" <=> to \in {"final", "exited"}
          /\ to # "store"
          /\ from \in {"insert", "post"} \cup C!LinkedStates
               <=> to \in {"insert", "post"} \cup C!LinkedStates
    <3>1. CASE C!ReleaseCpu(w)
      <4>1. OutsideTo(w, "release", "wait")
        BY <1>0, <3>1 DEF C!ReleaseCpu, OutsideTo
      <4> QED
        BY <1>s, <4>1
    <3>2. CASE C!FinalRelease(w)
      <4>1. OutsideTo(w, "final", "exited")
        BY <1>0, <3>2 DEF C!FinalRelease, OutsideTo
      <4> QED
        BY <1>s, <4>1
    <3> QED
      BY <1>11, <3>1, <3>2
  <2>2. /\ cpu_sem' = cpu_sem + 1
        /\ UNCHANGED <<loaded, queue_sem, exec, num_workers_remaining, currentPosition>>
    BY <1>11 DEF C!ReleaseCpu, C!FinalRelease
  <2>3. Counted' /\ Loaded' /\ Places'
    BY <2>1, <2>2, KeepsCounts
  <2>4. /\ PointersKnown' /\ Creation' /\ Finished' /\ Known' = Known
        /\ \A v \in Workers : wpc'[v] = IF v = w THEN to ELSE wpc[v]
        /\ UNCHANGED <<sched, info>> /\ wpc[w] = from
    BY <2>1, OutsideKeeps
  <2>5. /\ sched = "wait_worker" /\ cpu_sem = 0 /\ exec[w] = 0
        /\ \A v \in Workers \ {w} : ~ C!HasCpu(v)
    BY <2>1, <2>4, Owns
  <2>6. \A v \in Workers : ~ C!HasCpu(v)'
    BY <2>1, <2>2, <2>4, <2>5 DEF C!HasCpu
  <2>7. Baton'
    BY <2>2, <2>4, <2>5, <2>6 DEF Baton
  <2>8. Types'
    BY <1>t, <2>1, <2>2 DEF Types, OutsideTo
  <2> QED
    BY <2>3, <2>4, <2>7, <2>8 DEF Unharmed
<1> QED
  BY <1>1, <1>3, <1>4, <1>5, <1>6, <1>7, <1>8, <1>9, <1>10, <1>11 DEF OutsideList

-----------------------------------------------------------------------------
(* The steps of main and of the scheduler.                                 *)

\* What concerns the workers and the list alone stays.
LEMMA SameWorkers ==
  ASSUME UNCHANGED <<callVars, wpc>>, elt' = elt \/ elt' \in Known \cup {NULL}
  PROVE  /\ Known' = Known /\ Staying' = Staying /\ Placed' = Placed
         /\ PointersKnown => PointersKnown'
BY DEF Known, Staying, Placed, PointersKnown, Within

\* The steps of main harm nothing of this.
LEMMA MainUnharmed ==
  ASSUME HeapInv, Unharmed, Main
  PROVE  Unharmed'
<1> USE DEF Unharmed
<1>0. UNCHANGED <<callVars, walkVars>> /\ C!Main /\ wpc \in [Workers -> C!WorkerStates]
  BY DEF Main, HeapInv, ListTypes
<1>t. NumWorkers \in Nat /\ QueueSize \in Nat
  BY SchedulerListAssumption
<1>1. CASE C!CreateWorker
  <2> DEFINE new == created + 1
  <2>1. /\ created \in Nat /\ new = created + 1 /\ new \in Workers /\ new <= NumWorkers
        /\ wpc[new] = "none" /\ main = "create"
    BY <1>1, <1>t DEF C!CreateWorker, Types, Creation, Workers
  <2>2. /\ main' = IF new = NumWorkers THEN "report" ELSE "create"
        /\ created' = new
        /\ wpc' = [wpc EXCEPT ![new] = "enter"] /\ exec' = [exec EXCEPT ![new] = 0]
        /\ UNCHANGED <<sched, info, loaded, currentPosition, queue_sem, cpu_sem,
                       num_workers_remaining>>
    BY <1>1 DEF C!CreateWorker
  <2> HIDE DEF new
  <2>3. /\ \A v \in Workers : wpc'[v] = IF v = new THEN "enter" ELSE wpc[v]
        /\ \A v \in Workers : exec'[v] = IF v = new THEN 0 ELSE exec[v]
        /\ exec' \in [Workers -> Nat]
    BY <1>0, <2>2 DEF Types
  <2>4. Known' = Known \cup {new} /\ new \notin Known /\ Known \subseteq Workers
    BY <2>1, <2>3 DEF Known
  <2>5. PointersKnown'
    BY <1>0, <2>4 DEF PointersKnown, Within
  <2>6. Types'
    <3>1. main' \in C!MainStates
      BY <2>2 DEF C!MainStates
    <3>2. new \in 0 .. NumWorkers
      BY <2>1, <1>t
    <3> QED
      BY <2>2, <2>3, <3>1, <3>2 DEF Types
  <2>7. Creation'
    <3>1. \A v \in Workers : wpc'[v] = "none" <=> v > new
      BY <2>1, <2>3 DEF Creation, Workers
    <3>2. main' = "create" => new < NumWorkers
      BY <1>t, <2>1, <2>2
    <3>3. new > 0 /\ main' \in {"report", "create"}
      BY <2>1, <2>2
    <3> QED
      BY <2>2, <3>1, <3>2, <3>3 DEF Creation
  <2>8. \A v \in Workers : C!HasCpu(v)' => C!HasCpu(v)
    <3>1. "enter" \notin C!CpuStates
      BY DEF C!CpuStates
    <3> QED
      BY <2>3, <3>1 DEF C!HasCpu
  <2>9. Baton'
    <3>1. info \in Known =>
            /\ info \in Known' /\ info \in Workers
            /\ wpc'[info] = wpc[info] /\ exec'[info] = exec[info]
      BY <2>3, <2>4
    <3> QED
      BY <2>2, <2>8, <3>1 DEF Baton
  <2>10. Staying' = Staying /\ Placed' = Placed
    <3>1. {"none", "enter"} \cap ({"insert", "post"} \cup C!LinkedStates) = {}
      BY DEF C!LinkedStates
    <3> QED
      BY <2>1, <2>3, <3>1 DEF Staying, Placed
  <2>11. Counted' /\ Places'
    BY <2>1, <2>2, <2>10 DEF Counted, Places
  <2>12. Loaded'
    BY <2>2, <2>3 DEF Loaded
  <2>13. Finished'
    BY <2>1, <2>2, <2>3 DEF Finished
  <2> QED
    BY <2>5, <2>6, <2>7, <2>9, <2>11, <2>12, <2>13
<1>2. ASSUME ~ C!CreateWorker
      PROVE  /\ UNCHANGED <<created, info, wpc, loaded, exec>>
             /\ main' \in C!MainStates
             /\ \/ C!InitSchedQueue
                \/ /\ cpu_sem' = cpu_sem /\ queue_sem' = queue_sem
                   /\ currentPosition' = currentPosition
  BY <1>0, <1>2 DEF C!Main, C!InitSchedQueue, C!StartScheduler, C!SetRemaining, C!ExitError,
     C!ReportWaiting, C!JoinScheduler, C!CleanUp, C!MainStates
<1>3. CASE C!InitSchedQueue
  <2>1. /\ main = "init" /\ main' = "start" /\ cpu_sem' = 0 /\ queue_sem' = QueueSize
        /\ currentPosition' = 0
        /\ UNCHANGED <<created, sched, info, wpc, loaded, exec, num_workers_remaining>>
    BY <1>3 DEF C!InitSchedQueue
  <2>2. /\ Known' = Known /\ Staying' = Staying /\ Placed' = Placed /\ PointersKnown'
    BY <1>0, <2>1, SameWorkers
  <2>3. Types'
    BY <1>t, <2>1 DEF Types, C!MainStates
  <2>4. Creation'
    BY <2>1 DEF Creation
  <2>5. sched = "idle" /\ cpu_sem = 0
    BY <2>1 DEF Creation, Baton
  <2>6. Baton'
    BY <2>1, <2>2, <2>5 DEF Baton, C!HasCpu
  <2>7. Placed = {}
    <3>1. \A v \in Workers : wpc[v] = "none"
      BY <2>1 DEF Creation, Workers
    <3>2. "none" \notin {"insert", "post"} \cup C!LinkedStates
      BY DEF C!LinkedStates
    <3> QED
      BY <3>1, <3>2 DEF Placed
  <2>8. Places'
    BY <1>t, <2>1, <2>2, <2>7, FS_EmptySet DEF Places
  <2>9. Counted' /\ Loaded' /\ Finished'
    BY <2>1 DEF Counted, Loaded, Finished
  <2> QED
    BY <2>2, <2>3, <2>4, <2>6, <2>8, <2>9
<1>4. CASE C!SetRemaining
  <2>1. /\ main = "count" /\ main' \in {"report", "create"} /\ num_workers_remaining' = NumWorkers
        /\ main' = "create" => NumWorkers # 0
        /\ UNCHANGED <<created, sched, info, wpc, loaded, currentPosition, queue_sem,
                       cpu_sem, exec>>
    BY <1>4 DEF C!SetRemaining
  <2>2. /\ Known' = Known /\ Staying' = Staying /\ Placed' = Placed /\ PointersKnown'
    BY <1>0, <2>1, SameWorkers
  <2>3. \A v \in Workers : wpc[v] = "none"
    BY <2>1 DEF Creation, Workers
  <2>4. Staying = Workers
    BY <2>3 DEF Staying
  <2>5. Types'
    BY <1>t, <2>1 DEF Types, C!MainStates
  <2>6. Creation'
    BY <1>t, <2>1 DEF Creation
  <2>7. Baton'
    BY <2>1, <2>2 DEF Baton, C!HasCpu
  <2>8. Counted' /\ Places' /\ Finished'
    BY <2>1, <2>2, <2>4, FiniteThreads DEF Counted, Places, Finished
  <2>9. Loaded'
    BY <2>1, <2>3 DEF Loaded
  <2> QED
    BY <2>2, <2>5, <2>6, <2>7, <2>8, <2>9
<1>5. ASSUME UNCHANGED <<created, info, wpc, loaded, exec, cpu_sem, queue_sem, currentPosition,
                         num_workers_remaining>>,
             main' \in C!MainStates, main' # "init", main # "init",
             \/ sched' = sched
             \/ main = "start" /\ main' = "count" /\ sched' = "queue"
             \/ main' = "failed" /\ sched' = sched,
             \/ main = "start" /\ main' = "count"
             \/ main' = "failed" /\ main \in {"start", "count", "create"}
             \/ main = "report" /\ main' = "join"
             \/ main = "join" /\ main' = "cleanup" /\ sched = "done"
             \/ main = "cleanup" /\ main' = "end"
      PROVE  Unharmed'
  <2>1. /\ Known' = Known /\ Staying' = Staying /\ Placed' = Placed /\ PointersKnown'
    BY <1>0, <1>5, SameWorkers
  <2>2. main = "start" => sched = "idle"
    BY DEF Creation
  <2>3. Types'
    BY <1>5 DEF Types, C!SchedStates
  <2>4. Creation'
    BY <1>5 DEF Creation
  <2>5. Baton'
    BY <1>5, <2>1, <2>2 DEF Baton, C!HasCpu
  <2>6. Counted' /\ Loaded' /\ Places' /\ Finished'
    BY <1>5, <2>1, <2>2 DEF Counted, Loaded, Places, Finished
  <2> QED
    BY <2>1, <2>3, <2>4, <2>5, <2>6
<1>6. CASE C!StartScheduler
  BY <1>5, <1>6 DEF C!StartScheduler, C!MainStates
<1>7. CASE C!ExitError
  BY <1>5, <1>7 DEF C!ExitError, C!MainStates
<1>8. CASE C!ReportWaiting
  BY <1>5, <1>8 DEF C!ReportWaiting, C!MainStates
<1>9. CASE C!JoinScheduler
  BY <1>5, <1>9 DEF C!JoinScheduler, C!MainStates
<1>10. CASE C!CleanUp
  BY <1>5, <1>10 DEF C!CleanUp, C!MainStates
<1> QED
  BY <1>0, <1>1, <1>3, <1>4, <1>6, <1>7, <1>8, <1>9, <1>10 DEF C!Main

\* The scheduler stops only when the last worker has given the CPU back.
LEMMA AllGone ==
  ASSUME Unharmed, sched = "test", main # "failed", num_workers_remaining <= 0
  PROVE  \A w \in Workers : wpc[w] = "exited"
<1>1. main \notin {"init", "start", "count", "failed"}
  BY DEF Unharmed, Creation
<1>2. Cardinality(Staying) <= 0
  BY <1>1 DEF Unharmed, Counted
<1>3. Staying = {}
  BY <1>2, FiniteCounts, FS_EmptySet
<1>4. \A w \in Workers : wpc[w] \notin C!CpuStates
  BY DEF Unharmed, Baton, C!HasCpu
<1> QED
  BY <1>3, <1>4 DEF Staying, C!CpuStates

\* The steps of the scheduler harm nothing of this, whatever they find on the
\* list.
LEMMA SchedProcUnharmed ==
  ASSUME HeapInv, Unharmed, SchedProc
  PROVE  Unharmed'
<1> USE DEF Unharmed, C!SchedStep, C!Alive, CountedAll
<1>e. elt \in Known \cup {NULL} /\ Look \in Known \cup {NULL}
  BY DEF PointersKnown, Within, Look, Known, NULL
<1>f. InListSize /\ elt = NULL => count = 0
  BY DEF HeapInv, ListTypes, WalkTypes
<1>0. ListWalk \/ OutsideWalk
  BY DEF SchedProc
<1>1. UNCHANGED <<callVars, created, wpc, loaded, queue_sem, num_workers_remaining>>
  <2>1. CASE ListWalk
    BY <2>1 DEF ListWalk, CountElem, GoOn, WaitForQueue, RRNext, RRWrap, RRStep, RRWalk
  <2>2. CASE OutsideWalk
    BY <2>2 DEF OutsideWalk, C!TestRemaining, C!FifoNext, C!WakeUpWorker, C!WaitForWorker,
       C!SchedulerDone
  <2> QED
    BY <1>0, <2>1, <2>2
<1>2. /\ main # "failed" /\ main' \in {main, "failed"}
      /\ elt' \in {elt, Look, NULL}
  <2>1. CASE ListWalk
    BY <2>1 DEF ListWalk, CountElem, GoOn, WaitForQueue, RRNext, RRWrap, RRStep, RRWalk
  <2>2. CASE OutsideWalk
    BY <2>2 DEF OutsideWalk, C!TestRemaining, C!FifoNext, C!WakeUpWorker, C!WaitForWorker,
       C!SchedulerDone
  <2> QED
    BY <1>0, <2>1, <2>2
<1>3. /\ Known' = Known /\ Staying' = Staying /\ Placed' = Placed /\ PointersKnown'
  BY <1>e, <1>1, <1>2, SameWorkers
<1>5. sched \notin {"idle", "done"}
  <2>1. CASE ListWalk
    BY <2>1 DEF ListWalk, CountElem, InListSize, WaitForQueue, RRNext, RRWrap, RRStep, RRWalk
  <2>2. CASE OutsideWalk
    BY <2>2 DEF OutsideWalk, C!TestRemaining, C!FifoNext, C!WakeUpWorker, C!WaitForWorker,
       C!SchedulerDone
  <2> QED
    BY <1>0, <2>1, <2>2
<1>6. main \notin {"init", "start"}
  BY <1>5 DEF Creation
<1>7. Counted' /\ Loaded' /\ Places'
  BY <1>1, <1>2, <1>3, <1>6 DEF Counted, Loaded, Places
<1>8. Known # {} => created > 0
  BY DEF Creation, Known, Types, Workers
<1>9. sched' \notin {"idle", "queue"} => created' > 0
  <2>1. CASE WaitForQueue
    <3>1. count # 0 /\ InListSize
      BY <2>1 DEF WaitForQueue, InListSize
    <3>2. elt \in Known
      BY <1>e, <1>f, <3>1
    <3> QED
      BY <1>1, <1>8, <3>2
  <2>2. CASE sched = "queue" /\ sched' = "queue"
    BY <2>2
  <2>3. CASE sched \notin {"idle", "queue"}
    BY <1>1, <2>3 DEF Creation
  <2>4. WaitForQueue \/ sched # "queue" \/ sched' = "queue"
    BY <1>0 DEF ListWalk, CountElem, GoOn, RRNext, RRWrap, RRStep, RRWalk,
       OutsideWalk, C!TestRemaining, C!FifoNext, C!WakeUpWorker, C!WaitForWorker, C!SchedulerDone
  <2> QED
    BY <1>5, <2>1, <2>2, <2>3, <2>4
<1>10. Creation'
  BY <1>1, <1>2, <1>6, <1>9 DEF Creation
<1>11. sched' \in {"print", "done"} => \A w \in Workers : wpc'[w] = "exited"
  <2>1. CASE C!TestRemaining
    <3>1. sched = "test" /\ sched' = IF num_workers_remaining > 0 THEN "next" ELSE "print"
      BY <2>1 DEF C!TestRemaining
    <3>2. num_workers_remaining \in Int
      BY DEF Types
    <3> QED
      BY <1>1, <1>2, <3>1, <3>2, AllGone
  <2>2. CASE ~ C!TestRemaining
    <3>1. sched' \in {"print", "done"} => sched \in {"print", "done"}
      BY <1>0, <2>2 DEF ListWalk, CountElem, GoOn, WaitForQueue, RRNext, RRWrap, RRStep, RRWalk,
         OutsideWalk, C!FifoNext, C!WakeUpWorker, C!WaitForWorker, C!SchedulerDone
    <3> QED
      BY <1>1, <3>1 DEF Finished
  <2> QED
    BY <2>1, <2>2
<1>12. Finished'
  BY <1>1, <1>2, <1>5, <1>11 DEF Finished
<1>13. main' \in C!MainStates
  BY <1>2 DEF Types, C!MainStates
<1>14. ASSUME sched' \in C!SchedStates \ {"idle", "wake", "wait_worker"}, sched # "wait_worker",
              UNCHANGED <<cpu_sem, exec>>, info' \in Workers \cup {NULL}, currentPosition' \in Int
       PROVE  Unharmed'
  <2>1. Baton'
    BY <1>1, <1>14 DEF Baton, C!HasCpu
  <2>2. Types'
    BY <1>1, <1>13, <1>14 DEF Types
  <2> QED
    BY <1>3, <1>7, <1>10, <1>12, <2>1, <2>2
<1>15. ASSUME sched' = "wake", sched # "wait_worker", info' \in Known,
              UNCHANGED <<cpu_sem, exec>>, currentPosition' \in Int
       PROVE  Unharmed'
  <2>1. Baton'
    BY <1>1, <1>3, <1>15 DEF Baton, C!HasCpu
  <2>2. Types'
    BY <1>1, <1>13, <1>15 DEF Types, Known, C!SchedStates
  <2> QED
    BY <1>3, <1>7, <1>10, <1>12, <2>1, <2>2
<1>16. CASE CountElem \/ RRStep
  BY <1>14, <1>16 DEF CountElem, InListSize, RRStep, GoOn, Types
<1>4. CASE WaitForQueue
  BY <1>14, <1>4 DEF WaitForQueue, Types, C!SchedStates
<1>17. CASE C!TestRemaining
  BY <1>14, <1>17 DEF C!TestRemaining, Types, C!SchedStates
<1>18. CASE C!FifoNext
  <2>1. /\ sched = "next" /\ UNCHANGED <<cpu_sem, exec, currentPosition>>
        /\ info' = IF Linked = <<>> THEN NULL ELSE Head(Linked)
        /\ sched' = IF Linked = <<>> THEN "queue" ELSE "wake"
    BY <1>18 DEF C!FifoNext, C!NULL, NULL
  <2>2. CASE Linked = <<>>
    BY <1>14, <2>1, <2>2 DEF Types, C!SchedStates
  <2>3. CASE Linked # <<>>
    <3>1. /\ Linked \in Seq(Workers) /\ Len(Linked) \in Nat
          /\ \A k \in 1 .. Len(Linked) : Linked[k] \in Known
      BY LinkedKnown
    <3>2. Head(Linked) \in Known
      BY <2>3, <3>1
    <3> QED
      BY <1>15, <2>1, <2>3, <3>2 DEF Types
  <2> QED
    BY <2>2, <2>3
<1>19. CASE RRNext
  BY <1>14, <1>19 DEF RRNext, Types, C!SchedStates
<1>20. CASE RRWrap
  BY <1>14, <1>20 DEF RRWrap, Types, C!SchedStates
<1>21. CASE RRWalk
  <2>1. sched = "walk" /\ UNCHANGED <<cpu_sem, exec>> /\ currentPosition \in Int
    BY <1>21 DEF RRWalk, Types
  <2>2. CASE Look # NULL
    <3>1. Look \in Known
      BY <1>e, <2>2
    <3>2. sched' = "wake" /\ info' = Look /\ currentPosition' = currentPosition + 1
      BY <1>21, <2>2 DEF RRWalk
    <3> QED
      BY <1>15, <2>1, <3>1, <3>2
  <2>3. CASE Look = NULL
    <3>1. UNCHANGED <<sched, info, currentPosition>>
      BY <1>21, <2>3 DEF RRWalk
    <3> QED
      BY <1>14, <2>1, <3>1 DEF Types, C!SchedStates
  <2> QED
    BY <2>2, <2>3
<1>22. CASE C!WakeUpWorker
  <2>1. /\ sched = "wake" /\ sched' = "wait_worker" /\ exec' = [exec EXCEPT ![info] = @ + 1]
        /\ UNCHANGED <<info, cpu_sem, currentPosition>>
    BY <1>22 DEF C!WakeUpWorker
  <2>2. /\ info \in Known /\ info \in Workers /\ cpu_sem = 0 /\ \A w \in Workers : ~ C!HasCpu(w)
    BY <2>1 DEF Baton, Known
  <2>3. exec \in [Workers -> Nat]
    BY DEF Types
  <2>4. exec[info] = 0 /\ wpc[info] \notin C!CpuStates
    BY <2>2, <2>3 DEF C!HasCpu
  <2>5. /\ exec' \in [Workers -> Nat] /\ exec'[info] = 1
        /\ \A w \in Workers \ {info} : exec'[w] = exec[w]
    BY <2>1, <2>2, <2>3, <2>4
  <2>6. \A w \in Workers \ {info} : ~ C!HasCpu(w)'
    BY <1>1, <2>2, <2>5 DEF C!HasCpu
  <2>7. Baton'
    BY <1>1, <1>3, <2>1, <2>2, <2>4, <2>5, <2>6 DEF Baton
  <2>8. Types'
    BY <1>1, <1>13, <2>1, <2>5 DEF Types, C!SchedStates
  <2> QED
    BY <1>3, <1>7, <1>10, <1>12, <2>7, <2>8
<1>23. CASE C!WaitForWorker
  <2>1. /\ sched = "wait_worker" /\ sched' = "test" /\ cpu_sem > 0 /\ cpu_sem' = cpu_sem - 1
        /\ UNCHANGED <<info, exec, currentPosition>>
    BY <1>23 DEF C!WaitForWorker
  <2>2. cpu_sem = 1 /\ \A w \in Workers : ~ C!HasCpu(w)
    BY <2>1 DEF Baton
  <2>3. \A w \in Workers : ~ C!HasCpu(w)'
    BY <1>1, <2>1, <2>2 DEF C!HasCpu
  <2>4. Baton'
    BY <2>1, <2>2, <2>3 DEF Baton
  <2>5. Types'
    BY <1>1, <1>13, <2>1, <2>2 DEF Types, C!SchedStates
  <2> QED
    BY <1>3, <1>7, <1>10, <1>12, <2>4, <2>5
<1>24. CASE C!SchedulerDone
  BY <1>14, <1>24 DEF C!SchedulerDone, Types, C!SchedStates
<1> QED
  BY <1>0, <1>16, <1>4, <1>17, <1>18, <1>19, <1>20, <1>21, <1>22, <1>23, <1>24
     DEF ListWalk, OutsideWalk

-----------------------------------------------------------------------------
(* So the semaphores and the counter do what they are for after a race too.  *)

\* At first nothing has run.
LEMMA InitUnharmed == Init => Unharmed
<1> SUFFICES ASSUME Init PROVE Unharmed
  OBVIOUS
<1>1. /\ main = "init" /\ created = 0 /\ sched = "idle" /\ info = NULL
      /\ \A w \in Workers : wpc[w] = "none" /\ exec[w] = 0
      /\ loaded = [w \in Workers |-> 0] /\ exec = [w \in Workers |-> 0]
      /\ currentPosition = 0 /\ queue_sem = 0 /\ cpu_sem = 0 /\ num_workers_remaining = 0
  BY DEF Init, C!Init, C!Workers, Workers, C!NULL, NULL
<1>2. PointersKnown
  BY DEF Init, PointersKnown, Within
<1>3. Types
  BY <1>1, SchedulerListAssumption DEF Types, C!MainStates, C!SchedStates
<1>4. Creation
  BY <1>1, SchedulerListAssumption DEF Creation, Workers
<1>5. Baton
  BY <1>1 DEF Baton, C!HasCpu, C!CpuStates
<1>6. Counted /\ Loaded /\ Places /\ Finished
  BY <1>1 DEF Counted, Loaded, Places, Finished
<1> QED
  BY <1>2, <1>3, <1>4, <1>5, <1>6 DEF Unharmed

\* No step harms it.
LEMMA NextUnharmed == HeapInv /\ Unharmed /\ [Next]_vars => Unharmed'
<1> SUFFICES ASSUME HeapInv, Unharmed, [Next]_vars PROVE Unharmed'
  OBVIOUS
<1>1. ASSUME NEW w \in Workers, Worker(w) PROVE Unharmed'
  BY <1>1, CallUnharmed, OutsideUnharmed DEF Worker
<1>2. CASE UNCHANGED vars
  <2>1. /\ UNCHANGED <<callVars, wpc, elt>>
        /\ UNCHANGED <<main, created, sched, info, loaded, currentPosition, queue_sem,
                       cpu_sem, exec, num_workers_remaining>>
    BY <1>2
  <2>2. /\ Known' = Known /\ Staying' = Staying /\ Placed' = Placed /\ PointersKnown'
    BY <2>1, SameWorkers DEF Unharmed
  <2> QED
    BY <2>1, <2>2 DEF Unharmed, Types, Creation, Baton, C!HasCpu, Counted, Loaded, Places, Finished
<1>3. C!Terminated /\ UNCHANGED <<callVars, walkVars>> => UNCHANGED vars
  BY DEF C!Terminated
<1> QED
  BY <1>1, <1>2, <1>3, MainUnharmed, SchedProcUnharmed DEF Next

\* The semaphores, the counter and who exists are as in Scheduler in every
\* state, whatever races have made of the list.
THEOREM RacesAreConfined == Spec => [](HeapInv /\ Unharmed)
<1> QED
  BY InitHeapInv, NextHeapInv, InitUnharmed, NextUnharmed, PTL DEF Spec

\* When main frees the thread arguments, the elements and the semaphores
\* (scheduler.c:141, 167-175) every worker has exited, none is in list.c, and
\* nobody waits for or has posted a semaphore - after any race.
THEOREM NothingUsedIsFreed == Spec => []UnusedWhenFreed
<1>1. ASSUME HeapInv, Unharmed PROVE UnusedWhenFreed
  <2> SUFFICES ASSUME main \in {"cleanup", "end"} PROVE UnusedWhenFreed
    BY DEF UnusedWhenFreed
  <2>1. sched = "done" /\ \A w \in Workers : wpc[w] = "exited"
    BY <1>1 DEF Unharmed, Finished
  <2>2. exec \in [Workers -> Nat] /\ queue_sem \in Nat
    BY <1>1 DEF Unharmed, Types
  <2>3. cpu_sem = 0 /\ \A w \in Workers : exec[w] = 0
    BY <1>1, <2>1, <2>2 DEF Unharmed, Baton, C!HasCpu
  <2>4. \A w \in Workers : at[w] = "out"
    BY <1>1, <2>1 DEF HeapInv, ListTypes, Calls, Fits, InsertStates, RemoveStates
  <2>5. Placed = {}
    BY <2>1 DEF Placed, C!LinkedStates
  <2>6. queue_sem = QueueSize
    BY <1>1, <2>2, <2>5, FS_EmptySet DEF Unharmed, Places
  <2> QED
    BY <2>1, <2>3, <2>4, <2>6 DEF UnusedWhenFreed
<1> QED
  BY <1>1, RacesAreConfined, PTL

\* Never do two workers have the CPU, and no decrement of num_workers_remaining
\* (scheduler.c:60) is lost, after any race in list.c.
THEOREM OneRunsAfterRaces == Spec => [](C!OneOnCpu /\ C!RemainingExact)
<1>1. ASSUME Unharmed PROVE C!OneOnCpu /\ C!RemainingExact
  <2>1. C!OneOnCpu
    <3>0. Types /\ Baton /\ C!Workers = Workers
      BY <1>1 DEF Unharmed, C!Workers, Workers
    <3>1. \A v, w \in Workers : C!HasCpu(v) /\ C!HasCpu(w) => v = w
      BY <3>0 DEF Baton
    <3>2. \A w \in Workers : C!HasCpu(w) =>
            sched = "wait_worker" /\ info = w /\ cpu_sem = 0 /\ exec[w] < 2
      BY <3>0 DEF Baton, Known
    <3>3. cpu_sem > 0 => sched = "wait_worker" /\ cpu_sem = 1
      BY <3>0 DEF Baton
    <3> QED
      BY <3>0, <3>1, <3>2, <3>3 DEF C!OneOnCpu
  <2>2. C!RemainingExact
    <3>1. Counted
      BY <1>1 DEF Unharmed
    <3>2. Staying = {w \in C!Workers : wpc[w] \notin {"final", "exited"}}
      BY DEF Staying, C!Workers, Workers
    <3>3. C!Cardinality(Staying) = Cardinality(Staying)
      BY DEF C!Cardinality, Cardinality
    <3> QED
      BY <3>1, <3>2, <3>3 DEF Counted, C!RemainingExact
  <2> QED
    BY <2>1, <2>2
<1> QED
  BY <1>1, RacesAreConfined, PTL
=============================================================================
