----------------------------- MODULE MyMemProofs -----------------------------
(***************************************************************************)
(* The list of mymem.c always tiles the pool, its used blocks are the areas *)
(* of the client, and with it mymem.c implements Allocator.                 *)
(***************************************************************************)
EXTENDS MyMem, Induction, SequenceTheorems

-----------------------------------------------------------------------------
(* The list of blocks and what a call makes of it                          *)

Block == [ptr : 0 .. Max(Pools), size : 1 .. Max(Pools), free : BOOLEAN]

Tiles(l, sz) ==
  /\ l # <<>> /\ l[1].ptr = 0
  /\ \A k \in 1 .. Len(l) - 1 : l[k + 1].ptr = l[k].ptr + l[k].size
  /\ l[Len(l)].ptr + l[Len(l)].size = sz

NoNeighbours(l) == \A k \in 1 .. Len(l) - 1 : ~ (l[k].free /\ l[k + 1].free)

Areas(l) ==
  {[ptr |-> l[k].ptr, size |-> l[k].size] : k \in {j \in DOMAIN l : ~ l[j].free}}

\* Pools has a largest size, since a size_t has.
LEMMA LargestPool ==
  /\ Max(Pools) \in Pools /\ Max(Pools) \in Nat \ {0}
  /\ \A sz \in Pools : sz <= Max(Pools)
<1>1. PICK most \in Pools : \A sz \in Pools : sz <= most
  BY MyMemAssumption
<1>2. Pools \in SUBSET Nat /\ Pools # {}
  BY MyMemAssumption
<1>3. most \in Nat
  BY <1>1, <1>2
<1>4. Max(Pools) \in Pools /\ \A sz \in Pools : Max(Pools) >= sz
  BY <1>1, <1>2, <1>3, MaxIs
<1> QED
  BY <1>4, MyMemAssumption

\* m is nodes with new behind the k-th.
HasNew(m, nodes, k, new) ==
  /\ Len(m) = Len(nodes) + 1
  /\ \A j \in 1 .. Len(nodes) + 1 :
       m[j] = IF j <= k THEN nodes[j]
              ELSE IF j = k + 1 THEN new ELSE nodes[j - 1]

\* m is nodes with new in the place of those from first to final.
HasOneFor(m, nodes, first, final, new) ==
  /\ Len(m) = Len(nodes) - (final - first)
  /\ \A j \in 1 .. Len(m) :
       m[j] = IF j < first THEN nodes[j]
              ELSE IF j = first THEN new
              ELSE nodes[j + (final - first)]

\* insertIntoList puts the new node behind the k-th and moves no other.
LEMMA Inserted ==
  ASSUME NEW S, NEW nodes \in Seq(S), NEW k \in 1 .. Len(nodes), NEW new \in S
  PROVE  /\ InsertIntoList(nodes, k, new) \in Seq(S)
         /\ HasNew(InsertIntoList(nodes, k, new), nodes, k, new)
<1> DEFINE a == SubSeq(nodes, 1, (k + 1) - 1)
           c == SubSeq(nodes, k + 1, Len(nodes))
           l == InsertIntoList(nodes, k, new)
           n == Len(nodes)
<1>1. a \in Seq(S) /\ Len(a) = k /\ \A i \in 1 .. k : a[i] = nodes[i]
  OBVIOUS
<1>2. c \in Seq(S) /\ Len(c) = n - k /\ \A i \in 1 .. n - k : c[i] = nodes[i + k]
  OBVIOUS
<1>3. l = a \o <<new>> \o c
  BY DEF InsertIntoList, InsertAt, l, a, c
<1>n. n \in Nat /\ k \in 1 .. n
  OBVIOUS
<1> HIDE DEF a, c, l, n
<1>4. /\ l \in Seq(S) /\ Len(l) = Len(a) + 1 + Len(c)
      /\ \A j \in 1 .. Len(l) :
           l[j] = IF j <= Len(a) THEN a[j]
                  ELSE IF j = Len(a) + 1 THEN new ELSE c[j - (Len(a) + 1)]
  <2>1. a \in Seq(S) /\ c \in Seq(S) /\ new \in S
    BY <1>1, <1>2
  <2> QED
    BY <2>1, <1>3
<1>5. Len(l) = n + 1
  BY <1>1, <1>2, <1>4, <1>n
<1>6. ASSUME NEW j \in 1 .. n + 1, j > k + 1 PROVE l[j] = nodes[j - 1]
  <2>1. PICK i \in 1 .. n - k : i = j - (k + 1)
    BY <1>6, <1>n
  <2>2. l[j] = c[i]
    BY <1>6, <2>1, <1>1, <1>4, <1>5, <1>n
  <2>3. c[i] = nodes[i + k] /\ i + k = j - 1
    BY <1>2, <2>1, <1>n
  <2> QED
    BY <2>2, <2>3
<1>7. ASSUME NEW j \in 1 .. n + 1, j <= k + 1 
      PROVE l[j] = IF j <= k THEN nodes[j] ELSE new
  BY <1>7, <1>1, <1>4, <1>5, <1>n
<1>8. ASSUME NEW j \in 1 .. n + 1
      PROVE l[j] = IF j <= k THEN nodes[j]
                        ELSE IF j = k + 1 THEN new ELSE nodes[j - 1]
  BY <1>6, <1>7, <1>n
<1> QED
  BY <1>4, <1>5, <1>8 DEF l, n, HasNew

\* Replacing the nodes from first to final by one keeps the others in their
\* order.
LEMMA Merged ==
  ASSUME NEW S, NEW nodes \in Seq(S), NEW new \in S,
         NEW first \in 1 .. Len(nodes), NEW final \in first .. Len(nodes)
  PROVE  LET l == SubSeq(nodes, 1, first - 1) \o <<new>>
                  \o SubSeq(nodes, final + 1, Len(nodes))
         IN l \in Seq(S) /\ HasOneFor(l, nodes, first, final, new)
<1> DEFINE a == SubSeq(nodes, 1, first - 1)
           c == SubSeq(nodes, final + 1, Len(nodes))
           l == a \o <<new>> \o c
           n == Len(nodes)
<1>1. a \in Seq(S) /\ Len(a) = first - 1 /\ \A i \in 1 .. first - 1 : a[i] = nodes[i]
  OBVIOUS
<1>2. c \in Seq(S) /\ Len(c) = n - final /\ \A i \in 1 .. n - final : c[i] = nodes[i + final]
  OBVIOUS
<1>n. n \in Nat /\ first \in 1 .. n /\ final \in first .. n
  OBVIOUS
<1> HIDE DEF a, c
<1>3. l = a \o <<new>> \o c
  OBVIOUS
<1> HIDE DEF l, n
<1>4. /\ l \in Seq(S) /\ Len(l) = Len(a) + 1 + Len(c)
      /\ \A j \in 1 .. Len(l) :
           l[j] = IF j <= Len(a) THEN a[j]
                  ELSE IF j = Len(a) + 1 THEN new ELSE c[j - (Len(a) + 1)]
  <2>1. a \in Seq(S) /\ c \in Seq(S) /\ new \in S
    BY <1>1, <1>2
  <2> QED
    BY <2>1, <1>3
<1>5. Len(l) = n - (final - first)
  BY <1>1, <1>2, <1>4, <1>n
<1>6. ASSUME NEW j \in 1 .. Len(l), j > first PROVE l[j] = nodes[j + (final - first)]
  <2>1. PICK i \in 1 .. n - final : i = j - first
    BY <1>6, <1>5, <1>n
  <2>2. l[j] = c[i]
    BY <1>6, <2>1, <1>1, <1>4, <1>5, <1>n
  <2>3. c[i] = nodes[i + final] /\ i + final = j + (final - first)
    BY <1>2, <2>1, <1>n
  <2> QED
    BY <2>2, <2>3
<1>7. ASSUME NEW j \in 1 .. Len(l), j <= first
      PROVE l[j] = IF j < first THEN nodes[j] ELSE new
  <2>1. Len(a) + 1 = first
    BY <1>1, <1>n
  <2>2. CASE j < first
    BY <2>1, <2>2, <1>1, <1>4, <1>n
  <2>3. CASE j = first
    BY <2>1, <2>3, <1>1, <1>4, <1>n
  <2> QED
    BY <1>7, <2>2, <2>3, <1>5, <1>n
<1>8. ASSUME NEW j \in 1 .. Len(l)
      PROVE l[j] = IF j < first THEN nodes[j]
                        ELSE IF j = first THEN new
                        ELSE nodes[j + (final - first)]
  BY <1>6, <1>7, <1>5, <1>n
<1> QED
  BY <1>4, <1>5, <1>8 DEF l, n, a, c, HasOneFor

\* What the fields of the blocks of a list are.
LEMMA BlockFields ==
  ASSUME NEW l \in Seq(Block)
  PROVE  /\ Len(l) \in Nat /\ DOMAIN l = 1 .. Len(l)
         /\ \A i \in 1 .. Len(l) :
              /\ l[i] \in Block
              /\ l[i].ptr \in Nat /\ l[i].size \in Nat \ {0} /\ l[i].free \in BOOLEAN
              /\ l[i] = [ptr |-> l[i].ptr, size |-> l[i].size, free |-> l[i].free]
<1>1. Len(l) \in Nat /\ DOMAIN l = 1 .. Len(l)
  OBVIOUS
<1>2. ASSUME NEW i \in 1 .. Len(l) PROVE l[i] \in Block
  OBVIOUS
<1>3. ASSUME NEW b \in Block
      PROVE  /\ b.ptr \in Nat /\ b.size \in Nat \ {0} /\ b.free \in BOOLEAN
             /\ b = [ptr |-> b.ptr, size |-> b.size, free |-> b.free]
  BY LargestPool DEF Block
<1> QED
  BY <1>1, <1>2, <1>3

\* A block ends before the ones behind it begin, and within the pool.
LEMMA TilesOrdered ==
  ASSUME NEW l \in Seq(Block), NEW sz \in Nat, Tiles(l, sz)
  PROVE  /\ \A i, j \in 1 .. Len(l) : i < j => l[i].ptr + l[i].size <= l[j].ptr
         /\ \A i \in 1 .. Len(l) : l[i].ptr + l[i].size <= sz
<1>1. \A i \in 1 .. Len(l) : /\ l[i].ptr \in Nat /\ l[i].size \in Nat \ {0}
  BY BlockFields
<1>2. Len(l) \in Nat \ {0}
  BY DEF Tiles
<1>3. ASSUME NEW i \in 1 .. Len(l), NEW j \in 1 .. Len(l), i < j
      PROVE  l[i].ptr + l[i].size <= l[j].ptr
  <2> DEFINE Good(d) == i + (d + 1) <= Len(l) => l[i].ptr + l[i].size <= l[i + (d + 1)].ptr
             D == {d \in Nat : Good(d)}
  <2>1. Good(0)
    BY <1>1 DEF Tiles
  <2>2. ASSUME NEW d \in Nat, Good(d) PROVE Good(d + 1)
    <3> SUFFICES ASSUME i + ((d + 1) + 1) <= Len(l)
                 PROVE  l[i].ptr + l[i].size <= l[i + ((d + 1) + 1)].ptr
      OBVIOUS
    <3> DEFINE m == i + (d + 1)
    <3>1. m \in 1 .. Len(l) - 1 /\ m \in 1 .. Len(l) /\ m + 1 \in 1 .. Len(l) /\ i + ((d + 1) + 1) = m + 1
      BY <1>2
    <3>2. l[i].ptr + l[i].size <= l[m].ptr
      BY <2>2, <3>1, <1>2
    <3> HIDE DEF m
    <3>3. l[m + 1].ptr = l[m].ptr + l[m].size
      BY <3>1 DEF Tiles
    <3>4. l[i].ptr + l[i].size <= l[m + 1].ptr
      <4> DEFINE p == l[i].ptr
                 s == l[i].size
                 q == l[m].ptr
                 t == l[m].size
      <4>1. p \in Nat /\ s \in Nat
        BY <1>1
      <4>2. q \in Nat /\ t \in Nat
        BY <1>1, <3>1
      <4>3. p + s <= q
        BY <3>2
      <4> HIDE DEF p, s, q, t
      <4>4. p + s <= q + t
        BY <4>1, <4>2, <4>3
      <4> QED
        BY <4>4, <3>3 DEF p, s, q, t
    <3> QED
      BY <3>1, <3>4
  <2>3. D = Nat
    <3> HIDE DEF Good
    <3>1. D \in SUBSET Nat /\ 0 \in D /\ \A d \in D : d + 1 \in D
      BY <2>1, <2>2
    <3> HIDE DEF D
    <3> QED
      BY <3>1, Counting
  <2>4. PICK d \in Nat : j = i + (d + 1)
    <3>1. j - (i + 1) \in Nat /\ j = i + ((j - (i + 1)) + 1)
      BY <1>3
    <3> QED
      BY <3>1
  <2>5. Good(d)
    BY <2>3
  <2> QED
    BY <2>4, <2>5
<1>4. ASSUME NEW i \in 1 .. Len(l) PROVE l[i].ptr + l[i].size <= sz
  <2>1. CASE i = Len(l)
    BY <2>1, <1>1, <1>2 DEF Tiles
  <2>2. CASE i < Len(l)
    <3>1. l[i].ptr + l[i].size <= l[Len(l)].ptr
      BY <1>3, <2>2, <1>2
    <3> DEFINE end == l[i].ptr + l[i].size
               p == l[Len(l)].ptr
               s == l[Len(l)].size
    <3>2. l[i].ptr \in Nat /\ l[i].size \in Nat
      BY <1>1
    <3>3. Len(l) \in 1 .. Len(l)
      BY <1>2
    <3>4. p \in Nat /\ s \in Nat
      BY <3>3, <1>1
    <3>5. end \in Nat /\ end <= p /\ p + s = sz
      BY <3>1, <3>2 DEF Tiles
    <3> HIDE DEF end, p, s
    <3>6. end <= sz
      BY <3>4, <3>5
    <3> QED
      BY <3>6 DEF end
  <2> QED
    BY <2>1, <2>2, <1>2
<1> QED
  BY <1>3, <1>4

\* No two nodes have the same ptr, so a ptr names its node.
LEMMA OneNodeEach ==
  ASSUME NEW l \in Seq(Block), NEW sz \in Nat, l = <<>> \/ Tiles(l, sz)
  PROVE  Cardinality({l[k].ptr : k \in DOMAIN l}) = Len(l)
<1> DEFINE P == {l[k].ptr : k \in DOMAIN l}
           f == [k \in 1 .. Len(l) |-> l[k].ptr]
           n == Len(l)
<1>0. DOMAIN l = 1 .. n /\ n \in Nat /\ n \in Int
  OBVIOUS
<1>1. f \in [1 .. n -> P] /\ \A p \in P : \E k \in 1 .. n : f[k] = p
  OBVIOUS
<1>2. ASSUME NEW i \in 1 .. n, NEW j \in 1 .. n, f[i] = f[j] PROVE i = j
  <2>1. \A a, b \in 1 .. Len(l) : a < b => l[a].ptr + l[a].size <= l[b].ptr
    BY <1>2, TilesOrdered
  <2>2. \A a \in 1 .. Len(l) : l[a].ptr \in Nat /\ l[a].size \in Nat \ {0}
    BY BlockFields
  <2>3. l[i].ptr = l[j].ptr
    BY <1>2
  <2>4. ASSUME NEW a \in 1 .. n, NEW b \in 1 .. n, a < b PROVE l[a].ptr # l[b].ptr
    <3> DEFINE p == l[a].ptr
               s == l[a].size
               q == l[b].ptr
    <3>1. p \in Nat /\ s \in Nat \ {0} /\ q \in Nat /\ p + s <= q
      BY <2>1, <2>2, <2>4
    <3> HIDE DEF p, s, q
    <3>2. p # q
      BY <3>1
    <3> QED
      BY <3>2 DEF p, q
  <2>5. i < j \/ j < i \/ i = j
    OBVIOUS
  <2> QED
    BY <2>3, <2>4, <2>5
<1>3. IsFiniteSet(1 .. n) /\ Cardinality(1 .. n) = n
  <2> HIDE DEF n
  <2> QED
    BY FS_Interval, <1>0, 1 \in Int
<1>4. DOMAIN f = 1 .. n
  OBVIOUS
<1> HIDE DEF P, f, n
<1>5. f \in Injection(1 .. n, P)
  BY <1>1, <1>2, <1>4 DEF Injection, IsInjective
<1>6. f \in Bijection(1 .. n, P)
  BY <1>1, <1>5 DEF Bijection, Surjection
<1> QED
  BY <1>3, <1>6, FS_Bijection DEF ExistsBijection, P, n

\* What Take makes of the list l.
Taken(l, k, r) ==
  LET used == [ptr |-> l[k].ptr, size |-> r, free |-> FALSE]
      leftover == [ptr |-> l[k].ptr + r, size |-> l[k].size - r, free |-> TRUE]
  IN IF l[k].size > r THEN InsertIntoList([l EXCEPT ![k] = used], k, leftover)
     ELSE [l EXCEPT ![k] = used]

IsTaken(m, l, k, r) ==
  /\ Len(m) = IF l[k].size > r THEN Len(l) + 1 ELSE Len(l)
  /\ \A j \in 1 .. k - 1 : m[j] = l[j]
  /\ m[k] = [ptr |-> l[k].ptr, size |-> r, free |-> FALSE]
  /\ l[k].size > r =>
       /\ m[k + 1] = [ptr |-> l[k].ptr + r, size |-> l[k].size - r, free |-> TRUE]
       /\ \A j \in k + 1 .. Len(l) : m[j + 1] = l[j]
  /\ l[k].size = r => \A j \in k + 1 .. Len(l) : m[j] = l[j]

\* Which blocks are in the list after mymalloc has taken the k-th for r bytes.
LEMMA TakenShape ==
  ASSUME NEW l \in Seq(Block), NEW sz \in Pools, Tiles(l, sz),
         NEW k \in 1 .. Len(l), NEW r \in Nat \ {0}, l[k].size >= r
  PROVE  Taken(l, k, r) \in Seq(Block) /\ IsTaken(Taken(l, k, r), l, k, r)
<1> DEFINE used == [ptr |-> l[k].ptr, size |-> r, free |-> FALSE]
           leftover == [ptr |-> l[k].ptr + r, size |-> l[k].size - r, free |-> TRUE]
           one == [l EXCEPT ![k] = used]
           m == Taken(l, k, r)
<1>1. sz \in Nat /\ sz <= Max(Pools) /\ Max(Pools) \in Nat
  BY LargestPool, MyMemAssumption
<1>2. l[k].ptr \in Nat /\ l[k].size \in Nat \ {0} /\ l[k].ptr + l[k].size <= Max(Pools)
  <2>1. l[k].ptr \in Nat /\ l[k].size \in Nat \ {0}
    BY BlockFields
  <2>2. l[k].ptr + l[k].size <= sz
    BY <1>1, TilesOrdered
  <2> DEFINE end == l[k].ptr + l[k].size
  <2>3. end \in Nat /\ end <= sz
    BY <2>1, <2>2
  <2> HIDE DEF end
  <2>4. end <= Max(Pools)
    BY <2>3, <1>1
  <2> QED
    BY <2>1, <2>4 DEF end
<1>3. used \in Block
  <2> DEFINE p == l[k].ptr
             s == l[k].size
             most == Max(Pools)
  <2>1. p \in Nat /\ s \in Nat \ {0} /\ p + s <= most /\ s >= r /\ most \in Nat
    BY <1>1, <1>2
  <2> HIDE DEF p, s, most
  <2>2. p \in 0 .. most /\ r \in 1 .. most
    BY <2>1
  <2> QED
    BY <2>2 DEF Block, p, most
<1>4. ASSUME l[k].size > r PROVE leftover \in Block
  <2>1. l[k].ptr + r \in 0 .. Max(Pools) /\ l[k].size - r \in 1 .. Max(Pools)
    BY <1>1, <1>2, <1>4
  <2> QED
    BY <2>1 DEF Block
<1>5. /\ one \in Seq(Block) /\ Len(one) = Len(l) /\ one[k] = used
      /\ \A j \in 1 .. Len(l) : j # k => one[j] = l[j]
  <2> HIDE DEF used
  <2> QED
    BY <1>3, ExceptSeq
<1> HIDE DEF used, leftover, one
<1>6. CASE l[k].size > r
  <2>1. m = InsertIntoList(one, k, leftover)
    BY <1>6 DEF Taken, one, used, leftover
  <2> HIDE DEF m
  <2>2. /\ m \in Seq(Block) /\ Len(m) = Len(l) + 1
        /\ \A j \in 1 .. Len(l) + 1 :
             m[j] = IF j <= k THEN one[j]
                    ELSE IF j = k + 1 THEN leftover ELSE one[j - 1]
    <3>1. leftover \in Block /\ one \in Seq(Block) /\ k \in 1 .. Len(one) /\ Len(one) = Len(l)
      BY <1>4, <1>5, <1>6
    <3>2. m \in Seq(Block) /\ HasNew(m, one, k, leftover)
      BY <3>1, <2>1, Inserted
    <3> QED
      BY <3>1, <3>2 DEF HasNew
  <2>3. \A j \in 1 .. k - 1 : m[j] = l[j]
    BY <2>2, <1>5
  <2>4. m[k] = used /\ m[k + 1] = leftover
    BY <2>2, <1>5
  <2>5. ASSUME NEW j \in k + 1 .. Len(l) PROVE m[j + 1] = l[j]
    <3>1. /\ j + 1 \in 1 .. Len(l) + 1 /\ ~ (j + 1 <= k) /\ j + 1 # k + 1
          /\ (j + 1) - 1 = j /\ j \in 1 .. Len(l) /\ j # k
      OBVIOUS
    <3>2. m[j + 1] = one[(j + 1) - 1]
      BY <3>1, <2>2
    <3> QED
      BY <3>1, <3>2, <1>5
  <2> QED
    BY <2>2, <2>3, <2>4, <2>5, <1>2, <1>6 DEF m, used, leftover, IsTaken
<1>7. CASE l[k].size = r
  <2>1. m = one
    BY <1>7, <1>2 DEF Taken, one, used
  <2> HIDE DEF m
  <2> QED
    <3>1. m \in Seq(Block) /\ Len(m) = Len(l) /\ m[k] = used
      BY <1>5, <2>1
    <3>2. \A j \in 1 .. Len(l) : j # k => m[j] = l[j]
      BY <1>5, <2>1
    <3>3. ~ (l[k].size > r)
      BY <1>2, <1>7
    <3>4. (\A j \in 1 .. k - 1 : m[j] = l[j]) /\ \A j \in k + 1 .. Len(l) : m[j] = l[j]
      BY <3>2
    <3> QED
      BY <3>1, <3>3, <3>4 DEF m, used, IsTaken
<1> QED
  BY <1>2, <1>6, <1>7

\* Splitting a free block keeps the list a tiling of the pool without two
\* free neighbours, and adds just the area that the client gets.
LEMMA TakenKeeps ==
  ASSUME NEW l \in Seq(Block), NEW sz \in Pools, Tiles(l, sz), NoNeighbours(l),
         NEW k \in 1 .. Len(l), NEW r \in Nat \ {0}, l[k].size >= r, l[k].free
  PROVE  LET m == Taken(l, k, r)
         IN /\ Tiles(m, sz) /\ NoNeighbours(m)
            /\ Areas(m) = Areas(l) \cup {[ptr |-> l[k].ptr, size |-> r]}
<1> DEFINE m == Taken(l, k, r)
           n == Len(l)
<1>1. /\ n \in Nat \ {0} /\ k \in 1 .. n
      /\ \A j \in 1 .. n : /\ l[j].ptr \in Nat /\ l[j].size \in Nat \ {0}
                           /\ l[j].free \in BOOLEAN
  <2>1. n \in Nat /\ l # <<>>
    BY DEF Tiles
  <2>2. n # 0
    BY <2>1
  <2> QED
    BY <2>1, <2>2, BlockFields
<1>2. /\ m \in Seq(Block)
      /\ Len(m) = IF l[k].size > r THEN n + 1 ELSE n
      /\ \A j \in 1 .. k - 1 : m[j] = l[j]
      /\ m[k].ptr = l[k].ptr /\ m[k].size = r /\ m[k].free = FALSE
      /\ l[k].size > r =>
           /\ m[k + 1].ptr = l[k].ptr + r /\ m[k + 1].size = l[k].size - r
           /\ m[k + 1].free = TRUE
           /\ \A j \in k + 1 .. n : m[j + 1] = l[j]
      /\ l[k].size = r => \A j \in k + 1 .. n : m[j] = l[j]
  <2> HIDE DEF m
  <2>1. m \in Seq(Block) /\ IsTaken(m, l, k, r)
    BY TakenShape DEF m
  <2> QED
    BY <2>1 DEF IsTaken
<1>k. l[k].ptr \in Nat /\ l[k].size \in Nat
  BY <1>1
<1>3. /\ l[1].ptr = 0 /\ l[n].ptr + l[n].size = sz
      /\ \A j \in 1 .. n - 1 : l[j + 1].ptr = l[j].ptr + l[j].size
  BY DEF Tiles
<1>4. \A j \in 1 .. n - 1 : ~ (l[j].free /\ l[j + 1].free)
  BY DEF NoNeighbours
<1>m. DOMAIN m = 1 .. Len(m) /\ DOMAIN l = 1 .. n
  BY <1>2
<1> HIDE DEF m, n
<1>5. CASE l[k].size > r
  <2>1. m[1].ptr = 0
    <3>1. CASE k = 1
      BY <3>1, <1>2, <1>3
    <3>2. CASE k > 1
      <4>1. m[1] = l[1]
        BY <3>2, <1>1, <1>2
      <4> QED
        BY <4>1, <1>3
    <3> QED
      BY <3>1, <3>2, <1>1
  <2>2. m[Len(m)].ptr + m[Len(m)].size = sz
    <3>1. CASE k = n
      <4>1. m[Len(m)].ptr = l[k].ptr + r /\ m[Len(m)].size = l[k].size - r
        BY <3>1, <1>2, <1>5
      <4> DEFINE p == l[k].ptr
                 s == l[k].size
      <4>2. p \in Nat /\ s \in Nat /\ p + s = sz
        BY <3>1, <1>k, <1>3
      <4> HIDE DEF p, s
      <4>3. (p + r) + (s - r) = sz
        BY <4>2
      <4> QED
        BY <4>1, <4>3 DEF p, s
    <3>2. CASE k < n
      <4>1. m[n + 1] = l[n]
        BY <3>2, <1>1, <1>2, <1>5
      <4> QED
        BY <4>1, <1>2, <1>3, <1>5
    <3> QED
      BY <3>1, <3>2, <1>1
  <2>3. ASSUME NEW j \in 1 .. n
        PROVE  m[j + 1].ptr = m[j].ptr + m[j].size /\ ~ (m[j].free /\ m[j + 1].free)
    <3>1. CASE j < k
      <4>1. m[j] = l[j] /\ m[j + 1].ptr = l[j + 1].ptr /\ (m[j + 1].free => l[j + 1].free)
        <5>1. j \in 1 .. k - 1
          BY <3>1, <1>1
        <5>2. CASE j + 1 = k
          BY <5>1, <5>2, <1>2
        <5>3. CASE j + 1 < k
          <6>1. j + 1 \in 1 .. k - 1
            BY <5>1, <5>3, <1>1
          <6> QED
            BY <5>1, <6>1, <1>2
        <5> QED
          BY <5>1, <5>2, <5>3, <1>1
      <4>2. j \in 1 .. n - 1
        BY <3>1, <1>1
      <4> QED
        BY <4>1, <4>2, <1>3, <1>4
    <3>2. CASE j = k
      BY <3>2, <1>1, <1>2, <1>5
    <3>3. CASE j = k + 1
      <4>1. m[j + 1] = l[j]
        BY <3>3, <1>1, <1>2, <1>5
      <4>2. l[j].ptr = l[k].ptr + l[k].size /\ ~ l[j].free
        <5>1. k \in 1 .. n - 1 /\ l[k].free
          BY <3>3, <1>1
        <5> QED
          BY <5>1, <3>3, <1>3, <1>4
      <4>3. m[j].ptr = l[k].ptr + r /\ m[j].size = l[k].size - r
        BY <3>3, <1>2, <1>5
      <4> QED
        BY <4>1, <4>2, <4>3, <1>k
    <3>4. CASE j > k + 1
      <4>1. m[j + 1] = l[j]
        BY <3>4, <1>1, <1>2, <1>5
      <4>2. PICK i \in k + 1 .. n - 1 : j = i + 1
        <5>1. j - 1 \in k + 1 .. n - 1 /\ j = (j - 1) + 1
          BY <3>4, <1>1
        <5> QED
          BY <5>1
      <4>3. m[j] = l[i]
        BY <4>2, <1>1, <1>2, <1>5
      <4> QED
        BY <4>1, <4>2, <4>3, <1>1, <1>3, <1>4
    <3> QED
      BY <3>1, <3>2, <3>3, <3>4, <1>1
  <2>4. ASSUME NEW a \in Areas(m)
        PROVE  a \in Areas(l) \cup {[ptr |-> l[k].ptr, size |-> r]}
    <3>1. PICK j \in 1 .. n + 1 : ~ m[j].free /\ a = [ptr |-> m[j].ptr, size |-> m[j].size]
      BY <1>2, <1>5, <1>m DEF Areas
    <3>2. CASE j < k
      <4>1. m[j] = l[j] /\ j \in 1 .. n
        BY <3>2, <1>1, <1>2
      <4> QED
        BY <3>1, <4>1, <1>m DEF Areas
    <3>3. CASE j = k
      BY <3>1, <3>3, <1>2
    <3>4. CASE j > k + 1
      <4>1. PICK i \in k + 1 .. n : j = i + 1
        <5>1. j - 1 \in k + 1 .. n /\ j = (j - 1) + 1
          BY <3>4, <1>1
        <5> QED
          BY <5>1
      <4>2. m[j] = l[i] /\ i \in 1 .. n
        BY <4>1, <1>1, <1>2, <1>5
      <4> QED
        BY <3>1, <4>2, <1>m DEF Areas
    <3> QED
      BY <3>1, <3>2, <3>3, <3>4, <1>1, <1>2, <1>5
  <2>5. ASSUME NEW a \in Areas(l) PROVE a \in Areas(m)
    <3>1. PICK j \in 1 .. n : ~ l[j].free /\ a = [ptr |-> l[j].ptr, size |-> l[j].size]
      BY <1>m DEF Areas
    <3>2. CASE j < k
      <4>1. m[j] = l[j] /\ j \in 1 .. Len(m)
        BY <3>2, <1>1, <1>2
      <4> QED
        BY <3>1, <4>1, <1>m DEF Areas
    <3>3. CASE j > k
      <4>1. m[j + 1] = l[j] /\ j + 1 \in 1 .. Len(m)
        BY <3>3, <1>1, <1>2, <1>5
      <4> QED
        BY <3>1, <4>1, <1>m DEF Areas
    <3> QED
      BY <3>1, <3>2, <3>3, <1>1
  <2>6. [ptr |-> l[k].ptr, size |-> r] \in Areas(m)
    BY <1>1, <1>2, <1>5, <1>m DEF Areas
  <2>7. Tiles(m, sz) /\ NoNeighbours(m)
    <3>1. Len(m) = n + 1 /\ m # <<>> /\ Len(m) - 1 = n
      BY <1>1, <1>2, <1>5
    <3> QED
      BY <3>1, <2>1, <2>2, <2>3 DEF Tiles, NoNeighbours
  <2>8. Areas(m) = Areas(l) \cup {[ptr |-> l[k].ptr, size |-> r]}
    BY <2>4, <2>5, <2>6
  <2> QED
    BY <2>7, <2>8 DEF m
<1>6. CASE l[k].size = r
  <2>1. \A j \in 1 .. n : /\ m[j].ptr = l[j].ptr /\ m[j].size = l[j].size
                          /\ m[j].free <=> l[j].free /\ j # k
    <3> TAKE j \in 1 .. n
    <3>1. j \in 1 .. k - 1 \/ j = k \/ j \in k + 1 .. n
      BY <1>1
    <3> QED
      BY <3>1, <1>1, <1>2, <1>6
  <2>2. Len(m) = n /\ m # <<>>
    BY <1>1, <1>2, <1>6
  <2>3. Tiles(m, sz) /\ NoNeighbours(m)
    <3>1. 1 \in 1 .. n /\ n \in 1 .. n
      BY <1>1
    <3>2. m[1].ptr = 0 /\ m[n].ptr + m[n].size = sz
      BY <2>1, <3>1, <1>3
    <3>3. ASSUME NEW j \in 1 .. n - 1
          PROVE  m[j + 1].ptr = m[j].ptr + m[j].size /\ ~ (m[j].free /\ m[j + 1].free)
      <4>1. j \in 1 .. n /\ j + 1 \in 1 .. n
        BY <1>1
      <4> QED
        BY <4>1, <2>1, <1>3, <1>4
    <3> QED
      BY <2>2, <3>2, <3>3 DEF Tiles, NoNeighbours
  <2>4. ASSUME NEW a \in Areas(m)
        PROVE  a \in Areas(l) \cup {[ptr |-> l[k].ptr, size |-> r]}
    <3>1. PICK j \in 1 .. n : ~ m[j].free /\ a = [ptr |-> m[j].ptr, size |-> m[j].size]
      BY <2>2, <1>m DEF Areas
    <3> QED
      BY <3>1, <2>1, <1>6, <1>m DEF Areas
  <2>5. ASSUME NEW a \in Areas(l) PROVE a \in Areas(m)
    <3>1. PICK j \in 1 .. n : ~ l[j].free /\ a = [ptr |-> l[j].ptr, size |-> l[j].size]
      BY <1>m DEF Areas
    <3> QED
      BY <3>1, <2>1, <2>2, <1>m DEF Areas
  <2>6. [ptr |-> l[k].ptr, size |-> r] \in Areas(m)
    BY <1>1, <1>2, <2>2, <1>m DEF Areas
  <2>7. Areas(m) = Areas(l) \cup {[ptr |-> l[k].ptr, size |-> r]}
    BY <2>4, <2>5, <2>6
  <2> QED
    BY <2>3, <2>7 DEF m
<1> QED
  BY <1>1, <1>5, <1>6

\* What Merge makes of the list l.
Joining(l, first, final, size) ==
  SubSeq(l, 1, first - 1) \o <<[ptr |-> l[first].ptr, size |-> size, free |-> TRUE]>>
  \o SubSeq(l, final + 1, Len(l))

IsJoined(m, l, first, final, size) ==
  /\ m \in Seq(Block) /\ Len(m) = Len(l) - (final - first)
  /\ \A j \in 1 .. first - 1 : m[j] = l[j]
  /\ m[first] = [ptr |-> l[first].ptr, size |-> size, free |-> TRUE]
  /\ \A j \in first + 1 .. Len(m) : m[j] = l[j + (final - first)]

\* Which blocks are in the list after coalescing those from first to final.
LEMMA JoiningShape ==
  ASSUME NEW l \in Seq(Block), NEW sz \in Pools, Tiles(l, sz),
         NEW first \in 1 .. Len(l), NEW final \in first .. Len(l),
         NEW size \in Int, l[first].ptr + size = l[final].ptr + l[final].size
  PROVE  IsJoined(Joining(l, first, final, size), l, first, final, size)
<1> DEFINE new == [ptr |-> l[first].ptr, size |-> size, free |-> TRUE]
<1>1. sz \in Nat /\ sz <= Max(Pools) /\ Max(Pools) \in Nat
  BY LargestPool, MyMemAssumption
<1>2. /\ l[first].ptr \in Nat /\ l[first].size \in Nat \ {0}
      /\ l[final].ptr \in Nat /\ l[final].size \in Nat \ {0}
  <2>1. final \in 1 .. Len(l)
    OBVIOUS
  <2> QED
    BY <2>1, BlockFields
<1>3. final \in 1 .. Len(l)
  OBVIOUS
<1>4. l[final].ptr + l[final].size <= sz /\ (first < final => l[first].ptr + l[first].size <= l[final].ptr)
  BY <1>1, <1>3, TilesOrdered
<1>5. l[first].ptr \in 0 .. Max(Pools) /\ size \in 1 .. Max(Pools)
  <2>1. CASE first = final
    <3> DEFINE p == l[first].ptr
               t == l[first].size
               most == Max(Pools)
    <3>1. /\ p \in Nat /\ t \in Nat \ {0} /\ most \in Nat /\ sz \in Nat /\ sz <= most
          /\ p + t <= sz /\ p + size = p + t
      BY <2>1, <1>1, <1>2, <1>4
    <3> HIDE DEF p, t, most
    <3>2. p \in 0 .. most /\ size \in 1 .. most
      BY <3>1
    <3> QED
      BY <3>2 DEF p, most
  <2>2. CASE first < final
    <3>1. l[first].ptr + l[first].size <= l[final].ptr
      BY <2>2, <1>4
    <3> DEFINE p == l[first].ptr
               q == l[final].ptr
               t == l[final].size
               u == l[first].size
    <3>3. p \in Nat /\ q \in Nat /\ t \in Nat \ {0} /\ u \in Nat \ {0}
      BY <1>2
    <3>4. p + u <= q /\ q + t <= sz
      BY <3>1, <1>4
    <3>2. p + size = q + t
      OBVIOUS
    <3> HIDE DEF p, q, t, u
    <3>5. p \in 0 .. Max(Pools) /\ size \in 1 .. Max(Pools)
      BY <3>2, <3>3, <3>4, <1>1
    <3> QED
      BY <3>5 DEF p
  <2> QED
    BY <2>1, <2>2
<1>6. new \in Block
  BY <1>5 DEF Block
<1> HIDE DEF new
<1> DEFINE m == SubSeq(l, 1, first - 1) \o <<new>> \o SubSeq(l, final + 1, Len(l))
<1>7. m \in Seq(Block) /\ HasOneFor(m, l, first, final, new)
  BY <1>6, Merged
<1>8. Joining(l, first, final, size) = m
  BY DEF Joining, new
<1> HIDE DEF m
<1>9. /\ Len(m) = Len(l) - (final - first)
      /\ \A j \in 1 .. Len(m) :
           m[j] = IF j < first THEN l[j]
                  ELSE IF j = first THEN new ELSE l[j + (final - first)]
  BY <1>7 DEF HasOneFor
<1>10. Len(m) \in Nat /\ first <= Len(m)
  BY <1>7, <1>9
<1>11. \A j \in 1 .. first - 1 : m[j] = l[j]
  BY <1>9, <1>10
<1>12. m[first] = new
  BY <1>9, <1>10
<1>13. \A j \in first + 1 .. Len(m) : m[j] = l[j + (final - first)]
  BY <1>9, <1>10
<1> QED
  BY <1>7, <1>8, <1>9, <1>11, <1>12, <1>13 DEF IsJoined, new

\* Coalescing keeps the list a tiling of the pool, and leaves no two free
\* neighbours if the blocks on either side are in use.
LEMMA JoiningKeeps ==
  ASSUME NEW l \in Seq(Block), NEW sz \in Pools, Tiles(l, sz), NoNeighbours(l),
         NEW first \in 1 .. Len(l), NEW final \in first .. Len(l),
         NEW size \in Int, l[first].ptr + size = l[final].ptr + l[final].size,
         first > 1 => ~ l[first - 1].free,
         final < Len(l) => ~ l[final + 1].free
  PROVE  LET m == Joining(l, first, final, size)
         IN Tiles(m, sz) /\ NoNeighbours(m)
<1> DEFINE m == Joining(l, first, final, size)
           n == Len(l)
           d == final - first
<1>1. /\ n \in Nat /\ first \in 1 .. n /\ final \in first .. n /\ d \in Nat
      /\ final = first + d
  OBVIOUS
<1>2. /\ m \in Seq(Block) /\ Len(m) = n - d /\ Len(m) \in Nat
      /\ \A j \in 1 .. first - 1 : m[j] = l[j]
      /\ m[first].ptr = l[first].ptr /\ m[first].size = size /\ m[first].free = TRUE
      /\ \A j \in first + 1 .. Len(m) : m[j] = l[j + d]
  <2> HIDE DEF m
  <2>1. IsJoined(m, l, first, final, size)
    BY JoiningShape DEF m
  <2> QED
    BY <2>1 DEF IsJoined
<1>3. \A j \in first + 1 .. n - d : m[j] = l[j + d]
  <2> HIDE DEF m, d, n
  <2> QED
    BY <1>2
<1>4. /\ l[1].ptr = 0 /\ l[n].ptr + l[n].size = sz
      /\ \A j \in 1 .. n - 1 : l[j + 1].ptr = l[j].ptr + l[j].size
  BY DEF Tiles
<1>5. \A j \in 1 .. n - 1 : ~ (l[j].free /\ l[j + 1].free)
  BY DEF NoNeighbours
<1>6. \A j \in 1 .. n : l[j].ptr \in Nat /\ l[j].size \in Nat
  BY BlockFields
<1> HIDE DEF m, n, d
<1>7. m[1].ptr = 0
  <2>1. CASE first = 1
    BY <2>1, <1>2, <1>3, <1>4
  <2>2. CASE first > 1
    <3>1. m[1] = l[1]
      BY <2>2, <1>1, <1>2, <1>3
    <3> QED
      BY <3>1, <1>4
  <2> QED
    BY <2>1, <2>2, <1>1
<1>8. m[n - d].ptr + m[n - d].size = sz
  <2>1. CASE final = n
    <3>1. n - d = first
      BY <2>1, <1>1
    <3> QED
      BY <3>1, <2>1, <1>2, <1>3, <1>4
  <2>2. CASE final < n
    <3>1. n - d \in first + 1 .. n - d /\ (n - d) + d = n
      BY <2>2, <1>1
    <3>2. m[n - d] = l[n]
      BY <3>1, <1>2, <1>3
    <3> QED
      BY <3>2, <1>4
  <2> QED
    BY <2>1, <2>2, <1>1
<1>9. ASSUME NEW j \in 1 .. (n - d) - 1
      PROVE  m[j + 1].ptr = m[j].ptr + m[j].size /\ ~ (m[j].free /\ m[j + 1].free)
  <2>1. CASE j < first - 1
    <3>1. m[j] = l[j] /\ m[j + 1] = l[j + 1] /\ j \in 1 .. n - 1
      BY <2>1, <1>1, <1>2, <1>3
    <3> QED
      BY <3>1, <1>4, <1>5
  <2>2. CASE j = first - 1
    <3>1. m[j] = l[j] /\ j \in 1 .. n - 1 /\ j + 1 = first /\ first > 1
      BY <2>2, <1>1, <1>2, <1>3
    <3>2. ~ l[j].free
      BY <2>2, <3>1
    <3>3. m[j + 1].ptr = l[j + 1].ptr
      BY <3>1, <1>2, <1>3
    <3> QED
      BY <3>1, <3>2, <3>3, <1>4
  <2>3. CASE j = first
    <3>1. j + 1 \in first + 1 .. n - d /\ (j + 1) + d = final + 1 /\ final \in 1 .. n - 1 /\ final < n
      BY <2>3, <1>1
    <3>2. m[j + 1] = l[final + 1]
      BY <3>1, <1>2, <1>3
    <3>3. l[final + 1].ptr = l[final].ptr + l[final].size
      BY <3>1, <1>4
    <3>4. ~ l[final + 1].free
      BY <3>1 DEF n
    <3> QED
      BY <2>3, <3>2, <3>3, <3>4, <1>2, <1>3
  <2>4. CASE j > first
    <3>1. PICK i \in 1 .. n - 1 : i = j + d
      BY <2>4, <1>1
    <3>2. (j + 1) + d = i + 1 /\ j + 1 \in first + 1 .. n - d /\ j \in first + 1 .. n - d
      BY <2>4, <3>1, <1>1
    <3>3. m[j] = l[i] /\ m[j + 1] = l[i + 1]
      BY <3>1, <3>2, <1>2, <1>3
    <3> QED
      BY <3>3, <1>4, <1>5
  <2> QED
    BY <2>1, <2>2, <2>3, <2>4, <1>1
<1>10. Tiles(m, sz) /\ NoNeighbours(m)
  <2>1. m # <<>>
    BY <1>1, <1>2
  <2> QED
    BY <2>1, <1>2, <1>7, <1>8, <1>9 DEF Tiles, NoNeighbours
<1> QED
  BY <1>10 DEF m

\* The areas of m are those of l but for the k-th block's.
LosesOne(m, l, k) == Areas(m) = {a \in Areas(l) : a.ptr # l[k].ptr}

\* Coalescing a used block with free ones takes just its area away.
LEMMA JoiningAreas ==
  ASSUME NEW l \in Seq(Block), NEW sz \in Pools, Tiles(l, sz),
         NEW first \in 1 .. Len(l), NEW final \in first .. Len(l),
         NEW size \in Int, l[first].ptr + size = l[final].ptr + l[final].size,
         NEW k \in first .. final, ~ l[k].free,
         \A j \in first .. final : j # k => l[j].free
  PROVE  LosesOne(Joining(l, first, final, size), l, k)
<1> DEFINE m == Joining(l, first, final, size)
           n == Len(l)
           d == final - first
<1>1. /\ n \in Nat /\ first \in 1 .. n /\ final \in first .. n /\ d \in Nat
      /\ final = first + d /\ k \in 1 .. n
  OBVIOUS
<1>2. /\ m \in Seq(Block) /\ Len(m) = n - d /\ Len(m) \in Nat
      /\ \A j \in 1 .. first - 1 : m[j] = l[j]
      /\ m[first].ptr = l[first].ptr /\ m[first].size = size /\ m[first].free = TRUE
      /\ \A j \in first + 1 .. Len(m) : m[j] = l[j + d]
  <2> HIDE DEF m
  <2>1. IsJoined(m, l, first, final, size)
    BY JoiningShape DEF m
  <2> QED
    BY <2>1 DEF IsJoined
<1>3. \A j \in first + 1 .. n - d : m[j] = l[j + d]
  <2> HIDE DEF m, d, n
  <2> QED
    BY <1>2
<1>4. \A i, j \in 1 .. n : i # j => l[i].ptr # l[j].ptr
  <2>1. sz \in Nat
    BY MyMemAssumption
  <2>2. \A i, j \in 1 .. n : i < j => l[i].ptr + l[i].size <= l[j].ptr
    BY <2>1, TilesOrdered
  <2>3. \A i \in 1 .. n : l[i].ptr \in Nat /\ l[i].size \in Nat \ {0}
    BY BlockFields
  <2>4. ASSUME NEW i \in 1 .. n, NEW j \in 1 .. n, i < j PROVE l[i].ptr # l[j].ptr
    <3> DEFINE p == l[i].ptr
               s == l[i].size
               q == l[j].ptr
    <3>1. p \in Nat /\ s \in Nat \ {0} /\ q \in Nat /\ p + s <= q
      BY <2>2, <2>3, <2>4
    <3> HIDE DEF p, s, q
    <3>2. p # q
      BY <3>1
    <3> QED
      BY <3>2 DEF p, q
  <2> QED
    BY <2>4
<1>5. DOMAIN m = 1 .. n - d /\ DOMAIN l = 1 .. n
  BY <1>2
<1> HIDE DEF m, n, d
<1>6. ASSUME NEW a \in Areas(m) PROVE a \in Areas(l) /\ a.ptr # l[k].ptr
  <2>1. PICK j \in 1 .. n - d : ~ m[j].free /\ a = [ptr |-> m[j].ptr, size |-> m[j].size]
    BY <1>5 DEF Areas
  <2>2. PICK i \in 1 .. n : m[j] = l[i] /\ i # k
    <3>1. CASE j < first
      <4>1. j \in 1 .. first - 1 /\ j \in 1 .. n /\ j # k
        BY <3>1, <1>1
      <4>2. m[j] = l[j]
        BY <4>1, <1>2
      <4> QED
        BY <4>1, <4>2
    <3>2. CASE j > first
      <4>1. j + d \in 1 .. n /\ m[j] = l[j + d] /\ j + d # k
        BY <3>2, <1>1, <1>2, <1>3
      <4> QED
        BY <4>1
    <3> QED
      BY <2>1, <3>1, <3>2, <1>1, <1>2, <1>3
  <2>3. l[i].ptr # l[k].ptr
    BY <2>2, <1>1, <1>4
  <2> QED
    BY <2>1, <2>2, <2>3, <1>5 DEF Areas
<1>7. ASSUME NEW a \in Areas(l), a.ptr # l[k].ptr PROVE a \in Areas(m)
  <2>1. PICK i \in 1 .. n : ~ l[i].free /\ a = [ptr |-> l[i].ptr, size |-> l[i].size]
    BY <1>5 DEF Areas
  <2>2. i < first \/ i > final
    BY <2>1, <1>1, <1>7
  <2>3. PICK j \in 1 .. n - d : m[j] = l[i]
    <3>1. CASE i < first
      <4>1. i \in 1 .. n - d /\ m[i] = l[i]
        BY <3>1, <1>1, <1>2, <1>3
      <4> QED
        BY <4>1
    <3>2. CASE i > final
      <4>1. i - d \in first + 1 .. n - d /\ i - d \in 1 .. n - d /\ (i - d) + d = i
        BY <3>2, <1>1
      <4>2. m[i - d] = l[i]
        BY <4>1, <1>2, <1>3
      <4> QED
        BY <4>1, <4>2
    <3> QED
      BY <2>2, <3>1, <3>2
  <2> QED
    BY <2>1, <2>3, <1>5 DEF Areas
<1> QED
  BY <1>6, <1>7 DEF m, LosesOne

-----------------------------------------------------------------------------
(* The four searches                                                       *)

\* A size kept in an int is an integer.
LEMMA InIntType ==
  ASSUME NEW n \in Nat
  PROVE  InInt(n) \in Int
<1> DEFINE h == 2^(IntBits - 1)
           w == 2^IntBits
<1>1. h \in Nat \ {0} /\ w = 2 * h
  <2>1. IntBits - 1 \in Nat /\ (IntBits - 1) + 1 = IntBits
    BY MyMemAssumption
  <2> QED
    BY <2>1, Powers
<1> HIDE DEF h, w
<1>2. w \in Nat \ {0}
  BY <1>1
<1>3. n % w \in 0 .. w - 1
  BY <1>2
<1> QED
  BY <1>1, <1>3 DEF InInt, h, w

\* What fits in an int is kept by it, and up to twice as much gets negative.
LEMMA InIntValue ==
  ASSUME NEW n \in Nat, n < 2^IntBits
  PROVE  /\ 2^IntBits = 2 * 2^(IntBits - 1) /\ 2^(IntBits - 1) \in Nat
         /\ n < 2^(IntBits - 1) => InInt(n) = n
         /\ n >= 2^(IntBits - 1) => InInt(n) < 0
<1> DEFINE h == 2^(IntBits - 1)
           w == 2^IntBits
<1>1. h \in Nat \ {0} /\ w = 2 * h
  <2>1. IntBits - 1 \in Nat /\ (IntBits - 1) + 1 = IntBits
    BY MyMemAssumption
  <2> QED
    BY <2>1, Powers
<1>0. n < w
  OBVIOUS
<1> HIDE DEF h, w
<1>2. w \in Nat \ {0}
  BY <1>1
<1>3. n % w = n
  BY <1>2, <1>0
<1>4. n < h => InInt(n) = n
  BY <1>3 DEF InInt, h, w
<1>5. n >= h => InInt(n) < 0
  <2>1. n >= h => InInt(n) = n - w
    BY <1>1, <1>3 DEF InInt, h, w
  <2> QED
    BY <2>1, <1>0, <1>2
<1> QED
  BY <1>1, <1>4, <1>5 DEF h, w

Look(n) == [at : 0 .. n, size : Int]

\* One look of best_fit, and of worst_fit, at the k-th block.
BestLook(l, best, k, requested) ==
  IF (l[k].free /\ l[k].size >= requested) /\ Below(l[k].size, best.size)
    THEN [at |-> k, size |-> InInt(l[k].size)] ELSE best
WorstLook(l, worst, k, requested) ==
  IF (l[k].free /\ l[k].size >= requested) /\ Above(l[k].size, worst.size)
    THEN [at |-> k, size |-> InInt(l[k].size)] ELSE worst

\* best_fit looks at the blocks from the first to the last, one after the
\* other: the fold of BestFit is such a run.
LEMMA BestRun ==
  ASSUME list \in Seq(Block), mySize \in Nat, NEW r
  PROVE  \E run \in [0 .. Len(list) -> Look(Len(list))] :
           /\ run[0] = [at |-> 0, size |-> InInt(mySize + 1)]
           /\ BestFit(r) = run[Len(list)].at
           /\ \A k \in 1 .. Len(list) : run[k] = BestLook(list, run[k - 1], k, r)
<1> DEFINE n == Len(list)
           ids == [i \in DOMAIN list |-> i]
           base == [at |-> 0, size |-> InInt(mySize + 1)]
           V == Look(n)
           step == [p \in V \X (1 .. n) |-> BestLook(list, p[1], p[2], r)]
           eq(it) == it = [s \in SUBSET DOMAIN ids |->
                             IF s = {} THEN base
                             ELSE BestLook(list, it[s \ {Max(s)}], ids[Max(s)], r)]
           it == CHOOSE f : eq(f)
<1>1. BestFit(r) = it[DOMAIN ids].at
  BY DEF BestFit, FoldLeftDomain, FoldLeft, MapThenFoldSet, BestLook, Suitable
<1>2. DOMAIN ids = 1 .. n /\ n \in Nat /\ \A k \in 1 .. n : ids[k] = k
  OBVIOUS
<1>3. base \in V
  BY InIntType, <1>2 DEF Look
<1>4. ASSUME NEW v \in V, NEW k \in 1 .. n
      PROVE  BestLook(list, v, k, r) \in V /\ step[<<v, k>>] = BestLook(list, v, k, r)
  <2>1. list[k].size \in Nat
    BY BlockFields
  <2>2. [at |-> k, size |-> InInt(list[k].size)] \in V
    BY <2>1, InIntType, <1>2 DEF Look
  <2> QED
    BY <2>2 DEF BestLook
<1>5. step \in Steps(n, V)
  BY <1>4 DEF Steps
<1>6. \E f : eq(f)
  <2> HIDE DEF step, V, base, n
  <2>0. PICK f : IsFold(f, n, V, base, step)
    BY <1>2, <1>3, <1>5, FoldExists
  <2>1. /\ f \in [SUBSET (1 .. n) -> V]
        /\ \A s \in SUBSET (1 .. n) : f[s] = Folded(f, s, base, step)
    BY <2>0 DEF IsFold
  <2>2. ASSUME NEW s \in SUBSET DOMAIN ids
        PROVE  f[s] = IF s = {} THEN base
                      ELSE BestLook(list, f[s \ {Max(s)}], ids[Max(s)], r)
    <3>1. CASE s = {}
      BY <3>1, <2>1, <1>2 DEF Folded
    <3>2. CASE s # {}
      <4>1. Max(s) \in 1 .. n /\ s \ {Max(s)} \in SUBSET (1 .. n)
        BY <3>2, <1>2, Removing
      <4>2. f[s] = step[<<f[s \ {Max(s)}], Max(s)>>] /\ f[s \ {Max(s)}] \in V
        BY <3>2, <4>1, <2>1, <1>2 DEF Folded
      <4> QED
        BY <3>2, <4>1, <4>2, <1>2, <1>4
    <3> QED
      BY <3>1, <3>2
  <2> HIDE DEF ids
  <2>3. eq(f)
    BY <2>1, <2>2, <1>2
  <2> QED
    BY <2>3
<1>7. eq(it)
  <2> HIDE DEF eq
  <2> QED
    BY <1>6
<1> HIDE DEF it
<1>8. it[{}] = base
  BY <1>7
<1>9. ASSUME NEW k \in 1 .. n PROVE it[1 .. k] = BestLook(list, it[1 .. k - 1], k, r)
  <2>1. 1 .. k \in SUBSET (1 .. n) /\ 1 .. k # {} /\ (1 .. k) \ {k} = 1 .. k - 1
    <3>1. k \in 1 .. k /\ k \in Nat
      BY <1>2
    <3>2. 1 .. k \in SUBSET (1 .. n)
      BY <1>2
    <3>3. (1 .. k) \ {k} = 1 .. k - 1
      BY <1>2
    <3> QED
      BY <3>1, <3>2, <3>3
  <2>2. Max(1 .. k) = k
    <3>1. 1 .. k \in SUBSET Nat /\ k \in Nat /\ k \in 1 .. k /\ \A m \in 1 .. k : m <= k
      OBVIOUS
    <3>2. Max(1 .. k) \in 1 .. k /\ Max(1 .. k) >= k
      BY <3>1, <2>1, MaxIs
    <3> QED
      BY <3>2
  <2> HIDE DEF ids
  <2>3. it[1 .. k] = BestLook(list, it[(1 .. k) \ {Max(1 .. k)}], ids[Max(1 .. k)], r)
    BY <1>7, <1>2, <2>1
  <2> QED
    BY <2>1, <2>2, <2>3, <1>2
<1> HIDE DEF base, V, step, ids, n
<1>10. \A k \in 1 .. n : it[1 .. k - 1] \in V => it[1 .. k] = step[<<it[1 .. k - 1], k>>]
  BY <1>4, <1>9
<1>r. Follows(it, n, V, base, step)
  BY <1>8, <1>10 DEF Follows
<1>q. PICK run : IsRun(run, n, V, base, step) /\ run[n] = it[1 .. n]
  BY <1>2, <1>3, <1>5, <1>r, Runs
<1>11. /\ run \in [0 .. n -> V] /\ run[0] = base /\ run[n] = it[1 .. n]
       /\ \A k \in 1 .. n : run[k] = step[<<run[k - 1], k>>]
  BY <1>q DEF IsRun
<1>12. \A k \in 1 .. n : run[k] = BestLook(list, run[k - 1], k, r)
  <2> TAKE k \in 1 .. n
  <2>1. k - 1 \in 0 .. n
    BY <1>2
  <2> QED
    BY <2>1, <1>4, <1>11
<1>13. BestFit(r) = run[n].at
  BY <1>1, <1>2, <1>11
<1> QED
  BY <1>11, <1>12, <1>13 DEF V, base, n

\* The same of worst_fit.
LEMMA WorstRun ==
  ASSUME list \in Seq(Block), mySize \in Nat, NEW r
  PROVE  \E run \in [0 .. Len(list) -> Look(Len(list))] :
           /\ run[0] = [at |-> 0, size |-> 0]
           /\ WorstFit(r) = run[Len(list)].at
           /\ \A k \in 1 .. Len(list) : run[k] = WorstLook(list, run[k - 1], k, r)
<1> DEFINE n == Len(list)
           ids == [i \in DOMAIN list |-> i]
           base == [at |-> 0, size |-> 0]
           V == Look(n)
           step == [p \in V \X (1 .. n) |-> WorstLook(list, p[1], p[2], r)]
           eq(it) == it = [s \in SUBSET DOMAIN ids |->
                             IF s = {} THEN base
                             ELSE WorstLook(list, it[s \ {Max(s)}], ids[Max(s)], r)]
           it == CHOOSE f : eq(f)
<1>1. WorstFit(r) = it[DOMAIN ids].at
  BY DEF WorstFit, FoldLeftDomain, FoldLeft, MapThenFoldSet, WorstLook, Suitable
<1>2. DOMAIN ids = 1 .. n /\ n \in Nat /\ \A k \in 1 .. n : ids[k] = k
  OBVIOUS
<1>3. base \in V
  BY <1>2 DEF Look
<1>4. ASSUME NEW v \in V, NEW k \in 1 .. n
      PROVE  WorstLook(list, v, k, r) \in V /\ step[<<v, k>>] = WorstLook(list, v, k, r)
  <2>1. list[k].size \in Nat
    BY BlockFields
  <2>2. [at |-> k, size |-> InInt(list[k].size)] \in V
    BY <2>1, InIntType, <1>2 DEF Look
  <2> QED
    BY <2>2 DEF WorstLook
<1>5. step \in Steps(n, V)
  BY <1>4 DEF Steps
<1>6. \E f : eq(f)
  <2> HIDE DEF step, V, base, n
  <2>0. PICK f : IsFold(f, n, V, base, step)
    BY <1>2, <1>3, <1>5, FoldExists
  <2>1. /\ f \in [SUBSET (1 .. n) -> V]
        /\ \A s \in SUBSET (1 .. n) : f[s] = Folded(f, s, base, step)
    BY <2>0 DEF IsFold
  <2>2. ASSUME NEW s \in SUBSET DOMAIN ids
        PROVE  f[s] = IF s = {} THEN base
                      ELSE WorstLook(list, f[s \ {Max(s)}], ids[Max(s)], r)
    <3>1. CASE s = {}
      BY <3>1, <2>1, <1>2 DEF Folded
    <3>2. CASE s # {}
      <4>1. Max(s) \in 1 .. n /\ s \ {Max(s)} \in SUBSET (1 .. n)
        BY <3>2, <1>2, Removing
      <4>2. f[s] = step[<<f[s \ {Max(s)}], Max(s)>>] /\ f[s \ {Max(s)}] \in V
        BY <3>2, <4>1, <2>1, <1>2 DEF Folded
      <4> QED
        BY <3>2, <4>1, <4>2, <1>2, <1>4
    <3> QED
      BY <3>1, <3>2
  <2> HIDE DEF ids
  <2>3. eq(f)
    BY <2>1, <2>2, <1>2
  <2> QED
    BY <2>3
<1>7. eq(it)
  <2> HIDE DEF eq
  <2> QED
    BY <1>6
<1> HIDE DEF it
<1>8. it[{}] = base
  BY <1>7
<1>9. ASSUME NEW k \in 1 .. n PROVE it[1 .. k] = WorstLook(list, it[1 .. k - 1], k, r)
  <2>1. 1 .. k \in SUBSET (1 .. n) /\ 1 .. k # {} /\ (1 .. k) \ {k} = 1 .. k - 1
    <3>1. k \in 1 .. k /\ k \in Nat
      BY <1>2
    <3>2. 1 .. k \in SUBSET (1 .. n)
      BY <1>2
    <3>3. (1 .. k) \ {k} = 1 .. k - 1
      BY <1>2
    <3> QED
      BY <3>1, <3>2, <3>3
  <2>2. Max(1 .. k) = k
    <3>1. 1 .. k \in SUBSET Nat /\ k \in Nat /\ k \in 1 .. k /\ \A m \in 1 .. k : m <= k
      OBVIOUS
    <3>2. Max(1 .. k) \in 1 .. k /\ Max(1 .. k) >= k
      BY <3>1, <2>1, MaxIs
    <3> QED
      BY <3>2
  <2> HIDE DEF ids
  <2>3. it[1 .. k] = WorstLook(list, it[(1 .. k) \ {Max(1 .. k)}], ids[Max(1 .. k)], r)
    BY <1>7, <1>2, <2>1
  <2> QED
    BY <2>1, <2>2, <2>3, <1>2
<1> HIDE DEF base, V, step, ids, n
<1>10. \A k \in 1 .. n : it[1 .. k - 1] \in V => it[1 .. k] = step[<<it[1 .. k - 1], k>>]
  BY <1>4, <1>9
<1>r. Follows(it, n, V, base, step)
  BY <1>8, <1>10 DEF Follows
<1>q. PICK run : IsRun(run, n, V, base, step) /\ run[n] = it[1 .. n]
  BY <1>2, <1>3, <1>5, <1>r, Runs
<1>11. /\ run \in [0 .. n -> V] /\ run[0] = base /\ run[n] = it[1 .. n]
       /\ \A k \in 1 .. n : run[k] = step[<<run[k - 1], k>>]
  BY <1>q DEF IsRun
<1>12. \A k \in 1 .. n : run[k] = WorstLook(list, run[k - 1], k, r)
  <2> TAKE k \in 1 .. n
  <2>1. k - 1 \in 0 .. n
    BY <1>2
  <2> QED
    BY <2>1, <1>4, <1>11
<1>13. WorstFit(r) = run[n].at
  BY <1>1, <1>2, <1>11
<1> QED
  BY <1>11, <1>12, <1>13 DEF V, base, n

\* The k-th block is one that a request of r can have.
Fits(l, k, r) == l[k].free /\ l[k].size >= r

\* What best_fit finds is a free block that is large enough, whatever an int
\* makes of the sizes.
LEMMA BestFinds ==
  ASSUME list \in Seq(Block), mySize \in Nat, NEW r
  PROVE  BestFit(r) \in 0 .. Len(list) /\ (BestFit(r) # 0 => Fits(list, BestFit(r), r))
<1> DEFINE n == Len(list)
<1>1. PICK run \in [0 .. n -> Look(n)] :
        /\ run[0] = [at |-> 0, size |-> InInt(mySize + 1)]
        /\ BestFit(r) = run[n].at
        /\ \A k \in 1 .. n : run[k] = BestLook(list, run[k - 1], k, r)
  BY BestRun
<1>2. n \in Nat
  OBVIOUS
<1> DEFINE S == {k \in 0 .. n : run[k].at # 0 => Fits(list, run[k].at, r)}
<1> HIDE DEF n
<1>3. 0 \in S
  BY <1>1, <1>2
<1>4. ASSUME NEW k \in 0 .. n, k \in S, k < n PROVE k + 1 \in S
  <2>1. k + 1 \in 1 .. n /\ k + 1 \in 0 .. n /\ (k + 1) - 1 = k
    BY <1>2, <1>4
  <2>2. run[k + 1] = BestLook(list, run[k], k + 1, r)
    BY <1>1, <2>1
  <2>3. run[k + 1].at # 0 => Fits(list, run[k + 1].at, r)
    BY <1>4, <2>2 DEF BestLook, Fits
  <2> QED
    BY <2>1, <2>3
<1>5. n \in S
  <2> HIDE DEF S
  <2>1. \A k \in 0 .. n : k \in S
    BY <1>2, <1>3, <1>4, CountingTo
  <2> QED
    BY <2>1, <1>2
<1>6. run[n].at \in 0 .. n
  BY <1>1, <1>2 DEF Look
<1> QED
  BY <1>1, <1>5, <1>6 DEF n

\* The same of worst_fit.
LEMMA WorstFinds ==
  ASSUME list \in Seq(Block), mySize \in Nat, NEW r
  PROVE  WorstFit(r) \in 0 .. Len(list) /\ (WorstFit(r) # 0 => Fits(list, WorstFit(r), r))
<1> DEFINE n == Len(list)
<1>1. PICK run \in [0 .. n -> Look(n)] :
        /\ run[0] = [at |-> 0, size |-> 0]
        /\ WorstFit(r) = run[n].at
        /\ \A k \in 1 .. n : run[k] = WorstLook(list, run[k - 1], k, r)
  BY WorstRun
<1>2. n \in Nat
  OBVIOUS
<1> DEFINE S == {k \in 0 .. n : run[k].at # 0 => Fits(list, run[k].at, r)}
<1> HIDE DEF n
<1>3. 0 \in S
  BY <1>1, <1>2
<1>4. ASSUME NEW k \in 0 .. n, k \in S, k < n PROVE k + 1 \in S
  <2>1. k + 1 \in 1 .. n /\ k + 1 \in 0 .. n /\ (k + 1) - 1 = k
    BY <1>2, <1>4
  <2>2. run[k + 1] = WorstLook(list, run[k], k + 1, r)
    BY <1>1, <2>1
  <2>3. run[k + 1].at # 0 => Fits(list, run[k + 1].at, r)
    BY <1>4, <2>2 DEF WorstLook, Fits
  <2> QED
    BY <2>1, <2>3
<1>5. n \in S
  <2> HIDE DEF S
  <2>1. \A k \in 0 .. n : k \in S
    BY <1>2, <1>3, <1>4, CountingTo
  <2> QED
    BY <2>1, <1>2
<1>6. run[n].at \in 0 .. n
  BY <1>1, <1>2 DEF Look
<1> QED
  BY <1>1, <1>5, <1>6 DEF n

\* Smallest returns an element of the set, and 0 if there is none.
LEMMA SmallestIs ==
  ASSUME NEW S \in SUBSET (Nat \ {0})
  PROVE  /\ Smallest(S) = 0 <=> S = {}
         /\ S # {} => Smallest(S) \in S /\ \A k \in S : Smallest(S) <= k
<1>1. S \in SUBSET Nat
  OBVIOUS
<1>2. S # {} => Min(S) \in S /\ \A k \in S : Min(S) <= k
  BY <1>1, MinIs
<1> QED
  BY <1>2 DEF Smallest

\* first_fit finds the first block that is free and large enough, if there is
\* one.
LEMMA FirstFinds ==
  ASSUME list \in Seq(Block), NEW r
  PROVE  /\ FirstFit(r) \in 0 .. Len(list)
         /\ FirstFit(r) # 0 => /\ Fits(list, FirstFit(r), r)
                               /\ \A j \in 1 .. Len(list) : Fits(list, j, r) => FirstFit(r) <= j
         /\ FirstFit(r) = 0 => \A j \in 1 .. Len(list) : ~ Fits(list, j, r)
<1> DEFINE S == {k \in DOMAIN list : Suitable(k, r)}
<1>1. S \in SUBSET (Nat \ {0}) /\ S \in SUBSET (1 .. Len(list))
  OBVIOUS
<1>2. \A k \in 1 .. Len(list) : k \in S <=> Fits(list, k, r)
  BY DEF Suitable, Fits
<1>3. FirstFit(r) = Smallest(S)
  BY DEF FirstFit
<1> HIDE DEF S
<1>4. (Smallest(S) = 0 <=> S = {}) /\ (S # {} => Smallest(S) \in S /\ \A k \in S : Smallest(S) <= k)
  BY <1>1, SmallestIs
<1>5. CASE S = {}
  BY <1>2, <1>3, <1>4, <1>5
<1>6. CASE S # {}
  <2>1. FirstFit(r) \in S /\ \A k \in S : FirstFit(r) <= k
    BY <1>3, <1>4, <1>6
  <2> DEFINE f == FirstFit(r)
  <2> HIDE DEF f
  <2>2. f \in S /\ \A k \in S : f <= k
    BY <2>1 DEF f
  <2>3. f \in 1 .. Len(list) /\ f # 0
    BY <2>2, <1>1
  <2>4. Fits(list, f, r) /\ \A j \in 1 .. Len(list) : Fits(list, j, r) => f <= j
    BY <2>2, <2>3, <1>2
  <2> QED
    BY <2>3, <2>4 DEF f
<1> QED
  BY <1>5, <1>6

\* What a remainder is, less than twice the divisor.
LEMMA Turning ==
  ASSUME NEW a \in Nat, NEW n \in Nat \ {0}, a < 2 * n
  PROVE  a % n = IF a < n THEN a ELSE a - n
OBVIOUS

\* The node that next-fit's search starts behind, 0 for none.
From == IF last_allocated = POOL THEN 0
        ELSE CHOOSE k \in DOMAIN list : list[k].ptr = last_allocated

\* The search of next_fit starts behind the node last_allocated points to.
LEMMA FromIs ==
  ASSUME list \in Seq(Block), LastAllocatedListed, list # <<>>
  PROVE  /\ From \in 0 .. Len(list)
         /\ last_allocated = POOL => From = 0
         /\ last_allocated # POOL => From \in 1 .. Len(list) /\ list[From].ptr = last_allocated
<1>1. CASE last_allocated = POOL
  BY <1>1 DEF From
<1>2. CASE last_allocated # POOL
  <2>1. \E k \in DOMAIN list : list[k].ptr = last_allocated
    BY <1>2 DEF LastAllocatedListed, Listed
  <2>2. From \in DOMAIN list /\ list[From].ptr = last_allocated
    BY <1>2, <2>1 DEF From
  <2> QED
    BY <1>2, <2>2
<1> QED
  BY <1>1, <1>2

\* j comes before k in the search that starts behind from.
Earlier(j, k, from) == (j > from /\ k < from) \/ ((j > from <=> k > from) /\ j <= k)

\* next_fit finds the first block behind last_allocated, round the list, that
\* is free and large enough, if there is one other than last_allocated itself.
LEMMA NextFinds ==
  ASSUME list \in Seq(Block), LastAllocatedListed, NEW r
  PROVE  /\ NextFit(r) \in 0 .. Len(list)
         /\ NextFit(r) # 0 =>
              /\ Fits(list, NextFit(r), r) /\ NextFit(r) # From
              /\ \A j \in 1 .. Len(list) : j # From /\ Fits(list, j, r) => Earlier(NextFit(r), j, From)
         /\ NextFit(r) = 0 => \A j \in 1 .. Len(list) : j # From => ~ Fits(list, j, r)
<1> DEFINE n == Len(list)
           Step(d) == ((From + d - 1) % n) + 1
           found == {d \in 1 .. n : Step(d) # From /\ Suitable(Step(d), r)}
<1>1. NextFit(r) = IF found = {} THEN 0 ELSE Step(Min(found))
  BY DEF NextFit, From
<1>2. CASE list = <<>>
  <2>1. n = 0
    BY <1>2
  <2>2. found = {}
    BY <2>1
  <2> QED
    BY <1>1, <2>1, <2>2
<1>3. CASE list # <<>>
  <2>1. n \in Nat \ {0} /\ From \in 0 .. n
    BY <1>3, FromIs
  <2> HIDE DEF n
  <2>2. ASSUME NEW d \in 1 .. n
        PROVE  Step(d) \in 1 .. n /\ Step(d) = IF From + d <= n THEN From + d ELSE (From + d) - n
    <3>1. From + d - 1 \in Nat /\ From + d - 1 < 2 * n
      BY <2>1
    <3>2. (From + d - 1) % n = IF From + d - 1 < n THEN From + d - 1 ELSE (From + d - 1) - n
      BY <2>1, <3>1, Turning
    <3> QED
      BY <2>1, <3>2
  <2>3. \A k \in 1 .. n : Suitable(k, r) <=> Fits(list, k, r)
    BY DEF Suitable, Fits
  <2>4. ASSUME NEW j \in 1 .. n, j # From, Fits(list, j, r)
        PROVE  \E d \in found : Step(d) = j
    <3>1. CASE j > From
      <4>1. j - From \in 1 .. n /\ From + (j - From) = j
        BY <3>1, <2>1
      <4>2. Step(j - From) = j
        BY <4>1, <2>2, <2>1
      <4> QED
        BY <4>1, <4>2, <2>3, <2>4
    <3>2. CASE j < From
      <4>1. (j - From) + n \in 1 .. n /\ From + ((j - From) + n) = j + n
        BY <3>2, <2>1
      <4>2. Step((j - From) + n) = j
        BY <4>1, <2>2, <2>1
      <4> QED
        BY <4>1, <4>2, <2>3, <2>4
    <3> QED
      BY <3>1, <3>2, <2>4, <2>1
  <2>5. CASE found = {}
    <3>1. NextFit(r) = 0
      BY <1>1, <2>5
    <3>2. \A j \in 1 .. n : j # From => ~ Fits(list, j, r)
      BY <2>4, <2>5
    <3> QED
      BY <3>1, <3>2, <2>1 DEF n
  <2>6. CASE found # {}
    <3> DEFINE e == Min(found)
    <3>1. found \in SUBSET Nat
      OBVIOUS
    <3>2. e \in found /\ \A d \in found : e <= d
      <4> HIDE DEF found
      <4> QED
        BY <2>6, <3>1, MinIs
    <3> HIDE DEF e
    <3>3. NextFit(r) = Step(e)
      BY <1>1, <2>6 DEF e
    <3>4. e \in 1 .. n /\ Step(e) # From /\ Fits(list, Step(e), r) /\ Step(e) \in 1 .. n
      BY <3>2, <2>2, <2>3
    <3>5. ASSUME NEW j \in 1 .. n, j # From, Fits(list, j, r) PROVE Earlier(Step(e), j, From)
      <4>1. PICK d \in found : Step(d) = j
        BY <2>4, <3>5
      <4>2. d \in 1 .. n /\ e <= d
        BY <4>1, <3>2
      <4>3. Step(d) = IF From + d <= n THEN From + d ELSE (From + d) - n
        BY <2>2, <4>2
      <4>4. Step(e) = IF From + e <= n THEN From + e ELSE (From + e) - n
        BY <2>2, <3>4
      <4> HIDE DEF Step, found
      <4> QED
        BY <4>1, <4>2, <4>3, <4>4, <3>4, <2>1, <3>5 DEF Earlier
    <3> HIDE DEF Step, found
    <3> QED
      BY <3>3, <3>4, <3>5, <2>1 DEF n
  <2> QED
    BY <2>5, <2>6
<1> QED
  BY <1>2, <1>3

\* Whatever the strategy, mymalloc is given a free block that is large enough.
LEMMA FitFinds ==
  ASSUME list \in Seq(Block), mySize \in Nat, LastAllocatedListed,
         myStrategy \in Strategies, NEW r
  PROVE  Fit(r) \in 0 .. Len(list) /\ (Fit(r) # 0 => Fits(list, Fit(r), r))
<1>1. CASE myStrategy = "first"
  BY <1>1, FirstFinds DEF Fit
<1>2. CASE myStrategy = "best"
  BY <1>2, BestFinds DEF Fit
<1>3. CASE myStrategy = "worst"
  BY <1>3, WorstFinds DEF Fit
<1>4. CASE myStrategy = "next"
  BY <1>4, NextFinds DEF Fit
<1> QED
  BY <1>1, <1>2, <1>3, <1>4 DEF Strategies

-----------------------------------------------------------------------------
(* The invariant                                                           *)

Tiled == list # <<>> => Tiles(list, mySize)
Coalesced == NoNeighbours(list)
Books == held = Areas(list)
Asked == list # <<>> => mySize \in Pools

IInv ==
  /\ TypeOK
  /\ Tiled /\ Coalesced
  /\ Books /\ Asked
  /\ LastAllocatedListed

\* The invariant holds before initmem is called.
LEMMA InitIInv == Init => IInv
<1> SUFFICES ASSUME Init PROVE IInv
  OBVIOUS
<1>1. /\ status = "running" /\ myStrategy = "notset" /\ mySize = 0 /\ list = <<>>
      /\ last_allocated = NULL /\ reply = NONE /\ held = {}
  BY DEF Init
<1>2. list \in Seq(Block) /\ Len(list) = 0 /\ DOMAIN list = {}
  BY <1>1
<1>3. Listed = {} /\ Areas(list) = {}
  BY <1>2 DEF Listed, Areas
<1>4. TypeOK
  BY <1>1, <1>2, <1>3, FS_EmptySet DEF TypeOK, Block
<1>5. Coalesced
  BY <1>2 DEF Coalesced, NoNeighbours
<1> QED
  BY <1>1, <1>3, <1>4, <1>5 DEF IInv, Tiled, Books, Asked, LastAllocatedListed

\* What the invariant says of the list, in the terms of the lemmas.
LEMMA ListKnown ==
  ASSUME IInv
  PROVE  /\ list \in Seq(Block) /\ Len(list) \in Nat /\ DOMAIN list = 1 .. Len(list)
         /\ mySize \in Nat
         /\ list # <<>> => mySize \in Pools /\ Tiles(list, mySize)
         /\ NoNeighbours(list) /\ LastAllocatedListed
         /\ held = Areas(list)
<1>1. list \in Seq(Block)
  BY DEF IInv, TypeOK, Block
<1>2. mySize \in Nat
  BY MyMemAssumption DEF IInv, TypeOK
<1> QED
  BY <1>1, <1>2, BlockFields DEF IInv, Tiled, Coalesced, Asked, Books

\* The areas of a list of blocks are records of natural numbers.
LEMMA AreasType ==
  ASSUME NEW l \in Seq(Block), NEW a \in Areas(l)
  PROVE  a \in [ptr : Nat, size : Nat]
<1>1. PICK k \in 1 .. Len(l) : a = [ptr |-> l[k].ptr, size |-> l[k].size]
  BY BlockFields DEF Areas
<1> QED
  BY <1>1, BlockFields

\* A new list that tiles the pool gives all of the invariant but last_allocated.
LEMMA ListMakesInv ==
  ASSUME status' \in {"running", "hung", "lost"},
         myStrategy' \in Strategies \cup {"notset"},
         list' \in Seq(Block), mySize' \in Pools, Tiles(list', mySize'),
         NoNeighbours(list'), held' = Areas(list'),
         last_allocated' \in Nat \cup {POOL},
         last_allocated' \in {list'[k].ptr : k \in DOMAIN list'} \cup {POOL},
         reply' \in (Requests \X (Nat \cup {NULL})) \cup {NONE}
  PROVE  IInv'
<1>1. mySize' \in Nat
  BY MyMemAssumption
<1>2. Cardinality(Listed') = Len(list')
  BY <1>1, OneNodeEach DEF Listed
<1>3. \A a \in held' : a \in [ptr : Nat, size : Nat]
  BY AreasType
<1>4. TypeOK'
  BY <1>2, <1>3 DEF TypeOK, Block
<1> QED
  BY <1>4 DEF IInv, Tiled, Coalesced, Books, Asked, LastAllocatedListed, Listed

\* The invariant holds if initmem has failed and there is no list.
LEMMA NoListMakesInv ==
  ASSUME status' \in {"running", "hung", "lost"},
         myStrategy' \in Strategies \cup {"notset"}, mySize' \in Pools \cup {0},
         list' = <<>>, held' = {}, last_allocated' \in Nat \cup {POOL, NULL},
         reply' \in (Requests \X (Nat \cup {NULL})) \cup {NONE}
  PROVE  IInv'
<1>1. list' \in Seq(Block) /\ Len(list') = 0 /\ DOMAIN list' = {}
  OBVIOUS
<1>2. Listed' = {} /\ Areas(list') = {}
  BY <1>1 DEF Listed, Areas
<1>3. TypeOK'
  BY <1>1, <1>2, FS_EmptySet DEF TypeOK, Block
<1>4. Coalesced'
  BY <1>1 DEF Coalesced, NoNeighbours
<1> QED
  BY <1>2, <1>3, <1>4 DEF IInv, Tiled, Books, Asked, LastAllocatedListed

\* A call that leaves the list, the pool and last_allocated alone keeps the
\* invariant.
LEMMA SameListKeepsInv ==
  ASSUME IInv, status' \in {"running", "hung", "lost"},
         UNCHANGED <<pool, list, last_allocated, held>>,
         reply' \in (Requests \X (Nat \cup {NULL})) \cup {NONE}
  PROVE  IInv'
BY DEF IInv, TypeOK, Tiled, Coalesced, Books, Asked, LastAllocatedListed, Listed, pool

\* initmem establishes the invariant, or leaves no list.
LEMMA InitMemKeeps ==
  ASSUME IInv, NEW strategy \in Strategies \cup {"notset"}, NEW sz \in Pools,
         InitMem(strategy, sz)
  PROVE  IInv'
<1>1. /\ status = "running" /\ myStrategy' = strategy /\ mySize' = sz
      /\ held' = {} /\ reply' = NONE
  BY DEF InitMem
<1>2. CASE list' = <<[ptr |-> 0, size |-> sz, free |-> TRUE]>>
           /\ last_allocated' = POOL /\ UNCHANGED status
  <2> DEFINE one == [ptr |-> 0, size |-> sz, free |-> TRUE]
  <2>1. sz \in 1 .. Max(Pools) /\ 0 \in 0 .. Max(Pools) /\ sz \in Nat
    BY LargestPool, MyMemAssumption
  <2>2. one \in Block
    BY <2>1 DEF Block
  <2>3. list' \in Seq(Block) /\ Len(list') = 1 /\ list'[1] = one /\ DOMAIN list' = {1}
    BY <1>2, <2>2
  <2>4. Tiles(list', sz) /\ NoNeighbours(list')
    <3> DEFINE l == list'
    <3>1. l \in Seq(Block) /\ Len(l) = 1 /\ l[1] = one
      BY <2>3
    <3> HIDE DEF l
    <3>2. l # <<>> /\ l[1].ptr = 0 /\ l[Len(l)].ptr + l[Len(l)].size = sz
      <4>1. l[1].ptr = 0 /\ l[1].size = sz /\ 0 + sz = sz
        BY <2>1, <3>1
      <4>2. l # <<>>
        <5>1. Len(<<>>) = 0 /\ Len(l) = 1
          BY <3>1
        <5> QED
          BY <5>1
      <4>3. l[Len(l)] = l[1]
        BY <3>1
      <4> QED
        BY <4>1, <4>2, <4>3
    <3>3. \A k \in 1 .. Len(l) - 1 : FALSE
      BY <3>1
    <3>4. Tiles(l, sz) /\ NoNeighbours(l)
      BY <3>2, <3>3 DEF Tiles, NoNeighbours
    <3> QED
      BY <3>4 DEF l
  <2>5. Areas(list') = {}
    BY <2>3 DEF Areas
  <2> QED
    BY <1>1, <1>2, <2>3, <2>4, <2>5, ListMakesInv
<1>3. CASE list' = <<>> /\ status' \in {"running", "lost"} /\ UNCHANGED last_allocated
  <2>1. last_allocated' \in Nat \cup {POOL, NULL}
    BY <1>3 DEF IInv, TypeOK
  <2> QED
    BY <1>1, <1>3, <2>1, NoListMakesInv
<1> QED
  BY <1>2, <1>3 DEF InitMem

\* mymalloc keeps the invariant, with the split or when there is no memory for
\* its second node.
LEMMA MyMallocKeeps ==
  ASSUME IInv, NEW r \in Requests, MyMalloc(r)
  PROVE  IInv'
<1> DEFINE k == Fit(r)
<1>1. r \in Nat \ {0}
  BY MyMemAssumption
<1>2. /\ status = "running" /\ myStrategy \in Strategies /\ k # 0
      /\ UNCHANGED <<status, pool>>
  BY DEF MyMalloc, IInv, TypeOK
<1>3. k \in 1 .. Len(list) /\ list[k].free /\ list[k].size >= r
  <2>1. k \in 0 .. Len(list) /\ (k # 0 => Fits(list, k, r))
    BY <1>2, ListKnown, FitFinds
  <2>2. Len(list) \in Nat
    BY ListKnown
  <2> HIDE DEF k
  <2> QED
    BY <1>2, <2>1, <2>2 DEF Fits
<1>4. list # <<>> /\ mySize \in Pools /\ Tiles(list, mySize) /\ list \in Seq(Block)
      /\ NoNeighbours(list) /\ held = Areas(list)
  BY <1>3, ListKnown
<1> DEFINE m == Taken(list, k, r)
<1>5. CASE /\ Take(k, r) /\ last_allocated' = list[k].ptr
           /\ reply' = <<r, list[k].ptr>>
           /\ held' = held \cup {[ptr |-> list[k].ptr, size |-> r]}
  <2>1. list' = m
    BY <1>5 DEF Take, Taken
  <2> HIDE DEF k, m
  <2>2. m \in Seq(Block) /\ IsTaken(m, list, k, r)
    BY <1>1, <1>3, <1>4, TakenShape DEF m
  <2>3. /\ Tiles(m, mySize) /\ NoNeighbours(m)
        /\ Areas(m) = Areas(list) \cup {[ptr |-> list[k].ptr, size |-> r]}
    BY <1>1, <1>3, <1>4, TakenKeeps DEF m
  <2>4. m[k].ptr = list[k].ptr /\ k \in DOMAIN m /\ list[k].ptr \in Nat
    <3>1. m[k].ptr = list[k].ptr /\ Len(m) >= Len(list)
      BY <1>3, <2>2 DEF IsTaken
    <3>2. list[k].ptr \in Nat
      BY <1>3, <1>4, BlockFields
    <3> QED
      BY <1>3, <2>2, <3>1, <3>2
  <2>5. list[k].ptr \in {list'[j].ptr : j \in DOMAIN list'}
    BY <2>1, <2>4
  <2>6. reply' \in Requests \X (Nat \cup {NULL})
    BY <1>5, <2>4
  <2>7. mySize' = mySize /\ myStrategy' = myStrategy /\ status' = status
    BY <1>2 DEF pool
  <2> QED
    BY <1>2, <1>4, <1>5, <2>1, <2>2, <2>3, <2>4, <2>5, <2>6, <2>7, ListMakesInv
<1>6. CASE reply' = <<r, NULL>> /\ UNCHANGED <<list, last_allocated, held>>
  BY <1>2, <1>6, SameListKeepsInv
<1> QED
  BY <1>5, <1>6 DEF MyMalloc

\* The search of myfree finds the node with the given ptr, if there is one.
LEMMA AtIs ==
  ASSUME list \in Seq(Block), NEW block
  PROVE  /\ At(block) \in 0 .. Len(list)
         /\ At(block) # 0 => list[At(block)].ptr = block
         /\ At(block) = 0 => \A k \in 1 .. Len(list) : list[k].ptr # block
<1> DEFINE S == {k \in DOMAIN list : list[k].ptr = block}
<1>1. S \in SUBSET (Nat \ {0}) /\ S \in SUBSET (1 .. Len(list))
  OBVIOUS
<1>2. \A k \in 1 .. Len(list) : k \in S <=> list[k].ptr = block
  OBVIOUS
<1>3. At(block) = Smallest(S)
  BY DEF At
<1> HIDE DEF S
<1>4. (Smallest(S) = 0 <=> S = {}) /\ (S # {} => Smallest(S) \in S)
  BY <1>1, SmallestIs
<1> DEFINE f == At(block)
<1> HIDE DEF f
<1>5. CASE S = {}
  <2>1. f = 0 /\ \A k \in 1 .. Len(list) : list[k].ptr # block
    BY <1>2, <1>3, <1>4, <1>5 DEF f
  <2> QED
    BY <2>1 DEF f
<1>6. CASE S # {}
  <2>1. f \in S
    BY <1>3, <1>4, <1>6 DEF f
  <2>2. f \in 1 .. Len(list) /\ list[f].ptr = block
    BY <2>1, <1>1, <1>2
  <2>3. f \in 0 .. Len(list) /\ f # 0
    BY <2>2
  <2> QED
    BY <2>2, <2>3 DEF f
<1> QED
  BY <1>5, <1>6

\* The blocks that freeing the k-th joins, and what they hold together.
FirstOf(k) == IF k > 1 /\ list[k - 1].free THEN k - 1 ELSE k
FinalOf(k) == IF k < Len(list) /\ list[k + 1].free THEN k + 1 ELSE k
SizeOf(k) == Size(k - 1, k > 1 /\ list[k - 1].free) + list[k].size
             + Size(k + 1, k < Len(list) /\ list[k + 1].free)

\* The blocks that myfree coalesces lie in a row, are free but for the one
\* that is freed, and have no free block on either side.
LEMMA FreeingJoins ==
  ASSUME IInv, NEW k \in 1 .. Len(list), ~ list[k].free
  PROVE  /\ FirstOf(k) \in 1 .. Len(list) /\ FinalOf(k) \in FirstOf(k) .. Len(list)
         /\ k \in FirstOf(k) .. FinalOf(k) /\ SizeOf(k) \in Int
         /\ list[FirstOf(k)].ptr + SizeOf(k)
              = list[FinalOf(k)].ptr + list[FinalOf(k)].size
         /\ FirstOf(k) > 1 => ~ list[FirstOf(k) - 1].free
         /\ FinalOf(k) < Len(list) => ~ list[FinalOf(k) + 1].free
         /\ \A j \in FirstOf(k) .. FinalOf(k) : j # k => list[j].free
<1> DEFINE n == Len(list)
           before == k > 1 /\ list[k - 1].free
           after == k < n /\ list[k + 1].free
<1>1. /\ n \in Nat /\ \A j \in 1 .. n : list[j].ptr \in Nat /\ list[j].size \in Nat
      /\ \A j \in 1 .. n - 1 : list[j + 1].ptr = list[j].ptr + list[j].size
      /\ \A j \in 1 .. n - 1 : ~ (list[j].free /\ list[j + 1].free)
  <2>1. list # <<>>
    BY ListKnown
  <2> QED
    BY <2>1, ListKnown, BlockFields DEF Tiles, NoNeighbours
<1>2. ASSUME before
      PROVE  /\ k - 1 \in 1 .. n - 1 /\ k - 1 \in 1 .. n /\ (k - 1) + 1 = k
             /\ list[k].ptr = list[k - 1].ptr + list[k - 1].size
             /\ k - 1 > 1 => ~ list[(k - 1) - 1].free
  <2>1. k - 1 \in 1 .. n - 1 /\ k - 1 \in 1 .. n /\ (k - 1) + 1 = k
    BY <1>1, <1>2
  <2>2. list[(k - 1) + 1].ptr = list[k - 1].ptr + list[k - 1].size
    BY <2>1, <1>1
  <2>3. ASSUME k - 1 > 1 PROVE ~ list[(k - 1) - 1].free
    <3>1. (k - 1) - 1 \in 1 .. n - 1 /\ ((k - 1) - 1) + 1 = k - 1
      BY <2>3, <2>1, <1>1
    <3> QED
      BY <3>1, <1>1, <1>2
  <2> QED
    BY <2>1, <2>2, <2>3
<1>3. ASSUME after
      PROVE  /\ k \in 1 .. n - 1 /\ k + 1 \in 1 .. n
             /\ list[k + 1].ptr = list[k].ptr + list[k].size
             /\ k + 1 < n => ~ list[(k + 1) + 1].free
  <2>1. k \in 1 .. n - 1 /\ k + 1 \in 1 .. n
    BY <1>1, <1>3
  <2>2. k + 1 < n => k + 1 \in 1 .. n - 1
    BY <2>1, <1>1
  <2> QED
    BY <2>1, <2>2, <1>1, <1>3
<1>4. /\ FirstOf(k) = IF before THEN k - 1 ELSE k
      /\ FinalOf(k) = IF after THEN k + 1 ELSE k
      /\ SizeOf(k) = (IF before THEN list[k - 1].size ELSE 0) + list[k].size
                     + (IF after THEN list[k + 1].size ELSE 0)
  BY DEF FirstOf, FinalOf, SizeOf, Size
<1>5. list[k].ptr \in Nat /\ list[k].size \in Nat
      /\ (before => list[k - 1].ptr \in Nat /\ list[k - 1].size \in Nat)
      /\ (after => list[k + 1].ptr \in Nat /\ list[k + 1].size \in Nat)
  BY <1>1, <1>2, <1>3
<1>6. k > 1 /\ ~ before => ~ list[k - 1].free
  OBVIOUS
<1>7. k < n /\ ~ after => ~ list[k + 1].free
  OBVIOUS
<1>8. (before => list[k - 1].free) /\ (after => list[k + 1].free)
  OBVIOUS
<1>9. k \in 1 .. n
  OBVIOUS
<1> HIDE DEF before, after, n
<1> DEFINE f == FirstOf(k)
           g == FinalOf(k)
           z == SizeOf(k)
<1> HIDE DEF f, g, z
<1>10. CASE before /\ after
  <2>1. f = k - 1 /\ g = k + 1 /\ z = list[k - 1].size + list[k].size + list[k + 1].size
    BY <1>4, <1>10 DEF f, g, z
  <2>2. z \in Int /\ list[f].ptr + z = list[g].ptr + list[g].size
    <3> DEFINE p == list[k - 1].ptr
               q == list[k].ptr
               u == list[k + 1].ptr
               s == list[k - 1].size
               t == list[k].size
               v == list[k + 1].size
    <3>1. p \in Nat /\ q \in Nat /\ u \in Nat /\ s \in Nat /\ t \in Nat /\ v \in Nat
      BY <1>5, <1>10
    <3>2. q = p + s /\ u = q + t
      BY <1>2, <1>3, <1>10
    <3> HIDE DEF p, q, u, s, t, v
    <3>3. s + t + v \in Int /\ p + (s + t + v) = u + v
      BY <3>1, <3>2
    <3> QED
      BY <2>1, <3>3 DEF p, q, u, s, t, v
  <2>3. f \in 1 .. n /\ g \in f .. n /\ k \in f .. g /\ \A j \in f .. g : j # k => list[j].free
    <3>1. f \in 1 .. n /\ g \in f .. n /\ k \in f .. g
      BY <2>1, <1>1, <1>2, <1>3, <1>9, <1>10
    <3>2. \A j \in f .. g : j = k - 1 \/ j = k \/ j = k + 1
      BY <2>1, <1>1, <1>9
    <3> QED
      BY <3>1, <3>2, <1>8, <1>10
  <2>4. (f > 1 => ~ list[f - 1].free) /\ (g < n => ~ list[g + 1].free)
    BY <2>1, <1>2, <1>3, <1>10
  <2> QED
    BY <2>2, <2>3, <2>4 DEF f, g, z, n
<1>11. CASE before /\ ~ after
  <2>1. f = k - 1 /\ g = k /\ z = list[k - 1].size + list[k].size + 0
    BY <1>4, <1>11 DEF f, g, z
  <2>2. z \in Int /\ list[f].ptr + z = list[g].ptr + list[g].size
    <3> DEFINE p == list[k - 1].ptr
               q == list[k].ptr
               s == list[k - 1].size
               t == list[k].size
    <3>1. p \in Nat /\ q \in Nat /\ s \in Nat /\ t \in Nat
      BY <1>5, <1>11
    <3>2. q = p + s
      BY <1>2, <1>11
    <3> HIDE DEF p, q, s, t
    <3>3. s + t + 0 \in Int /\ p + (s + t + 0) = q + t
      BY <3>1, <3>2
    <3> QED
      BY <2>1, <3>3 DEF p, q, s, t
  <2>3. f \in 1 .. n /\ g \in f .. n /\ k \in f .. g /\ \A j \in f .. g : j # k => list[j].free
    <3>1. f \in 1 .. n /\ g \in f .. n /\ k \in f .. g
      BY <2>1, <1>1, <1>2, <1>9, <1>11
    <3>2. \A j \in f .. g : j = k - 1 \/ j = k
      BY <2>1, <1>1, <1>9
    <3> QED
      BY <3>1, <3>2, <1>8, <1>11
  <2>4. (f > 1 => ~ list[f - 1].free) /\ (g < n => ~ list[g + 1].free)
    BY <2>1, <1>2, <1>7, <1>11
  <2> QED
    BY <2>2, <2>3, <2>4 DEF f, g, z, n
<1>12. CASE ~ before /\ after
  <2>1. f = k /\ g = k + 1 /\ z = 0 + list[k].size + list[k + 1].size
    BY <1>4, <1>12 DEF f, g, z
  <2>2. z \in Int /\ list[f].ptr + z = list[g].ptr + list[g].size
    <3> DEFINE q == list[k].ptr
               u == list[k + 1].ptr
               t == list[k].size
               v == list[k + 1].size
    <3>1. q \in Nat /\ u \in Nat /\ t \in Nat /\ v \in Nat
      BY <1>5, <1>12
    <3>2. u = q + t
      BY <1>3, <1>12
    <3> HIDE DEF q, u, t, v
    <3>3. 0 + t + v \in Int /\ q + (0 + t + v) = u + v
      BY <3>1, <3>2
    <3> QED
      BY <2>1, <3>3 DEF q, u, t, v
  <2>3. f \in 1 .. n /\ g \in f .. n /\ k \in f .. g /\ \A j \in f .. g : j # k => list[j].free
    <3>1. f \in 1 .. n /\ g \in f .. n /\ k \in f .. g
      BY <2>1, <1>1, <1>3, <1>9, <1>12
    <3>2. \A j \in f .. g : j = k \/ j = k + 1
      BY <2>1, <1>1, <1>9
    <3> QED
      BY <3>1, <3>2, <1>8, <1>12
  <2>4. (f > 1 => ~ list[f - 1].free) /\ (g < n => ~ list[g + 1].free)
    BY <2>1, <1>3, <1>6, <1>12
  <2> QED
    BY <2>2, <2>3, <2>4 DEF f, g, z, n
<1>13. CASE ~ before /\ ~ after
  <2>1. f = k /\ g = k /\ z = 0 + list[k].size + 0
    BY <1>4, <1>13 DEF f, g, z
  <2>2. z \in Int /\ list[f].ptr + z = list[g].ptr + list[g].size
    BY <2>1, <1>5
  <2>3. f \in 1 .. n /\ g \in f .. n /\ k \in f .. g /\ \A j \in f .. g : j # k => list[j].free
    BY <2>1, <1>1, <1>9
  <2>4. (f > 1 => ~ list[f - 1].free) /\ (g < n => ~ list[g + 1].free)
    BY <2>1, <1>6, <1>7, <1>13
  <2> QED
    BY <2>2, <2>3, <2>4 DEF f, g, z, n
<1> QED
  BY <1>10, <1>11, <1>12, <1>13

\* myfree, in terms of the blocks it joins.
LEMMA MyFreeIs ==
  ASSUME IInv, NEW block, MyFree(block)
  PROVE  LET k == At(block)
         IN /\ k \in 1 .. Len(list) /\ ~ list[k].free /\ list[k].ptr = block
            /\ list' = Joining(list, FirstOf(k), FinalOf(k), SizeOf(k))
            /\ last_allocated' = list[FirstOf(k)].ptr
            /\ reply' = NONE /\ held' = {a \in held : a.ptr # block}
            /\ status = "running" /\ UNCHANGED <<status, pool>>
<1> DEFINE k == At(block)
<1>1. k # 0 /\ ~ list[k].free /\ status = "running" /\ reply' = NONE
      /\ held' = {a \in held : a.ptr # block} /\ UNCHANGED <<status, pool>>
  BY DEF MyFree
<1>2. k \in 0 .. Len(list) /\ list[k].ptr = block /\ Len(list) \in Nat
  BY <1>1, ListKnown, AtIs
<1>3. list' = Joining(list, FirstOf(k), FinalOf(k), SizeOf(k)) /\ last_allocated' = list[FirstOf(k)].ptr
  BY DEF MyFree, Merge, Joining, FirstOf, FinalOf, SizeOf
<1> HIDE DEF k
<1>4. k \in 1 .. Len(list)
  BY <1>1, <1>2
<1> QED
  BY <1>1, <1>2, <1>3, <1>4 DEF k

\* myfree keeps the invariant: the blocks it joins become one, and
\* last_allocated points to it.
LEMMA MyFreeKeeps ==
  ASSUME IInv, NEW block, MyFree(block)
  PROVE  IInv'
<1> DEFINE k == At(block)
           f == FirstOf(k)
           g == FinalOf(k)
           z == SizeOf(k)
           m == Joining(list, f, g, z)
<1>1. /\ k \in 1 .. Len(list) /\ ~ list[k].free /\ list[k].ptr = block
      /\ list' = m /\ last_allocated' = list[f].ptr
      /\ reply' = NONE /\ held' = {a \in held : a.ptr # block}
      /\ status = "running" /\ UNCHANGED <<status, pool>>
  BY MyFreeIs
<1> HIDE DEF k
<1>2. /\ f \in 1 .. Len(list) /\ g \in f .. Len(list) /\ k \in f .. g /\ z \in Int
      /\ list[f].ptr + z = list[g].ptr + list[g].size
      /\ f > 1 => ~ list[f - 1].free
      /\ g < Len(list) => ~ list[g + 1].free
      /\ \A j \in f .. g : j # k => list[j].free
  BY <1>1, FreeingJoins
<1>3. /\ list \in Seq(Block) /\ mySize \in Pools /\ Tiles(list, mySize)
      /\ NoNeighbours(list) /\ held = Areas(list) /\ Len(list) \in Nat
  BY <1>1, ListKnown
<1> HIDE DEF f, g, z
<1>4. IsJoined(m, list, f, g, z)
  BY <1>2, <1>3, JoiningShape
<1>5. Tiles(m, mySize) /\ NoNeighbours(m)
  BY <1>2, <1>3, JoiningKeeps
<1>6. Areas(m) = {a \in Areas(list) : a.ptr # list[k].ptr}
  <2>1. LosesOne(m, list, k)
    BY <1>1, <1>2, <1>3, JoiningAreas
  <2> QED
    BY <2>1 DEF LosesOne
<1> HIDE DEF m
<1>7. m \in Seq(Block) /\ f \in DOMAIN m /\ m[f].ptr = list[f].ptr
  BY <1>2, <1>3, <1>4 DEF IsJoined
<1>8. list[f].ptr \in Nat
  BY <1>2, <1>3, BlockFields
<1>9. last_allocated' \in {list'[j].ptr : j \in DOMAIN list'}
  BY <1>1, <1>7
<1>10. mySize' = mySize /\ myStrategy' = myStrategy /\ status' = status
       /\ myStrategy \in Strategies \cup {"notset"}
  BY <1>1 DEF pool, IInv, TypeOK
<1>11. held' = Areas(m)
  BY <1>1, <1>3, <1>6
<1> QED
  BY <1>1, <1>3, <1>5, <1>7, <1>8, <1>9, <1>10, <1>11, ListMakesInv

\* Every call of the client keeps the invariant.
LEMMA NextIInv ==
  ASSUME IInv, [Next]_vars
  PROVE  IInv'
<1>1. CASE UNCHANGED vars
  BY <1>1 DEF vars, pool, IInv, TypeOK, Tiled, Coalesced, Books, Asked, LastAllocatedListed, Listed
<1>2. ASSUME NEW strategy \in Strategies \cup {"notset"}, NEW sz \in Pools, InitMem(strategy, sz)
      PROVE  IInv'
  BY <1>2, InitMemKeeps
<1>3. ASSUME NEW r \in Requests, MyMalloc(r) PROVE IInv'
  BY <1>3, MyMallocKeeps
<1>4. ASSUME NEW r \in Requests, MyMallocFails(r) PROVE IInv'
  BY <1>4, SameListKeepsInv DEF MyMallocFails
<1>5. ASSUME NEW r \in Requests, MyMallocHangs(r) PROVE IInv'
  BY <1>5, SameListKeepsInv DEF MyMallocHangs, IInv, TypeOK
<1>6. CASE MyMallocLost
  BY <1>6, SameListKeepsInv DEF MyMallocLost, IInv, TypeOK
<1>7. ASSUME NEW block \in 0 .. Max(Pools), MyFree(block) PROVE IInv'
  BY <1>7, MyFreeKeeps
<1>8. ASSUME NEW block \in 0 .. Max(Pools), MyFreeWarns(block) PROVE IInv'
  BY <1>8, SameListKeepsInv DEF MyFreeWarns
<1> QED
  BY <1>1, <1>2, <1>3, <1>4, <1>5, <1>6, <1>7, <1>8 DEF Next, Terminated

\* The list tiles the pool without two free neighbours, and its used blocks are
\* exactly the areas the client has: whatever is called, in whatever order,
\* with whatever sizes, and whether or not malloc fails.
THEOREM Invariance == Spec => []IInv
BY InitIInv, NextIInv, PTL DEF Spec

\* The type invariant of the allocator: mymalloc, myfree and initmem keep every
\* size and ptr within the pool and no ptr in two nodes.
THEOREM TypeCorrect == Spec => []TypeOK
<1>1. IInv => TypeOK
  BY DEF IInv
<1> QED
  BY <1>1, Invariance, PTL

\* last_allocated never points to a node that was freed: myfree, which frees
\* nodes when it coalesces, moves it to the node that is left.
THEOREM LastListed == Spec => []LastAllocatedListed
<1>1. IInv => LastAllocatedListed
  BY DEF IInv
<1> QED
  BY <1>1, Invariance, PTL

-----------------------------------------------------------------------------
(* best and worst fit, as far as an int can tell the sizes apart           *)

\* best and worst fit tell the sizes apart although they keep them in an int.
PoolsFit == \A sz \in Pools : sz + 1 < 2^IntBits

\* A size in an int compares with another as the sizes do, although it may be
\* negative there, if the two are of blocks of the same pool.
LEMMA Comparing ==
  ASSUME NEW most \in Nat, most + 1 < 2^IntBits
  PROVE  /\ \A s \in Nat : s <= most => Below(s, InInt(most + 1))
         /\ \A s, t \in Nat : s + t <= most =>
              /\ Below(t, InInt(s)) <=> t < s
              /\ Above(t, InInt(s)) <=> t > s
<1> DEFINE h == 2^(IntBits - 1)
           w == 2^IntBits
<1>1. /\ w = 2 * h /\ h \in Nat
      /\ \A n \in Nat : n < w => /\ InInt(n) \in Int
                                 /\ n < h => InInt(n) = n
                                 /\ n >= h => InInt(n) < 0
  <2>1. most + 1 \in Nat
    OBVIOUS
  <2> QED
    BY <2>1, InIntType, InIntValue
<1>0. most + 1 < w
  OBVIOUS
<1> HIDE DEF h, w
<1>2. ASSUME NEW s \in Nat, s <= most PROVE Below(s, InInt(most + 1))
  <2>1. most + 1 \in Nat
    OBVIOUS
  <2> QED
    BY <2>1, <1>0, <1>1, <1>2 DEF Below
<1>3. ASSUME NEW s \in Nat, NEW t \in Nat, s + t <= most
      PROVE  (Below(t, InInt(s)) <=> t < s) /\ (Above(t, InInt(s)) <=> t > s)
  <2>1. s < w /\ t < w
    BY <1>0, <1>1, <1>3
  <2>2. CASE s < h
    <3>1. InInt(s) = s
      BY <2>1, <2>2, <1>1
    <3> DEFINE i == InInt(s)
    <3>2. i = s
      BY <3>1
    <3> HIDE DEF i
    <3>3. (Below(t, i) <=> t < s) /\ (Above(t, i) <=> t > s)
      BY <3>2 DEF Below, Above
    <3> QED
      BY <3>3 DEF i
  <2>3. CASE s >= h
    <3>1. InInt(s) < 0 /\ InInt(s) \in Int
      BY <2>1, <2>3, <1>1
    <3>2. t < s
      BY <2>3, <1>0, <1>1, <1>3
    <3> QED
      BY <3>1, <3>2 DEF Below, Above
  <2> QED
    BY <2>2, <2>3, <1>1
<1> QED
  BY <1>2, <1>3

\* Two blocks of a pool together are no larger than the pool.
LEMMA TwoBlocks ==
  ASSUME NEW l \in Seq(Block), NEW sz \in Nat, Tiles(l, sz)
  PROVE  /\ \A i \in 1 .. Len(l) : l[i].size <= sz
         /\ \A i, j \in 1 .. Len(l) : i # j => l[i].size + l[j].size <= sz
<1>1. \A i \in 1 .. Len(l) : l[i].ptr \in Nat /\ l[i].size \in Nat
  BY BlockFields
<1>2. /\ \A i, j \in 1 .. Len(l) : i < j => l[i].ptr + l[i].size <= l[j].ptr
      /\ \A i \in 1 .. Len(l) : l[i].ptr + l[i].size <= sz
  BY TilesOrdered
<1>3. \A i \in 1 .. Len(l) : l[i].size <= sz
  BY <1>1, <1>2
<1>4. ASSUME NEW i \in 1 .. Len(l), NEW j \in 1 .. Len(l), i < j
      PROVE  l[i].size + l[j].size <= sz
  <2> DEFINE p == l[i].ptr
             q == l[j].ptr
             s == l[i].size
             t == l[j].size
  <2>1. p \in Nat /\ q \in Nat /\ s \in Nat /\ t \in Nat
    BY <1>1
  <2>2. p + s <= q /\ q + t <= sz
    BY <1>2, <1>4
  <2> HIDE DEF p, q, s, t
  <2>3. s + t <= sz
    BY <2>1, <2>2
  <2> QED
    BY <2>3 DEF s, t
<1>5. ASSUME NEW i \in 1 .. Len(l), NEW j \in 1 .. Len(l), i # j
      PROVE  l[i].size + l[j].size <= sz
  <2>1. CASE i < j
    BY <2>1, <1>4
  <2>2. CASE j < i
    <3>1. l[j].size + l[i].size <= sz
      BY <2>2, <1>4
    <3> QED
      BY <3>1, <1>1
  <2> QED
    BY <2>1, <2>2, <1>5
<1> QED
  BY <1>3, <1>5

\* The k-th block is the best, or the worst, of the first m that can have r.
BestOf(l, k, m, r) ==
  /\ k \in 1 .. m /\ Fits(l, k, r)
  /\ \A j \in 1 .. m : Fits(l, j, r) =>
       l[k].size < l[j].size \/ (l[k].size = l[j].size /\ k <= j)
WorstOf(l, k, m, r) ==
  /\ k \in 1 .. m /\ Fits(l, k, r)
  /\ \A j \in 1 .. m : Fits(l, j, r) =>
       l[k].size > l[j].size \/ (l[k].size = l[j].size /\ k <= j)

\* What the search has found among the first m blocks.
BestSoFar(l, look, m, r, start) ==
  IF look.at = 0
    THEN look.size = start /\ \A j \in 1 .. m : ~ Fits(l, j, r)
    ELSE look.size = InInt(l[look.at].size) /\ BestOf(l, look.at, m, r)
WorstSoFar(l, look, m, r) ==
  IF look.at = 0
    THEN look.size = 0 /\ \A j \in 1 .. m : ~ Fits(l, j, r)
    ELSE look.size = InInt(l[look.at].size) /\ WorstOf(l, look.at, m, r)

\* One look of best_fit keeps what it has found so far the best so far.
LEMMA BestStep ==
  ASSUME NEW l \in Seq(Block), NEW sz \in Nat, Tiles(l, sz), sz + 1 < 2^IntBits,
         NEW r \in Nat, NEW m \in 0 .. Len(l) - 1, NEW look \in Look(Len(l)),
         BestSoFar(l, look, m, r, InInt(sz + 1))
  PROVE  BestSoFar(l, BestLook(l, look, m + 1, r), m + 1, r, InInt(sz + 1))
<1> DEFINE x == m + 1
           n == Len(l)
           start == InInt(sz + 1)
<1>1. /\ n \in Nat /\ x \in 1 .. n /\ x \in 1 .. x /\ x # 0
      /\ \A j \in 1 .. x : j \in 1 .. m \/ j = x
      /\ \A j \in 1 .. m : j \in 1 .. x
  OBVIOUS
<1>2. /\ \A i \in 1 .. n : l[i].size \in Nat
      /\ \A i \in 1 .. n : l[i].size <= sz
      /\ \A i, j \in 1 .. n : i # j => l[i].size + l[j].size <= sz
  BY BlockFields, TwoBlocks
<1>3. /\ \A s \in Nat : s <= sz => Below(s, start)
      /\ \A s, t \in Nat : s + t <= sz => (Below(t, InInt(s)) <=> t < s)
  BY Comparing
<1>4. \A j \in 1 .. m : j \in 1 .. n /\ j < x
  BY <1>1
<1>h. BestSoFar(l, look, m, r, start) /\ m \in Nat
  OBVIOUS
<1> HIDE DEF x, n, start
<1>5. CASE ~ Fits(l, x, r)
  <2>1. BestLook(l, look, x, r) = look
    BY <1>5 DEF BestLook, Fits
  <2>2. BestSoFar(l, look, x, r, start)
    <3>1. CASE look.at = 0
      BY <3>1, <1>1, <1>5, <1>h DEF BestSoFar
    <3>2. CASE look.at # 0
      <4>1. look.size = InInt(l[look.at].size) /\ BestOf(l, look.at, m, r)
        BY <3>2, <1>h DEF BestSoFar
      <4>2. BestOf(l, look.at, x, r)
        BY <4>1, <1>1, <1>5 DEF BestOf
      <4> QED
        BY <4>1, <4>2, <3>2 DEF BestSoFar
    <3> QED
      BY <3>1, <3>2
  <2> QED
    BY <2>1, <2>2 DEF x, start
<1>6. CASE Fits(l, x, r)
  <2> DEFINE new == [at |-> x, size |-> InInt(l[x].size)]
  <2>0. l[x].size \in Nat /\ l[x].size <= sz
    BY <1>1, <1>2
  <2>1. CASE look.at = 0
    <3>1. look.size = start /\ \A j \in 1 .. m : ~ Fits(l, j, r)
      BY <2>1, <1>h DEF BestSoFar
    <3>2. BestLook(l, look, x, r) = new
      BY <3>1, <2>0, <1>3, <1>6 DEF BestLook, Fits
    <3>3. BestOf(l, x, x, r)
      <4>1. x \in 1 .. x /\ x <= x
        BY <1>1
      <4>2. \A j \in 1 .. x : Fits(l, j, r) => j = x
        BY <3>1, <1>1
      <4> QED
        BY <4>1, <4>2, <1>6 DEF BestOf
    <3>4. BestSoFar(l, new, x, r, start)
      BY <3>3, <1>1 DEF BestSoFar
    <3> QED
      BY <3>2, <3>4 DEF x, start
  <2>2. CASE look.at # 0
    <3> DEFINE a == look.at
    <3>1. look.size = InInt(l[a].size) /\ BestOf(l, a, m, r)
      BY <2>2, <1>h DEF BestSoFar
    <3>2. a \in 1 .. m /\ a \in 1 .. n /\ a # x /\ a < x
      BY <3>1, <1>1, <1>4 DEF BestOf
    <3>3. l[a].size \in Nat /\ l[a].size + l[x].size <= sz
      BY <3>2, <1>1, <1>2
    <3>4. Below(l[x].size, look.size) <=> l[x].size < l[a].size
      BY <3>1, <3>3, <2>0, <1>3
    <3>5. \A j \in 1 .. m : Fits(l, j, r) =>
            /\ l[j].size \in Nat
            /\ l[a].size < l[j].size \/ (l[a].size = l[j].size /\ a <= j)
      BY <3>1, <1>4, <1>2 DEF BestOf
    <3>6. CASE l[x].size < l[a].size
      <4>1. BestLook(l, look, x, r) = new
        BY <3>4, <3>6, <1>6 DEF BestLook, Fits
      <4>2. \A j \in 1 .. m : Fits(l, j, r) => l[x].size < l[j].size
        <5>1. ASSUME NEW j \in 1 .. m, Fits(l, j, r) PROVE l[x].size < l[j].size
          <6> DEFINE s == l[x].size
                     t == l[a].size
                     u == l[j].size
          <6>1. s \in Nat /\ t \in Nat /\ u \in Nat /\ s < t /\ (t < u \/ t = u)
            BY <5>1, <3>3, <3>5, <3>6, <2>0
          <6> HIDE DEF s, t, u
          <6>2. s < u
            BY <6>1
          <6> QED
            BY <6>2 DEF s, u
        <5> QED
          BY <5>1
      <4>3. BestOf(l, x, x, r)
        <5>1. x \in 1 .. x /\ x <= x
          BY <1>1
        <5>2. \A j \in 1 .. x : Fits(l, j, r) => j = x \/ l[x].size < l[j].size
          BY <4>2, <1>1
        <5> QED
          BY <5>1, <5>2, <1>6 DEF BestOf
      <4>4. BestSoFar(l, new, x, r, start)
        BY <4>3, <1>1 DEF BestSoFar
      <4> QED
        BY <4>1, <4>4 DEF x, start
    <3>7. CASE ~ l[x].size < l[a].size
      <4>1. BestLook(l, look, x, r) = look
        BY <3>4, <3>7, <1>6 DEF BestLook, Fits
      <4>2. l[a].size < l[x].size \/ (l[a].size = l[x].size /\ a <= x)
        <5> DEFINE s == l[x].size
                   t == l[a].size
        <5>1. s \in Nat /\ t \in Nat /\ ~ s < t
          BY <3>3, <3>7, <2>0
        <5> HIDE DEF s, t
        <5>2. t < s \/ t = s
          BY <5>1
        <5>3. a <= x
          BY <3>2, <1>1
        <5> QED
          BY <5>2, <5>3 DEF s, t
      <4>3. BestOf(l, a, x, r)
        BY <4>2, <3>1, <3>2, <1>1 DEF BestOf
      <4>4. BestSoFar(l, look, x, r, start)
        BY <4>3, <3>1, <2>2 DEF BestSoFar
      <4> QED
        BY <4>1, <4>4 DEF x, start
    <3> QED
      BY <3>6, <3>7
  <2> QED
    BY <2>1, <2>2
<1> QED
  BY <1>5, <1>6

\* best_fit finds the first of the smallest blocks that are large enough.
LEMMA BestFitIs ==
  ASSUME PoolsFit, list \in Seq(Block), mySize \in Pools, Tiles(list, mySize), NEW r \in Nat
  PROVE  IF BestFit(r) = 0 THEN \A j \in 1 .. Len(list) : ~ Fits(list, j, r)
                           ELSE BestOf(list, BestFit(r), Len(list), r)
<1> DEFINE n == Len(list)
           start == InInt(mySize + 1)
<1>0. mySize \in Nat /\ mySize + 1 < 2^IntBits /\ n \in Nat
  BY MyMemAssumption DEF PoolsFit
<1>1. PICK run \in [0 .. n -> Look(n)] :
        /\ run[0] = [at |-> 0, size |-> start]
        /\ BestFit(r) = run[n].at
        /\ \A k \in 1 .. n : run[k] = BestLook(list, run[k - 1], k, r)
  BY <1>0, BestRun
<1> DEFINE S == {k \in 0 .. n : BestSoFar(list, run[k], k, r, start)}
<1>3. 0 \in S
  BY <1>0, <1>1 DEF BestSoFar
<1>4. ASSUME NEW k \in 0 .. n, k \in S, k < n PROVE k + 1 \in S
  <2>1. k + 1 \in 1 .. n /\ k + 1 \in 0 .. n /\ (k + 1) - 1 = k /\ k \in 0 .. n - 1
    BY <1>0, <1>4
  <2>2. run[k + 1] = BestLook(list, run[k], k + 1, r)
    BY <1>1, <2>1
  <2>3. run[k] \in Look(n)
    BY <1>1
  <2>4. BestSoFar(list, BestLook(list, run[k], k + 1, r), k + 1, r, start)
    BY <2>1, <2>3, <1>0, <1>4, BestStep
  <2> QED
    BY <2>1, <2>2, <2>4
<1> HIDE DEF n
<1>5. n \in S
  <2> HIDE DEF S
  <2>1. \A k \in 0 .. n : k \in S
    BY <1>0, <1>3, <1>4, CountingTo
  <2> QED
    BY <2>1, <1>0
<1> QED
  BY <1>1, <1>5 DEF n, BestSoFar

\* One look of worst_fit keeps what it has found so far the worst so far.
LEMMA WorstStep ==
  ASSUME NEW l \in Seq(Block), NEW sz \in Nat, Tiles(l, sz), sz + 1 < 2^IntBits,
         NEW r \in Nat, NEW m \in 0 .. Len(l) - 1, NEW look \in Look(Len(l)),
         WorstSoFar(l, look, m, r)
  PROVE  WorstSoFar(l, WorstLook(l, look, m + 1, r), m + 1, r)
<1> DEFINE x == m + 1
           n == Len(l)
<1>1. /\ n \in Nat /\ x \in 1 .. n /\ x \in 1 .. x /\ x # 0
      /\ \A j \in 1 .. x : j \in 1 .. m \/ j = x
      /\ \A j \in 1 .. m : j \in 1 .. x
  OBVIOUS
<1>2. /\ \A i \in 1 .. n : l[i].size \in Nat \ {0}
      /\ \A i \in 1 .. n : l[i].size <= sz
      /\ \A i, j \in 1 .. n : i # j => l[i].size + l[j].size <= sz
  BY BlockFields, TwoBlocks
<1>3. /\ \A s \in Nat \ {0} : Above(s, 0)
      /\ \A s, t \in Nat : s + t <= sz => (Above(t, InInt(s)) <=> t > s)
  <2>1. \A s \in Nat \ {0} : Above(s, 0)
    BY DEF Above
  <2> QED
    BY <2>1, Comparing
<1>4. \A j \in 1 .. m : j \in 1 .. n /\ j < x
  BY <1>1
<1>h. WorstSoFar(l, look, m, r) /\ m \in Nat
  OBVIOUS
<1> HIDE DEF x, n
<1>5. CASE ~ Fits(l, x, r)
  <2>1. WorstLook(l, look, x, r) = look
    BY <1>5 DEF WorstLook, Fits
  <2>2. WorstSoFar(l, look, x, r)
    <3>1. CASE look.at = 0
      BY <3>1, <1>1, <1>5, <1>h DEF WorstSoFar
    <3>2. CASE look.at # 0
      <4>1. look.size = InInt(l[look.at].size) /\ WorstOf(l, look.at, m, r)
        BY <3>2, <1>h DEF WorstSoFar
      <4>2. WorstOf(l, look.at, x, r)
        BY <4>1, <1>1, <1>5 DEF WorstOf
      <4> QED
        BY <4>1, <4>2, <3>2 DEF WorstSoFar
    <3> QED
      BY <3>1, <3>2
  <2> QED
    BY <2>1, <2>2 DEF x
<1>6. CASE Fits(l, x, r)
  <2> DEFINE new == [at |-> x, size |-> InInt(l[x].size)]
  <2>0. l[x].size \in Nat \ {0} /\ l[x].size <= sz
    BY <1>1, <1>2
  <2>1. CASE look.at = 0
    <3>1. look.size = 0 /\ \A j \in 1 .. m : ~ Fits(l, j, r)
      BY <2>1, <1>h DEF WorstSoFar
    <3>2. WorstLook(l, look, x, r) = new
      BY <3>1, <2>0, <1>3, <1>6 DEF WorstLook, Fits
    <3>3. WorstOf(l, x, x, r)
      <4>1. x \in 1 .. x /\ x <= x
        BY <1>1
      <4>2. \A j \in 1 .. x : Fits(l, j, r) => j = x
        BY <3>1, <1>1
      <4> QED
        BY <4>1, <4>2, <1>6 DEF WorstOf
    <3>4. WorstSoFar(l, new, x, r)
      BY <3>3, <1>1 DEF WorstSoFar
    <3> QED
      BY <3>2, <3>4 DEF x
  <2>2. CASE look.at # 0
    <3> DEFINE a == look.at
    <3>1. look.size = InInt(l[a].size) /\ WorstOf(l, a, m, r)
      BY <2>2, <1>h DEF WorstSoFar
    <3>2. a \in 1 .. m /\ a \in 1 .. n /\ a # x /\ a < x
      BY <3>1, <1>1, <1>4 DEF WorstOf
    <3>3. l[a].size \in Nat /\ l[a].size + l[x].size <= sz
      BY <3>2, <1>1, <1>2
    <3>4. Above(l[x].size, look.size) <=> l[x].size > l[a].size
      BY <3>1, <3>3, <2>0, <1>3
    <3>5. \A j \in 1 .. m : Fits(l, j, r) =>
            /\ l[j].size \in Nat
            /\ l[a].size > l[j].size \/ (l[a].size = l[j].size /\ a <= j)
      BY <3>1, <1>4, <1>2 DEF WorstOf
    <3>6. CASE l[x].size > l[a].size
      <4>1. WorstLook(l, look, x, r) = new
        BY <3>4, <3>6, <1>6 DEF WorstLook, Fits
      <4>2. \A j \in 1 .. m : Fits(l, j, r) => l[x].size > l[j].size
        <5>1. ASSUME NEW j \in 1 .. m, Fits(l, j, r) PROVE l[x].size > l[j].size
          <6> DEFINE s == l[x].size
                     t == l[a].size
                     u == l[j].size
          <6>1. s \in Nat /\ t \in Nat /\ u \in Nat /\ s > t /\ (t > u \/ t = u)
            BY <5>1, <3>3, <3>5, <3>6, <2>0
          <6> HIDE DEF s, t, u
          <6>2. s > u
            BY <6>1
          <6> QED
            BY <6>2 DEF s, u
        <5> QED
          BY <5>1
      <4>3. WorstOf(l, x, x, r)
        <5>1. x \in 1 .. x /\ x <= x
          BY <1>1
        <5>2. \A j \in 1 .. x : Fits(l, j, r) => j = x \/ l[x].size > l[j].size
          BY <4>2, <1>1
        <5> QED
          BY <5>1, <5>2, <1>6 DEF WorstOf
      <4>4. WorstSoFar(l, new, x, r)
        BY <4>3, <1>1 DEF WorstSoFar
      <4> QED
        BY <4>1, <4>4 DEF x
    <3>7. CASE ~ l[x].size > l[a].size
      <4>1. WorstLook(l, look, x, r) = look
        BY <3>4, <3>7, <1>6 DEF WorstLook, Fits
      <4>2. l[a].size > l[x].size \/ (l[a].size = l[x].size /\ a <= x)
        <5> DEFINE s == l[x].size
                   t == l[a].size
        <5>1. s \in Nat /\ t \in Nat /\ ~ s > t
          BY <3>3, <3>7, <2>0
        <5> HIDE DEF s, t
        <5>2. t > s \/ t = s
          BY <5>1
        <5>3. a <= x
          BY <3>2, <1>1
        <5> QED
          BY <5>2, <5>3 DEF s, t
      <4>3. WorstOf(l, a, x, r)
        BY <4>2, <3>1, <3>2, <1>1 DEF WorstOf
      <4>4. WorstSoFar(l, look, x, r)
        BY <4>3, <3>1, <2>2 DEF WorstSoFar
      <4> QED
        BY <4>1, <4>4 DEF x
    <3> QED
      BY <3>6, <3>7
  <2> QED
    BY <2>1, <2>2
<1> QED
  BY <1>5, <1>6

\* worst_fit finds the first of the largest blocks, if that is large enough.
LEMMA WorstFitIs ==
  ASSUME PoolsFit, list \in Seq(Block), mySize \in Pools, Tiles(list, mySize), NEW r \in Nat
  PROVE  IF WorstFit(r) = 0 THEN \A j \in 1 .. Len(list) : ~ Fits(list, j, r)
                           ELSE WorstOf(list, WorstFit(r), Len(list), r)
<1> DEFINE n == Len(list)
<1>0. mySize \in Nat /\ mySize + 1 < 2^IntBits /\ n \in Nat
  BY MyMemAssumption DEF PoolsFit
<1>1. PICK run \in [0 .. n -> Look(n)] :
        /\ run[0] = [at |-> 0, size |-> 0]
        /\ WorstFit(r) = run[n].at
        /\ \A k \in 1 .. n : run[k] = WorstLook(list, run[k - 1], k, r)
  BY <1>0, WorstRun
<1> DEFINE S == {k \in 0 .. n : WorstSoFar(list, run[k], k, r)}
<1>3. 0 \in S
  BY <1>0, <1>1 DEF WorstSoFar
<1>4. ASSUME NEW k \in 0 .. n, k \in S, k < n PROVE k + 1 \in S
  <2>1. k + 1 \in 1 .. n /\ k + 1 \in 0 .. n /\ (k + 1) - 1 = k /\ k \in 0 .. n - 1
    BY <1>0, <1>4
  <2>2. run[k + 1] = WorstLook(list, run[k], k + 1, r)
    BY <1>1, <2>1
  <2>3. run[k] \in Look(n)
    BY <1>1
  <2>4. WorstSoFar(list, WorstLook(list, run[k], k + 1, r), k + 1, r)
    BY <2>1, <2>3, <1>0, <1>4, WorstStep
  <2> QED
    BY <2>1, <2>2, <2>4
<1> HIDE DEF n
<1>5. n \in S
  <2> HIDE DEF S
  <2>1. \A k \in 0 .. n : k \in S
    BY <1>0, <1>3, <1>4, CountingTo
  <2> QED
    BY <2>1, <1>0
<1> QED
  BY <1>1, <1>5 DEF n, WorstSoFar

-----------------------------------------------------------------------------
(* The list implements the set of areas                                    *)

\* Allocator's holes, as operators of the areas and the size of the pool.
StartsIn(live, sz) ==
  {p \in {0} \cup {a.ptr + a.size : a \in live} : p < sz /\ \A a \in live : a.ptr # p}
HoleEndIn(live, sz, p) ==
  CHOOSE e \in {sz} \cup {a.ptr : a \in live} :
    e > p /\ \A a \in live : a.ptr > p => e <= a.ptr
HolesIn(live, sz) ==
  {[ptr |-> p, size |-> HoleEndIn(live, sz, p) - p] : p \in StartsIn(live, sz)}

Hole(l, k) == [ptr |-> l[k].ptr, size |-> l[k].size]
FreeOf(l) == {Hole(l, k) : k \in {j \in DOMAIN l : l[j].free}}

\* The blocks of a list are in the order of their ptrs.
LEMMA PtrsOrdered ==
  ASSUME NEW l \in Seq(Block), NEW sz \in Nat, Tiles(l, sz)
  PROVE  /\ \A i, j \in 1 .. Len(l) : i < j <=> l[i].ptr < l[j].ptr
         /\ \A i, j \in 1 .. Len(l) : i = j <=> l[i].ptr = l[j].ptr
         /\ \A i, j \in 1 .. Len(l) : i < j => l[i].ptr + l[i].size <= l[j].ptr
         /\ \A i \in 1 .. Len(l) : l[i].ptr + l[i].size <= sz
<1>1. \A i \in 1 .. Len(l) : l[i].ptr \in Nat /\ l[i].size \in Nat \ {0}
  BY BlockFields
<1>2. /\ \A i, j \in 1 .. Len(l) : i < j => l[i].ptr + l[i].size <= l[j].ptr
      /\ \A i \in 1 .. Len(l) : l[i].ptr + l[i].size <= sz
  BY TilesOrdered
<1>3. \A i, j \in 1 .. Len(l) : i < j => l[i].ptr < l[j].ptr
  <2>1. ASSUME NEW i \in 1 .. Len(l), NEW j \in 1 .. Len(l), i < j
        PROVE  l[i].ptr < l[j].ptr
    <3>1. l[i].ptr + l[i].size <= l[j].ptr
      BY <1>2, <2>1
    <3> QED
      BY <3>1, <1>1
  <2> QED
    BY <2>1
<1>4. ASSUME NEW i \in 1 .. Len(l), NEW j \in 1 .. Len(l)
      PROVE  /\ i < j <=> l[i].ptr < l[j].ptr
             /\ i = j <=> l[i].ptr = l[j].ptr
  <2>1. i < j \/ i = j \/ j < i
    OBVIOUS
  <2>2. l[i].ptr \in Nat /\ l[j].ptr \in Nat
    BY <1>1
  <2>3. (i < j => l[i].ptr < l[j].ptr) /\ (j < i => l[j].ptr < l[i].ptr)
    BY <1>3
  <2>4. i = j => l[i].ptr = l[j].ptr
    OBVIOUS
  <2> QED
    BY <2>1, <2>2, <2>3, <2>4
<1> QED
  BY <1>2, <1>4

\* What it says of the blocks of a list that they tile the pool.
Row(l, sz) ==
  /\ Len(l) \in Nat \ {0} /\ DOMAIN l = 1 .. Len(l) /\ sz \in Nat
  /\ \A i \in 1 .. Len(l) : l[i].ptr \in Nat /\ l[i].size \in Nat \ {0}
  /\ l[1].ptr = 0 /\ l[Len(l)].ptr + l[Len(l)].size = sz
  /\ \A i \in 1 .. Len(l) - 1 : l[i + 1].ptr = l[i].ptr + l[i].size
  /\ \A i \in 1 .. Len(l) - 1 : ~ (l[i].free /\ l[i + 1].free)

\* What tiling says of the blocks, by their places.
LEMMA InARow ==
  ASSUME NEW l \in Seq(Block), NEW sz \in Pools, Tiles(l, sz), NoNeighbours(l)
  PROVE  Row(l, sz)
<1> DEFINE n == Len(l)
<1>1. n \in Nat \ {0}
  BY DEF Tiles
<1>2. DOMAIN l = 1 .. n /\ sz \in Nat
  BY MyMemAssumption
<1>3. \A i \in 1 .. n : l[i].ptr \in Nat /\ l[i].size \in Nat \ {0}
  BY BlockFields
<1>4. /\ l[1].ptr = 0 /\ l[n].ptr + l[n].size = sz
      /\ \A i \in 1 .. n - 1 : l[i + 1].ptr = l[i].ptr + l[i].size
  BY DEF Tiles
<1>5. \A i \in 1 .. n - 1 : ~ (l[i].free /\ l[i + 1].free)
  BY DEF NoNeighbours
<1> HIDE DEF n
<1> QED
  BY <1>1, <1>2, <1>3, <1>4, <1>5 DEF Row, n

\* The holes between the areas of the client start where the free blocks do.
LEMMA StartsAre ==
  ASSUME NEW l \in Seq(Block), NEW sz \in Pools, Tiles(l, sz), NoNeighbours(l)
  PROVE  StartsIn(Areas(l), sz) = {l[k].ptr : k \in {j \in DOMAIN l : l[j].free}}
<1> DEFINE n == Len(l)
           live == Areas(l)
           S == StartsIn(live, sz)
           F == {l[k].ptr : k \in {j \in DOMAIN l : l[j].free}}
<1>1. /\ n \in Nat \ {0} /\ DOMAIN l = 1 .. n /\ sz \in Nat
      /\ \A i \in 1 .. n : l[i].ptr \in Nat /\ l[i].size \in Nat \ {0}
      /\ l[1].ptr = 0 /\ l[n].ptr + l[n].size = sz
      /\ \A i \in 1 .. n - 1 : l[i + 1].ptr = l[i].ptr + l[i].size
      /\ \A i \in 1 .. n - 1 : ~ (l[i].free /\ l[i + 1].free)
  BY InARow DEF Row
<1>2. /\ \A i, j \in 1 .. n : i = j <=> l[i].ptr = l[j].ptr
      /\ \A i \in 1 .. n : l[i].ptr + l[i].size <= sz
  BY <1>1, PtrsOrdered
<1>3. \A a : a \in live <=> \E i \in 1 .. n : ~ l[i].free /\ a = [ptr |-> l[i].ptr, size |-> l[i].size]
  <2>1. DOMAIN l = 1 .. n
    BY <1>1
  <2> HIDE DEF n
  <2> QED
    BY <2>1 DEF Areas
<1>4. \A p : p \in S <=> /\ p = 0 \/ \E a \in live : p = a.ptr + a.size
                         /\ p < sz /\ \A a \in live : a.ptr # p
  BY DEF StartsIn
<1>5. \A p : p \in F <=> \E i \in 1 .. n : l[i].free /\ p = l[i].ptr
  BY <1>1
<1>f. \A i \in 1 .. n : l[i].free => l[i].ptr \in F
  BY <1>5
<1> HIDE DEF n, live, S, F
<1>6. ASSUME NEW i \in 1 .. n, l[i].free PROVE l[i].ptr \in S
  <2> DEFINE p == l[i].ptr
  <2>1. p < sz
    <3>1. p + l[i].size <= sz
      BY <1>2
    <3> QED
      BY <3>1, <1>1
  <2>2. \A a \in live : a.ptr # p
    <3>1. ASSUME NEW a \in live PROVE a.ptr # p
      <4>1. PICK j \in 1 .. n : ~ l[j].free /\ a = [ptr |-> l[j].ptr, size |-> l[j].size]
        BY <1>3
      <4>2. j # i /\ a.ptr = l[j].ptr
        BY <4>1, <1>6
      <4> QED
        BY <4>2, <1>2
    <3> QED
      BY <3>1
  <2>3. p = 0 \/ \E a \in live : p = a.ptr + a.size
    <3>1. CASE i = 1
      BY <3>1, <1>1
    <3>2. CASE i # 1
      <4>1. i - 1 \in 1 .. n - 1 /\ i - 1 \in 1 .. n /\ (i - 1) + 1 = i
        BY <3>2, <1>1
      <4>3. ~ l[i - 1].free /\ l[i].ptr = l[i - 1].ptr + l[i - 1].size
        BY <4>1, <1>1, <1>6
      <4> DEFINE a == [ptr |-> l[i - 1].ptr, size |-> l[i - 1].size]
      <4>2. a \in live /\ p = a.ptr + a.size
        BY <4>1, <4>3, <1>3
      <4> QED
        BY <4>2
    <3> QED
      BY <3>1, <3>2
  <2> HIDE DEF p
  <2>4. p \in S
    BY <2>1, <2>2, <2>3, <1>4
  <2> QED
    BY <2>4 DEF p
<1>7. ASSUME NEW p \in S PROVE p \in F
  <2>1. p < sz /\ \A a \in live : a.ptr # p
    BY <1>4
  <2>2. CASE p = 0
    <3>1. 1 \in 1 .. n /\ l[1].ptr = 0
      BY <1>1
    <3>2. ASSUME ~ l[1].free PROVE FALSE
      <4> DEFINE a == [ptr |-> l[1].ptr, size |-> l[1].size]
      <4>1. a \in live /\ a.ptr = 0
        BY <3>1, <3>2, <1>3
      <4> QED
        BY <4>1, <2>1, <2>2
    <3> QED
      BY <3>1, <3>2, <2>2, <1>5
  <2>3. CASE \E a \in live : p = a.ptr + a.size
    <3>1. PICK i \in 1 .. n : ~ l[i].free /\ p = l[i].ptr + l[i].size
      BY <2>3, <1>3
    <3>2. i # n
      BY <3>1, <2>1, <1>1
    <3>3. i \in 1 .. n - 1 /\ i + 1 \in 1 .. n
      BY <3>2, <1>1
    <3>4. l[i + 1].ptr = p
      BY <3>1, <3>3, <1>1
    <3>5. ASSUME ~ l[i + 1].free PROVE FALSE
      <4> DEFINE a == [ptr |-> l[i + 1].ptr, size |-> l[i + 1].size]
      <4>1. a \in live /\ a.ptr = p
        BY <3>3, <3>4, <3>5, <1>3
      <4> QED
        BY <4>1, <2>1
    <3> QED
      BY <3>3, <3>4, <3>5, <1>5
  <2> QED
    BY <2>2, <2>3, <1>4
<1>8. S = F
  <2>1. ASSUME NEW p \in F PROVE p \in S
    <3>1. PICK i \in 1 .. n : l[i].free /\ p = l[i].ptr
      BY <1>5
    <3> QED
      BY <3>1, <1>6
  <2> QED
    BY <2>1, <1>7
<1> QED
  BY <1>8 DEF S, F, live

\* A hole between the areas ends where the free block does.
LEMMA HoleEndIs ==
  ASSUME NEW l \in Seq(Block), NEW sz \in Pools, Tiles(l, sz), NoNeighbours(l),
         NEW k \in 1 .. Len(l), l[k].free
  PROVE  HoleEndIn(Areas(l), sz, l[k].ptr) = l[k].ptr + l[k].size
<1> DEFINE n == Len(l)
           live == Areas(l)
           p == l[k].ptr
           e0 == l[k].ptr + l[k].size
           Ends(e) == /\ e \in {sz} \cup {a.ptr : a \in live}
                      /\ e > p /\ \A a \in live : a.ptr > p => e <= a.ptr
<1>1. /\ n \in Nat \ {0} /\ DOMAIN l = 1 .. n /\ sz \in Nat
      /\ \A i \in 1 .. n : l[i].ptr \in Nat /\ l[i].size \in Nat \ {0}
      /\ l[n].ptr + l[n].size = sz
      /\ \A i \in 1 .. n - 1 : l[i + 1].ptr = l[i].ptr + l[i].size
      /\ \A i \in 1 .. n - 1 : ~ (l[i].free /\ l[i + 1].free)
  BY InARow DEF Row
<1>2. /\ \A i, j \in 1 .. n : i < j <=> l[i].ptr < l[j].ptr
      /\ \A i, j \in 1 .. n : i < j => l[i].ptr + l[i].size <= l[j].ptr
      /\ \A i \in 1 .. n : l[i].ptr + l[i].size <= sz
  BY <1>1, PtrsOrdered
<1>3. \A a : a \in live <=> \E i \in 1 .. n : ~ l[i].free /\ a = [ptr |-> l[i].ptr, size |-> l[i].size]
  <2>1. DOMAIN l = 1 .. n
    BY <1>1
  <2> HIDE DEF n
  <2> QED
    BY <2>1 DEF Areas
<1>k. k \in 1 .. n /\ l[k].free /\ p \in Nat /\ e0 \in Nat /\ e0 > p /\ e0 <= sz
      /\ p = l[k].ptr /\ e0 = l[k].ptr + l[k].size
  <2>1. k \in 1 .. n
    OBVIOUS
  <2>2. l[k].ptr \in Nat /\ l[k].size \in Nat \ {0} /\ l[k].ptr + l[k].size <= sz
    BY <2>1, <1>1, <1>2
  <2> DEFINE s == l[k].size
  <2>3. p \in Nat /\ s \in Nat \ {0} /\ p + s <= sz /\ e0 = p + s
    BY <2>2
  <2> HIDE DEF p, e0, s
  <2>4. e0 \in Nat /\ e0 > p /\ e0 <= sz
    BY <2>3, <1>1
  <2> QED
    BY <2>1, <2>3, <2>4 DEF p, e0
<1> HIDE DEF n, live, p, e0
<1>4. ASSUME NEW a \in live, a.ptr > p PROVE e0 <= a.ptr
  <2>1. PICK i \in 1 .. n : a = [ptr |-> l[i].ptr, size |-> l[i].size]
    BY <1>3
  <2>2. l[k].ptr < l[i].ptr
    BY <2>1, <1>4, <1>k, <1>1
  <2>3. k < i
    BY <2>2, <1>2, <1>k
  <2>4. l[k].ptr + l[k].size <= l[i].ptr
    BY <2>3, <1>2, <1>k
  <2> QED
    BY <2>1, <2>4, <1>k
<1>5. e0 = sz \/ \E a \in live : a.ptr = e0
  <2>1. CASE k = n
    BY <2>1, <1>1, <1>k
  <2>2. CASE k # n
    <3>1. k \in 1 .. n - 1 /\ k + 1 \in 1 .. n
      BY <2>2, <1>k, <1>1
    <3>2. ~ l[k + 1].free /\ l[k + 1].ptr = e0
      BY <3>1, <1>1, <1>k
    <3> DEFINE a == [ptr |-> l[k + 1].ptr, size |-> l[k + 1].size]
    <3>3. a \in live /\ a.ptr = e0
      BY <3>1, <3>2, <1>3
    <3> QED
      BY <3>3
  <2> QED
    BY <2>1, <2>2
<1>6. Ends(e0)
  BY <1>4, <1>5, <1>k
<1>7. ASSUME NEW e, Ends(e) PROVE e = e0
  <2>1. e = sz \/ \E a \in live : e = a.ptr
    BY <1>7
  <2>2. e > p /\ \A a \in live : a.ptr > p => e <= a.ptr
    BY <1>7
  <2>3. e >= e0 /\ e \in Nat
    <3>1. CASE e = sz
      BY <3>1, <1>k, <1>1
    <3>2. CASE \E a \in live : e = a.ptr
      <4>1. PICK a \in live : e = a.ptr
        BY <3>2
      <4>2. e0 <= e
        BY <4>1, <2>2, <1>4
      <4>3. a.ptr \in Nat
        <5>1. PICK i \in 1 .. n : a = [ptr |-> l[i].ptr, size |-> l[i].size]
          BY <1>3
        <5> QED
          BY <5>1, <1>1
      <4> QED
        BY <4>1, <4>2, <4>3, <1>k
    <3> QED
      BY <3>1, <3>2, <2>1
  <2>4. e <= e0
    <3>1. CASE e0 = sz
      <4>1. CASE e = sz
        BY <4>1, <3>1, <1>k
      <4>2. CASE \E a \in live : e = a.ptr
        <5>1. PICK i \in 1 .. n : e = l[i].ptr
          BY <4>2, <1>3
        <5>2. l[i].ptr + l[i].size <= sz /\ l[i].ptr \in Nat /\ l[i].size \in Nat
          BY <1>1, <1>2
        <5> QED
          BY <5>1, <5>2, <3>1, <1>1
      <4> QED
        BY <4>1, <4>2, <2>1
    <3>2. CASE \E a \in live : a.ptr = e0
      BY <3>2, <2>2, <1>k
    <3> QED
      BY <3>1, <3>2, <1>5
  <2> QED
    BY <2>3, <2>4, <1>k
<1>8. e0 = CHOOSE e \in {sz} \cup {a.ptr : a \in live} :
              e > p /\ \A a \in live : a.ptr > p => e <= a.ptr
  BY <1>6, <1>7
<1> QED
  BY <1>8 DEF HoleEndIn, p, e0, live

\* The holes between the areas of the client are the free blocks.
LEMMA HolesAre ==
  ASSUME NEW l \in Seq(Block), NEW sz \in Pools, Tiles(l, sz), NoNeighbours(l)
  PROVE  HolesIn(Areas(l), sz) = FreeOf(l)
<1> DEFINE live == Areas(l)
           S == StartsIn(live, sz)
<1>1. S = {l[k].ptr : k \in {j \in DOMAIN l : l[j].free}}
  BY StartsAre
<1>2. ASSUME NEW k \in DOMAIN l, l[k].free
      PROVE  [ptr |-> l[k].ptr, size |-> HoleEndIn(live, sz, l[k].ptr) - l[k].ptr] = Hole(l, k)
  <2>1. k \in 1 .. Len(l) /\ l[k].ptr \in Nat /\ l[k].size \in Nat
    BY BlockFields
  <2>2. HoleEndIn(live, sz, l[k].ptr) = l[k].ptr + l[k].size
    BY <2>1, <1>2, HoleEndIs
  <2> DEFINE p == l[k].ptr
             s == l[k].size
             e == HoleEndIn(live, sz, p)
  <2>3. e = p + s /\ p \in Nat /\ s \in Nat
    BY <2>1, <2>2
  <2> HIDE DEF p, s, e
  <2>4. e - p = s
    BY <2>3
  <2> QED
    BY <2>4 DEF Hole, p, s, e
<1>3. HolesIn(live, sz) = {[ptr |-> p, size |-> HoleEndIn(live, sz, p) - p] : p \in S}
  BY DEF HolesIn
<1> HIDE DEF live, S
<1>4. \A h : h \in HolesIn(live, sz) <=> \E k \in DOMAIN l : l[k].free /\ h = Hole(l, k)
  BY <1>1, <1>2, <1>3
<1>5. \A h : h \in FreeOf(l) <=> \E k \in DOMAIN l : l[k].free /\ h = Hole(l, k)
  BY DEF FreeOf
<1>6. HolesIn(live, sz) = FreeOf(l)
  BY <1>4, <1>5
<1> QED
  BY <1>6 DEF live

\* The same if there is no pool, and so no hole.
LEMMA HolesOf ==
  ASSUME NEW l \in Seq(Block), NEW sz,
         l # <<>> => sz \in Pools /\ Tiles(l, sz), NoNeighbours(l)
  PROVE  HolesIn(Areas(l), IF l = <<>> THEN 0 ELSE sz) = FreeOf(l)
<1>1. CASE l = <<>>
  <2>1. DOMAIN l = {}
    BY <1>1
  <2>2. Areas(l) = {} /\ FreeOf(l) = {}
    BY <2>1 DEF Areas, FreeOf
  <2>3. StartsIn({}, 0) = {}
    BY DEF StartsIn
  <2>4. HolesIn({}, 0) = {}
    BY <2>3 DEF HolesIn
  <2> QED
    BY <1>1, <2>2, <2>4
<1>2. CASE l # <<>>
  BY <1>2, HolesAre
<1> QED
  BY <1>1, <1>2

\* The holes of the refinement are the free blocks of the list.
LEMMA HolesNow ==
  ASSUME IInv
  PROVE  A!Holes = FreeOf(list)
<1>1. A!Holes = HolesIn(held, IF list = <<>> THEN 0 ELSE mySize)
  BY DEF A!Holes, A!Starts, A!HoleEnd, A!End, HolesIn, StartsIn, HoleEndIn
<1> QED
  BY <1>1, ListKnown, HolesOf

\* The same after a step.
LEMMA HolesNext ==
  ASSUME IInv'
  PROVE  A!Holes' = FreeOf(list')
<1>1. A!Holes' = HolesIn(held', IF list' = <<>> THEN 0 ELSE mySize')
  BY DEF A!Holes, A!Starts, A!HoleEnd, A!End, HolesIn, StartsIn, HoleEndIn
<1>2. /\ list' \in Seq(Block) /\ NoNeighbours(list') /\ held' = Areas(list')
      /\ list' # <<>> => mySize' \in Pools /\ Tiles(list', mySize')
  BY DEF IInv, TypeOK, Block, Coalesced, Books, Tiled, Asked
<1> QED
  BY <1>1, <1>2, HolesOf

\* The strategies, in terms of places in the list: which blocks can be had, and
\* which of two blocks is taken.
Eligible(j, r) == Fits(list, j, r) /\ (myStrategy = "next" => j # From)
Wins(i, j) ==
  CASE myStrategy = "first" -> i <= j
    [] myStrategy = "best"  -> list[i].size < list[j].size \/ (list[i].size = list[j].size /\ i <= j)
    [] myStrategy = "worst" -> list[i].size > list[j].size \/ (list[i].size = list[j].size /\ i <= j)
    [] myStrategy = "next"  -> Earlier(i, j, From)

\* The block that mymalloc is given is the one the strategy names, and if it is
\* given none there is none: the four searches of mymem.c in one.
LEMMA FitWins ==
  ASSUME PoolsFit, IInv, myStrategy \in Strategies, NEW r \in Nat
  PROVE  IF Fit(r) = 0 THEN \A j \in 1 .. Len(list) : ~ Eligible(j, r)
         ELSE /\ Fit(r) \in 1 .. Len(list) /\ Eligible(Fit(r), r)
              /\ \A j \in 1 .. Len(list) : Eligible(j, r) => Wins(Fit(r), j)
<1> DEFINE k == Fit(r)
           n == Len(list)
<1>1. /\ list \in Seq(Block) /\ n \in Nat /\ LastAllocatedListed /\ mySize \in Nat
      /\ list # <<>> => mySize \in Pools /\ Tiles(list, mySize)
  BY ListKnown
<1>2. k \in 0 .. n
  BY <1>1, FitFinds
<1>3. list = <<>> => n = 0
  OBVIOUS
<1>4. CASE myStrategy = "first"
  <2>1. /\ k # 0 => Fits(list, k, r) /\ \A j \in 1 .. n : Fits(list, j, r) => k <= j
        /\ k = 0 => \A j \in 1 .. n : ~ Fits(list, j, r)
    <3>1. k = FirstFit(r)
      BY <1>4 DEF Fit
    <3> HIDE DEF k
    <3> QED
      BY <3>1, <1>1, FirstFinds
  <2> HIDE DEF k, n
  <2>2. k # 0 => k \in 1 .. n
    BY <1>1, <1>2
  <2>3. k # 0 => \A j \in 1 .. n : Eligible(j, r) => Wins(k, j)
    BY <2>1, <1>4 DEF Eligible, Wins
  <2>4. k # 0 => Eligible(k, r)
    BY <2>1, <1>4 DEF Eligible
  <2>5. k = 0 => \A j \in 1 .. n : ~ Eligible(j, r)
    BY <2>1, <1>4 DEF Eligible
  <2> QED
    BY <2>2, <2>3, <2>4, <2>5 DEF k, n
<1>5. CASE myStrategy = "best"
  <2>0. k = BestFit(r)
    BY <1>5 DEF Fit
  <2>1. CASE list = <<>>
    <3>1. k = 0 /\ n = 0
      BY <2>1, <1>2, <1>3
    <3> QED
      BY <3>1
  <2>2. CASE list # <<>>
    <3>1. IF k = 0 THEN \A j \in 1 .. n : ~ Fits(list, j, r) ELSE BestOf(list, k, n, r)
      <4> HIDE DEF k
      <4> QED
        BY <2>0, <2>2, <1>1, BestFitIs
    <3> HIDE DEF k, n
    <3>2. k # 0 => k \in 1 .. n /\ Eligible(k, r)
      BY <3>1, <1>5 DEF Eligible, BestOf
    <3>3. k # 0 => \A j \in 1 .. n : Eligible(j, r) => Wins(k, j)
      BY <3>1, <1>5 DEF Eligible, BestOf, Wins
    <3>4. k = 0 => \A j \in 1 .. n : ~ Eligible(j, r)
      BY <3>1, <1>5 DEF Eligible
    <3> QED
      BY <3>2, <3>3, <3>4 DEF k, n
  <2> QED
    BY <2>1, <2>2
<1>6. CASE myStrategy = "worst"
  <2>0. k = WorstFit(r)
    BY <1>6 DEF Fit
  <2>1. CASE list = <<>>
    <3>1. k = 0 /\ n = 0
      BY <2>1, <1>2, <1>3
    <3> QED
      BY <3>1
  <2>2. CASE list # <<>>
    <3>1. IF k = 0 THEN \A j \in 1 .. n : ~ Fits(list, j, r) ELSE WorstOf(list, k, n, r)
      <4> HIDE DEF k
      <4> QED
        BY <2>0, <2>2, <1>1, WorstFitIs
    <3> HIDE DEF k, n
    <3>2. k # 0 => k \in 1 .. n /\ Eligible(k, r)
      BY <3>1, <1>6 DEF Eligible, WorstOf
    <3>3. k # 0 => \A j \in 1 .. n : Eligible(j, r) => Wins(k, j)
      BY <3>1, <1>6 DEF Eligible, WorstOf, Wins
    <3>4. k = 0 => \A j \in 1 .. n : ~ Eligible(j, r)
      BY <3>1, <1>6 DEF Eligible
    <3> QED
      BY <3>2, <3>3, <3>4 DEF k, n
  <2> QED
    BY <2>1, <2>2
<1>7. CASE myStrategy = "next"
  <2>1. /\ k # 0 => /\ Fits(list, k, r) /\ k # From
                    /\ \A j \in 1 .. n : j # From /\ Fits(list, j, r) => Earlier(k, j, From)
        /\ k = 0 => \A j \in 1 .. n : j # From => ~ Fits(list, j, r)
    <3>1. k = NextFit(r)
      BY <1>7 DEF Fit
    <3> HIDE DEF k
    <3> QED
      BY <3>1, <1>1, NextFinds
  <2> HIDE DEF k, n
  <2>2. k # 0 => k \in 1 .. n
    BY <1>1, <1>2
  <2>3. k # 0 => \A j \in 1 .. n : Eligible(j, r) => Wins(k, j)
    BY <2>1, <1>7 DEF Eligible, Wins
  <2>4. k # 0 => Eligible(k, r)
    BY <2>1, <1>7 DEF Eligible
  <2>5. k = 0 => \A j \in 1 .. n : ~ Eligible(j, r)
    BY <2>1, <1>7 DEF Eligible
  <2> QED
    BY <2>2, <2>3, <2>4, <2>5 DEF k, n
<1> QED
  BY <1>4, <1>5, <1>6, <1>7 DEF Strategies

\* Where Allocator's next-fit goes on from.
Rover == IF last_allocated \in Listed THEN last_allocated ELSE START

\* The place where next_fit goes on is the ptr where the next-fit of Allocator
\* does.
LEMMA RoverIs ==
  ASSUME IInv, list # <<>>, NEW j \in 1 .. Len(list)
  PROVE  /\ j = From <=> list[j].ptr = Rover
         /\ j > From <=> Rover = START \/ list[j].ptr > Rover
<1>1. /\ list \in Seq(Block) /\ LastAllocatedListed /\ mySize \in Nat
      /\ Tiles(list, mySize) /\ Len(list) \in Nat /\ DOMAIN list = 1 .. Len(list)
  BY ListKnown
<1>2. /\ From \in 0 .. Len(list)
      /\ last_allocated = POOL => From = 0
      /\ last_allocated # POOL => From \in 1 .. Len(list) /\ list[From].ptr = last_allocated
  BY <1>1, FromIs
<1>3. \A i \in 1 .. Len(list) : list[i].ptr \in Nat
  BY <1>1, BlockFields
<1>4. Listed \subseteq Nat
  BY <1>1, <1>3 DEF Listed
<1>5. CASE last_allocated = POOL
  <2>1. Rover = START /\ From = 0
    BY <1>2, <1>4, <1>5 DEF Rover, POOL, START
  <2>2. list[j].ptr # START
    BY <1>3 DEF START
  <2> QED
    BY <2>1, <2>2
<1>6. CASE last_allocated # POOL
  <2>1. From \in 1 .. Len(list) /\ list[From].ptr = last_allocated
    BY <1>2, <1>6
  <2>2. Rover = list[From].ptr /\ Rover # START
    BY <2>1, <1>1, <1>3, <1>6 DEF Rover, START, Listed
  <2>3. /\ j = From <=> list[j].ptr = list[From].ptr
        /\ From < j <=> list[From].ptr < list[j].ptr
    BY <2>1, <1>1, PtrsOrdered
  <2>4. list[j].ptr \in Nat /\ list[From].ptr \in Nat
    BY <2>1, <1>3
  <2> HIDE DEF From
  <2> QED
    BY <2>1, <2>2, <2>3, <2>4
<1> QED
  BY <1>5, <1>6

\* The holes that Allocator may choose from are the blocks that mymalloc may
\* be given.
LEMMA CandidatesAre ==
  ASSUME IInv, NEW r \in Nat, NEW h
  PROVE  h \in A!Candidates(r) <=> \E j \in 1 .. Len(list) : Eligible(j, r) /\ h = Hole(list, j)
<1>1. A!Holes = FreeOf(list)
  BY HolesNow
<1>2. DOMAIN list = 1 .. Len(list)
  BY ListKnown
<1>3. h \in A!Holes <=> \E j \in 1 .. Len(list) : list[j].free /\ h = Hole(list, j)
  BY <1>1, <1>2 DEF FreeOf
<1>4. h \in A!Candidates(r) <=> h \in A!Holes /\ h.size >= r /\ (myStrategy = "next" => h.ptr # Rover)
  BY DEF A!Candidates, Rover
<1>5. ASSUME NEW j \in 1 .. Len(list), h = Hole(list, j)
      PROVE  list[j].free /\ h.size >= r /\ (myStrategy = "next" => h.ptr # Rover) <=> Eligible(j, r)
  <2>1. h.size = list[j].size /\ h.ptr = list[j].ptr
    BY <1>5 DEF Hole
  <2>2. list # <<>>
    BY <1>2
  <2>3. j = From <=> list[j].ptr = Rover
    BY <2>2, RoverIs
  <2> QED
    BY <2>1, <2>3 DEF Eligible, Fits
<1> QED
  BY <1>3, <1>4, <1>5

\* Of two blocks, the one the strategy takes is the one Allocator prefers.
LEMMA WinsIsPreferred ==
  ASSUME IInv, myStrategy \in Strategies, NEW i \in 1 .. Len(list), NEW j \in 1 .. Len(list),
         i # j, Wins(i, j)
  PROVE  A!Preferred(Hole(list, i), Hole(list, j))
<1>1. /\ list \in Seq(Block) /\ mySize \in Nat /\ list # <<>> /\ Tiles(list, mySize)
  BY ListKnown
<1>2. i < j <=> list[i].ptr < list[j].ptr
  BY <1>1, PtrsOrdered
<1>3. /\ i > From <=> Rover = START \/ list[i].ptr > Rover
      /\ j > From <=> Rover = START \/ list[j].ptr > Rover
  BY <1>1, RoverIs
<1>4. /\ Hole(list, i).ptr = list[i].ptr /\ Hole(list, j).ptr = list[j].ptr
      /\ Hole(list, i).size = list[i].size /\ Hole(list, j).size = list[j].size
  BY DEF Hole
<1>5. /\ A!Before(Hole(list, i), Hole(list, j)) <=> i < j
      /\ A!Ahead(Hole(list, i)) <=> i > From
      /\ A!Ahead(Hole(list, j)) <=> j > From
  BY <1>2, <1>3, <1>4 DEF A!Before, A!Ahead, Rover
<1>6. i <= j => i < j
  OBVIOUS
<1>7. CASE myStrategy = "first"
  BY <1>5, <1>6, <1>7 DEF A!Preferred, Wins
<1>8. CASE myStrategy = "best"
  BY <1>4, <1>5, <1>6, <1>8 DEF A!Preferred, Wins
<1>9. CASE myStrategy = "worst"
  BY <1>4, <1>5, <1>6, <1>9 DEF A!Preferred, Wins
<1>10. CASE myStrategy = "next"
  <2>1. Earlier(i, j, From)
    BY <1>10 DEF Wins
  <2>2. From \in Int /\ i \in Int /\ j \in Int
    BY <1>1, FromIs, ListKnown
  <2>3. IF i > From <=> j > From THEN i < j ELSE i > From
    <3> HIDE DEF From
    <3> QED
      BY <2>1, <2>2, <1>6 DEF Earlier
  <2> DEFINE x == A!Ahead(Hole(list, i))
             y == A!Ahead(Hole(list, j))
  <2>4. x \in BOOLEAN /\ y \in BOOLEAN
    BY DEF A!Ahead
  <2>5. (x <=> i > From) /\ (y <=> j > From)
    BY <1>5
  <2>6. (IF x = y THEN A!Before(Hole(list, i), Hole(list, j)) ELSE x)
        => A!Preferred(Hole(list, i), Hole(list, j))
    BY <1>10, Zenon DEF A!Preferred
  <2> HIDE DEF x, y, From
  <2>7. CASE x = y
    <3>1. i < j
      BY <2>3, <2>5, <2>7
    <3> QED
      BY <3>1, <2>6, <2>7, <1>5
  <2>8. CASE x # y
    <3>1. ~ (x <=> y)
      BY <2>4, <2>8
    <3>2. x
      BY <3>1, <2>3, <2>5
    <3> QED
      BY <3>2, <2>6, <2>8
  <2> QED
    BY <2>7, <2>8
<1> QED
  BY <1>7, <1>8, <1>9, <1>10 DEF Strategies

\* Of two holes, Allocator prefers only one.
LEMMA PreferredOnce ==
  ASSUME myStrategy \in Strategies,
         NEW h \in [ptr : Nat, size : Nat], NEW g \in [ptr : Nat, size : Nat],
         A!Preferred(h, g), A!Preferred(g, h)
  PROVE  FALSE
<1>1. /\ h.ptr \in Nat /\ h.size \in Nat /\ g.ptr \in Nat /\ g.size \in Nat
      /\ A!Before(h, g) <=> h.ptr < g.ptr
      /\ A!Before(g, h) <=> g.ptr < h.ptr
  BY DEF A!Before
<1>2. ~ (A!Before(h, g) /\ A!Before(g, h))
  BY <1>1
<1>3. CASE myStrategy = "first"
  BY <1>2, <1>3 DEF A!Preferred
<1>4. CASE myStrategy = "best"
  BY <1>1, <1>2, <1>4 DEF A!Preferred
<1>5. CASE myStrategy = "worst"
  BY <1>1, <1>2, <1>5 DEF A!Preferred
<1>6. CASE myStrategy = "next"
  <2> DEFINE x == A!Ahead(h)
             y == A!Ahead(g)
  <2>1. x \in BOOLEAN /\ y \in BOOLEAN
    BY DEF A!Ahead
  <2>2. /\ IF x = y THEN A!Before(h, g) ELSE x
        /\ IF y = x THEN A!Before(g, h) ELSE y
    BY <1>6, Zenon DEF A!Preferred
  <2> HIDE DEF x, y
  <2>3. x = y => FALSE
    BY <2>2, <1>2
  <2>4. x # y => x /\ y
    BY <2>2
  <2>5. x /\ y => x = y
    BY <2>1
  <2> QED
    BY <2>3, <2>4, <2>5
<1> QED
  BY <1>3, <1>4, <1>5, <1>6 DEF Strategies

\* The search of mymalloc finds the hole that Allocator chooses, and none if it
\* chooses none.
LEMMA FitChosen ==
  ASSUME PoolsFit, IInv, myStrategy \in Strategies, NEW r \in Nat
  PROVE  IF Fit(r) = 0 THEN \A h : ~ A!Chosen(h, r)
         ELSE /\ Fit(r) \in 1 .. Len(list) /\ list[Fit(r)].free
              /\ A!Chosen(Hole(list, Fit(r)), r)
              /\ \A h : A!Chosen(h, r) => h = Hole(list, Fit(r))
<1> DEFINE k == Fit(r)
           n == Len(list)
<1>1. IF k = 0 THEN \A j \in 1 .. n : ~ Eligible(j, r)
      ELSE k \in 1 .. n /\ Eligible(k, r) /\ \A j \in 1 .. n : Eligible(j, r) => Wins(k, j)
  BY FitWins
<1> HIDE DEF k
<1>2. \A h : h \in A!Candidates(r) <=> \E j \in 1 .. n : Eligible(j, r) /\ h = Hole(list, j)
  BY CandidatesAre
<1>3. \A h : A!Chosen(h, r) <=> /\ h \in A!Candidates(r)
                                /\ \A g \in A!Candidates(r) : g # h => A!Preferred(h, g)
  BY DEF A!Chosen
<1> HIDE DEF n
<1>4. CASE k = 0
  <2>1. \A h : ~ A!Chosen(h, r)
    BY <1>1, <1>2, <1>3, <1>4
  <2> QED
    BY <2>1, <1>4 DEF k
<1>5. CASE k # 0
  <2> DEFINE c == Hole(list, k)
  <2>1. k \in 1 .. n /\ Eligible(k, r) /\ \A j \in 1 .. n : Eligible(j, r) => Wins(k, j)
    BY <1>1, <1>5
  <2>2. c \in A!Candidates(r)
    BY <2>1, <1>2
  <2>3. ASSUME NEW g \in A!Candidates(r), g # c PROVE A!Preferred(c, g)
    <3>1. PICK j \in 1 .. n : Eligible(j, r) /\ g = Hole(list, j)
      BY <1>2
    <3>2. j # k /\ Wins(k, j)
      BY <3>1, <2>1, <2>3
    <3> QED
      BY <3>1, <3>2, <2>1, WinsIsPreferred DEF n
  <2>4. A!Chosen(c, r)
    BY <2>2, <2>3, <1>3
  <2>5. ASSUME NEW h, A!Chosen(h, r), h # c PROVE FALSE
    <3>1. h \in A!Candidates(r) /\ A!Preferred(h, c)
      BY <2>2, <2>5, <1>3
    <3>2. A!Preferred(c, h)
      BY <3>1, <2>3, <2>5
    <3>3. \A j \in 1 .. n : Hole(list, j) \in [ptr : Nat, size : Nat]
      BY ListKnown, BlockFields DEF Hole, n
    <3>4. h \in [ptr : Nat, size : Nat] /\ c \in [ptr : Nat, size : Nat]
      BY <3>1, <3>3, <2>1, <1>2
    <3> HIDE DEF c
    <3> QED
      BY <3>1, <3>2, <3>4, PreferredOnce
  <2>6. list[k].free
    BY <2>1 DEF Eligible, Fits
  <2> QED
    BY <2>1, <2>4, <2>5, <2>6, <1>5 DEF k, n
<1> QED
  BY <1>4, <1>5

\* Allocator's pool and rover, of the next state as of this one.
LEMMA PoolNext ==
  ASSUME UNCHANGED <<pool, list>>
  PROVE  (IF list' = <<>> THEN 0 ELSE mySize') = (IF list = <<>> THEN 0 ELSE mySize)
         /\ myStrategy' = myStrategy
BY DEF pool

\* The rover stays if the list and last_allocated do.
LEMMA RoverNext ==
  ASSUME UNCHANGED <<list, last_allocated>>
  PROVE  Rover' = Rover
BY DEF Rover, Listed

\* What mymalloc takes is the hole Allocator chooses.
LEMMA MallocChooses ==
  ASSUME PoolsFit, IInv, NEW r \in Requests, MyMalloc(r)
  PROVE  /\ Fit(r) \in 1 .. Len(list) /\ list # <<>>
         /\ A!Chosen(Hole(list, Fit(r)), r)
         /\ \A h : A!Chosen(h, r) => h = Hole(list, Fit(r))
         /\ Hole(list, Fit(r)) \in A!Holes
         /\ list[Fit(r)].free /\ list[Fit(r)].size >= r
<1>1. myStrategy \in Strategies /\ Fit(r) # 0 /\ r \in Nat
  BY MyMemAssumption DEF MyMalloc, IInv, TypeOK
<1>2. /\ Fit(r) \in 1 .. Len(list) /\ list[Fit(r)].free
      /\ A!Chosen(Hole(list, Fit(r)), r)
      /\ \A h : A!Chosen(h, r) => h = Hole(list, Fit(r))
  BY <1>1, FitChosen
<1>3. Hole(list, Fit(r)) \in A!Holes
  BY <1>2 DEF A!Chosen, A!Candidates
<1>5. list[Fit(r)].size >= r
  <2>1. Hole(list, Fit(r)).size >= r
    BY <1>2 DEF A!Chosen, A!Candidates
  <2> QED
    BY <2>1 DEF Hole
<1> HIDE DEF Fit
<1>4. list # <<>>
  BY <1>2
<1> QED
  BY <1>2, <1>3, <1>4, <1>5

\* mymalloc allocates the chosen area, or refuses for lack of a node.
LEMMA MallocAllocates ==
  ASSUME PoolsFit, IInv, IInv', NEW r \in Requests, MyMalloc(r)
  PROVE  A!Next
<1> DEFINE k == Fit(r)
           h == Hole(list, k)
<1>1. /\ k \in 1 .. Len(list) /\ list # <<>> /\ A!Chosen(h, r)
      /\ \A x : A!Chosen(x, r) => x = h
      /\ h \in A!Holes /\ list[k].free /\ list[k].size >= r
  BY MallocChooses
<1>2. h.ptr = list[k].ptr /\ h.size = list[k].size /\ list[k].ptr \in Nat
  <2>1. list[k].ptr \in Nat
    BY <1>1, ListKnown, BlockFields
  <2> QED
    BY <2>1 DEF Hole
<1>3. UNCHANGED <<status, pool>>
  BY DEF MyMalloc
<1>4. CASE /\ Take(k, r) /\ last_allocated' = list[k].ptr
           /\ reply' = <<r, list[k].ptr>>
           /\ held' = held \cup {[ptr |-> list[k].ptr, size |-> r]}
  <2>1. list' # <<>>
    <3>1. list' = Taken(list, k, r)
      BY <1>4 DEF Take, Taken
    <3>2. Len(list') >= Len(list) /\ Len(list) \in Nat \ {0}
      <4>1. r \in Nat \ {0}
        BY MyMemAssumption
      <4>2. list \in Seq(Block) /\ Len(list) \in Nat \ {0} /\ mySize \in Pools /\ Tiles(list, mySize)
        BY <1>1, ListKnown
      <4> HIDE DEF k
      <4>3. IsTaken(list', list, k, r)
        BY <3>1, <4>1, <4>2, <1>1, TakenShape
      <4> QED
        BY <4>2, <4>3 DEF IsTaken
    <3>3. Len(<<>>) = 0
      OBVIOUS
    <3> HIDE DEF k
    <3> QED
      BY <3>2, <3>3
  <2>2. last_allocated' \in Listed'
    <3>1. last_allocated' \in Listed' \cup {POOL}
      BY <2>1 DEF IInv, LastAllocatedListed
    <3> QED
      BY <3>1, <1>2, <1>4 DEF POOL
  <2>3. Rover' = h.ptr
    BY <2>2, <1>2, <1>4 DEF Rover
  <2> HIDE DEF h, k
  <2>4. A!Alloc(r)
    BY <2>1, <2>3, <1>1, <1>2, <1>3, <1>4 DEF A!Alloc, Rover, pool
  <2> QED
    BY <2>4 DEF A!Next
<1>5. CASE list[k].size > r /\ reply' = <<r, NULL>> /\ UNCHANGED <<list, last_allocated, held>>
  <2>1. Rover' = Rover
    BY <1>5, RoverNext
  <2>2. \A x \in A!Holes : A!Chosen(x, r) => x.size > r
    BY <1>1, <1>2, <1>5
  <2> HIDE DEF h, k
  <2>3. A!Refuse(r)
    BY <2>1, <2>2, <1>3, <1>5, PoolNext DEF A!Refuse, Rover
  <2> QED
    BY <2>3 DEF A!Next
<1> QED
  BY <1>4, <1>5 DEF MyMalloc

\* mymalloc returns NULL only if no hole will do.
LEMMA MallocRefuses ==
  ASSUME PoolsFit, IInv, NEW r \in Requests, MyMallocFails(r)
  PROVE  A!Next
<1>1. /\ myStrategy \in Strategies /\ Fit(r) = 0 /\ r \in Nat /\ reply' = <<r, NULL>>
      /\ UNCHANGED <<status, pool, list, last_allocated, held>>
  BY MyMemAssumption DEF MyMallocFails, IInv, TypeOK
<1>2. \A h : ~ A!Chosen(h, r)
  BY <1>1, FitChosen
<1>3. Rover' = Rover
  BY <1>1, RoverNext
<1>4. A!Refuse(r)
  BY <1>1, <1>2, <1>3, PoolNext DEF A!Refuse, Rover
<1> QED
  BY <1>4 DEF A!Next

\* initmem gives up all areas.
LEMMA InitMemResets ==
  ASSUME IInv', NEW strategy \in Strategies \cup {"notset"}, NEW sz \in Pools,
         InitMem(strategy, sz)
  PROVE  A!Next
<1>1. myStrategy' = strategy /\ mySize' = sz /\ held' = {} /\ reply' = NONE
  BY DEF InitMem
<1>2. (IF list' = <<>> THEN 0 ELSE mySize') \in Pools \cup {0}
  BY <1>1
<1>3. Rover' = START
  <2>1. CASE list' = <<>>
    <3>1. DOMAIN list' = {}
      BY <2>1
    <3>2. Listed' = {}
      BY <3>1 DEF Listed
    <3> QED
      BY <3>2 DEF Rover
  <2>2. CASE list' = <<[ptr |-> 0, size |-> sz, free |-> TRUE]>> /\ last_allocated' = POOL
    <3>1. list'[1].ptr = 0 /\ DOMAIN list' = {1}
      BY <2>2
    <3>2. Listed' = {0}
      BY <3>1 DEF Listed
    <3> QED
      BY <3>2, <2>2 DEF Rover, POOL
  <2> QED
    BY <2>1, <2>2 DEF InitMem
<1>4. A!Reset
  BY <1>1, <1>2, <1>3 DEF A!Reset, Rover, Strategies
<1> QED
  BY <1>4 DEF A!Next

\* myfree gives up the area, and next-fit goes on from the hole it is now part
\* of.
LEMMA MyFreeFrees ==
  ASSUME IInv, IInv', NEW block, MyFree(block)
  PROVE  A!Next
<1> DEFINE k == At(block)
           f == FirstOf(k)
           g == FinalOf(k)
           z == SizeOf(k)
           n == Len(list)
           a == Hole(list, k)
<1>1. /\ k \in 1 .. n /\ ~ list[k].free /\ list[k].ptr = block
      /\ list' = Joining(list, f, g, z) /\ last_allocated' = list[f].ptr
      /\ reply' = NONE /\ held' = {x \in held : x.ptr # block}
      /\ UNCHANGED <<status, pool>>
  BY MyFreeIs
<1> HIDE DEF k
<1>2. /\ f \in 1 .. n /\ g \in f .. n /\ k \in f .. g /\ z \in Int
      /\ list[f].ptr + z = list[g].ptr + list[g].size
  BY <1>1, FreeingJoins
<1>3. /\ list \in Seq(Block) /\ mySize \in Pools /\ Tiles(list, mySize) /\ mySize \in Nat
      /\ held = Areas(list) /\ n \in Nat /\ list # <<>>
  BY <1>1, ListKnown
<1> HIDE DEF f, g, z
<1>4. IsJoined(list', list, f, g, z)
  BY <1>1, <1>2, <1>3, JoiningShape
<1>5. /\ \A i \in 1 .. n : list[i].ptr \in Nat /\ list[i].size \in Nat \ {0}
      /\ \A i, j \in 1 .. n : i < j <=> list[i].ptr < list[j].ptr
      /\ \A i, j \in 1 .. n : i = j <=> list[i].ptr = list[j].ptr
      /\ \A i, j \in 1 .. n : i < j => list[i].ptr + list[i].size <= list[j].ptr
  BY <1>3, BlockFields, PtrsOrdered
<1>6. a.ptr = block /\ a.ptr = list[k].ptr
  BY <1>1 DEF Hole
<1>7. a \in held
  <2>1. k \in DOMAIN list
    BY <1>1, <1>3
  <2> QED
    BY <2>1, <1>1, <1>3 DEF Areas, Hole
<1>8. held' = held \ {a}
  <2>1. ASSUME NEW x \in held, x.ptr = block PROVE x = a
    <3>1. PICK i \in 1 .. n : x = [ptr |-> list[i].ptr, size |-> list[i].size]
      BY <1>3 DEF Areas
    <3>2. i = k
      BY <3>1, <2>1, <1>1, <1>5
    <3> QED
      BY <3>1, <3>2 DEF Hole
  <2> HIDE DEF a
  <2> QED
    BY <2>1, <1>1, <1>6
<1>9. /\ list' \in Seq(Block) /\ f \in DOMAIN list' /\ f \in 1 .. Len(list')
      /\ list'[f].ptr = list[f].ptr /\ list'[f].free
      /\ DOMAIN list' = 1 .. Len(list') /\ Len(list') \in Nat
  BY <1>2, <1>3, <1>4 DEF IsJoined
<1>10. list' # <<>>
  BY <1>9
<1>11. A!Holes' = FreeOf(list')
  BY HolesNext
<1>12. Rover' = list[f].ptr
  <2>1. list[f].ptr \in Listed'
    BY <1>9 DEF Listed
  <2> QED
    BY <2>1, <1>1 DEF Rover
<1>13. list[f].ptr \in {h.ptr : h \in A!Holes'}
  <2>1. Hole(list', f) \in FreeOf(list') /\ Hole(list', f).ptr = list[f].ptr
    BY <1>9 DEF FreeOf, Hole
  <2> QED
    BY <2>1, <1>11
<1>14. list[f].ptr <= a.ptr
  <2>1. f = k \/ f < k
    BY <1>2, <1>3
  <2>2. list[f].ptr \in Nat /\ list[k].ptr \in Nat
    BY <1>1, <1>2, <1>5
  <2>3. f < k => list[f].ptr < list[k].ptr
    BY <1>1, <1>2, <1>5
  <2> QED
    BY <2>1, <2>2, <2>3, <1>6
<1>15. ASSUME NEW h \in A!Holes', h.ptr <= a.ptr PROVE h.ptr <= list[f].ptr
  <2>1. PICK j \in 1 .. Len(list') : h = Hole(list', j)
    BY <1>9, <1>11 DEF FreeOf
  <2>2. h.ptr = list'[j].ptr
    BY <2>1 DEF Hole
  <2>3. CASE j < f
    <3>1. list'[j] = list[j] /\ j \in 1 .. n
      BY <2>3, <1>2, <1>3, <1>4 DEF IsJoined
    <3>2. list[j].ptr < list[f].ptr /\ list[j].ptr \in Nat /\ list[f].ptr \in Nat
      BY <3>1, <2>3, <1>2, <1>5
    <3> QED
      BY <3>1, <3>2, <2>2
  <2>4. CASE j = f
    BY <2>2, <2>4, <1>2, <1>5, <1>9
  <2>5. CASE j > f
    <3>1. PICK i \in 1 .. n : i = j + (g - f)
      BY <2>5, <1>2, <1>3, <1>4 DEF IsJoined
    <3>2. list'[j] = list[i]
      BY <2>5, <3>1, <1>2, <1>3, <1>4 DEF IsJoined
    <3>3. k < i
      BY <2>5, <3>1, <1>2, <1>3
    <3>4. list[k].ptr < list[i].ptr /\ list[k].ptr \in Nat /\ list[i].ptr \in Nat
      BY <3>1, <3>3, <1>1, <1>5
    <3> QED
      BY <3>2, <3>4, <2>2, <1>6, <1>15
  <2> QED
    BY <2>3, <2>4, <2>5, <1>2, <1>3
<1> HIDE DEF a
<1>16. A!Free(a)
  BY <1>1, <1>3, <1>8, <1>10, <1>12, <1>13, <1>14, <1>15 DEF A!Free, Rover, pool
<1> QED
  BY <1>7, <1>16 DEF A!Next

\* Every step of the list allocator is one of Allocator, or changes nothing
\* that Allocator has.
LEMMA StepMaps ==
  ASSUME PoolsFit, IInv, IInv', [Next]_vars
  PROVE  [A!Next]_(A!vars)
<1>1. CASE UNCHANGED <<pool, list, last_allocated, reply, held>>
  <2>1. Rover' = Rover
    BY <1>1, RoverNext
  <2> QED
    BY <1>1, <2>1, PoolNext DEF A!vars, Rover
<1>2. ASSUME NEW strategy \in Strategies \cup {"notset"}, NEW sz \in Pools, InitMem(strategy, sz)
      PROVE  A!Next
  BY <1>2, InitMemResets
<1>3. ASSUME NEW r \in Requests, MyMalloc(r) PROVE A!Next
  BY <1>3, MallocAllocates
<1>4. ASSUME NEW r \in Requests, MyMallocFails(r) PROVE A!Next
  BY <1>4, MallocRefuses
<1>5. ASSUME NEW block, MyFree(block) PROVE A!Next
  BY <1>5, MyFreeFrees
<1>6. ASSUME NEW block, MyFreeWarns(block) PROVE A!Next
  <2>1. Rover' = Rover
    BY <1>6, RoverNext DEF MyFreeWarns
  <2>2. A!Ignore
    BY <2>1, <1>6, PoolNext DEF MyFreeWarns, A!Ignore, Rover
  <2> QED
    BY <2>2 DEF A!Next
<1>7. ASSUME NEW r, MyMallocHangs(r) PROVE UNCHANGED <<pool, list, last_allocated, reply, held>>
  BY <1>7 DEF MyMallocHangs
<1>8. MyMallocLost \/ Terminated \/ UNCHANGED vars
      => UNCHANGED <<pool, list, last_allocated, reply, held>>
  BY DEF MyMallocLost, Terminated, vars
<1> QED
  BY <1>1, <1>2, <1>3, <1>4, <1>5, <1>6, <1>7, <1>8 DEF Next

\* At the start there is no pool.
LEMMA InitMaps == Init => A!Init
<1> SUFFICES ASSUME Init PROVE A!Init
  OBVIOUS
<1>1. DOMAIN list = {} /\ list = <<>>
  BY DEF Init
<1>2. Listed = {}
  BY <1>1 DEF Listed
<1> QED
  BY <1>1, <1>2 DEF Init, A!Init

\* mymem.c implements the allocator that mymem.h promises, for every set of
\* requests and every pool whose size, and one more, an unsigned int can keep.
THEOREM Implements ==
  ASSUME PoolsFit
  PROVE  Spec => ImplementsAllocator
<1>1. Spec => []IInv
  BY Invariance
<1>2. IInv /\ IInv' /\ [Next]_vars => [A!Next]_(A!vars)
  BY StepMaps
<1> QED
  BY <1>1, <1>2, InitMaps, PTL DEF Spec, ImplementsAllocator, A!Spec

\* best, worst and first fit do what mymem.c:97-98 says: if mymalloc returns
\* NULL for want of a block, every hole is too small.  (next fit does not: the
\* run MyMemNextFit.)
THEOREM OnlyNextFitRefusesWhatFits ==
  ASSUME PoolsFit
  PROVE  Spec => [][myStrategy # "next" =>
                      \A r \in Requests : MyMallocFails(r) => \A h \in A!Holes : h.size < r]_vars
<1>1. ASSUME IInv, myStrategy # "next", NEW r \in Requests, MyMallocFails(r), NEW h \in A!Holes
      PROVE  h.size < r
  <2>1. myStrategy \in Strategies /\ Fit(r) = 0 /\ r \in Nat
    BY <1>1, MyMemAssumption DEF MyMallocFails, IInv, TypeOK
  <2>2. \A j \in 1 .. Len(list) : ~ Eligible(j, r)
    BY <1>1, <2>1, FitWins
  <2>3. PICK j \in 1 .. Len(list) : list[j].free /\ h = Hole(list, j)
    BY <1>1, HolesNow, ListKnown DEF FreeOf
  <2>4. ~ list[j].size >= r
    BY <1>1, <2>2, <2>3 DEF Eligible, Fits
  <2>5. list[j].size \in Nat
    BY <1>1, <2>3, ListKnown, BlockFields
  <2> QED
    BY <2>1, <2>3, <2>4, <2>5 DEF Hole
<1>2. IInv => (myStrategy # "next" =>
                 \A r \in Requests : MyMallocFails(r) => \A h \in A!Holes : h.size < r)
  BY <1>1
<1> QED
  BY <1>2, Invariance, PTL

-----------------------------------------------------------------------------
(* What the status functions tell                                          *)

\* Where the blocks, or the areas, of a set start, and how long they are.
Ptrs(l, S) == [k \in S |-> l[k].ptr]
Sizes(l, S) == [k \in S |-> l[k].size]
AreaPtrs(S) == [a \in S |-> a.ptr]
AreaSizes(S) == [a \in S |-> a.size]

\* The bytes of the pool that lie in blocks of S, and in areas of S.
InBlocks(l, S) == Covered(S, Ptrs(l, S), Sizes(l, S))
InAreas(S) == Covered(S, AreaPtrs(S), AreaSizes(S))

\* The blocks of a list lie apart, and so do the areas that are its used ones.
LEMMA BlocksApart ==
  ASSUME NEW l \in Seq(Block), NEW sz \in Nat, Tiles(l, sz)
  PROVE  /\ \A S \in SUBSET DOMAIN l : Apart(S, Ptrs(l, S), Sizes(l, S), sz)
         /\ Apart(Areas(l), AreaPtrs(Areas(l)), AreaSizes(Areas(l)), sz)
<1>1. /\ DOMAIN l = 1 .. Len(l)
      /\ \A k \in 1 .. Len(l) : l[k].ptr \in Nat /\ l[k].size \in Nat
  BY BlockFields
<1>2. \A i, j \in 1 .. Len(l) : i # j => \/ l[i].ptr + l[i].size <= l[j].ptr
                                         \/ l[j].ptr + l[j].size <= l[i].ptr
  <2> SUFFICES ASSUME NEW i \in 1 .. Len(l), NEW j \in 1 .. Len(l), i # j
               PROVE  l[i].ptr + l[i].size <= l[j].ptr \/ l[j].ptr + l[j].size <= l[i].ptr
    OBVIOUS
  <2>1. i < j \/ j < i
    OBVIOUS
  <2> QED
    BY <2>1, PtrsOrdered
<1>3. \A i \in 1 .. Len(l) : l[i].ptr + l[i].size <= sz
  BY PtrsOrdered
<1>4. ASSUME NEW S \in SUBSET DOMAIN l PROVE Apart(S, Ptrs(l, S), Sizes(l, S), sz)
  <2>1. Ptrs(l, S) \in [S -> Nat] /\ Sizes(l, S) \in [S -> Nat]
    BY <1>1 DEF Ptrs, Sizes
  <2>2. \A x \in S : x \in 1 .. Len(l) /\ Ptrs(l, S)[x] = l[x].ptr /\ Sizes(l, S)[x] = l[x].size
    BY <1>1 DEF Ptrs, Sizes
  <2> QED
    BY <2>1, <2>2, <1>2, <1>3 DEF Apart
<1>5. ASSUME NEW a \in Areas(l)
      PROVE  \E k \in 1 .. Len(l) : a = [ptr |-> l[k].ptr, size |-> l[k].size]
  BY <1>1 DEF Areas
<1>6. Apart(Areas(l), AreaPtrs(Areas(l)), AreaSizes(Areas(l)), sz)
  <2> DEFINE S == Areas(l)
  <2>1. \A x \in S : x.ptr \in Nat /\ x.size \in Nat /\ x.ptr + x.size <= sz
    BY <1>1, <1>3, <1>5
  <2>2. ASSUME NEW x \in S, NEW y \in S, x # y
        PROVE  x.ptr + x.size <= y.ptr \/ y.ptr + y.size <= x.ptr
    <3>1. PICK i \in 1 .. Len(l) : x = [ptr |-> l[i].ptr, size |-> l[i].size]
      BY <1>5
    <3>2. PICK j \in 1 .. Len(l) : y = [ptr |-> l[j].ptr, size |-> l[j].size]
      BY <1>5
    <3>3. i # j
      BY <2>2, <3>1, <3>2
    <3> QED
      BY <3>1, <3>2, <3>3, <1>2
  <2> HIDE DEF S
  <2>3. AreaPtrs(S) \in [S -> Nat] /\ AreaSizes(S) \in [S -> Nat]
    BY <2>1 DEF AreaPtrs, AreaSizes
  <2>4. \A x \in S : AreaPtrs(S)[x] = x.ptr /\ AreaSizes(S)[x] = x.size
    BY DEF AreaPtrs, AreaSizes
  <2>5. Apart(S, AreaPtrs(S), AreaSizes(S), sz)
    BY <2>1, <2>2, <2>3, <2>4 DEF Apart
  <2> QED
    BY <2>5 DEF S
<1> QED
  BY <1>4, <1>6

\* A list has finitely many places.
LEMMA PlacesFinite ==
  ASSUME NEW l \in Seq(Block)
  PROVE  IsFiniteSet(DOMAIN l)
<1>1. DOMAIN l = 1 .. Len(l) /\ Len(l) \in Nat
  BY BlockFields
<1>2. IsFiniteSet(1 .. Len(l))
  BY <1>1, FS_Interval
<1> QED
  BY <1>1, <1>2

\* mem_allocated and mem_free add up the sizes of blocks: that is how many
\* bytes of the pool lie in them.
LEMMA BytesAre ==
  ASSUME list \in Seq(Block), NEW sz \in Nat, Tiles(list, sz), NEW S \in SUBSET DOMAIN list
  PROVE  Bytes(S) = Cardinality(InBlocks(list, S))
<1> DEFINE len == Sizes(list, S)
           at == Ptrs(list, S)
           eq(f) == f = [s \in SUBSET S |->
                           IF s = {} THEN 0
                           ELSE list[CHOOSE x \in s : TRUE].size
                                  + f[s \ {CHOOSE x \in s : TRUE}]]
           it == CHOOSE f : eq(f)
<1>1. Bytes(S) = it[S]
  BY DEF Bytes, MapThenSumSet, MapThenFoldSet
<1>2. Apart(S, at, len, sz)
  BY BlocksApart
<1>3. \A x \in S : len[x] = list[x].size
  BY DEF Sizes
<1>4. IsFiniteSet(S)
  BY PlacesFinite, FS_Subset
<1> HIDE DEF at, len
<1>5. \E f : eq(f)
  <2>1. PICK h : h = [s \in SUBSET S |-> h[s]] /\ Sums(h, S, len)
    BY <1>2, SumExists
  <2>2. ASSUME NEW s \in SUBSET S
        PROVE  h[s] = IF s = {} THEN 0
                      ELSE list[CHOOSE x \in s : TRUE].size + h[s \ {CHOOSE x \in s : TRUE}]
    <3> DEFINE x == CHOOSE x \in s : TRUE
    <3>1. s # {} => x \in S
      OBVIOUS
    <3>2. h[s] = IF s = {} THEN 0 ELSE len[x] + h[s \ {x}]
      BY <2>1 DEF Sums
    <3> HIDE DEF x
    <3>3. h[s] = IF s = {} THEN 0 ELSE list[x].size + h[s \ {x}]
      BY <3>1, <3>2, <1>3
    <3> QED
      BY <3>3 DEF x
  <2>3. eq(h)
    <3> DEFINE g == [s \in SUBSET S |->
                      IF s = {} THEN 0
                      ELSE list[CHOOSE x \in s : TRUE].size + h[s \ {CHOOSE x \in s : TRUE}]]
    <3>1. g = [s \in SUBSET S |-> g[s]]
      OBVIOUS
    <3>2. \A s \in SUBSET S : g[s] = h[s]
      BY <2>2
    <3>3. eq(h) <=> h = g
      BY Zenon
    <3> HIDE DEF g, eq
    <3>4. g = h
      BY <2>1, <3>1, <3>2
    <3> QED
      BY <3>3, <3>4
  <2> QED
    BY <2>3
<1>6. eq(it)
  <2> HIDE DEF eq
  <2> QED
    BY <1>5
<1> HIDE DEF it
<1>7. Sums(it, S, len)
  <2>1. it[{}] = 0
    BY <1>6
  <2>2. ASSUME NEW s \in SUBSET S, s # {}
        PROVE  LET x == CHOOSE x \in s : TRUE IN it[s] = len[x] + it[s \ {x}]
    <3> DEFINE x == CHOOSE x \in s : TRUE
    <3>1. x \in S
      BY <2>2
    <3>2. it[s] = list[x].size + it[s \ {x}]
      BY <1>6, <2>2
    <3> HIDE DEF x
    <3>3. it[s] = len[x] + it[s \ {x}]
      BY <3>1, <3>2, <1>3
    <3> QED
      BY <3>3 DEF x
  <2> QED
    BY <2>1, <2>2 DEF Sums
<1>8. it[S] = Cardinality(Covered(S, at, len))
  BY <1>2, <1>4, <1>7, SumCovers
<1> QED
  BY <1>1, <1>8 DEF InBlocks, at, len
\* The sizes of the client's areas add up to the bytes of the pool in them.
LEMMA AreasAre ==
  ASSUME NEW l \in Seq(Block), NEW sz \in Nat, Tiles(l, sz), NEW S, S = Areas(l)
  PROVE  MapThenSumSet(LAMBDA a : a.size, S) = Cardinality(InAreas(S))
<1> DEFINE len == AreaSizes(S)
           at == AreaPtrs(S)
           eq(f) == f = [s \in SUBSET S |->
                           IF s = {} THEN 0
                           ELSE (CHOOSE x \in s : TRUE).size
                                  + f[s \ {CHOOSE x \in s : TRUE}]]
           it == CHOOSE f : eq(f)
<1>1. MapThenSumSet(LAMBDA a : a.size, S) = it[S]
  BY DEF MapThenSumSet, MapThenFoldSet
<1>2. Apart(S, at, len, sz)
  BY BlocksApart
<1>3. \A x \in S : len[x] = x.size
  BY DEF AreaSizes
<1>4. IsFiniteSet(S)
  <2> DEFINE K == {j \in DOMAIN l : ~ l[j].free}
             f == [k \in K |-> [ptr |-> l[k].ptr, size |-> l[k].size]]
  <2>1. IsFiniteSet(DOMAIN l)
    BY PlacesFinite
  <2>2. IsFiniteSet(K)
    BY <2>1, FS_Subset
  <2>3. f \in Surjection(K, S)
    BY DEF Areas, Surjection
  <2> QED
    BY <2>2, <2>3, FS_Surjection
<1> HIDE DEF at, len
<1>5. \E f : eq(f)
  <2>1. PICK h : h = [s \in SUBSET S |-> h[s]] /\ Sums(h, S, len)
    BY <1>2, SumExists
  <2>2. ASSUME NEW s \in SUBSET S
        PROVE  h[s] = IF s = {} THEN 0
                      ELSE (CHOOSE x \in s : TRUE).size + h[s \ {CHOOSE x \in s : TRUE}]
    <3> DEFINE x == CHOOSE x \in s : TRUE
    <3>1. s # {} => x \in S
      OBVIOUS
    <3>2. h[s] = IF s = {} THEN 0 ELSE len[x] + h[s \ {x}]
      BY <2>1 DEF Sums
    <3> HIDE DEF x
    <3>3. h[s] = IF s = {} THEN 0 ELSE x.size + h[s \ {x}]
      BY <3>1, <3>2, <1>3
    <3> QED
      BY <3>3 DEF x
  <2>3. eq(h)
    <3> DEFINE g == [s \in SUBSET S |->
                      IF s = {} THEN 0
                      ELSE (CHOOSE x \in s : TRUE).size + h[s \ {CHOOSE x \in s : TRUE}]]
    <3>1. g = [s \in SUBSET S |-> g[s]]
      OBVIOUS
    <3>2. \A s \in SUBSET S : g[s] = h[s]
      BY <2>2
    <3>3. eq(h) <=> h = g
      BY Zenon
    <3> HIDE DEF g, eq
    <3>4. g = h
      BY <2>1, <3>1, <3>2
    <3> QED
      BY <3>3, <3>4
  <2> QED
    <3> HIDE DEF eq
    <3> QED
      BY <2>3
<1>6. eq(it)
  <2> HIDE DEF eq
  <2> QED
    BY <1>5
<1> HIDE DEF it
<1>7. Sums(it, S, len)
  <2>1. it[{}] = 0
    BY <1>6
  <2>2. ASSUME NEW s \in SUBSET S, s # {}
        PROVE  LET x == CHOOSE x \in s : TRUE IN it[s] = len[x] + it[s \ {x}]
    <3> DEFINE x == CHOOSE x \in s : TRUE
    <3>1. x \in S
      BY <2>2
    <3>2. it[s] = x.size + it[s \ {x}]
      BY <1>6, <2>2
    <3> HIDE DEF x
    <3>3. it[s] = len[x] + it[s \ {x}]
      BY <3>1, <3>2, <1>3
    <3> QED
      BY <3>3 DEF x
  <2> QED
    BY <2>1, <2>2 DEF Sums
<1>8. it[S] = Cardinality(Covered(S, at, len))
  BY <1>2, <1>4, <1>7, SumCovers
<1> QED
  BY <1>1, <1>8 DEF InAreas, at, len
\* Which bytes those are.
LEMMA InBlocksIs ==
  ASSUME NEW l \in Seq(Block), NEW S \in SUBSET DOMAIN l
  PROVE  \A i : i \in InBlocks(l, S) <=>
                  i \in Nat /\ \E k \in S : l[k].ptr <= i /\ i < l[k].ptr + l[k].size
<1>1. /\ DOMAIN l = 1 .. Len(l)
      /\ \A k \in 1 .. Len(l) : l[k].ptr \in Nat /\ l[k].size \in Nat
  BY BlockFields
<1>2. \A k \in S : Ptrs(l, S)[k] = l[k].ptr /\ Sizes(l, S)[k] = l[k].size
  BY DEF Ptrs, Sizes
<1>3. ASSUME NEW k \in S, NEW i \in Nat
      PROVE  i \in Ptrs(l, S)[k] .. Ptrs(l, S)[k] + Sizes(l, S)[k] - 1
               <=> l[k].ptr <= i /\ i < l[k].ptr + l[k].size
  <2> DEFINE p == l[k].ptr
             s == l[k].size
  <2>1. p \in Nat /\ s \in Nat
    BY <1>1
  <2> HIDE DEF p, s
  <2>2. i \in p .. p + s - 1 <=> p <= i /\ i < p + s
    BY <2>1
  <2> QED
    BY <2>2, <1>2 DEF p, s
<1> QED
  BY <1>3 DEF InBlocks, Covered

\* The client's areas are the used blocks.
LEMMA InAreasIs ==
  ASSUME NEW l \in Seq(Block)
  PROVE  InAreas(Areas(l)) = InBlocks(l, {k \in DOMAIN l : ~ l[k].free})
<1> DEFINE U == {k \in DOMAIN l : ~ l[k].free}
           S == Areas(l)
<1>1. \A i : i \in InBlocks(l, U) <=>
               i \in Nat /\ \E k \in U : i \in l[k].ptr .. l[k].ptr + l[k].size - 1
  <2>1. \A k \in U : Ptrs(l, U)[k] = l[k].ptr /\ Sizes(l, U)[k] = l[k].size
    BY DEF Ptrs, Sizes
  <2> HIDE DEF U
  <2> QED
    BY <2>1 DEF InBlocks, Covered
<1>2. \A i : i \in InAreas(S) <=>
               i \in Nat /\ \E a \in S : i \in a.ptr .. a.ptr + a.size - 1
  <2>1. \A a \in S : AreaPtrs(S)[a] = a.ptr /\ AreaSizes(S)[a] = a.size
    BY DEF AreaPtrs, AreaSizes
  <2> HIDE DEF S
  <2> QED
    BY <2>1 DEF InAreas, Covered
<1>3. /\ \A a \in S : \E k \in U : a.ptr = l[k].ptr /\ a.size = l[k].size
      /\ \A k \in U : \E a \in S : a.ptr = l[k].ptr /\ a.size = l[k].size
  <2>1. S = {[ptr |-> l[k].ptr, size |-> l[k].size] : k \in U}
    BY DEF Areas
  <2> HIDE DEF S, U
  <2>2. ASSUME NEW a \in S PROVE \E k \in U : a.ptr = l[k].ptr /\ a.size = l[k].size
    BY <2>1
  <2>3. ASSUME NEW k \in U PROVE \E a \in S : a.ptr = l[k].ptr /\ a.size = l[k].size
    <3> DEFINE a == [ptr |-> l[k].ptr, size |-> l[k].size]
    <3>1. a \in S /\ a.ptr = l[k].ptr /\ a.size = l[k].size
      BY <2>1
    <3> HIDE DEF a
    <3> QED
      BY <3>1
  <2> QED
    BY <2>2, <2>3
<1> HIDE DEF U, S
<1>4. \A i : i \in InAreas(S) <=> i \in InBlocks(l, U)
  BY <1>1, <1>2, <1>3
<1>5. InAreas(S) = InBlocks(l, U)
  BY <1>4
<1> QED
  BY <1>5 DEF S, U

\* Every byte of the pool lies in a block.
LEMMA InSomeBlock ==
  ASSUME NEW l \in Seq(Block), NEW sz \in Nat, Tiles(l, sz), NEW i \in 0 .. sz - 1
  PROVE  \E k \in 1 .. Len(l) : l[k].ptr <= i /\ i < l[k].ptr + l[k].size
<1> DEFINE n == Len(l)
           K == {k \in 1 .. n : l[k].ptr <= i}
           m == Max(K)
<1>1. /\ n \in Nat \ {0}
      /\ \A k \in 1 .. n : l[k].ptr \in Nat /\ l[k].size \in Nat
  <2>1. n \in Nat \ {0}
    BY DEF Tiles
  <2> QED
    BY <2>1, BlockFields
<1>2. 1 \in K
  BY <1>1 DEF Tiles
<1>3. K \in SUBSET Nat /\ n \in Nat /\ \A k \in K : k <= n
  BY <1>1
<1>4. m \in K /\ \A k \in K : m >= k
  <2> HIDE DEF K
  <2> QED
    BY <1>2, <1>3, MaxIs
<1>5. m \in 1 .. n /\ l[m].ptr <= i /\ m + 1 \notin K
  <2>1. m \in Nat
    BY <1>3, <1>4
  <2> HIDE DEF m
  <2>2. m + 1 \notin K
    BY <2>1, <1>4
  <2> QED
    BY <1>4, <2>2
<1> HIDE DEF m
<1>6. CASE m = n
  <2>1. l[n].ptr + l[n].size = sz
    BY DEF Tiles
  <2> QED
    BY <1>5, <1>6, <2>1
<1>7. CASE m # n
  <2>1. m \in 1 .. n - 1 /\ m + 1 \in 1 .. n
    BY <1>1, <1>5, <1>7
  <2>2. l[m + 1].ptr = l[m].ptr + l[m].size
    BY <2>1 DEF Tiles
  <2>3. ~ (l[m + 1].ptr <= i) /\ l[m + 1].ptr \in Nat
    BY <2>1, <1>1, <1>5
  <2>4. i < l[m + 1].ptr
    BY <2>3
  <2> QED
    BY <2>2, <2>4, <1>5
<1> QED
  BY <1>6, <1>7

\* What is not in use is free.
LEMMA UsedAndFree ==
  ASSUME NEW l \in Seq(Block), NEW sz \in Nat, Tiles(l, sz)
  PROVE  LET used == Cardinality(InBlocks(l, {k \in DOMAIN l : ~ l[k].free}))
         IN  /\ used \in 0 .. sz
             /\ Cardinality(InBlocks(l, {k \in DOMAIN l : l[k].free})) = sz - used
<1> DEFINE U == {k \in DOMAIN l : ~ l[k].free}
           F == {k \in DOMAIN l : l[k].free}
           X == InBlocks(l, U)
           Y == InBlocks(l, F)
           Z == 0 .. sz - 1
<1>1. /\ DOMAIN l = 1 .. Len(l)
      /\ \A k \in 1 .. Len(l) : l[k].ptr \in Nat /\ l[k].size \in Nat
  BY BlockFields
<1>2. /\ U \in SUBSET DOMAIN l /\ F \in SUBSET DOMAIN l
      /\ \A k \in 1 .. Len(l) : k \in U \/ k \in F
      /\ U \cap F = {}
  BY <1>1
<1>3. /\ \A i : i \in X <=> i \in Nat /\ \E k \in U : l[k].ptr <= i /\ i < l[k].ptr + l[k].size
      /\ \A i : i \in Y <=> i \in Nat /\ \E k \in F : l[k].ptr <= i /\ i < l[k].ptr + l[k].size
  BY <1>2, InBlocksIs
<1> HIDE DEF U, F, X, Y
<1>4. \A k \in 1 .. Len(l) : l[k].ptr + l[k].size <= sz
  BY PtrsOrdered
<1>5. X \subseteq Z /\ Y \subseteq Z
  <2>1. ASSUME NEW i \in Nat, NEW k \in 1 .. Len(l), i < l[k].ptr + l[k].size PROVE i \in Z
    BY <2>1, <1>1, <1>4
  <2> HIDE DEF Z
  <2> QED
    BY <2>1, <1>1, <1>2, <1>3
<1>6. Z \subseteq X \cup Y
  <2> SUFFICES ASSUME NEW i \in Z PROVE i \in X \/ i \in Y
    OBVIOUS
  <2>1. PICK k \in 1 .. Len(l) : l[k].ptr <= i /\ i < l[k].ptr + l[k].size
    BY InSomeBlock
  <2>2. k \in U \/ k \in F
    BY <1>2
  <2> QED
    BY <2>1, <2>2, <1>3
<1>7. X \cap Y = {}
  <2> SUFFICES ASSUME NEW i \in X, i \in Y PROVE FALSE
    OBVIOUS
  <2>1. PICK j \in U : i \in Nat /\ l[j].ptr <= i /\ i < l[j].ptr + l[j].size
    BY <1>3
  <2>2. PICK k \in F : l[k].ptr <= i /\ i < l[k].ptr + l[k].size
    BY <1>3
  <2>3. j # k /\ j \in 1 .. Len(l) /\ k \in 1 .. Len(l)
    BY <1>1, <1>2
  <2>4. l[j].ptr + l[j].size <= l[k].ptr \/ l[k].ptr + l[k].size <= l[j].ptr
    <3>1. j < k \/ k < j
      BY <2>3
    <3> QED
      BY <2>3, <3>1, PtrsOrdered
  <2> DEFINE p == l[j].ptr
             q == l[k].ptr
             d == l[j].size
             e == l[k].size
  <2>5. p \in Nat /\ q \in Nat /\ d \in Nat /\ e \in Nat /\ i \in Nat
    BY <2>1, <2>3, <1>1
  <2>6. p <= i /\ i < p + d /\ q <= i /\ i < q + e
    BY <2>1, <2>2
  <2>7. p + d <= q \/ q + e <= p
    BY <2>4
  <2> HIDE DEF p, q, d, e
  <2> QED
    BY ONLY <2>5, <2>6, <2>7
<1>8. IsFiniteSet(Z) /\ Cardinality(Z) = sz
  <2>1. sz - 1 \in Int /\ 0 \in Int
    OBVIOUS
  <2>2. IsFiniteSet(Z) /\ Cardinality(Z) = IF 0 > sz - 1 THEN 0 ELSE (sz - 1) - 0 + 1
    BY <2>1, FS_Interval
  <2> HIDE DEF Z
  <2> QED
    BY <2>2
<1>9. Z = X \cup Y
  BY <1>5, <1>6
<1> HIDE DEF Z
<1>10. IsFiniteSet(X) /\ IsFiniteSet(Y)
  BY <1>5, <1>8, FS_Subset
<1>11. Cardinality(X) \in Nat /\ Cardinality(Y) \in Nat
  BY <1>10, FS_CardinalityType
<1>12. Cardinality(X \cup Y) = Cardinality(X) + Cardinality(Y) - Cardinality(X \cap Y)
  BY <1>10, FS_Union
<1>13. Cardinality(X \cap Y) = 0
  BY <1>7, FS_EmptySet
<1>14. Cardinality(X) \in 0 .. sz /\ Cardinality(Y) = sz - Cardinality(X)
  BY <1>8, <1>9, <1>11, <1>12, <1>13
<1> QED
  BY <1>14 DEF X, Y, U, F

\* Different blocks are different holes.
LEMMA HolesCounted ==
  ASSUME NEW l \in Seq(Block), NEW sz \in Nat, Tiles(l, sz), NEW S \in SUBSET DOMAIN l
  PROVE  Cardinality({Hole(l, k) : k \in S}) = Cardinality(S)
<1> DEFINE T == {Hole(l, k) : k \in S}
           f == [k \in S |-> Hole(l, k)]
<1>1. IsFiniteSet(S)
  BY PlacesFinite, FS_Subset
<1>2. ASSUME NEW i \in S, NEW j \in S, Hole(l, i) = Hole(l, j) PROVE i = j
  <2>1. i \in 1 .. Len(l) /\ j \in 1 .. Len(l)
    BY BlockFields
  <2>2. l[i].ptr = l[j].ptr
    BY <1>2 DEF Hole
  <2> QED
    BY <2>1, <2>2, PtrsOrdered
<1>3. f \in Surjection(S, T)
  BY DEF Surjection
<1>4. f \in Injection(S, T)
  <2>1. f \in [S -> T] /\ \A k \in S : f[k] = Hole(l, k)
    OBVIOUS
  <2> HIDE DEF f, T
  <2> QED
    BY <2>1, <1>2 DEF Injection, IsInjective
<1> HIDE DEF f, T
<1>5. Cardinality(T) = Cardinality(S)
  BY <1>1, <1>3, <1>4, FS_Surjection
<1> QED
  BY <1>5 DEF T

\* Subtracting in int, and cutting the size off before, makes no difference.
LEMMA Wrapping ==
  ASSUME NEW a \in Nat, a < 2^IntBits, NEW u \in 0 .. a
  PROVE  InInt(InInt(a) - u) = InInt(a - u)
<1> DEFINE h == 2^(IntBits - 1)
           w == 2^IntBits
<1>1. h \in Nat \ {0} /\ w = 2 * h
  <2>1. IntBits - 1 \in Nat /\ (IntBits - 1) + 1 = IntBits
    BY MyMemAssumption
  <2> QED
    BY <2>1, Powers
<1>0. a < w
  OBVIOUS
<1>2. \A n : InInt(n) = LET m == n % w IN IF m < h THEN m ELSE m - w
  BY DEF InInt
<1> HIDE DEF h, w
<1>3. w \in Nat \ {0} /\ a \in 0 .. w - 1 /\ a - u \in 0 .. w - 1
  BY <1>0, <1>1
<1>4. a % w = a
  BY <1>3
<1>5. InInt(a) = a \/ InInt(a) = a - w
  BY <1>2, <1>4
<1>6. ((a - u) - w) % w = (a - u) % w
  <2> DEFINE x == a - u
  <2>1. x \in 0 .. w - 1
    BY <1>3
  <2> HIDE DEF x
  <2>2. x % w = x /\ (x - w) % w = x
    BY <2>1, <1>3
  <2> QED
    BY <2>2 DEF x
<1>7. (a - w) - u = (a - u) - w
  BY <1>3
<1>8. InInt((a - u) - w) = InInt(a - u)
  BY <1>2, <1>6
<1> QED
  BY <1>5, <1>7, <1>8

\* One look of mem_largest_free at the k-th block.
LargestLook(l, max, k) ==
  IF l[k].free /\ Above(l[k].size, max) THEN InInt(l[k].size) ELSE max

\* mem_largest_free looks at the blocks from the first to the last.
LEMMA LargestRun ==
  ASSUME list \in Seq(Block)
  PROVE  \E run \in [0 .. Len(list) -> Int] :
           /\ run[0] = 0
           /\ mem_largest_free = run[Len(list)]
           /\ \A k \in 1 .. Len(list) : run[k] = LargestLook(list, run[k - 1], k)
<1> DEFINE n == Len(list)
           ids == [i \in DOMAIN list |-> i]
           step == [p \in Int \X (1 .. n) |-> LargestLook(list, p[1], p[2])]
           eq(it) == it = [s \in SUBSET DOMAIN ids |->
                             IF s = {} THEN 0
                             ELSE LargestLook(list, it[s \ {Max(s)}], ids[Max(s)])]
           it == CHOOSE f : eq(f)
<1>1. mem_largest_free = it[DOMAIN ids]
  BY DEF mem_largest_free, FoldLeftDomain, FoldLeft, MapThenFoldSet, LargestLook
<1>2. DOMAIN ids = 1 .. n /\ n \in Nat /\ \A k \in 1 .. n : ids[k] = k
  OBVIOUS
<1>3. 0 \in Int
  OBVIOUS
<1>4. ASSUME NEW v \in Int, NEW k \in 1 .. n
      PROVE  LargestLook(list, v, k) \in Int /\ step[<<v, k>>] = LargestLook(list, v, k)
  <2>1. list[k].size \in Nat
    BY BlockFields
  <2>2. InInt(list[k].size) \in Int
    BY <2>1, InIntType
  <2> QED
    BY <2>2 DEF LargestLook
<1>5. step \in Steps(n, Int)
  BY <1>4 DEF Steps
<1>6. \E f : eq(f)
  <2> HIDE DEF step, n
  <2>0. PICK f : IsFold(f, n, Int, 0, step)
    BY <1>2, <1>3, <1>5, FoldExists
  <2>1. /\ f \in [SUBSET (1 .. n) -> Int]
        /\ \A s \in SUBSET (1 .. n) : f[s] = Folded(f, s, 0, step)
    BY <2>0 DEF IsFold
  <2>2. ASSUME NEW s \in SUBSET DOMAIN ids
        PROVE  f[s] = IF s = {} THEN 0 ELSE LargestLook(list, f[s \ {Max(s)}], ids[Max(s)])
    <3>1. CASE s = {}
      BY <3>1, <2>1, <1>2 DEF Folded
    <3>2. CASE s # {}
      <4>1. Max(s) \in 1 .. n /\ s \ {Max(s)} \in SUBSET (1 .. n)
        BY <3>2, <1>2, Removing
      <4>2. f[s] = step[<<f[s \ {Max(s)}], Max(s)>>] /\ f[s \ {Max(s)}] \in Int
        BY <3>2, <4>1, <2>1, <1>2 DEF Folded
      <4> QED
        BY <3>2, <4>1, <4>2, <1>2, <1>4
    <3> QED
      BY <3>1, <3>2
  <2> HIDE DEF ids
  <2>3. eq(f)
    BY <2>1, <2>2, <1>2
  <2> QED
    BY <2>3
<1>7. eq(it)
  <2> HIDE DEF eq
  <2> QED
    BY <1>6
<1> HIDE DEF it, step
<1>8. it[{}] = 0
  BY <1>7
<1>9. ASSUME NEW s \in SUBSET (1 .. n), s # {}, it[s \ {Max(s)}] \in Int
      PROVE  it[s] = step[<<it[s \ {Max(s)}], Max(s)>>]
  <2>1. it[s] = LargestLook(list, it[s \ {Max(s)}], ids[Max(s)])
    BY <1>7, <1>2, <1>9
  <2> HIDE DEF ids
  <2>2. Max(s) \in 1 .. n
    BY <1>2, <1>9, Removing
  <2> QED
    BY <2>1, <2>2, <1>2, <1>4, <1>9
<1> HIDE DEF ids, n
<1> DEFINE unfolded(s) == it[s] = step[<<it[s \ {Max(s)}], Max(s)>>]
<1>a. \A s \in SUBSET (1 .. n) : s # {} /\ it[s \ {Max(s)}] \in Int => unfolded(s)
  BY <1>9
<1>10. Unfolds(it, n, Int, 0, step)
  BY ONLY <1>8, <1>a DEF Unfolds
<1>11. PICK run : IsRun(run, n, Int, 0, step) /\ run[n] = it[1 .. n]
  <2> DEFINE base == 0
             V == Int
  <2>1. n \in Nat /\ base \in V /\ step \in Steps(n, V) /\ Unfolds(it, n, V, base, step)
    BY <1>2, <1>5, <1>10
  <2> HIDE DEF base, V
  <2>2. \E run : IsRun(run, n, V, base, step) /\ run[n] = it[1 .. n]
    BY ONLY <2>1, FoldRun
  <2> QED
    BY <2>2 DEF base, V
<1>12. \A k \in 1 .. n : run[k] = LargestLook(list, run[k - 1], k)
  <2> TAKE k \in 1 .. n
  <2>1. k - 1 \in 0 .. n
    BY <1>2
  <2>2. run[k - 1] \in Int /\ run[k] = step[<<run[k - 1], k>>]
    BY <2>1, <1>11 DEF IsRun
  <2> QED
    BY <2>2, <1>4
<1>13. run \in [0 .. n -> Int] /\ run[0] = 0 /\ mem_largest_free = run[n]
  BY <1>1, <1>2, <1>11 DEF IsRun
<1> QED
  BY <1>12, <1>13 DEF n

\* m is the size of the largest free one of the first k blocks.
IsLargest(l, k, m) ==
  /\ m \in Nat
  /\ \A j \in 1 .. k : l[j].free => l[j].size <= m
  /\ \/ m = 0 /\ \A j \in 1 .. k : ~ l[j].free
     \/ \E j \in 1 .. k : l[j].free /\ l[j].size = m

\* mem_largest_free finds it, although it keeps it in an int.
LEMMA LargestStep ==
  ASSUME PoolsFit, NEW l \in Seq(Block), NEW sz \in Pools, Tiles(l, sz),
         NEW k \in 1 .. Len(l), NEW m, IsLargest(l, k - 1, m)
  PROVE  \E z : IsLargest(l, k, z) /\ LargestLook(l, InInt(m), k) = InInt(z)
<1> DEFINE s == l[k].size
<1>1. /\ sz \in Nat /\ sz + 1 < 2^IntBits /\ Len(l) \in Nat /\ k \in Nat
      /\ \A j \in 1 .. Len(l) : l[j].size \in Nat /\ l[j].free \in BOOLEAN
  <2>1. sz \in Nat /\ sz + 1 < 2^IntBits
    BY MyMemAssumption DEF PoolsFit
  <2>2. /\ Len(l) \in Nat
        /\ \A j \in 1 .. Len(l) : l[j].size \in Nat /\ l[j].free \in BOOLEAN
    BY BlockFields
  <2> QED
    BY <2>1, <2>2
<1>2. m \in Nat /\ s \in Nat
  BY <1>1 DEF IsLargest
<1>3. m + s <= sz
  <2>1. CASE m = 0
    BY <2>1, <1>1, <1>2, TwoBlocks
  <2>2. CASE \E j \in 1 .. k - 1 : l[j].free /\ l[j].size = m
    <3>1. PICK j \in 1 .. k - 1 : l[j].size = m
      BY <2>2
    <3>2. j \in 1 .. Len(l) /\ j # k
      BY <3>1, <1>1
    <3>3. l[j].size + l[k].size <= sz
      BY <3>2, <1>1, TwoBlocks
    <3> QED
      BY <3>1, <3>3
  <2> QED
    BY <2>1, <2>2 DEF IsLargest
<1>4. Above(s, InInt(m)) <=> s > m
  BY <1>1, <1>2, <1>3, Comparing
<1> HIDE DEF s
<1>5. \A j \in 1 .. k : j \in 1 .. k - 1 \/ j = k
  BY <1>1
<1>6. CASE l[k].free /\ s > m
  <2>1. LargestLook(l, InInt(m), k) = InInt(s)
    BY <1>4, <1>6 DEF LargestLook, s
  <2>2. \A j \in 1 .. k : l[j].free => l[j].size <= s
    <3>1. \A j \in 1 .. k - 1 : l[j].free => l[j].size <= m
      BY DEF IsLargest
    <3>2. \A j \in 1 .. k - 1 : j \in 1 .. Len(l)
      BY <1>1
    <3>3. \A j \in 1 .. k - 1 : l[j].free => l[j].size <= s
      BY <3>1, <3>2, <1>1, <1>2, <1>6
    <3> QED
      BY <3>3, <1>2, <1>5 DEF s
  <2>3. k \in 1 .. k
    BY <1>1
  <2>4. IsLargest(l, k, s)
    BY <2>2, <2>3, <1>2, <1>6 DEF IsLargest, s
  <2> QED
    BY <2>1, <2>4
<1>7. CASE ~ (l[k].free /\ s > m)
  <2>1. LargestLook(l, InInt(m), k) = InInt(m)
    BY <1>4, <1>7 DEF LargestLook, s
  <2>2. l[k].free => (s <= m /\ m # 0) \/ s = 0
    BY <1>2, <1>7
  <2>3. s # 0
    BY BlockFields DEF s
  <2>4. \A j \in 1 .. k : l[j].free => l[j].size <= m
    BY <2>2, <2>3, <1>5 DEF IsLargest, s
  <2>5. \/ m = 0 /\ \A j \in 1 .. k : ~ l[j].free
        \/ \E j \in 1 .. k : l[j].free /\ l[j].size = m
    <3>1. CASE m = 0 /\ \A j \in 1 .. k - 1 : ~ l[j].free
      BY <3>1, <2>2, <2>3, <1>5
    <3>2. CASE \E j \in 1 .. k - 1 : l[j].free /\ l[j].size = m
      <4>1. \A j \in 1 .. k - 1 : j \in 1 .. k
        BY <1>1
      <4> QED
        BY <3>2, <4>1
    <3> QED
      BY <3>1, <3>2 DEF IsLargest
  <2>6. IsLargest(l, k, m)
    BY <2>4, <2>5, <1>2 DEF IsLargest
  <2> QED
    BY <2>1, <2>6
<1> QED
  BY <1>6, <1>7

\* 0 is 0 in an int.
LEMMA NothingIsNothing == InInt(0) = 0
<1>1. 2^IntBits \in Nat \ {0} /\ 2^(IntBits - 1) \in Nat \ {0}
  <2>1. IntBits \in Nat /\ IntBits - 1 \in Nat
    BY MyMemAssumption
  <2> QED
    BY <2>1, Powers
<1>2. 0 \in Nat /\ 0 < 2^IntBits /\ 0 < 2^(IntBits - 1)
  BY <1>1
<1> QED
  BY <1>2, InIntValue

\* What mem_largest_free returns is the size of the largest hole.
LEMMA LargestIs ==
  ASSUME PoolsFit, list \in Seq(Block), NEW sz \in Pools, Tiles(list, sz)
  PROVE  \E m : IsLargest(list, Len(list), m) /\ mem_largest_free = InInt(m)
<1> DEFINE n == Len(list)
<1>1. PICK run \in [0 .. n -> Int] :
        /\ run[0] = 0 /\ mem_largest_free = run[n]
        /\ \A k \in 1 .. n : run[k] = LargestLook(list, run[k - 1], k)
  BY LargestRun
<1> DEFINE Found(k) == \E m : IsLargest(list, k, m) /\ run[k] = InInt(m)
           S == {k \in 0 .. n : Found(k)}
<1>2. n \in Nat
  BY BlockFields
<1> HIDE DEF n
<1>3. 0 \in S
  <2>1. InInt(0) = 0
    BY NothingIsNothing
  <2>2. IsLargest(list, 0, 0)
    BY DEF IsLargest
  <2>3. Found(0)
    BY <2>1, <2>2, <1>1
  <2> QED
    BY <2>3, <1>2
<1>4. ASSUME NEW k \in 0 .. n, k \in S, k < n PROVE k + 1 \in S
  <2>1. PICK m : IsLargest(list, k, m) /\ run[k] = InInt(m)
    BY <1>4
  <2>2. k + 1 \in 1 .. n /\ (k + 1) - 1 = k /\ k + 1 \in 0 .. n
    BY <1>2, <1>4
  <2>3. run[k + 1] = LargestLook(list, run[k], k + 1)
    BY <2>2, <1>1
  <2>4. \E z : IsLargest(list, k + 1, z) /\ LargestLook(list, InInt(m), k + 1) = InInt(z)
    BY <2>1, <2>2, LargestStep DEF n
  <2>5. Found(k + 1)
    BY <2>1, <2>3, <2>4
  <2> QED
    BY <2>2, <2>5
<1> HIDE DEF S
<1>5. \A k \in 0 .. n : k \in S
  BY <1>2, <1>3, <1>4, CountingTo
<1>6. Found(n)
  BY <1>2, <1>5 DEF S
<1> QED
  BY <1>1, <1>6 DEF n

\* The status functions tell the client what follows from the areas it has, as
\* far as an int can say it.
LEMMA StatusTold ==
  ASSUME PoolsFit, IInv, list # <<>>
  PROVE  LET used == MapThenSumSet(LAMBDA a : a.size, held)
         IN /\ mem_holes = Cardinality(A!Holes)
            /\ mem_allocated = InInt(used)
            /\ mem_free = InInt(mem_total - used)
            /\ mem_largest_free = IF A!Holes = {} THEN 0
                                  ELSE InInt(Max({h.size : h \in A!Holes}))
            /\ \A n \in 0 .. 2^(IntBits - 1) - 1 :
                 mem_small_free(n) = Cardinality({h \in A!Holes : h.size <= n})
            /\ \A a \in held : mem_is_alloc(a.ptr)
            /\ \A h \in A!Holes : ~ mem_is_alloc(h.ptr)
<1> DEFINE used == MapThenSumSet(LAMBDA a : a.size, held)
           n == Len(list)
<1>1. /\ list \in Seq(Block) /\ n \in Nat /\ DOMAIN list = 1 .. n
      /\ mySize \in Nat /\ mySize \in Pools /\ Tiles(list, mySize) /\ held = Areas(list)
      /\ A!Holes = FreeOf(list)
  BY ListKnown, HolesNow
<1>2. \A k \in 1 .. n : list[k].ptr \in Nat /\ list[k].size \in Nat \ {0} /\ list[k].free \in BOOLEAN
  BY <1>1, BlockFields
<1>3. FreeBlocks \in SUBSET (1 .. n) /\ UsedBlocks \in SUBSET (1 .. n)
      /\ \A k \in 1 .. n : (k \in FreeBlocks <=> list[k].free) /\ (k \in UsedBlocks <=> ~ list[k].free)
  BY <1>1 DEF FreeBlocks, UsedBlocks
<1>4. UsedBlocks = {k \in DOMAIN list : ~ list[k].free} /\ FreeBlocks = {k \in DOMAIN list : list[k].free}
  BY DEF FreeBlocks, UsedBlocks
<1>5. used = Cardinality(InBlocks(list, UsedBlocks))
  BY <1>1, <1>4, AreasAre, InAreasIs
<1>6. Bytes(UsedBlocks) = used
  BY <1>1, <1>3, <1>5, BytesAre
<1>7. used \in 0 .. mySize /\ Bytes(FreeBlocks) = mySize - used
  <2>1. Bytes(FreeBlocks) = Cardinality(InBlocks(list, FreeBlocks))
    BY <1>1, <1>3, BytesAre
  <2> HIDE DEF used
  <2> QED
    BY <2>1, <1>1, <1>4, <1>5, UsedAndFree
<1> HIDE DEF used
<1>8. mem_allocated = InInt(used)
  BY <1>6 DEF mem_allocated
<1>9. mem_free = InInt(mem_total - used)
  <2>1. mySize < 2^IntBits
    <3>1. IntBits \in Nat /\ mySize + 1 < 2^IntBits
      BY <1>1, MyMemAssumption DEF PoolsFit
    <3>2. 2^IntBits \in Nat
      BY <3>1, Powers
    <3> QED
      BY <1>1, <3>1, <3>2
  <2>2. InInt(InInt(mySize) - used) = InInt(mySize - used)
    BY <1>1, <1>7, <2>1, Wrapping
  <2> QED
    BY <2>2, <1>7 DEF mem_free, mem_total
<1>10. FreeOf(list) = {Hole(list, k) : k \in FreeBlocks}
  BY <1>4 DEF FreeOf
<1>11. mem_holes = Cardinality(A!Holes)
  BY <1>1, <1>3, <1>10, HolesCounted DEF mem_holes
<1>12. \A h : h \in FreeOf(list) <=> \E k \in FreeBlocks : h = Hole(list, k)
  BY <1>10
<1>13. ASSUME NEW m \in 0 .. 2^(IntBits - 1) - 1
       PROVE  mem_small_free(m) = Cardinality({h \in A!Holes : h.size <= m})
  <2> DEFINE S == {k \in FreeBlocks : list[k].size <= m}
             T == {h \in FreeOf(list) : h.size <= m}
  <2>1. T = {Hole(list, k) : k \in S}
    <3>1. \A k : Hole(list, k).size = list[k].size
      BY DEF Hole
    <3> QED
      BY <3>1, <1>12
  <2>2. S \in SUBSET DOMAIN list
    BY <1>1, <1>3
  <2>3. mem_small_free(m) = Cardinality(S)
    BY DEF mem_small_free
  <2> HIDE DEF S, T
  <2>4. mem_small_free(m) = Cardinality(T)
    BY <2>1, <2>2, <2>3, <1>1, HolesCounted
  <2> QED
    BY <2>4, <1>1 DEF T
<1>14. mem_largest_free = IF A!Holes = {} THEN 0 ELSE InInt(Max({h.size : h \in A!Holes}))
  <2> DEFINE T == {h.size : h \in FreeOf(list)}
  <2>1. PICK m : IsLargest(list, n, m) /\ mem_largest_free = InInt(m)
    BY <1>1, LargestIs
  <2>2. \A t : t \in T <=> \E k \in FreeBlocks : t = list[k].size
    <3>1. \A k : Hole(list, k).size = list[k].size
      BY DEF Hole
    <3>2. \A t : t \in T <=> \E h \in FreeOf(list) : t = h.size
      OBVIOUS
    <3> HIDE DEF T
    <3> QED
      BY <3>1, <3>2, <1>12
  <2> HIDE DEF T
  <2>3. m \in Nat /\ \A t \in T : t \in Nat /\ t <= m
    BY <2>1, <2>2, <1>2, <1>3 DEF IsLargest
  <2>4. CASE FreeOf(list) = {}
    <3>1. \A j \in 1 .. n : ~ list[j].free
      BY <2>4, <1>3, <1>12
    <3>2. m = 0
      BY <3>1, <2>1 DEF IsLargest
    <3>3. InInt(0) = 0
      BY NothingIsNothing
    <3> QED
      BY <2>1, <2>4, <3>2, <3>3, <1>1
  <2>5. CASE FreeOf(list) # {}
    <3>1. PICK k \in FreeBlocks : TRUE
      BY <2>5, <1>12
    <3>2. m \in T
      <4>1. \E j \in 1 .. n : list[j].free /\ list[j].size = m
        BY <3>1, <2>1, <1>3 DEF IsLargest
      <4> QED
        BY <4>1, <2>2, <1>3
    <3>3. T \in SUBSET Nat /\ T # {}
      BY <2>3, <3>2
    <3>4. Max(T) \in T /\ \A t \in T : Max(T) >= t
      BY <2>3, <3>3, MaxIs
    <3>5. Max(T) = m
      <4> DEFINE x == Max(T)
      <4>1. x \in Nat /\ x <= m /\ x >= m
        BY <2>3, <3>2, <3>4
      <4> HIDE DEF x
      <4>2. x = m
        BY <4>1, <2>3
      <4> QED
        BY <4>2 DEF x
    <3> QED
      BY <2>1, <2>5, <3>5, <1>1 DEF T
  <2> QED
    BY <2>4, <2>5
<1>15. \A i \in 1 .. n : At(list[i].ptr) = i
  <2> SUFFICES ASSUME NEW i \in 1 .. n PROVE At(list[i].ptr) = i
    OBVIOUS
  <2> DEFINE p == list[i].ptr
             k == At(p)
  <2>1. /\ k \in 0 .. n
        /\ k # 0 => list[k].ptr = p
        /\ k = 0 => \A j \in 1 .. n : list[j].ptr # p
    BY <1>1, AtIs
  <2> HIDE DEF k
  <2>2. k \in 1 .. n /\ list[k].ptr = list[i].ptr
    BY <2>1
  <2>3. k = i
    BY <2>2, <1>1, PtrsOrdered
  <2> QED
    BY <2>3 DEF k
<1>16. ASSUME NEW a \in held PROVE mem_is_alloc(a.ptr)
  <2>1. PICK i \in 1 .. n : ~ list[i].free /\ a.ptr = list[i].ptr
    BY <1>1 DEF Areas
  <2>2. At(a.ptr) = i /\ i # 0
    BY <2>1, <1>15
  <2> QED
    BY <2>1, <2>2 DEF mem_is_alloc
<1>17. ASSUME NEW h \in A!Holes PROVE ~ mem_is_alloc(h.ptr)
  <2>1. PICK i \in FreeBlocks : h = Hole(list, i)
    BY <1>1, <1>12
  <2>2. i \in 1 .. n /\ list[i].free /\ h.ptr = list[i].ptr
    BY <2>1, <1>3 DEF Hole
  <2>3. At(h.ptr) = i /\ i # 0
    BY <2>2, <1>15
  <2> QED
    BY <2>2, <2>3 DEF mem_is_alloc
<1> QED
  BY <1>8, <1>9, <1>11, <1>13, <1>14, <1>16, <1>17 DEF used

\* mem_holes, mem_allocated, mem_free, mem_largest_free, mem_small_free and
\* mem_is_alloc (mymem.c) agree with each other and with the areas that the
\* client has been given and has not freed, at every moment.
THEOREM StatusIsTold ==
  ASSUME PoolsFit
  PROVE  Spec => []StatusAgrees
<1>1. IInv => StatusAgrees
  BY StatusTold DEF StatusAgrees
<1> QED
  BY <1>1, Invariance, PTL

=============================================================================
