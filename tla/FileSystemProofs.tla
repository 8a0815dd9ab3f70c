--------------------------- MODULE FileSystemProofs ---------------------------
(***************************************************************************)
(* Theorems about FileSystem, for every size of the disk, the blocks, the  *)
(* file table and the files: the table and the descriptors that name its   *)
(* entries, then what the loops over blocks do to the bytes of the files.  *)
(***************************************************************************)
EXTENDS FileSystem, Induction

-----------------------------------------------------------------------------
(* Blocks and bytes.                                                       *)

\* A byte of the disk has one block and one place in it.
LEMMA DivMod ==
  ASSUME NEW p \in Nat
  PROVE  /\ p \div BS \in Nat /\ (p % BS) \in 0 .. BS - 1
         /\ p = (p \div BS) * BS + (p % BS)
BY FileSystemAssumption

\* And it is the only byte with that block and that place in it.
LEMMA DivModIs ==
  ASSUME NEW b \in Nat, NEW r \in 0 .. BS - 1
  PROVE  (b * BS + r) \div BS = b /\ (b * BS + r) % BS = r
BY FileSystemAssumption

\* Blocks next to each other do not share a byte.
LEMMA BlockSum ==
  ASSUME NEW b \in Int, NEW c \in Int
  PROVE  (b + c) * BS = b * BS + c * BS /\ b * BS \in Int
BY FileSystemAssumption

\* A block ends before any later one starts.
LEMMA BlockOrder ==
  ASSUME NEW b \in Int, NEW c \in Int, b < c
  PROVE  b * BS + BS <= c * BS
BY FileSystemAssumption

\* The data blocks are the second half of the disk.
LEMMA DataStart == DATA_START \in Nat /\ DATA_START < DISK_BLOCKS /\ DATA_START * BS \in Nat
BY FileSystemAssumption DEF DATA_START

\* Both loops that carry whole blocks over leave the byte they stand for alone.
LEMMA CarryIs ==
  ASSUME NEW b \in Nat, NEW pos \in Nat
  PROVE  /\ Carry(b, pos).block \in Nat /\ Carry(b, pos).offset \in 0 .. BS
         /\ Carry(b, pos).block * BS + Carry(b, pos).offset = b * BS + pos
<1> DEFINE n == IF pos > BS THEN (pos - 1) \div BS ELSE 0
<1>1. n \in Nat /\ pos - n * BS \in 0 .. BS
  <2>1. CASE pos > BS
    <3>1. pos - 1 \in Nat
      BY <2>1, FileSystemAssumption
    <3>2. n \in Nat /\ ((pos - 1) % BS) \in 0 .. BS - 1 /\ pos - 1 = n * BS + ((pos - 1) % BS)
      BY <2>1, <3>1, DivMod
    <3> DEFINE r == (pos - 1) % BS
    <3>3. n * BS \in Int
      BY <3>2, BlockSum
    <3> HIDE DEF n, r
    <3> QED
      BY <3>2, <3>3, FileSystemAssumption DEF r
  <2>2. CASE ~ (pos > BS)
    BY <2>2, FileSystemAssumption
  <2> QED
    BY <2>1, <2>2
<1>2. Carry(b, pos) = [block |-> b + n, offset |-> pos - n * BS]
  BY DEF Carry
<1> HIDE DEF n
<1>n. n \in Int /\ b \in Int
  BY <1>1
<1>3. (b + n) * BS = b * BS + n * BS /\ b * BS \in Int /\ n * BS \in Int
  BY <1>n, BlockSum
<1> QED
  BY <1>1, <1>2, <1>3

\* The loop that also carries a full block over ends inside a block, or one byte
\* before it when it started there.
LEMMA CarryFullIs ==
  ASSUME NEW b \in Nat, NEW pos \in Int, pos >= -1
  PROVE  /\ CarryFull(b, pos).block \in Nat
         /\ CarryFull(b, pos).block >= b
         /\ CarryFull(b, pos).offset \in -1 .. BS - 1
         /\ CarryFull(b, pos).offset = -1 => pos = -1
         /\ CarryFull(b, pos).block * BS + CarryFull(b, pos).offset = b * BS + pos
<1> DEFINE n == IF pos >= BS THEN pos \div BS ELSE 0
<1>1. n \in Nat /\ pos - n * BS \in -1 .. BS - 1 /\ (pos - n * BS = -1 => pos = -1)
  <2>1. CASE pos >= BS
    <3>1. pos \in Nat
      BY <2>1, FileSystemAssumption
    <3>2. n \in Nat /\ (pos % BS) \in 0 .. BS - 1 /\ pos = n * BS + (pos % BS)
      BY <2>1, <3>1, DivMod
    <3> DEFINE r == pos % BS
    <3>3. n * BS \in Int
      BY <3>2, BlockSum
    <3> HIDE DEF n, r
    <3> QED
      BY <3>2, <3>3, FileSystemAssumption DEF r
  <2>2. CASE ~ (pos >= BS)
    BY <2>2, FileSystemAssumption
  <2> QED
    BY <2>1, <2>2
<1>2. CarryFull(b, pos) = [block |-> b + n, offset |-> pos - n * BS]
  BY DEF CarryFull
<1> HIDE DEF n
<1>n. n \in Int /\ b \in Int
  BY <1>1
<1>3. (b + n) * BS = b * BS + n * BS /\ b * BS \in Int /\ n * BS \in Int
  BY <1>n, BlockSum
<1> QED
  BY <1>1, <1>2, <1>3

-----------------------------------------------------------------------------
(* The file table.                                                         *)

Row == [name : Names \cup {NoName}, block : Nat, offset : 0 .. BS, size : -1 .. MaxSize]
Tables == [Entries -> Row]

\* The bytes an entry takes up, and where the entry behind it starts then.
Held(e) == IF e.size = -1 THEN 0 ELSE e.size
Behind(t, i) == IF i = 0 THEN DATA_START * BS ELSE Place(t[i - 1]) + Held(t[i - 1])

\* What an entry of a typed table holds.
LEMMA RowFields ==
  ASSUME NEW t \in Tables, NEW i \in Entries
  PROVE  /\ t[i].name \in Names \cup {NoName} /\ t[i].block \in Nat
         /\ t[i].offset \in 0 .. BS /\ t[i].size \in -1 .. MaxSize
         /\ Held(t[i]) \in 0 .. MaxSize
         /\ Place(t[i]) \in Nat
<1>1. t[i] \in Row
  BY DEF Tables
<1>2. t[i].offset \in Nat /\ t[i].block \in Nat
  BY <1>1, FileSystemAssumption DEF Row
<1>3. Place(t[i]) \in Nat
  BY <1>2, FileSystemAssumption DEF Place
<1> QED
  BY <1>1, <1>3, FileSystemAssumption DEF Row, Held

\* fill_block_and_offset puts an entry right behind the one before it, and
\* changes nothing else.
LEMMA FillEntry ==
  ASSUME NEW t \in Tables, NEW i \in Entries
  PROVE  /\ FillBlockAndOffset(t, i) \in Tables
         /\ \A j \in Entries \ {i} : FillBlockAndOffset(t, i)[j] = t[j]
         /\ FillBlockAndOffset(t, i)[i].name = t[i].name
         /\ FillBlockAndOffset(t, i)[i].size = t[i].size
         /\ Place(FillBlockAndOffset(t, i)[i]) = Behind(t, i)
<1> DEFINE pos == t[i-1].offset + (IF t[i-1].size = -1 THEN 0 ELSE t[i-1].size)
           place == IF i = 0 THEN [block |-> DATA_START, offset |-> 0]
                    ELSE Carry(t[i-1].block, pos)
           r == [t EXCEPT ![i].block = place.block, ![i].offset = place.offset]
<1>1. FillBlockAndOffset(t, i) = r
  BY DEF FillBlockAndOffset
<1>2. /\ place.block \in Nat /\ place.offset \in 0 .. BS
      /\ place.block * BS + place.offset = Behind(t, i)
  <2>1. CASE i = 0
    <3>1. place = [block |-> DATA_START, offset |-> 0]
      BY <2>1
    <3> HIDE DEF place
    <3> QED
      BY <2>1, <3>1, DataStart, FileSystemAssumption DEF Behind
  <2>2. CASE i # 0
    <3>1. i - 1 \in Entries
      BY <2>2, FileSystemAssumption DEF Entries
    <3>2. t[i-1].block \in Nat /\ t[i-1].offset \in Nat /\ Held(t[i-1]) \in Nat
      BY <3>1, RowFields, FileSystemAssumption
    <3>3. pos = t[i-1].offset + Held(t[i-1]) /\ pos \in Nat
      BY <3>2 DEF Held
    <3>4. place = Carry(t[i-1].block, pos)
      BY <2>2
    <3> HIDE DEF pos, place
    <3>5. /\ place.block \in Nat /\ place.offset \in 0 .. BS
          /\ place.block * BS + place.offset = t[i-1].block * BS + pos
      BY <3>2, <3>3, <3>4, CarryIs
    <3>6. t[i-1].block \in Int /\ t[i-1].block * BS \in Int
      <4>1. t[i-1].block \in Int
        BY <3>2
      <4> QED
        BY <4>1, BlockSum
    <3>7. Behind(t, i) = t[i-1].block * BS + t[i-1].offset + Held(t[i-1])
      BY <2>2 DEF Behind, Place
    <3> QED
      BY <3>2, <3>3, <3>5, <3>6, <3>7
  <2> QED
    BY <2>1, <2>2
<1> HIDE DEF place
<1>3. t \in [Entries -> Row]
  BY DEF Tables
<1>4. r \in Tables /\ \A j \in Entries \ {i} : r[j] = t[j]
  BY <1>2, <1>3 DEF Tables, Row
<1>5. r[i] = [t[i] EXCEPT !.block = place.block, !.offset = place.offset]
  BY <1>3
<1>6. /\ r[i].name = t[i].name /\ r[i].size = t[i].size
      /\ r[i].block = place.block /\ r[i].offset = place.offset
  BY <1>3, <1>5 DEF Row
<1>7. Place(r[i]) = Behind(t, i)
  BY <1>2, <1>6 DEF Place
<1> QED
  BY <1>1, <1>4, <1>6, <1>7

\* The tables that the loop of fs_delete and fs_truncate goes through.
Filling(run, n, t, first, last) ==
  /\ run \in [0 .. n -> Tables]
  /\ run[0] = t /\ run[n] = FillFrom(t, first, last)
  /\ \A k \in 1 .. n : run[k] = FillBlockAndOffset(run[k - 1], first + k - 1)

\* The fold of FillFrom is the loop of fs_delete and fs_truncate.
LEMMA FillRun ==
  ASSUME NEW t \in Tables, NEW first \in Nat, NEW last \in Int, last < NFILES,
         NEW n \in Nat, n = IF first <= last THEN last - first + 1 ELSE 0
  PROVE  \E run : Filling(run, n, t, first, last)
<1> DEFINE seq == [k \in 1..(last - first + 1) |-> first + k - 1]
           step == [p \in Tables \X (1 .. n) |-> FillBlockAndOffset(p[1], seq[p[2]])]
           eq(f) == f = [s \in SUBSET DOMAIN seq |->
                           IF s = {} THEN t
                           ELSE FillBlockAndOffset(f[s \ {Max(s)}], seq[Max(s)])]
           it == CHOOSE f : eq(f)
<1>1. FillFrom(t, first, last) = it[DOMAIN seq]
  BY DEF FillFrom, FoldLeft, MapThenFoldSet
<1>2. DOMAIN seq = 1 .. n
  OBVIOUS
<1>3. \A k \in 1 .. n : seq[k] = first + k - 1 /\ seq[k] \in Entries
  <2>1. \A k \in 1 .. n : seq[k] = first + k - 1
    OBVIOUS
  <2> HIDE DEF seq
  <2>2. \A k \in 1 .. n : first + k - 1 \in first .. last
    OBVIOUS
  <2>3. first .. last \subseteq Entries
    BY FileSystemAssumption DEF Entries
  <2> QED
    BY <2>1, <2>2, <2>3
<1>4. \A v \in Tables, k \in 1 .. n : /\ FillBlockAndOffset(v, seq[k]) \in Tables
                                      /\ step[<<v, k>>] = FillBlockAndOffset(v, seq[k])
  <2>1. \A v \in Tables, k \in 1 .. n : step[<<v, k>>] = FillBlockAndOffset(v, seq[k])
    OBVIOUS
  <2> HIDE DEF seq, step
  <2>2. \A v \in Tables, k \in 1 .. n : FillBlockAndOffset(v, seq[k]) \in Tables
    BY <1>3, FillEntry
  <2> QED
    BY <2>1, <2>2
<1>5. step \in Steps(n, Tables)
  <2>1. ASSUME NEW p \in Tables \X (1 .. n)
        PROVE  FillBlockAndOffset(p[1], seq[p[2]]) \in Tables
    <3>1. p[1] \in Tables /\ p[2] \in 1 .. n
      OBVIOUS
    <3> HIDE DEF seq, step
    <3> QED
      BY <3>1, <1>3, FillEntry
  <2> QED
    BY <2>1 DEF Steps
<1> HIDE DEF seq, step
<1>6. \E f : eq(f)
  <2>1. PICK f : IsFold(f, n, Tables, t, step)
    BY <1>5, FoldExists
  <2>2. /\ f \in [SUBSET (1 .. n) -> Tables]
        /\ \A s \in SUBSET (1 .. n) : f[s] = Folded(f, s, t, step)
    BY <2>1 DEF IsFold
  <2>3. ASSUME NEW s \in SUBSET (1 .. n), s # {}
        PROVE  f[s] = FillBlockAndOffset(f[s \ {Max(s)}], seq[Max(s)])
    <3>1. Max(s) \in 1 .. n /\ s \ {Max(s)} \in SUBSET (1 .. n)
      BY <2>3, Removing
    <3>2. f[s] = step[<<f[s \ {Max(s)}], Max(s)>>] /\ f[s \ {Max(s)}] \in Tables
      BY <2>2, <2>3, <3>1 DEF Folded
    <3> QED
      BY <3>1, <3>2, <1>4
  <2>4. f[{}] = t
    BY <2>2 DEF Folded
  <2>5. eq(f)
    BY <2>2, <2>3, <2>4, <1>2
  <2> QED
    BY <2>5
<1>7. eq(it)
  <2> HIDE DEF eq
  <2> QED
    BY <1>6
<1> HIDE DEF it
<1>8. it[{}] = t
  BY <1>7
<1>9. Unfolds(it, n, Tables, t, step)
  <2> SUFFICES ASSUME NEW s \in SUBSET (1 .. n), s # {}, it[s \ {Max(s)}] \in Tables
               PROVE  it[s] = step[<<it[s \ {Max(s)}], Max(s)>>]
    BY <1>8 DEF Unfolds
  <2>1. it[s] = FillBlockAndOffset(it[s \ {Max(s)}], seq[Max(s)])
    BY <1>7, <1>2
  <2> QED
    BY <2>1, <1>4, Removing
<1> HIDE DEF eq
<1>10. PICK run : IsRun(run, n, Tables, t, step) /\ run[n] = it[1 .. n]
  BY <1>5, <1>9, FoldRun
<1>11. /\ run \in [0 .. n -> Tables] /\ run[0] = t
       /\ \A k \in 1 .. n : run[k] = step[<<run[k - 1], k>>]
  BY <1>10 DEF IsRun
<1>12. \A k \in 1 .. n : run[k] = FillBlockAndOffset(run[k - 1], first + k - 1)
  <2> TAKE k \in 1 .. n
  <2>1. run[k - 1] \in Tables
    <3>1. k - 1 \in 0 .. n
      OBVIOUS
    <3> QED
      BY <3>1, <1>11
  <2>2. run[k] = step[<<run[k - 1], k>>]
    BY <1>11
  <2>3. step[<<run[k - 1], k>>] = FillBlockAndOffset(run[k - 1], seq[k])
    BY <2>1, <1>4
  <2>4. seq[k] = first + k - 1
    BY <1>3
  <2> QED
    BY <2>2, <2>3, <2>4
<1>13. run[n] = FillFrom(t, first, last)
  BY <1>1, <1>2, <1>10
<1> QED
  BY <1>10, <1>11, <1>12, <1>13 DEF Filling

\* The entries from first to last follow the one before them without a gap,
\* and nothing else has changed.
LEMMA Filled ==
  ASSUME NEW t \in Tables, NEW first \in Nat, NEW last \in Int, last < NFILES
  PROVE  /\ FillFrom(t, first, last) \in Tables
         /\ \A j \in Entries : /\ FillFrom(t, first, last)[j].name = t[j].name
                               /\ FillFrom(t, first, last)[j].size = t[j].size
         /\ \A j \in Entries : j < first \/ j > last => FillFrom(t, first, last)[j] = t[j]
         /\ \A j \in Entries : j \in first .. last =>
              Place(FillFrom(t, first, last)[j]) = Behind(FillFrom(t, first, last), j)
<1> DEFINE n == IF first <= last THEN last - first + 1 ELSE 0
<1>1. n \in Nat
  OBVIOUS
<1>r. PICK run : Filling(run, n, t, first, last)
  <2> HIDE DEF n
  <2>1. n = IF first <= last THEN last - first + 1 ELSE 0
    BY DEF n
  <2> QED
    BY <1>1, <2>1, FillRun
<1>2. /\ run \in [0 .. n -> Tables]
      /\ run[0] = t /\ run[n] = FillFrom(t, first, last)
      /\ \A k \in 1 .. n : run[k] = FillBlockAndOffset(run[k - 1], first + k - 1)
  BY <1>r DEF Filling
<1> DEFINE Same(k) == \A j \in Entries : /\ run[k][j].name = t[j].name
                                         /\ run[k][j].size = t[j].size
           Rest(k) == \A j \in Entries : ~ (j \in first .. first + k - 1) => run[k][j] = t[j]
           Done(k) == \A j \in Entries : j \in first .. first + k - 1 =>
                                           Place(run[k][j]) = Behind(run[k], j)
           S == {k \in 0 .. n : Same(k) /\ Rest(k) /\ Done(k)}
<1>3. 0 \in S
  BY <1>1, <1>2
<1>4. ASSUME NEW k \in 0 .. n, k \in S, k < n PROVE k + 1 \in S
  <2> DEFINE i == first + k
             u == run[k]
             r == run[k + 1]
  <2>1. k + 1 \in 1 .. n /\ (k + 1) - 1 = k /\ first + (k + 1) - 1 = i /\ i \in Entries
    BY <1>4, <1>1, FileSystemAssumption DEF Entries
  <2>2. u \in Tables /\ r = FillBlockAndOffset(u, i)
    BY <1>2, <2>1
  <2>3. Same(k) /\ Rest(k) /\ Done(k)
    BY <1>4
  <2> HIDE DEF n, u, r
  <2>4. /\ r \in Tables /\ \A j \in Entries \ {i} : r[j] = u[j]
        /\ r[i].name = u[i].name /\ r[i].size = u[i].size
        /\ Place(r[i]) = Behind(u, i)
    BY <2>1, <2>2, FillEntry
  <2>5. Same(k + 1)
    BY <2>3, <2>4 DEF u, r
  <2>6. Rest(k + 1)
    <3> SUFFICES ASSUME NEW j \in Entries, ~ (j \in first .. first + (k + 1) - 1)
                 PROVE  r[j] = t[j]
      BY DEF r
    <3>1. ~ (j \in first .. first + k - 1) /\ j # i
      BY DEF Entries
    <3> QED
      BY <2>3, <2>4, <3>1 DEF u
  <2>7. Done(k + 1)
    <3> SUFFICES ASSUME NEW j \in Entries, j \in first .. first + (k + 1) - 1
                 PROVE  Place(r[j]) = Behind(r, j)
      BY DEF r
    <3>1. j # 0 => j - 1 \in Entries
      BY FileSystemAssumption DEF Entries
    <3>2. CASE j = i
      <4>1. Behind(r, i) = Behind(u, i)
        <5>1. i # 0 => i - 1 \in Entries \ {i}
          BY <3>1, <3>2 DEF Entries
        <5> QED
          BY <5>1, <2>4 DEF Behind
      <4> QED
        BY <3>2, <4>1, <2>4
    <3>3. CASE j # i
      <4>1. j \in first .. first + k - 1 /\ j - 1 # i
        BY <3>3
      <4>2. Behind(r, j) = Behind(u, j)
        BY <4>1, <3>1, <2>4 DEF Behind
      <4> QED
        BY <4>1, <4>2, <3>3, <2>3, <2>4 DEF u
    <3> QED
      BY <3>2, <3>3
  <2> QED
    BY <2>1, <2>5, <2>6, <2>7
<1>5. n \in S
  <2> HIDE DEF n, S
  <2>1. \A k \in 0 .. n : k \in S
    BY <1>1, <1>3, <1>4, CountingTo
  <2> QED
    BY <2>1, <1>1
<1>6. run[n] \in Tables
  BY <1>1, <1>2
<1>7. \A j \in Entries : j < first \/ j > last => ~ (j \in first .. first + n - 1)
  BY DEF Entries
<1>8. \A j \in Entries : j \in first .. last => j \in first .. first + n - 1
  BY DEF Entries
<1> HIDE DEF n
<1> QED
  BY <1>2, <1>5, <1>6, <1>7, <1>8

-----------------------------------------------------------------------------
(* Tables without overlap.                                                 *)

\* NoOverlap said of each entry and the one before it only.
Packed(t) ==
  /\ \A i \in Entries : (t[i].name # NoName) <=> (t[i].size >= 0)
  /\ \A i \in Entries \ {0} : t[i].size >= 0 => t[i - 1].size >= 0
  /\ \A i \in Entries : t[i].size >= 0 => Place(t[i]) >= Behind(t, i)

\* What lies between an entry in use and one behind it is in use too, so that
\* their ranges follow each other.
LEMMA PackedOrder ==
  ASSUME NEW t \in Tables, Packed(t), NEW i \in Entries, NEW j \in Entries,
         i < j, t[j].size >= 0
  PROVE  t[i].size >= 0 /\ Place(t[i]) + t[i].size <= Place(t[j])
<1> DEFINE Good(k) == k \in Entries /\ t[k].size >= 0 =>
                        t[i].size >= 0 /\ Place(t[i]) + t[i].size <= Place(t[k])
           S == {m \in Nat : Good(i + 1 + m)}
<1>1. ASSUME NEW k \in Entries \ {0}, t[k].size >= 0
      PROVE  /\ k - 1 \in Entries /\ t[k - 1].size >= 0
             /\ Place(t[k - 1]) + t[k - 1].size <= Place(t[k])
  <2>1. k - 1 \in Entries
    BY FileSystemAssumption DEF Entries
  <2>2. t[k - 1].size >= 0 /\ Place(t[k]) >= Behind(t, k)
    BY <1>1 DEF Packed
  <2>3. Behind(t, k) = Place(t[k - 1]) + t[k - 1].size
    BY <2>1, <2>2, RowFields DEF Behind, Held
  <2> QED
    BY <2>1, <2>2, <2>3, RowFields
<1>2. 0 \in S
  <2>1. i + 1 # 0 /\ (i + 1) - 1 = i /\ i + 1 + 0 = i + 1
    BY DEF Entries
  <2>2. Good(i + 1)
    BY <1>1, <2>1
  <2> QED
    BY <2>1, <2>2
<1>3. ASSUME NEW m \in S PROVE m + 1 \in S
  <2> DEFINE k == i + 1 + (m + 1)
  <2> SUFFICES ASSUME k \in Entries, t[k].size >= 0
               PROVE  t[i].size >= 0 /\ Place(t[i]) + t[i].size <= Place(t[k])
    OBVIOUS
  <2>1. k # 0 /\ k - 1 = i + 1 + m
    BY DEF Entries
  <2>2. /\ k - 1 \in Entries /\ t[k - 1].size >= 0
        /\ Place(t[k - 1]) + t[k - 1].size <= Place(t[k])
    BY <1>1, <2>1
  <2>3. t[i].size >= 0 /\ Place(t[i]) + t[i].size <= Place(t[k - 1])
    BY <2>1, <2>2
  <2> HIDE DEF k
  <2> QED
    BY <2>2, <2>3, RowFields
<1>4. S = Nat
  <2>1. S \in SUBSET Nat
    OBVIOUS
  <2> HIDE DEF S
  <2> QED
    BY <1>2, <1>3, <2>1, Counting
<1>5. j - i - 1 \in Nat /\ i + 1 + (j - i - 1) = j
  BY DEF Entries
<1> HIDE DEF Good
<1>6. Good(j)
  BY <1>4, <1>5
<1> QED
  BY <1>6 DEF Good

\* Every file lies in the data blocks.
LEMMA PackedStart ==
  ASSUME NEW t \in Tables, Packed(t), NEW i \in Entries, t[i].size >= 0
  PROVE  Place(t[i]) >= DATA_START * BS
<1>1. 0 \in Entries
  BY FileSystemAssumption DEF Entries
<1>2. t[0].size >= 0 /\ (i # 0 => Place(t[0]) + t[0].size <= Place(t[i]))
  <2>1. i # 0 => 0 < i
    BY DEF Entries
  <2> QED
    BY <1>1, <2>1, PackedOrder
<1>3. Place(t[0]) >= DATA_START * BS
  BY <1>1, <1>2 DEF Packed, Behind
<1> QED
  BY <1>1, <1>2, <1>3, RowFields, DataStart

\* A packed table keeps the files apart: what NoOverlap says of any two entries.
LEMMA PackedNoOverlap ==
  ASSUME NEW t \in Tables, Packed(t)
  PROVE  NoOverlap(t)
<1>1. \A i \in Entries : (t[i].name # NoName) <=> (t[i].size >= 0)
  BY DEF Packed
<1>2. \A i, j \in Entries : i < j /\ t[j].size >= 0 => t[i].size >= 0
  BY PackedOrder
<1>3. \A i, j \in Used(t) : i < j => Place(t[i]) + t[i].size <= Place(t[j])
  BY PackedOrder DEF Used
<1>4. \A i \in Used(t) : Place(t[i]) >= DATA_START * BS
  BY PackedStart DEF Used
<1> QED
  BY <1>1, <1>2, <1>3, <1>4 DEF NoOverlap

\* fs_create takes the first free entry: everything behind it is free.
LEMMA FreeBehind ==
  ASSUME NEW t \in Tables, Packed(t), NEW i \in Entries, t[i].size = -1,
         NEW j \in Entries, i <= j
  PROVE  t[j].size = -1
<1>1. t[j].size >= 0 => i = j \/ t[i].size >= 0
  BY PackedOrder DEF Entries
<1> QED
  BY <1>1, RowFields

\* A new file is put behind the others.
LEMMA CreateKeepsPacked ==
  ASSUME NEW t \in Tables, Packed(t), NEW i \in Entries, t[i].size = -1,
         \A j \in Entries : j < i => t[j].size # -1,
         NEW r \in Tables, NEW name \in Names,
         r[i].name = name, r[i].size = 0, Place(r[i]) = Behind(t, i),
         \A j \in Entries \ {i} : r[j] = t[j]
  PROVE  Packed(r)
<1>1. \A j \in Entries : i < j => r[j].size = -1
  <2> TAKE j \in Entries
  <2> HAVE i < j
  <2>1. i <= j /\ j # i
    BY DEF Entries
  <2> QED
    BY <2>1, FreeBehind
<1>2. \A j \in Entries : j < i => r[j] = t[j] /\ r[j].size >= 0
  <2> TAKE j \in Entries
  <2> HAVE j < i
  <2>1. j # i
    BY DEF Entries
  <2> QED
    BY <2>1, RowFields
<1>3. ASSUME NEW j \in Entries, j <= i PROVE Behind(r, j) = Behind(t, j)
  <2>1. j # 0 => j - 1 \in Entries /\ j - 1 < i
    BY <1>3, FileSystemAssumption DEF Entries
  <2> QED
    BY <2>1, <1>2 DEF Behind
<1>4. ASSUME NEW j \in Entries PROVE (r[j].name # NoName) <=> (r[j].size >= 0)
  BY FileSystemAssumption DEF Packed
<1>5. ASSUME NEW j \in Entries \ {0}, r[j].size >= 0 PROVE r[j - 1].size >= 0
  <2>1. j - 1 \in Entries /\ j - 1 < j /\ (j <= i \/ i < j)
    BY FileSystemAssumption DEF Entries
  <2>2. j <= i
    BY <1>1, <1>5, <2>1
  <2>3. j - 1 < i
    BY <2>2 DEF Entries
  <2> QED
    BY <1>2, <2>1, <2>3
<1>6. ASSUME NEW j \in Entries, r[j].size >= 0 PROVE Place(r[j]) >= Behind(r, j)
  <2>1. j <= i
    BY <1>1, <1>6 DEF Entries
  <2>2. Behind(r, j) = Behind(t, j)
    BY <2>1, <1>3
  <2>3. CASE j = i
    <3>1. Place(r[i]) \in Nat
      BY RowFields
    <3> QED
      BY <2>2, <2>3, <3>1
  <2>4. CASE j # i
    BY <2>2, <2>4, <1>6 DEF Packed
  <2> QED
    BY <2>3, <2>4
<1> QED
  BY <1>4, <1>5, <1>6 DEF Packed

\* A file grows when the next entry is free.
LEMMA GrowKeepsPacked ==
  ASSUME NEW t \in Tables, Packed(t), NEW f \in Entries, t[f].size >= 0,
         f + 1 \in Entries => t[f + 1].size = -1, NEW end \in 0 .. MaxSize
  PROVE  /\ [t EXCEPT ![f].size = end] \in Tables
         /\ Packed([t EXCEPT ![f].size = end])
<1> DEFINE r == [t EXCEPT ![f].size = end]
<1>1. t \in [Entries -> Row] /\ t[f] \in Row /\ end \in -1 .. MaxSize
  BY FileSystemAssumption DEF Tables
<1>2. /\ r \in Tables /\ \A j \in Entries \ {f} : r[j] = t[j]
      /\ r[f] = [t[f] EXCEPT !.size = end]
  BY <1>1 DEF Tables, Row
<1>3. r[f].size = end /\ r[f].name = t[f].name /\ Place(r[f]) = Place(t[f])
  BY <1>1, <1>2 DEF Row, Place
<1> HIDE DEF r
<1>4. \A j \in Entries : r[j].size >= 0 <=> t[j].size >= 0
  <2> TAKE j \in Entries
  <2>1. CASE j = f
    BY <2>1, <1>3
  <2>2. CASE j # f
    BY <2>2, <1>2
  <2> QED
    BY <2>1, <2>2
<1>5. ASSUME NEW j \in Entries, r[j].size >= 0 PROVE Behind(r, j) = Behind(t, j)
  <2>1. j # 0 => j - 1 \in Entries
    BY FileSystemAssumption DEF Entries
  <2>2. j # f + 1
    <3>1. t[j].size >= 0
      BY <1>4, <1>5
    <3> QED
      BY <3>1
  <2>3. j # 0 => j - 1 # f
    BY <2>2 DEF Entries
  <2> QED
    BY <2>1, <2>3, <1>2 DEF Behind
<1>6. \A j \in Entries : (r[j].name # NoName) <=> (r[j].size >= 0)
  BY <1>2, <1>3, <1>4 DEF Packed
<1>7. \A j \in Entries \ {0} : j - 1 \in Entries
  BY FileSystemAssumption DEF Entries
<1>8. \A j \in Entries \ {0} : r[j].size >= 0 => r[j - 1].size >= 0
  BY <1>4, <1>7 DEF Packed
<1>9. \A j \in Entries : r[j].size >= 0 => Place(r[j]) >= Behind(r, j)
  <2> TAKE j \in Entries
  <2> HAVE r[j].size >= 0
  <2>1. Place(t[j]) >= Behind(t, j)
    BY <1>4 DEF Packed
  <2>2. Place(r[j]) = Place(t[j])
    BY <1>2, <1>3
  <2> QED
    BY <2>1, <2>2, <1>5
<1>10. Packed(r)
  BY <1>6, <1>8, <1>9 DEF Packed
<1> QED
  BY <1>2, <1>10 DEF r

\* A file is cut off, and the entries from d on, but for the last, follow
\* each other without a gap again.
Shortened(r, t, f, length) ==
  /\ r \in Tables /\ Packed(r)
  /\ \A i \in Entries : r[i].name = t[i].name /\ r[i].size = IF i = f THEN length ELSE t[i].size
  /\ \A i \in Entries : Place(r[i]) = Behind(r, i) \/ Place(r[i]) = Place(t[i])

\* fs_truncate leaves a packed table.
LEMMA TruncateKeepsPacked ==
  ASSUME NEW t \in Tables, Packed(t), NEW f \in Entries, t[f].size >= 0,
         NEW length \in 0 .. MaxSize, length <= t[f].size, NEW d \in Nat
  PROVE  Shortened(FillFrom([t EXCEPT ![f].size = length], d, NFILES - 2), t, f, length)
<1> DEFINE u == [t EXCEPT ![f].size = length]
           r == FillFrom(u, d, NFILES - 2)
<1>1. t \in [Entries -> Row] /\ t[f] \in Row /\ length \in -1 .. MaxSize
  BY FileSystemAssumption DEF Tables
<1>2. /\ u \in Tables /\ \A j \in Entries \ {f} : u[j] = t[j]
      /\ u[f] = [t[f] EXCEPT !.size = length]
  BY <1>1 DEF Tables, Row
<1>3. u[f].size = length /\ u[f].name = t[f].name /\ Place(u[f]) = Place(t[f])
  BY <1>1, <1>2 DEF Row, Place
<1> HIDE DEF u
<1>4. NFILES - 2 \in Int /\ NFILES - 2 < NFILES
  BY FileSystemAssumption
<1>5. /\ r \in Tables
      /\ \A j \in Entries : r[j].name = u[j].name /\ r[j].size = u[j].size
      /\ \A j \in Entries : j < d \/ j > NFILES - 2 => r[j] = u[j]
      /\ \A j \in Entries : j \in d .. NFILES - 2 => Place(r[j]) = Behind(r, j)
  BY <1>2, <1>4, Filled
<1> HIDE DEF r
<1>6. ASSUME NEW j \in Entries
      PROVE  /\ r[j].name = t[j].name
             /\ r[j].size = IF j = f THEN length ELSE t[j].size
             /\ Place(u[j]) = Place(t[j])
  <2>1. CASE j = f
    BY <2>1, <1>3, <1>5
  <2>2. CASE j # f
    BY <2>2, <1>2, <1>5
  <2> QED
    BY <2>1, <2>2
<1>7. \A j \in Entries : r[j].size >= 0 <=> t[j].size >= 0
  BY <1>6
<1>8. \A j \in Entries : Held(r[j]) <= Held(t[j])
  <2> TAKE j \in Entries
  <2>1. t[j].size \in -1 .. MaxSize
    BY RowFields
  <2> QED
    BY <2>1, <1>6 DEF Held
<1>9. \A j \in Entries \ {0} : j - 1 \in Entries
  BY FileSystemAssumption DEF Entries
<1> DEFINE Down(j) == r[j].size >= 0 => Place(r[j]) <= Place(t[j])
<1>10. ASSUME NEW j \in Entries, r[j].size >= 0, j # 0 => Down(j - 1)
       PROVE  Behind(r, j) <= Place(t[j])
  <2>1. Place(t[j]) >= Behind(t, j)
    BY <1>7, <1>10 DEF Packed
  <2>2. CASE j = 0
    BY <2>1, <2>2 DEF Behind
  <2>3. CASE j # 0
    <3>1. j - 1 \in Entries /\ t[j - 1].size >= 0
      BY <2>3, <1>7, <1>9, <1>10 DEF Packed
    <3>2. Place(r[j - 1]) <= Place(t[j - 1]) /\ Held(r[j - 1]) <= Held(t[j - 1])
      BY <3>1, <2>3, <1>7, <1>8, <1>10
    <3>3. /\ Place(r[j - 1]) \in Nat /\ Place(t[j - 1]) \in Nat /\ Place(t[j]) \in Nat
          /\ Held(r[j - 1]) \in Nat /\ Held(t[j - 1]) \in Nat
      BY <3>1, <1>5, RowFields, FileSystemAssumption
    <3> QED
      BY <2>1, <2>3, <3>2, <3>3 DEF Behind
  <2> QED
    BY <2>2, <2>3
<1>11. ASSUME NEW j \in Entries, r[j].size >= 0, j # 0 => Down(j - 1)
       PROVE  Place(r[j]) >= Behind(r, j) /\ Place(r[j]) <= Place(t[j])
  <2>1. Behind(r, j) <= Place(t[j]) /\ Place(t[j]) \in Nat /\ Place(r[j]) \in Nat
    BY <1>5, <1>10, <1>11, RowFields
  <2>2. CASE j \in d .. NFILES - 2
    BY <2>1, <2>2, <1>5
  <2>3. CASE ~ (j \in d .. NFILES - 2)
    <3>1. j < d \/ j > NFILES - 2
      BY <2>3, FileSystemAssumption DEF Entries
    <3>2. Place(r[j]) = Place(t[j])
      BY <3>1, <1>5, <1>6
    <3> QED
      BY <2>1, <3>2
  <2> QED
    BY <2>2, <2>3
<1>12. \A j \in Entries : Down(j)
  <2> DEFINE S == {m \in Nat : m \in Entries => Down(m)}
  <2>1. 0 \in S
    BY <1>11
  <2>2. ASSUME NEW m \in S PROVE m + 1 \in S
    <3>1. (m + 1) - 1 = m /\ m + 1 # 0 /\ (m + 1 \in Entries => m \in Entries)
      BY FileSystemAssumption DEF Entries
    <3> QED
      BY <3>1, <1>11
  <2>3. S = Nat
    <3>1. S \in SUBSET Nat
      OBVIOUS
    <3> HIDE DEF S
    <3> QED
      BY <2>1, <2>2, <3>1, Counting
  <2> TAKE j \in Entries
  <2>4. j \in Nat
    BY DEF Entries
  <2> QED
    BY <2>3, <2>4
<1>13. \A j \in Entries : r[j].size >= 0 => Place(r[j]) >= Behind(r, j)
  BY <1>9, <1>11, <1>12
<1>14. \A j \in Entries : (r[j].name # NoName) <=> (r[j].size >= 0)
  BY <1>6, <1>7 DEF Packed
<1>15. \A j \in Entries \ {0} : r[j].size >= 0 => r[j - 1].size >= 0
  BY <1>7, <1>9 DEF Packed
<1>16. Packed(r)
  BY <1>13, <1>14, <1>15 DEF Packed
<1>17. ASSUME NEW j \in Entries PROVE Place(r[j]) = Behind(r, j) \/ Place(r[j]) = Place(t[j])
  <2>1. j \in d .. NFILES - 2 \/ j < d \/ j > NFILES - 2
    BY FileSystemAssumption DEF Entries
  <2> QED
    BY <2>1, <1>5, <1>6
<1>18. Shortened(r, t, f, length)
  BY <1>5, <1>6, <1>16, <1>17 DEF Shortened
<1> QED
  BY <1>18 DEF r, u

\* The entries behind a deleted one move up by one, and follow each other
\* without a gap.
LEMMA DeleteKeepsPacked ==
  ASSUME NEW t \in Tables, Packed(t), NEW g \in Entries
  PROVE  LET r == FillFrom(ShiftEntries(t, g), g, NFILES - 1)
         IN  /\ r \in Tables /\ Packed(r)
             /\ \A i \in Entries : i < g => r[i] = t[i]
             /\ \A i \in Entries : i >= g /\ i + 1 \in Entries =>
                  r[i].name = t[i + 1].name /\ r[i].size = t[i + 1].size
             /\ r[NFILES - 1].size = -1
             /\ \A i \in Entries : i >= g => Place(r[i]) = Behind(r, i)
<1> DEFINE u == ShiftEntries(t, g)
           r == FillFrom(u, g, NFILES - 1)
<1>1. t \in [Entries -> Row]
  BY DEF Tables
<1>2. ASSUME NEW i \in Entries
      PROVE  /\ u[i] \in Row
             /\ i < g => u[i] = t[i]
             /\ i >= g /\ i + 1 \in Entries => u[i] = t[i + 1]
             /\ i >= g /\ i + 1 \notin Entries => u[i].name = NoName /\ u[i].size = -1
  <2>1. i + 1 \in Entries <=> i < NFILES - 1
    BY FileSystemAssumption DEF Entries
  <2>2. t[i] \in Row
    BY <1>1
  <2>3. [t[i] EXCEPT !.name = NoName, !.size = -1] \in Row
    <3> DEFINE unnamed == [t[i] EXCEPT !.name = NoName]
    <3>1. unnamed \in Row
      BY <2>2 DEF Row
    <3>2. [t[i] EXCEPT !.name = NoName, !.size = -1] = [unnamed EXCEPT !.size = -1]
      OBVIOUS
    <3> HIDE DEF unnamed
    <3>3. [unnamed EXCEPT !.size = -1] \in Row
      BY <3>1, FileSystemAssumption DEF Row
    <3> QED
      BY <3>2, <3>3
  <2>4. /\ [t[i] EXCEPT !.name = NoName, !.size = -1].name = NoName
        /\ [t[i] EXCEPT !.name = NoName, !.size = -1].size = -1
    BY <2>2 DEF Row
  <2>5. u[i] = IF i < g THEN t[i] ELSE IF i < NFILES - 1 THEN t[i + 1]
               ELSE [t[i] EXCEPT !.name = NoName, !.size = -1]
    BY DEF ShiftEntries
  <2>6. i + 1 \in Entries => t[i + 1] \in Row
    BY <1>1
  <2>7. i < g <=> ~ (i >= g)
    BY DEF Entries
  <2> HIDE DEF u
  <2> QED
    BY <2>1, <2>2, <2>3, <2>4, <2>5, <2>6, <2>7
<1>3. u \in Tables
  <2>1. u = [i \in Entries |-> u[i]]
    BY DEF ShiftEntries
  <2> HIDE DEF u
  <2> QED
    BY <1>2, <2>1 DEF Tables
<1> HIDE DEF u
<1>4. NFILES - 1 \in Int /\ NFILES - 1 < NFILES /\ g \in Nat
  BY FileSystemAssumption DEF Entries
<1>5. /\ r \in Tables
      /\ \A j \in Entries : r[j].name = u[j].name /\ r[j].size = u[j].size
      /\ \A j \in Entries : j < g \/ j > NFILES - 1 => r[j] = u[j]
      /\ \A j \in Entries : j \in g .. NFILES - 1 => Place(r[j]) = Behind(r, j)
  BY <1>3, <1>4, Filled
<1> HIDE DEF r
<1>6. \A i \in Entries : i < g => r[i] = t[i]
  BY <1>2, <1>5
<1>7. \A i \in Entries : i >= g /\ i + 1 \in Entries =>
                           r[i].name = t[i + 1].name /\ r[i].size = t[i + 1].size
  BY <1>2, <1>5
<1>8. \A i \in Entries : i >= g /\ i + 1 \notin Entries => r[i].name = NoName /\ r[i].size = -1
  BY <1>2, <1>5
<1>9. \A i \in Entries : i >= g => Place(r[i]) = Behind(r, i)
  <2> TAKE i \in Entries
  <2> HAVE i >= g
  <2>1. i \in g .. NFILES - 1
    BY DEF Entries
  <2> QED
    BY <2>1, <1>5
<1>10. \A j \in Entries \ {0} : j - 1 \in Entries /\ (j - 1) + 1 = j
  BY FileSystemAssumption DEF Entries
<1>11. ASSUME NEW i \in Entries PROVE (r[i].name # NoName) <=> (r[i].size >= 0)
  <2>1. CASE i < g
    BY <2>1, <1>6 DEF Packed
  <2>2. CASE i >= g /\ i + 1 \in Entries
    BY <2>2, <1>7 DEF Packed
  <2>3. CASE i >= g /\ i + 1 \notin Entries
    BY <2>3, <1>8
  <2>4. i < g \/ i >= g
    BY DEF Entries
  <2> QED
    BY <2>1, <2>2, <2>3, <2>4
<1>12. ASSUME NEW i \in Entries \ {0}, r[i].size >= 0 PROVE r[i - 1].size >= 0
  <2>1. i - 1 \in Entries /\ (i - 1) + 1 = i
    BY <1>10
  <2>2. CASE i < g
    <3>1. i - 1 < g
      BY <2>2 DEF Entries
    <3> QED
      BY <2>1, <2>2, <3>1, <1>6, <1>12 DEF Packed
  <2>3. CASE i >= g /\ i + 1 \in Entries
    <3>1. t[i + 1].size >= 0 /\ i + 1 # 0 /\ (i + 1) - 1 = i
      BY <2>3, <1>7, <1>12 DEF Entries
    <3>2. t[i].size >= 0
      BY <2>3, <3>1 DEF Packed
    <3>3. t[i - 1].size >= 0
      BY <3>2 DEF Packed
    <3>4. i - 1 < g \/ i - 1 >= g
      BY DEF Entries
    <3> QED
      BY <2>1, <3>2, <3>3, <3>4, <1>6, <1>7
  <2>4. CASE i >= g /\ i + 1 \notin Entries
    BY <2>4, <1>8, <1>12
  <2>5. i < g \/ i >= g
    BY DEF Entries
  <2> QED
    BY <2>2, <2>3, <2>4, <2>5
<1>13. ASSUME NEW i \in Entries, r[i].size >= 0 PROVE Place(r[i]) >= Behind(r, i)
  <2>0. Place(r[i]) \in Nat
    BY <1>5, RowFields
  <2>1. CASE i < g
    <3>1. i # 0 => i - 1 \in Entries /\ i - 1 < g
      BY <2>1, <1>10 DEF Entries
    <3>2. Behind(r, i) = Behind(t, i)
      BY <3>1, <1>6 DEF Behind
    <3> QED
      BY <2>1, <3>2, <1>6, <1>13 DEF Packed
  <2>2. CASE i >= g
    BY <2>0, <2>2, <1>9
  <2>3. i < g \/ i >= g
    BY DEF Entries
  <2> QED
    BY <2>1, <2>2, <2>3
<1>14. Packed(r)
  BY <1>11, <1>12, <1>13 DEF Packed
<1>15. r[NFILES - 1].size = -1
  <2>1. NFILES - 1 \in Entries /\ NFILES - 1 >= g /\ (NFILES - 1) + 1 \notin Entries
    BY FileSystemAssumption DEF Entries
  <2> QED
    BY <2>1, <1>8
<1> QED
  BY <1>5, <1>6, <1>7, <1>9, <1>14, <1>15 DEF r, u

\* Find and FirstFree return the first entry there is, or NFILES.
LEMMA FindIs ==
  ASSUME NEW t, NEW name
  PROVE  /\ Find(t, name) \in 0 .. NFILES
         /\ Find(t, name) \in Entries => t[Find(t, name)].name = name
         /\ Find(t, name) # NFILES => Find(t, name) \in Entries
<1> DEFINE P(i) == i \in Entries => t[i].name = name
           S == {i \in 0 .. NFILES : P(i)}
<1>1. NFILES \in S
  BY FileSystemAssumption DEF Entries
<1>2. S \in SUBSET Nat
  OBVIOUS
<1>3. PICK i \in S : \A j \in S : i <= j
  <2> HIDE DEF S
  <2> QED
    BY <1>1, <1>2, LeastElement
<1>4. \A j \in 0 .. (i - 1) : t[j].name # name
  <2> TAKE j \in 0 .. (i - 1)
  <2>1. j \in 0 .. NFILES /\ j \in Entries /\ ~ (i <= j)
    BY FileSystemAssumption DEF Entries
  <2> QED
    BY <2>1, <1>3
<1>5. \E k \in 0 .. NFILES : /\ k \in Entries => t[k].name = name
                             /\ \A j \in 0 .. (k - 1) : t[j].name # name
  BY <1>3, <1>4
<1>6. /\ Find(t, name) \in 0 .. NFILES
      /\ Find(t, name) \in Entries => t[Find(t, name)].name = name
  BY <1>5 DEF Find
<1> QED
  BY <1>6, FileSystemAssumption DEF Entries

\* fs_create finds a free entry when there is one, and none before it.
LEMMA FirstFreeIs ==
  ASSUME NEW t
  PROVE  /\ FirstFree(t) \in 0 .. NFILES
         /\ FirstFree(t) \in Entries => t[FirstFree(t)].size = -1
         /\ FirstFree(t) # NFILES => FirstFree(t) \in Entries
         /\ \A j \in Entries : j < FirstFree(t) => t[j].size # -1
<1> DEFINE P(i) == i \in Entries => t[i].size = -1
           S == {i \in 0 .. NFILES : P(i)}
<1>1. NFILES \in S
  BY FileSystemAssumption DEF Entries
<1>2. S \in SUBSET Nat
  OBVIOUS
<1>3. PICK i \in S : \A j \in S : i <= j
  <2> HIDE DEF S
  <2> QED
    BY <1>1, <1>2, LeastElement
<1>4. \A j \in 0 .. (i - 1) : t[j].size # -1
  <2> TAKE j \in 0 .. (i - 1)
  <2>1. j \in 0 .. NFILES /\ j \in Entries /\ ~ (i <= j)
    BY FileSystemAssumption DEF Entries
  <2> QED
    BY <2>1, <1>3
<1>5. \E k \in 0 .. NFILES : /\ k \in Entries => t[k].size = -1
                             /\ \A j \in 0 .. (k - 1) : t[j].size # -1
  BY <1>3, <1>4
<1>6. /\ FirstFree(t) \in 0 .. NFILES
      /\ FirstFree(t) \in Entries => t[FirstFree(t)].size = -1
      /\ \A j \in 0 .. (FirstFree(t) - 1) : t[j].size # -1
  BY <1>5 DEF FirstFree
<1> QED
  BY <1>6, FileSystemAssumption DEF Entries

-----------------------------------------------------------------------------
(* The disk.                                                               *)

DataBlocks == DATA_START .. (DISK_BLOCKS - 1)
Disks == [DataBlocks -> Buffer]
Images == Seq(Disks) \ {<< >>}

\* Reading gives the block that is on the disk, and leaves the buffer as it is
\* when there is no such block.
LEMMA ReadIs ==
  ASSUME NEW disk \in Disks, NEW b, NEW buf \in Buffer
  PROVE  /\ BlockRead(disk, b, buf) \in Buffer
         /\ b \in DataBlocks => BlockRead(disk, b, buf) = disk[b]
         /\ b \notin DataBlocks => BlockRead(disk, b, buf) = buf
BY DEF BlockRead, Disks

\* One more write makes one more image, which differs in its block only.
LEMMA WrittenIs ==
  ASSUME NEW images \in Images, NEW b, NEW buf \in Buffer
  PROVE  /\ Written(images, b, buf) \in Images
         /\ Last(images) \in Disks /\ Last(Written(images, b, buf)) \in Disks
         /\ b \in DataBlocks => Last(Written(images, b, buf))[b] = buf
         /\ \A c \in DataBlocks : c # b => Last(Written(images, b, buf))[c] = Last(images)[c]
<1> DEFINE disk == Last(images)
           next == BlockWrite(disk, b, buf)
<1>1. images \in Seq(Disks) /\ Len(images) \in Nat /\ Len(images) # 0
  BY DEF Images
<1>2. disk \in Disks
  BY <1>1 DEF Last
<1> HIDE DEF disk
<1>3. /\ next \in Disks
      /\ b \in DataBlocks => next[b] = buf
      /\ \A c \in DataBlocks : c # b => next[c] = disk[c]
  BY <1>2 DEF BlockWrite, Disks
<1> HIDE DEF next
<1>4. Written(images, b, buf) = Append(images, next)
  BY DEF Written, next, disk
<1>5. /\ Append(images, next) \in Seq(Disks)
      /\ Len(Append(images, next)) = Len(images) + 1
      /\ Append(images, next)[Len(images) + 1] = next
  BY <1>1, <1>3
<1>6. Written(images, b, buf) \in Images /\ Last(Written(images, b, buf)) = next
  <2>1. Append(images, next) # << >>
    BY <1>1, <1>5
  <2> QED
    BY <1>4, <1>5, <2>1 DEF Images, Last
<1> QED
  BY <1>2, <1>3, <1>6 DEF disk

\* A call starts with one image, the disk it finds.
LEMMA ImagesStart ==
  ASSUME NEW disk \in Disks
  PROVE  <<disk>> \in Images /\ Last(<<disk>>) = disk
<1>1. <<disk>> \in Seq(Disks) /\ Len(<<disk>>) = 1 /\ <<disk>>[1] = disk
  OBVIOUS
<1>2. <<disk>> # << >>
  BY <1>1
<1> QED
  BY <1>1, <1>2 DEF Images, Last

\* Any image is a disk, the last one too.
LEMMA ImagesAre ==
  ASSUME NEW images \in Images
  PROVE  Last(images) \in Disks /\ \A disk \in ToSet(images) : disk \in Disks
<1>1. images \in Seq(Disks) /\ Len(images) \in Nat /\ Len(images) # 0
  BY DEF Images
<1> QED
  BY <1>1 DEF Last, ToSet

-----------------------------------------------------------------------------
(* shiftBlocks.                                                            *)

Shifting == [images : Images, block1 : Nat, offset1 : 0 .. BS, buffer1 : Buffer,
             block2 : Nat, offset2 : -1 .. BS, buffer2 : Buffer]

\* The place that is written next, and the one that is read next.
To(s) == s.block1 * BS + s.offset1
From(s) == s.block2 * BS + s.offset2

\* What shiftBlocks keeps while it moves bytes.
LEMMA ShiftingFields ==
  ASSUME NEW s \in Shifting
  PROVE  /\ s.images \in Images /\ s.block1 \in Nat /\ s.offset1 \in 0 .. BS /\ s.buffer1 \in Buffer
         /\ s.block2 \in Nat /\ s.offset2 \in -1 .. BS /\ s.buffer2 \in Buffer
         /\ To(s) \in Nat /\ From(s) \in Int
<1>1. /\ s.images \in Images /\ s.block1 \in Nat /\ s.offset1 \in 0 .. BS /\ s.buffer1 \in Buffer
      /\ s.block2 \in Nat /\ s.offset2 \in -1 .. BS /\ s.buffer2 \in Buffer
  BY DEF Shifting
<1>2. s.block1 \in Int /\ s.block2 \in Int
  BY <1>1
<1>3. s.block1 * BS \in Nat /\ s.block2 * BS \in Int
  BY <1>1, <1>2, FileSystemAssumption
<1> QED
  BY <1>1, <1>3, FileSystemAssumption DEF To, From

\* The number of bytes of a round.
Round(s) == BS - (IF s.offset1 > s.offset2 THEN s.offset1 ELSE s.offset2)
Copied(s, stray) == [s EXCEPT !.buffer1 = MemCopy(s, Round(s), stray),
                              !.offset1 = @ + Round(s), !.offset2 = @ + Round(s)]

\* One memcpy of shiftBlocks stays in its two buffers and fills one of them.
LEMMA CopiedIs ==
  ASSUME NEW s \in Shifting, s.offset2 # BS, NEW stray \in Bytes
  PROVE  LET t == Copied(s, stray)
         IN  /\ t \in Shifting
             /\ t.images = s.images /\ t.block1 = s.block1
             /\ t.block2 = s.block2 /\ t.buffer2 = s.buffer2
             /\ t.offset1 = s.offset1 + Round(s) /\ t.offset2 = s.offset2 + Round(s)
             /\ t.offset1 = BS \/ t.offset2 = BS
             /\ Round(s) \in Nat
             /\ \A q \in 0 .. BS - 1 :
                  /\ q < s.offset1 => t.buffer1[q] = s.buffer1[q]
                  /\ s.offset1 <= q /\ q < t.offset1 /\ s.offset2 # -1 =>
                       /\ s.offset2 + q - s.offset1 \in 0 .. BS - 1
                       /\ t.buffer1[q] = s.buffer2[s.offset2 + q - s.offset1]
<1> DEFINE n == Round(s)
           buf == MemCopy(s, n, stray)
           t == Copied(s, stray)
<1>1. /\ s.offset1 \in 0 .. BS /\ s.offset2 \in -1 .. BS - 1
      /\ s.buffer1 \in Buffer /\ s.buffer2 \in Buffer
  BY ShiftingFields, FileSystemAssumption
<1>2. /\ n \in Nat /\ s.offset1 + n \in 0 .. BS /\ s.offset2 + n \in -1 .. BS
      /\ s.offset1 + n = BS \/ s.offset2 + n = BS
  BY <1>1, FileSystemAssumption DEF Round
<1> HIDE DEF n
<1>3. ASSUME NEW q \in 0 .. BS - 1
      PROVE  /\ buf[q] \in Bytes
             /\ q < s.offset1 => buf[q] = s.buffer1[q]
             /\ s.offset1 <= q /\ q < s.offset1 + n /\ s.offset2 # -1 =>
                  /\ s.offset2 + q - s.offset1 \in 0 .. BS - 1
                  /\ buf[q] = s.buffer2[s.offset2 + q - s.offset1]
  <2>1. buf[q] = IF q \in s.offset1..(s.offset1 + n - 1)
                 THEN IF s.offset2 + q - s.offset1 = -1 THEN stray
                      ELSE s.buffer2[s.offset2 + q - s.offset1]
                 ELSE s.buffer1[q]
    BY DEF MemCopy
  <2>2. q \in s.offset1..(s.offset1 + n - 1) =>
          s.offset2 + q - s.offset1 \in -1 .. BS - 1
    BY <1>1, <1>2, FileSystemAssumption
  <2>3. s.buffer1[q] \in Bytes /\ \A k \in 0 .. BS - 1 : s.buffer2[k] \in Bytes
    BY <1>1 DEF Buffer
  <2>4. buf[q] \in Bytes
    <3>1. q \in s.offset1..(s.offset1 + n - 1) /\ s.offset2 + q - s.offset1 # -1 =>
            s.offset2 + q - s.offset1 \in 0 .. BS - 1
      BY <2>2, <1>1, <1>2, FileSystemAssumption
    <3> HIDE DEF buf
    <3> QED
      BY <2>1, <2>3, <3>1
  <2>5. q < s.offset1 => buf[q] = s.buffer1[q]
    BY <2>1, <1>1, <1>2, FileSystemAssumption
  <2>6. s.offset1 <= q /\ q < s.offset1 + n /\ s.offset2 # -1 =>
          q \in s.offset1..(s.offset1 + n - 1) /\ s.offset2 + q - s.offset1 \in 0 .. BS - 1
    BY <1>1, <1>2, FileSystemAssumption
  <2>7. s.offset2 + q - s.offset1 \in 0 .. BS - 1 => s.offset2 + q - s.offset1 # -1
    BY <1>1, FileSystemAssumption
  <2> HIDE DEF buf
  <2> QED
    BY <2>1, <2>4, <2>5, <2>6, <2>7
<1>4. buf \in Buffer
  <2>1. buf = [k \in 0 .. (BS - 1) |-> buf[k]]
    BY DEF MemCopy
  <2> HIDE DEF buf
  <2> QED
    BY <1>3, <2>1 DEF Buffer
<1> HIDE DEF buf
<1>5. s = [images |-> s.images, block1 |-> s.block1, offset1 |-> s.offset1, buffer1 |-> s.buffer1,
           block2 |-> s.block2, offset2 |-> s.offset2, buffer2 |-> s.buffer2]
  BY DEF Shifting
<1>e. t = [s EXCEPT !.buffer1 = buf, !.offset1 = @ + n, !.offset2 = @ + n]
  BY DEF Copied, buf, n
<1> HIDE DEF t
<1>6. t = [images |-> s.images, block1 |-> s.block1, offset1 |-> s.offset1 + n, buffer1 |-> buf,
           block2 |-> s.block2, offset2 |-> s.offset2 + n, buffer2 |-> s.buffer2]
  BY <1>5, <1>e
<1>7. t \in Shifting
  BY <1>2, <1>4, <1>6, ShiftingFields DEF Shifting
<1>8. /\ t.images = s.images /\ t.block1 = s.block1
      /\ t.block2 = s.block2 /\ t.buffer2 = s.buffer2 /\ t.buffer1 = buf
      /\ t.offset1 = s.offset1 + n /\ t.offset2 = s.offset2 + n
  BY <1>6
<1> QED
  BY <1>2, <1>3, <1>7, <1>8 DEF t, n

\* A first buffer that is full goes to the disk, and the next block comes in.
LEMMA AdvanceFirstIs ==
  ASSUME NEW s \in Shifting
  PROVE  LET t == AdvanceFirst(s)
         IN  /\ t \in Shifting
             /\ s.offset1 # BS => t = s
             /\ t.block2 = s.block2 /\ t.offset2 = s.offset2 /\ t.buffer2 = s.buffer2
             /\ s.offset1 = BS =>
                  /\ t.images = Written(s.images, s.block1, s.buffer1)
                  /\ t.block1 = s.block1 + 1 /\ t.offset1 = 0
                  /\ t.buffer1 = BlockRead(Last(t.images), s.block1 + 1, s.buffer1)
<1> DEFINE t == AdvanceFirst(s)
           done == Written(s.images, s.block1, s.buffer1)
           buf == BlockRead(Last(done), s.block1 + 1, s.buffer1)
<1>1. CASE s.offset1 # BS
  BY <1>1 DEF AdvanceFirst
<1>2. CASE s.offset1 = BS
  <2>1. done \in Images /\ Last(done) \in Disks
    BY ShiftingFields, WrittenIs
  <2>2. buf \in Buffer
    BY <2>1, ShiftingFields, ReadIs
  <2>3. s = [images |-> s.images, block1 |-> s.block1, offset1 |-> s.offset1, buffer1 |-> s.buffer1,
             block2 |-> s.block2, offset2 |-> s.offset2, buffer2 |-> s.buffer2]
    BY DEF Shifting
  <2>4. t = [s EXCEPT !.images = done, !.block1 = @ + 1, !.offset1 = 0, !.buffer1 = buf]
    BY <1>2 DEF AdvanceFirst
  <2> HIDE DEF t, done, buf
  <2>5. t = [images |-> done, block1 |-> s.block1 + 1, offset1 |-> 0, buffer1 |-> buf,
             block2 |-> s.block2, offset2 |-> s.offset2, buffer2 |-> s.buffer2]
    BY <2>3, <2>4
  <2>6. t \in Shifting
    BY <2>1, <2>2, <2>5, ShiftingFields, FileSystemAssumption DEF Shifting
  <2>7. /\ t.images = done /\ t.block1 = s.block1 + 1 /\ t.offset1 = 0 /\ t.buffer1 = buf
        /\ t.block2 = s.block2 /\ t.offset2 = s.offset2 /\ t.buffer2 = s.buffer2
    BY <2>5
  <2> QED
    BY <1>2, <2>6, <2>7 DEF t, done, buf
<1> QED
  BY <1>1, <1>2

\* A second buffer that is used up goes to the disk, and the next block comes in.
LEMMA AdvanceSecondIs ==
  ASSUME NEW s \in Shifting
  PROVE  LET t == AdvanceSecond(s)
         IN  /\ t \in Shifting
             /\ s.offset2 # BS => t = s
             /\ t.block1 = s.block1 /\ t.offset1 = s.offset1 /\ t.buffer1 = s.buffer1
             /\ s.offset2 = BS =>
                  /\ t.images = Written(s.images, s.block2, s.buffer2)
                  /\ t.block2 = s.block2 + 1 /\ t.offset2 = 0
                  /\ t.buffer2 = BlockRead(Last(t.images), s.block2 + 1, s.buffer2)
<1> DEFINE t == AdvanceSecond(s)
           done == Written(s.images, s.block2, s.buffer2)
           buf == BlockRead(Last(done), s.block2 + 1, s.buffer2)
<1>1. CASE s.offset2 # BS
  BY <1>1 DEF AdvanceSecond
<1>2. CASE s.offset2 = BS
  <2>1. done \in Images /\ Last(done) \in Disks
    BY ShiftingFields, WrittenIs
  <2>2. buf \in Buffer
    BY <2>1, ShiftingFields, ReadIs
  <2>3. s = [images |-> s.images, block1 |-> s.block1, offset1 |-> s.offset1, buffer1 |-> s.buffer1,
             block2 |-> s.block2, offset2 |-> s.offset2, buffer2 |-> s.buffer2]
    BY DEF Shifting
  <2>4. t = [s EXCEPT !.images = done, !.block2 = @ + 1, !.offset2 = 0, !.buffer2 = buf]
    BY <1>2 DEF AdvanceSecond
  <2> HIDE DEF t, done, buf
  <2>5. t = [images |-> done, block1 |-> s.block1, offset1 |-> s.offset1, buffer1 |-> s.buffer1,
             block2 |-> s.block2 + 1, offset2 |-> 0, buffer2 |-> buf]
    BY <2>3, <2>4
  <2>6. t \in Shifting
    BY <2>1, <2>2, <2>5, ShiftingFields, FileSystemAssumption DEF Shifting
  <2>7. /\ t.images = done /\ t.block2 = s.block2 + 1 /\ t.offset2 = 0 /\ t.buffer2 = buf
        /\ t.block1 = s.block1 /\ t.offset1 = s.offset1 /\ t.buffer1 = s.buffer1
    BY <2>5
  <2> QED
    BY <1>2, <2>6, <2>7 DEF t, done, buf
<1> QED
  BY <1>1, <1>2

\* What lies in front of the place p is as it was, on the disk and in both
\* buffers.
FrontOf(disk, old, p) ==
  \A b \in DataBlocks, q \in 0 .. BS - 1 : b * BS + q < p => disk[b][q] = old[b][q]
BufferFront(buf, b, old, p) ==
  b \in DataBlocks => \A q \in 0 .. BS - 1 : b * BS + q < p => buf[q] = old[b][q]
FrontKept(s, old, p) ==
  /\ To(s) >= p
  /\ FrontOf(Last(s.images), old, p)
  /\ BufferFront(s.buffer1, s.block1, old, p)
  /\ BufferFront(s.buffer2, s.block2, old, p)

\* A buffer that is right in front of p leaves the disk right there.
LEMMA WriteKeepsFront ==
  ASSUME NEW images \in Images, NEW b \in Nat, NEW buf \in Buffer,
         NEW old \in Disks, NEW p \in Nat,
         FrontOf(Last(images), old, p), BufferFront(buf, b, old, p)
  PROVE  /\ FrontOf(Last(Written(images, b, buf)), old, p)
         /\ \A c \in Nat : BufferFront(BlockRead(Last(Written(images, b, buf)), c, buf), c, old, p)
<1> DEFINE disk == Last(Written(images, b, buf))
<1>1. /\ disk \in Disks /\ (b \in DataBlocks => disk[b] = buf)
      /\ \A c \in DataBlocks : c # b => disk[c] = Last(images)[c]
  BY WrittenIs
<1> HIDE DEF disk
<1>2. FrontOf(disk, old, p)
  <2> SUFFICES ASSUME NEW c \in DataBlocks, NEW q \in 0 .. BS - 1, c * BS + q < p
               PROVE  disk[c][q] = old[c][q]
    BY DEF FrontOf
  <2>1. CASE c = b
    BY <2>1, <1>1 DEF BufferFront
  <2>2. CASE c # b
    BY <2>2, <1>1 DEF FrontOf
  <2> QED
    BY <2>1, <2>2
<1>3. ASSUME NEW c \in Nat PROVE BufferFront(BlockRead(disk, c, buf), c, old, p)
  <2>1. c \in DataBlocks => BlockRead(disk, c, buf) = disk[c]
    BY <1>1, ReadIs
  <2> QED
    BY <2>1, <1>2 DEF BufferFront, FrontOf
<1> QED
  BY <1>2, <1>3 DEF disk

\* Where the next block starts.
LEMMA NextBlock ==
  ASSUME NEW b \in Int
  PROVE  (b + 1) * BS = b * BS + BS /\ b * BS \in Int
BY FileSystemAssumption

\* Taking the next first block keeps what is in front of p, and the place.
LEMMA AdvanceFirstFront ==
  ASSUME NEW s \in Shifting, NEW old \in Disks, NEW p \in Nat, FrontKept(s, old, p)
  PROVE  FrontKept(AdvanceFirst(s), old, p) /\ To(AdvanceFirst(s)) = To(s)
<1> DEFINE t == AdvanceFirst(s)
<1>1. CASE s.offset1 # BS
  BY <1>1, AdvanceFirstIs
<1>2. CASE s.offset1 = BS
  <2>1. /\ t.images = Written(s.images, s.block1, s.buffer1)
        /\ t.block1 = s.block1 + 1 /\ t.offset1 = 0
        /\ t.buffer1 = BlockRead(Last(t.images), s.block1 + 1, s.buffer1)
        /\ t.block2 = s.block2 /\ t.buffer2 = s.buffer2
    BY <1>2, AdvanceFirstIs
  <2> HIDE DEF t
  <2>2. /\ s.images \in Images /\ s.block1 \in Nat /\ s.buffer1 \in Buffer
        /\ s.block1 + 1 \in Nat
    BY ShiftingFields
  <2>3. /\ FrontOf(Last(t.images), old, p)
        /\ BufferFront(t.buffer1, s.block1 + 1, old, p)
    BY <2>1, <2>2, WriteKeepsFront DEF FrontKept
  <2>4. To(t) = To(s)
    <3>1. s.block1 \in Int
      BY <2>2
    <3>2. (s.block1 + 1) * BS = s.block1 * BS + BS /\ s.block1 * BS \in Int
      BY <3>1, NextBlock
    <3> QED
      BY <1>2, <2>1, <3>2, FileSystemAssumption DEF To
  <2> QED
    BY <2>1, <2>3, <2>4 DEF FrontKept, t
<1> QED
  BY <1>1, <1>2

\* Taking the next second block keeps what is in front of p, and the place.
LEMMA AdvanceSecondFront ==
  ASSUME NEW s \in Shifting, NEW old \in Disks, NEW p \in Nat, FrontKept(s, old, p)
  PROVE  FrontKept(AdvanceSecond(s), old, p) /\ From(AdvanceSecond(s)) = From(s)
<1> DEFINE t == AdvanceSecond(s)
<1>1. CASE s.offset2 # BS
  BY <1>1, AdvanceSecondIs
<1>2. CASE s.offset2 = BS
  <2>1. /\ t.images = Written(s.images, s.block2, s.buffer2)
        /\ t.block2 = s.block2 + 1 /\ t.offset2 = 0
        /\ t.buffer2 = BlockRead(Last(t.images), s.block2 + 1, s.buffer2)
        /\ t.block1 = s.block1 /\ t.offset1 = s.offset1 /\ t.buffer1 = s.buffer1
    BY <1>2, AdvanceSecondIs
  <2> HIDE DEF t
  <2>2. /\ s.images \in Images /\ s.block2 \in Nat /\ s.buffer2 \in Buffer
        /\ s.block2 + 1 \in Nat
    BY ShiftingFields
  <2>3. /\ FrontOf(Last(t.images), old, p)
        /\ BufferFront(t.buffer2, s.block2 + 1, old, p)
    BY <2>1, <2>2, WriteKeepsFront DEF FrontKept
  <2>4. From(t) = From(s)
    <3>1. s.block2 \in Int
      BY <2>2
    <3>2. (s.block2 + 1) * BS = s.block2 * BS + BS /\ s.block2 * BS \in Int
      BY <3>1, NextBlock
    <3> QED
      BY <1>2, <2>1, <3>2, FileSystemAssumption DEF From
  <2>5. To(t) = To(s)
    BY <2>1 DEF To
  <2> QED
    BY <2>1, <2>3, <2>4, <2>5 DEF FrontKept, t
<1> QED
  BY <1>1, <1>2

\* What is copied comes behind p.
LEMMA CopiedFront ==
  ASSUME NEW s \in Shifting, s.offset2 # BS, NEW stray \in Bytes,
         NEW old \in Disks, NEW p \in Nat, FrontKept(s, old, p)
  PROVE  /\ FrontKept(Copied(s, stray), old, p)
         /\ To(Copied(s, stray)) = To(s) + Round(s)
         /\ From(Copied(s, stray)) = From(s) + Round(s)
<1> DEFINE t == Copied(s, stray)
<1>1. /\ t.images = s.images /\ t.block1 = s.block1
      /\ t.block2 = s.block2 /\ t.buffer2 = s.buffer2
      /\ t.offset1 = s.offset1 + Round(s) /\ t.offset2 = s.offset2 + Round(s)
      /\ Round(s) \in Nat
  BY CopiedIs
<1>2. \A q \in 0 .. BS - 1 : q < s.offset1 => t.buffer1[q] = s.buffer1[q]
  BY CopiedIs
<1> HIDE DEF t
<1>3. /\ s.block1 * BS \in Int /\ s.offset1 \in Nat /\ s.block2 * BS \in Int /\ s.offset2 \in Int
      /\ To(s) \in Nat
  <2>1. s.block1 \in Int /\ s.block2 \in Int
    BY ShiftingFields
  <2> QED
    BY <2>1, ShiftingFields, NextBlock, FileSystemAssumption
<1>4. To(t) = To(s) + Round(s) /\ From(t) = From(s) + Round(s)
  BY <1>1, <1>3 DEF To, From
<1>5. BufferFront(t.buffer1, s.block1, old, p)
  <2> SUFFICES ASSUME s.block1 \in DataBlocks, NEW q \in 0 .. BS - 1, s.block1 * BS + q < p
               PROVE  t.buffer1[q] = old[s.block1][q]
    BY DEF BufferFront
  <2>1. q < s.offset1
    BY <1>3 DEF FrontKept, To
  <2> QED
    BY <2>1, <1>2 DEF FrontKept, BufferFront
<1>6. To(t) >= p
  BY <1>1, <1>3, <1>4 DEF FrontKept
<1> QED
  BY <1>1, <1>4, <1>5, <1>6 DEF FrontKept, t

\* Whatever is shifted, and by how much.
LEMMA ChunkFront ==
  ASSUME NEW s \in Shifting, s.offset2 # BS, NEW stray \in Bytes
  PROVE  /\ ShiftChunk(s, stray) \in Shifting /\ ShiftChunk(s, stray).offset2 # BS
         /\ \A old \in Disks, p \in Nat : FrontKept(s, old, p) => FrontKept(ShiftChunk(s, stray), old, p)
<1> DEFINE c == Copied(s, stray)
           f == AdvanceFirst(c)
           t == AdvanceSecond(f)
<1>1. ShiftChunk(s, stray) = t
  BY DEF ShiftChunk, Copied, Round
<1>2. c \in Shifting
  BY CopiedIs
<1>3. \A old \in Disks, p \in Nat : FrontKept(s, old, p) => FrontKept(c, old, p)
  BY CopiedFront
<1> HIDE DEF c
<1>4. f \in Shifting /\ \A old \in Disks, p \in Nat : FrontKept(c, old, p) => FrontKept(f, old, p)
  BY <1>2, AdvanceFirstIs, AdvanceFirstFront
<1> HIDE DEF f
<1>5. t \in Shifting /\ \A old \in Disks, p \in Nat : FrontKept(f, old, p) => FrontKept(t, old, p)
  BY <1>4, AdvanceSecondIs, AdvanceSecondFront
<1>6. t.offset2 # BS
  BY <1>4, AdvanceSecondIs, FileSystemAssumption
<1> HIDE DEF t
<1> QED
  BY <1>1, <1>3, <1>4, <1>5, <1>6

\* From the place p on the bytes that have been copied come from m bytes
\* further on, and what has not been read yet is as it was.
MovedOnDisk(disk, upto, old, p, m) ==
  \A b \in DataBlocks, q \in 0 .. BS - 1 :
    b < upto /\ b * BS + q >= p => disk[b][q] = ByteAt(old, b * BS + q + m)
MovedInBuffer(buf, b, upto, old, p, m) ==
  \A q \in 0 .. BS - 1 : q < upto /\ b * BS + q >= p => buf[q] = ByteAt(old, b * BS + q + m)
Unread(disk, b, old) == \A c \in DataBlocks : c >= b => disk[c] = old[c]
Moved(s, old, p, m) ==
  /\ From(s) = To(s) + m
  /\ s.offset2 >= 0
  /\ MovedOnDisk(Last(s.images), s.block1, old, p, m)
  /\ MovedInBuffer(s.buffer1, s.block1, s.offset1, old, p, m)
  /\ Unread(Last(s.images), s.block2, old)
  /\ s.block2 \in DataBlocks => s.buffer2 = old[s.block2]

\* The place that is written never passes the one that is read.
LEMMA Behindhand ==
  ASSUME NEW s \in Shifting, NEW m \in Nat \ {0}, From(s) = To(s) + m
  PROVE  s.block1 <= s.block2 /\ (s.offset1 = BS => s.block1 < s.block2)
<1>1. /\ s.block1 \in Int /\ s.block2 \in Int
      /\ s.offset1 \in 0 .. BS /\ s.offset2 \in -1 .. BS
  BY ShiftingFields
<1> DEFINE x1 == s.block1 * BS
           x2 == s.block2 * BS
<1>2. x1 \in Int /\ x2 \in Int /\ x2 + s.offset2 = x1 + s.offset1 + m
  BY <1>1, NextBlock DEF From, To
<1>3. s.block2 < s.block1 => x2 + BS <= x1
  BY <1>1, BlockOrder
<1>4. s.block1 = s.block2 => x1 = x2
  OBVIOUS
<1> HIDE DEF x1, x2
<1>5. ~ (s.block2 < s.block1)
  BY <1>1, <1>2, <1>3, FileSystemAssumption
<1>6. s.offset1 = BS => s.block1 # s.block2
  BY <1>1, <1>2, <1>4, FileSystemAssumption
<1> QED
  BY <1>1, <1>5, <1>6

\* The bytes that are copied are the ones that lie m bytes behind.
LEMMA CopiedMoved ==
  ASSUME NEW s \in Shifting, s.offset2 # BS, NEW stray \in Bytes,
         NEW old \in Disks, NEW p \in Nat, NEW m \in Nat \ {0}, Moved(s, old, p, m),
         s.block2 \in DataBlocks
  PROVE  Moved(Copied(s, stray), old, p, m)
<1> DEFINE t == Copied(s, stray)
<1>1. /\ t.images = s.images /\ t.block1 = s.block1
      /\ t.block2 = s.block2 /\ t.buffer2 = s.buffer2
      /\ t.offset1 = s.offset1 + Round(s) /\ t.offset2 = s.offset2 + Round(s)
      /\ Round(s) \in Nat
  BY CopiedIs
<1>2. \A q \in 0 .. BS - 1 :
        /\ q < s.offset1 => t.buffer1[q] = s.buffer1[q]
        /\ s.offset1 <= q /\ q < t.offset1 /\ s.offset2 # -1 =>
             /\ s.offset2 + q - s.offset1 \in 0 .. BS - 1
             /\ t.buffer1[q] = s.buffer2[s.offset2 + q - s.offset1]
  BY CopiedIs
<1> HIDE DEF t
<1>3. /\ s.block1 * BS \in Int /\ s.offset1 \in Nat /\ s.block2 * BS \in Int /\ s.offset2 \in Nat
      /\ s.block2 \in Nat
  <2>1. s.block1 \in Int /\ s.block2 \in Int
    BY ShiftingFields
  <2>2. s.offset2 \in Int /\ s.offset2 >= 0
    BY ShiftingFields, FileSystemAssumption DEF Moved
  <2>3. s.block1 * BS \in Int /\ s.block2 * BS \in Int
    BY <2>1, NextBlock
  <2>4. s.block2 \in Nat /\ s.offset1 \in 0 .. BS
    BY ShiftingFields
  <2>5. s.offset1 \in Nat /\ s.offset2 \in Nat
    BY <2>2, <2>4, FileSystemAssumption
  <2> QED
    BY <2>3, <2>4, <2>5
<1>4. From(t) = To(t) + m
  BY <1>1, <1>3 DEF To, From, Moved
<1>5. t.offset2 >= 0
  BY <1>1, <1>3
<1>6. MovedInBuffer(t.buffer1, t.block1, t.offset1, old, p, m)
  <2> SUFFICES ASSUME NEW q \in 0 .. BS - 1, q < t.offset1, s.block1 * BS + q >= p
               PROVE  t.buffer1[q] = ByteAt(old, s.block1 * BS + q + m)
    BY <1>1 DEF MovedInBuffer
  <2>1. CASE q < s.offset1
    BY <2>1, <1>2 DEF Moved, MovedInBuffer
  <2>2. CASE ~ (q < s.offset1)
    <3> DEFINE k == s.offset2 + q - s.offset1
    <3>1. s.offset1 <= q /\ s.offset2 # -1
      BY <2>2, <1>3
    <3>2. k \in 0 .. BS - 1 /\ t.buffer1[q] = s.buffer2[k]
      BY <3>1, <1>2
    <3>3. s.block2 * BS + k = s.block1 * BS + q + m
      BY <1>3 DEF Moved, From, To
    <3> HIDE DEF k
    <3>4. (s.block2 * BS + k) \div BS = s.block2 /\ (s.block2 * BS + k) % BS = k
      BY <1>3, <3>2, DivModIs
    <3>5. ByteAt(old, s.block2 * BS + k) = old[s.block2][k]
      BY <3>4 DEF ByteAt
    <3> QED
      BY <3>2, <3>3, <3>5 DEF Moved
  <2> QED
    BY <2>1, <2>2
<1> QED
  BY <1>1, <1>4, <1>5, <1>6 DEF Moved, t

\* The first block that is written holds the bytes that were m bytes behind.
LEMMA AdvanceFirstMoved ==
  ASSUME NEW s \in Shifting, NEW old \in Disks, NEW p \in Nat, NEW m \in Nat \ {0},
         Moved(s, old, p, m)
  PROVE  Moved(AdvanceFirst(s), old, p, m)
<1> DEFINE t == AdvanceFirst(s)
<1>1. CASE s.offset1 # BS
  BY <1>1, AdvanceFirstIs
<1>2. CASE s.offset1 = BS
  <2>1. /\ t.images = Written(s.images, s.block1, s.buffer1)
        /\ t.block1 = s.block1 + 1 /\ t.offset1 = 0
        /\ t.block2 = s.block2 /\ t.offset2 = s.offset2 /\ t.buffer2 = s.buffer2
    BY <1>2, AdvanceFirstIs
  <2> HIDE DEF t
  <2>2. /\ s.images \in Images /\ s.block1 \in Nat /\ s.buffer1 \in Buffer /\ s.block2 \in Nat
    BY ShiftingFields
  <2>3. /\ s.block1 \in DataBlocks => Last(t.images)[s.block1] = s.buffer1
        /\ \A c \in DataBlocks : c # s.block1 => Last(t.images)[c] = Last(s.images)[c]
    BY <2>1, <2>2, WrittenIs
  <2>4. From(t) = To(t) + m
    <3>1. s.block1 \in Int
      BY <2>2
    <3>2. (s.block1 + 1) * BS = s.block1 * BS + BS /\ s.block1 * BS \in Int
      BY <3>1, NextBlock
    <3>3. To(t) = To(s)
      BY <1>2, <2>1, <3>2, FileSystemAssumption DEF To
    <3>4. From(t) = From(s)
      BY <2>1 DEF From
    <3> QED
      BY <3>3, <3>4 DEF Moved
  <2>5. MovedOnDisk(Last(t.images), t.block1, old, p, m)
    <3> SUFFICES ASSUME NEW b \in DataBlocks, NEW q \in 0 .. BS - 1,
                        b < s.block1 + 1, b * BS + q >= p
                 PROVE  Last(t.images)[b][q] = ByteAt(old, b * BS + q + m)
      BY <2>1 DEF MovedOnDisk
    <3>1. CASE b = s.block1
      <4>1. q < s.offset1
        BY <1>2, FileSystemAssumption
      <4> QED
        BY <3>1, <4>1, <2>3 DEF Moved, MovedInBuffer
    <3>2. CASE b # s.block1
      <4>1. b < s.block1
        BY <3>2, <2>2, DataStart, FileSystemAssumption DEF DataBlocks
      <4> QED
        BY <3>2, <4>1, <2>3 DEF Moved, MovedOnDisk
    <3> QED
      BY <3>1, <3>2
  <2>6. MovedInBuffer(t.buffer1, t.block1, t.offset1, old, p, m)
    BY <2>1 DEF MovedInBuffer
  <2>7. Unread(Last(t.images), t.block2, old)
    <3> SUFFICES ASSUME NEW c \in DataBlocks, c >= s.block2
                 PROVE  Last(t.images)[c] = old[c]
      BY <2>1 DEF Unread
    <3>1. s.block1 < s.block2
      BY <1>2, Behindhand DEF Moved
    <3>2. c # s.block1
      BY <3>1, <2>2, DataStart, FileSystemAssumption DEF DataBlocks
    <3> QED
      BY <3>2, <2>3 DEF Moved, Unread
  <2> QED
    BY <2>1, <2>4, <2>5, <2>6, <2>7 DEF Moved, t
<1> QED
  BY <1>1, <1>2

\* The second block that is written changes nothing: it has not been reached, or
\* holds what has been written to the disk already.
LEMMA AdvanceSecondMoved ==
  ASSUME NEW s \in Shifting, NEW old \in Disks, NEW p \in Nat, NEW m \in Nat \ {0},
         Moved(s, old, p, m)
  PROVE  Moved(AdvanceSecond(s), old, p, m)
<1> DEFINE t == AdvanceSecond(s)
<1>1. CASE s.offset2 # BS
  BY <1>1, AdvanceSecondIs
<1>2. CASE s.offset2 = BS
  <2>1. /\ t.images = Written(s.images, s.block2, s.buffer2)
        /\ t.block2 = s.block2 + 1 /\ t.offset2 = 0
        /\ t.buffer2 = BlockRead(Last(t.images), s.block2 + 1, s.buffer2)
        /\ t.block1 = s.block1 /\ t.offset1 = s.offset1 /\ t.buffer1 = s.buffer1
    BY <1>2, AdvanceSecondIs
  <2> HIDE DEF t
  <2>2. /\ s.images \in Images /\ s.block1 \in Nat /\ s.buffer2 \in Buffer /\ s.block2 \in Nat
    BY ShiftingFields
  <2>3. /\ Last(t.images) \in Disks
        /\ s.block2 \in DataBlocks => Last(t.images)[s.block2] = s.buffer2
        /\ \A c \in DataBlocks : c # s.block2 => Last(t.images)[c] = Last(s.images)[c]
    BY <2>1, <2>2, WrittenIs
  <2>4. From(t) = To(t) + m
    <3>1. s.block2 \in Int
      BY <2>2
    <3>2. (s.block2 + 1) * BS = s.block2 * BS + BS /\ s.block2 * BS \in Int
      BY <3>1, NextBlock
    <3>3. From(t) = From(s)
      BY <1>2, <2>1, <3>2, FileSystemAssumption DEF From
    <3>4. To(t) = To(s)
      BY <2>1 DEF To
    <3> QED
      BY <3>3, <3>4 DEF Moved
  <2>5. MovedOnDisk(Last(t.images), t.block1, old, p, m)
    <3> SUFFICES ASSUME NEW b \in DataBlocks, NEW q \in 0 .. BS - 1,
                        b < s.block1, b * BS + q >= p
                 PROVE  Last(t.images)[b][q] = ByteAt(old, b * BS + q + m)
      BY <2>1 DEF MovedOnDisk
    <3>1. s.block1 <= s.block2
      BY Behindhand DEF Moved
    <3>2. b # s.block2
      BY <3>1, <2>2, DataStart, FileSystemAssumption DEF DataBlocks
    <3> QED
      BY <3>2, <2>3 DEF Moved, MovedOnDisk
  <2>6. MovedInBuffer(t.buffer1, t.block1, t.offset1, old, p, m)
    BY <2>1 DEF Moved
  <2>7. \A c \in DataBlocks : c >= s.block2 => Last(t.images)[c] = old[c]
    BY <2>3 DEF Moved, Unread
  <2>8. Unread(Last(t.images), t.block2, old)
    <3>1. \A c \in DataBlocks : c >= s.block2 + 1 => c >= s.block2
      BY <2>2, DataStart, FileSystemAssumption DEF DataBlocks
    <3> QED
      BY <3>1, <2>1, <2>7 DEF Unread
  <2>9. t.block2 \in DataBlocks => t.buffer2 = old[t.block2]
    <3>1. t.block2 \in DataBlocks => t.buffer2 = Last(t.images)[t.block2]
      BY <2>1, <2>2, <2>3, ReadIs
    <3>2. t.block2 >= s.block2
      BY <2>1, <2>2
    <3> QED
      BY <3>1, <3>2, <2>7
  <2> QED
    BY <2>1, <2>4, <2>5, <2>6, <2>8, <2>9, FileSystemAssumption DEF Moved, t
<1> QED
  BY <1>1, <1>2

\* A round is done on data blocks only, and finishes one of the two.
LEMMA ChunkMoved ==
  ASSUME NEW s \in Shifting, s.offset2 # BS, NEW stray \in Bytes,
         NEW old \in Disks, NEW p \in Nat, NEW m \in Nat \ {0},
         Moved(s, old, p, m), To(s) >= p, p >= DATA_START * BS, s.block2 < DISK_BLOCKS
  PROVE  /\ Moved(ShiftChunk(s, stray), old, p, m)
         /\ ShiftChunk(s, stray).block1 + ShiftChunk(s, stray).block2 >= s.block1 + s.block2 + 1
<1> DEFINE c == Copied(s, stray)
           f == AdvanceFirst(c)
           t == AdvanceSecond(f)
<1>1. ShiftChunk(s, stray) = t
  BY DEF ShiftChunk, Copied, Round
<1>2. s.block2 \in DataBlocks
  <2>1. s.block2 \in Int /\ DATA_START \in Int /\ s.offset2 \in -1 .. BS - 1 /\ To(s) \in Nat
    BY ShiftingFields, DataStart, FileSystemAssumption
  <2>2. s.block2 < DATA_START => s.block2 * BS + BS <= DATA_START * BS
    BY <2>1, BlockOrder
  <2>3. s.block2 * BS + s.offset2 = To(s) + m /\ s.block2 * BS \in Int
    BY <2>1, NextBlock DEF Moved, From
  <2>4. ~ (s.block2 < DATA_START)
    BY <2>1, <2>2, <2>3, DataStart, FileSystemAssumption
  <2> QED
    BY <2>1, <2>4, ShiftingFields, FileSystemAssumption DEF DataBlocks
<1>3. /\ c \in Shifting /\ c.block1 = s.block1 /\ c.block2 = s.block2
      /\ c.offset1 = BS \/ c.offset2 = BS
  BY CopiedIs
<1>4. Moved(c, old, p, m)
  BY <1>2, CopiedMoved
<1> HIDE DEF c
<1>5. f \in Shifting /\ Moved(f, old, p, m)
  BY <1>3, <1>4, AdvanceFirstIs, AdvanceFirstMoved
<1>6. /\ f.block1 = s.block1 + (IF c.offset1 = BS THEN 1 ELSE 0)
      /\ f.block2 = s.block2 /\ f.offset2 = c.offset2
  <2>1. c.block1 \in Nat
    BY <1>3, ShiftingFields
  <2> QED
    BY <2>1, <1>3, AdvanceFirstIs
<1> HIDE DEF f
<1>7. t \in Shifting /\ Moved(t, old, p, m)
  BY <1>5, AdvanceSecondIs, AdvanceSecondMoved
<1>8. t.block1 = f.block1 /\ t.block2 = f.block2 + (IF f.offset2 = BS THEN 1 ELSE 0)
  <2>1. f.block2 \in Nat
    BY <1>5, ShiftingFields
  <2> QED
    BY <2>1, <1>5, AdvanceSecondIs
<1> HIDE DEF t
<1>9. s.block1 \in Nat /\ s.block2 \in Nat
  BY ShiftingFields
<1>10. t.block1 + t.block2 >= s.block1 + s.block2 + 1
  BY <1>3, <1>6, <1>8, <1>9
<1> QED
  BY <1>1, <1>7, <1>10

Between == {s \in Shifting : s.offset2 # BS}
Go(t, stray) == IF t.block2 < DISK_BLOCKS THEN ShiftChunk(t, stray) ELSE t

\* The rounds that ShiftLoop stands for.
Looping(run, n, s, stray) ==
  /\ run \in [0 .. n -> Between]
  /\ run[0] = s /\ run[n] = ShiftLoop(s, stray)
  /\ \A k \in 1 .. n : run[k] = Go(run[k - 1], stray)

\* A round of the loop ends with a second buffer that is not used up.
LEMMA GoIs ==
  ASSUME NEW s \in Between, NEW stray \in Bytes
  PROVE  Go(s, stray) \in Between
BY ChunkFront DEF Go, Between

\* The loop of shiftBlocks is a sequence of rounds.
LEMMA LoopRun ==
  ASSUME NEW base \in Between, NEW stray \in Bytes, NEW n \in Nat, n = 2 * DISK_BLOCKS
  PROVE  \E run : Looping(run, n, base, stray)
<1> DEFINE seq == [round \in 1..(2 * DISK_BLOCKS) |-> round]
           step == [p \in Between \X (1 .. n) |-> Go(p[1], stray)]
           eq(f) == f = [s \in SUBSET DOMAIN seq |->
                           IF s = {} THEN base ELSE Go(f[s \ {Max(s)}], stray)]
           it == CHOOSE f : eq(f)
<1>1. ShiftLoop(base, stray) = it[DOMAIN seq]
  BY DEF ShiftLoop, FoldLeft, MapThenFoldSet, Go
<1>2. DOMAIN seq = 1 .. n
  OBVIOUS
<1>4. \A v \in Between, k \in 1 .. n : /\ Go(v, stray) \in Between
                                       /\ step[<<v, k>>] = Go(v, stray)
  BY GoIs
<1>5. step \in Steps(n, Between)
  BY <1>4 DEF Steps
<1> HIDE DEF seq, step
<1>6. \E f : eq(f)
  <2>1. PICK f : IsFold(f, n, Between, base, step)
    BY <1>5, FoldExists
  <2>2. /\ f \in [SUBSET (1 .. n) -> Between]
        /\ \A s \in SUBSET (1 .. n) : f[s] = Folded(f, s, base, step)
    BY <2>1 DEF IsFold
  <2>3. ASSUME NEW s \in SUBSET (1 .. n), s # {}
        PROVE  f[s] = Go(f[s \ {Max(s)}], stray)
    <3>1. Max(s) \in 1 .. n /\ s \ {Max(s)} \in SUBSET (1 .. n)
      BY <2>3, Removing
    <3>2. f[s] = step[<<f[s \ {Max(s)}], Max(s)>>] /\ f[s \ {Max(s)}] \in Between
      BY <2>2, <2>3, <3>1 DEF Folded
    <3> QED
      BY <3>1, <3>2, <1>4
  <2>4. f[{}] = base
    BY <2>2 DEF Folded
  <2>5. eq(f)
    BY <2>2, <2>3, <2>4, <1>2
  <2> QED
    BY <2>5
<1>7. eq(it)
  <2> HIDE DEF eq
  <2> QED
    BY <1>6
<1> HIDE DEF it
<1>8. it[{}] = base
  BY <1>7
<1>9. Unfolds(it, n, Between, base, step)
  <2> SUFFICES ASSUME NEW s \in SUBSET (1 .. n), s # {}, it[s \ {Max(s)}] \in Between
               PROVE  it[s] = step[<<it[s \ {Max(s)}], Max(s)>>]
    BY <1>8 DEF Unfolds
  <2>1. it[s] = Go(it[s \ {Max(s)}], stray)
    BY <1>7, <1>2
  <2> QED
    BY <2>1, <1>4, Removing
<1> HIDE DEF eq
<1>10. PICK run : IsRun(run, n, Between, base, step) /\ run[n] = it[1 .. n]
  BY <1>5, <1>9, FoldRun
<1>11. /\ run \in [0 .. n -> Between] /\ run[0] = base
       /\ \A k \in 1 .. n : run[k] = step[<<run[k - 1], k>>]
  BY <1>10 DEF IsRun
<1>12. \A k \in 1 .. n : run[k] = Go(run[k - 1], stray)
  <2> TAKE k \in 1 .. n
  <2>1. run[k - 1] \in Between
    <3>1. k - 1 \in 0 .. n
      OBVIOUS
    <3> QED
      BY <3>1, <1>11
  <2>2. run[k] = step[<<run[k - 1], k>>]
    BY <1>11
  <2> QED
    BY <2>1, <2>2, <1>4
<1> QED
  BY <1>1, <1>2, <1>10, <1>11, <1>12 DEF Looping

\* The loop ends with everything read.
LEMMA LoopIs ==
  ASSUME NEW s \in Between, NEW stray \in Bytes, NEW old \in Disks, NEW p \in Nat,
         FrontKept(s, old, p)
  PROVE  LET t == ShiftLoop(s, stray)
         IN  /\ t \in Shifting /\ FrontKept(t, old, p)
             /\ \A m \in Nat \ {0} : Moved(s, old, p, m) /\ p >= DATA_START * BS =>
                  Moved(t, old, p, m) /\ t.block2 >= DISK_BLOCKS
<1> DEFINE n == 2 * DISK_BLOCKS
<1>1. n \in Nat
  BY FileSystemAssumption
<1>2. PICK run : Looping(run, n, s, stray)
  BY <1>1, LoopRun
<1>3. /\ run \in [0 .. n -> Between]
      /\ run[0] = s /\ run[n] = ShiftLoop(s, stray)
      /\ \A k \in 1 .. n : run[k] = Go(run[k - 1], stray)
  BY <1>2 DEF Looping
<1>4. \A k \in 0 .. n : run[k] \in Shifting /\ run[k].offset2 # BS
  BY <1>3 DEF Between
<1> DEFINE F == {k \in 0 .. n : FrontKept(run[k], old, p)}
<1>5. \A k \in 0 .. n : k \in F
  <2>1. 0 \in F
    BY <1>1, <1>3
  <2>2. ASSUME NEW k \in 0 .. n, k \in F, k < n PROVE k + 1 \in F
    <3>1. k + 1 \in 1 .. n /\ (k + 1) - 1 = k
      BY <2>2, <1>1
    <3>2. run[k + 1] = Go(run[k], stray) /\ run[k] \in Shifting /\ run[k].offset2 # BS
      BY <3>1, <1>3, <1>4
    <3>3. FrontKept(run[k], old, p)
      BY <2>2
    <3>4. FrontKept(run[k + 1], old, p)
      <4>1. CASE run[k].block2 < DISK_BLOCKS
        BY <4>1, <3>2, <3>3, ChunkFront DEF Go
      <4>2. CASE ~ (run[k].block2 < DISK_BLOCKS)
        BY <4>2, <3>2, <3>3 DEF Go
      <4> QED
        BY <4>1, <4>2
    <3> QED
      BY <3>1, <3>4
  <2> HIDE DEF F, n
  <2> QED
    BY <2>1, <2>2, <1>1, CountingTo
<1>6. ASSUME NEW m \in Nat \ {0}, Moved(s, old, p, m), p >= DATA_START * BS
      PROVE  Moved(run[n], old, p, m) /\ run[n].block2 >= DISK_BLOCKS
  <2> DEFINE Far(k) == run[k].block2 >= DISK_BLOCKS \/ run[k].block1 + run[k].block2 >= k
             M == {k \in 0 .. n : Moved(run[k], old, p, m) /\ Far(k)}
  <2>1. 0 \in M
    <3>1. s.block1 \in Nat /\ s.block2 \in Nat
      BY ShiftingFields DEF Between
    <3>2. Far(0)
      BY <3>1, <1>3
    <3> QED
      BY <3>2, <1>1, <1>3, <1>6
  <2>2. ASSUME NEW k \in 0 .. n, k \in M, k < n PROVE k + 1 \in M
    <3>1. k + 1 \in 1 .. n /\ (k + 1) - 1 = k
      BY <2>2, <1>1
    <3> DEFINE u == run[k]
               v == run[k + 1]
    <3>2. v = Go(u, stray) /\ u \in Shifting /\ u.offset2 # BS
      BY <3>1, <1>3, <1>4
    <3>3. Moved(u, old, p, m) /\ Far(k) /\ FrontKept(u, old, p)
      BY <2>2, <1>5
    <3>4. u.block1 \in Nat /\ u.block2 \in Nat
      BY <3>2, ShiftingFields
    <3> HIDE DEF u, v, Far
    <3>5. CASE u.block2 < DISK_BLOCKS
      <4>1. v = ShiftChunk(u, stray)
        BY <3>2, <3>5 DEF Go
      <4>2. To(u) >= p
        BY <3>3 DEF FrontKept
      <4>3. Moved(v, old, p, m) /\ v.block1 + v.block2 >= u.block1 + u.block2 + 1
        BY <4>1, <4>2, <3>2, <3>3, <3>5, <1>6, ChunkMoved
      <4>4. u.block1 + u.block2 >= k
        BY <3>3, <3>4, <3>5, FileSystemAssumption DEF Far, u
      <4>5. v.block1 \in Nat /\ v.block2 \in Nat
        BY <3>1, <1>4, ShiftingFields DEF v
      <4>6. Far(k + 1)
        BY <4>3, <4>4, <4>5, <3>4 DEF Far, v
      <4> QED
        BY <4>3, <4>6, <3>1 DEF v
    <3>6. CASE ~ (u.block2 < DISK_BLOCKS)
      <4>1. v = u
        BY <3>2, <3>6 DEF Go
      <4>2. Far(k + 1)
        BY <4>1, <3>4, <3>6, FileSystemAssumption DEF Far, v
      <4> QED
        BY <4>1, <4>2, <3>1, <3>3 DEF v
    <3> QED
      BY <3>5, <3>6
  <2>3. n \in M
    <3> HIDE DEF M, n
    <3>1. \A k \in 0 .. n : k \in M
      BY <2>1, <2>2, <1>1, CountingTo
    <3> QED
      BY <3>1, <1>1
  <2>4. Moved(run[n], old, p, m) /\ Far(n)
    BY <2>3
  <2>5. run[n] \in Shifting
    BY <1>1, <1>4
  <2>6. run[n].block1 \in Nat /\ run[n].block2 \in Nat /\ run[n].block1 <= run[n].block2
    BY <2>4, <2>5, ShiftingFields, Behindhand DEF Moved
  <2>7. run[n].block2 >= DISK_BLOCKS
    BY <2>4, <2>6, FileSystemAssumption
  <2> QED
    BY <2>4, <2>7
<1>7. n \in 0 .. n
  BY <1>1
<1>8. run[n] \in Shifting /\ FrontKept(run[n], old, p)
  BY <1>4, <1>5, <1>7
<1> HIDE DEF n
<1> QED
  BY <1>3, <1>6, <1>8

Blank == [k \in 0..(BS - 1) |-> Zero]
Rest(s) == [k \in 0..(BS - 1) |-> IF k < s.offset1 THEN s.buffer1[k] ELSE Zero]

\* The buffer shiftBlocks starts with and fills the disk with.
LEMMA BlankIs == Blank \in Buffer
BY FileSystemAssumption DEF Blank, Buffer

\* The blocks behind the last one that was written are filled with zeros.
Zeroing(run, n, s) ==
  /\ run \in [0 .. n -> Images]
  /\ run[0] = Written(s.images, s.block1, Rest(s)) /\ run[n] = ZeroRest(s)
  /\ \A k \in 1 .. n : run[k] = Written(run[k - 1], s.block1 + k, Blank)

\* The loop that fills the rest of the disk is a sequence of writes.
LEMMA ZeroRun ==
  ASSUME NEW s \in Shifting, Rest(s) \in Buffer, NEW n \in Nat,
         n = IF DISK_BLOCKS - s.block1 - 1 >= 0 THEN DISK_BLOCKS - s.block1 - 1 ELSE 0
  PROVE  \E run : Zeroing(run, n, s)
<1> DEFINE base == Written(s.images, s.block1, Rest(s))
           seq == [k \in 1..(DISK_BLOCKS - s.block1 - 1) |-> s.block1 + k]
           step == [p \in Images \X (1 .. n) |-> Written(p[1], seq[p[2]], Blank)]
           eq(f) == f = [u \in SUBSET DOMAIN seq |->
                           IF u = {} THEN base ELSE Written(f[u \ {Max(u)}], seq[Max(u)], Blank)]
           it == CHOOSE f : eq(f)
<1>1. ZeroRest(s) = it[DOMAIN seq]
  BY DEF ZeroRest, FoldLeft, MapThenFoldSet, Blank, Rest
<1>0. base \in Images
  BY ShiftingFields, WrittenIs
<1>2. DOMAIN seq = 1 .. n
  <2>1. s.block1 \in Nat
    BY ShiftingFields
  <2> QED
    BY <2>1, FileSystemAssumption
<1>3. \A k \in 1 .. n : seq[k] = s.block1 + k
  <2>1. s.block1 \in Nat
    BY ShiftingFields
  <2> QED
    BY <1>2, <2>1
<1>4. \A v \in Images, k \in 1 .. n : /\ Written(v, seq[k], Blank) \in Images
                                      /\ step[<<v, k>>] = Written(v, seq[k], Blank)
  <2>1. \A v \in Images, k \in 1 .. n : step[<<v, k>>] = Written(v, seq[k], Blank)
    OBVIOUS
  <2> HIDE DEF seq, step
  <2>2. \A v \in Images, k \in 1 .. n : Written(v, seq[k], Blank) \in Images
    BY BlankIs, WrittenIs
  <2> QED
    BY <2>1, <2>2
<1>5. step \in Steps(n, Images)
  <2>1. ASSUME NEW p \in Images \X (1 .. n)
        PROVE  Written(p[1], seq[p[2]], Blank) \in Images
    <3>1. p[1] \in Images /\ p[2] \in 1 .. n
      OBVIOUS
    <3> HIDE DEF seq, step
    <3> QED
      BY <3>1, BlankIs, WrittenIs
  <2> QED
    BY <2>1 DEF Steps
<1> HIDE DEF seq, step, base
<1>6. \E f : eq(f)
  <2>1. PICK f : IsFold(f, n, Images, base, step)
    BY <1>0, <1>5, FoldExists
  <2>2. /\ f \in [SUBSET (1 .. n) -> Images]
        /\ \A u \in SUBSET (1 .. n) : f[u] = Folded(f, u, base, step)
    BY <2>1 DEF IsFold
  <2>3. ASSUME NEW u \in SUBSET (1 .. n), u # {}
        PROVE  f[u] = Written(f[u \ {Max(u)}], seq[Max(u)], Blank)
    <3>1. Max(u) \in 1 .. n /\ u \ {Max(u)} \in SUBSET (1 .. n)
      BY <2>3, Removing
    <3>2. f[u] = step[<<f[u \ {Max(u)}], Max(u)>>] /\ f[u \ {Max(u)}] \in Images
      BY <2>2, <2>3, <3>1 DEF Folded
    <3> QED
      BY <3>1, <3>2, <1>4
  <2>4. f[{}] = base
    BY <2>2 DEF Folded
  <2>5. eq(f)
    BY <2>2, <2>3, <2>4, <1>2
  <2> QED
    BY <2>5
<1>7. eq(it)
  <2> HIDE DEF eq
  <2> QED
    BY <1>6
<1> HIDE DEF it
<1>8. it[{}] = base
  BY <1>7
<1>9. Unfolds(it, n, Images, base, step)
  <2> SUFFICES ASSUME NEW u \in SUBSET (1 .. n), u # {}, it[u \ {Max(u)}] \in Images
               PROVE  it[u] = step[<<it[u \ {Max(u)}], Max(u)>>]
    BY <1>8 DEF Unfolds
  <2>1. it[u] = Written(it[u \ {Max(u)}], seq[Max(u)], Blank)
    BY <1>7, <1>2
  <2> QED
    BY <2>1, <1>4, Removing
<1> HIDE DEF eq
<1>10. PICK run : IsRun(run, n, Images, base, step) /\ run[n] = it[1 .. n]
  BY <1>0, <1>5, <1>9, FoldRun
<1>11. /\ run \in [0 .. n -> Images] /\ run[0] = base
       /\ \A k \in 1 .. n : run[k] = step[<<run[k - 1], k>>]
  BY <1>10 DEF IsRun
<1>12. \A k \in 1 .. n : run[k] = Written(run[k - 1], s.block1 + k, Blank)
  <2> TAKE k \in 1 .. n
  <2>1. run[k - 1] \in Images
    <3>1. k - 1 \in 0 .. n
      OBVIOUS
    <3> QED
      BY <3>1, <1>11
  <2>2. run[k] = step[<<run[k - 1], k>>]
    BY <1>11
  <2> QED
    BY <2>1, <2>2, <1>3, <1>4
<1> QED
  BY <1>1, <1>2, <1>10, <1>11, <1>12 DEF Zeroing, base

\* Filling the rest of the disk leaves the blocks before it, and the front of the
\* block in which it starts, as they are.
LEMMA ZeroIs ==
  ASSUME NEW s \in Shifting
  PROVE  /\ ZeroRest(s) \in Images
         /\ \A b \in DataBlocks : b < s.block1 => Last(ZeroRest(s))[b] = Last(s.images)[b]
         /\ s.block1 \in DataBlocks =>
              \A q \in 0 .. BS - 1 : q < s.offset1 =>
                Last(ZeroRest(s))[s.block1][q] = s.buffer1[q]
<1> DEFINE n == IF DISK_BLOCKS - s.block1 - 1 >= 0 THEN DISK_BLOCKS - s.block1 - 1 ELSE 0
           first == Written(s.images, s.block1, Rest(s))
<1>1. n \in Nat /\ s.block1 \in Nat /\ s.images \in Images
  BY ShiftingFields, FileSystemAssumption
<1>2. Rest(s) \in Buffer
  <2>1. \A k \in 0..(BS - 1) : s.buffer1[k] \in Bytes
    BY ShiftingFields DEF Buffer
  <2> QED
    BY <2>1, FileSystemAssumption DEF Rest, Buffer
<1>3. PICK run : Zeroing(run, n, s)
  <2> HIDE DEF n
  <2>1. n = IF DISK_BLOCKS - s.block1 - 1 >= 0 THEN DISK_BLOCKS - s.block1 - 1 ELSE 0
    BY DEF n
  <2> QED
    BY <1>1, <1>2, <2>1, ZeroRun
<1>4. /\ run \in [0 .. n -> Images]
      /\ run[0] = first /\ run[n] = ZeroRest(s)
      /\ \A k \in 1 .. n : run[k] = Written(run[k - 1], s.block1 + k, Blank)
  BY <1>3 DEF Zeroing
<1>5. /\ s.block1 \in DataBlocks => Last(first)[s.block1] = Rest(s)
      /\ \A c \in DataBlocks : c # s.block1 => Last(first)[c] = Last(s.images)[c]
  BY <1>1, <1>2, WrittenIs
<1> HIDE DEF first, n
<1> DEFINE S == {k \in 0 .. n : \A b \in DataBlocks : b <= s.block1 => Last(run[k])[b] = Last(first)[b]}
<1>6. \A k \in 0 .. n : k \in S
  <2>1. 0 \in S
    BY <1>1, <1>4
  <2>2. ASSUME NEW k \in 0 .. n, k \in S, k < n PROVE k + 1 \in S
    <3>1. k + 1 \in 1 .. n /\ (k + 1) - 1 = k
      BY <2>2, <1>1
    <3>2. run[k] \in Images /\ run[k + 1] = Written(run[k], s.block1 + (k + 1), Blank)
      BY <3>1, <1>4
    <3>3. ASSUME NEW b \in DataBlocks, b <= s.block1 PROVE Last(run[k + 1])[b] = Last(first)[b]
      <4>1. b # s.block1 + (k + 1)
        BY <3>3, <1>1, DataStart, FileSystemAssumption DEF DataBlocks
      <4>2. Last(run[k + 1])[b] = Last(run[k])[b]
        BY <3>2, <4>1, BlankIs, WrittenIs
      <4> QED
        BY <4>2, <2>2, <3>3
    <3> QED
      BY <3>1, <3>3
  <2> HIDE DEF S
  <2> QED
    BY <2>1, <2>2, <1>1, CountingTo
<1>7. n \in 0 .. n
  BY <1>1
<1>8. \A b \in DataBlocks : b <= s.block1 => Last(ZeroRest(s))[b] = Last(first)[b]
  BY <1>4, <1>6, <1>7
<1>9. ZeroRest(s) \in Images
  BY <1>4, <1>7
<1>10. \A b \in DataBlocks : b < s.block1 => b <= s.block1 /\ b # s.block1
  BY <1>1, DataStart, FileSystemAssumption DEF DataBlocks
<1>11. \A q \in 0 .. BS - 1 : q < s.offset1 => Rest(s)[q] = s.buffer1[q]
  BY DEF Rest
<1>12. s.block1 <= s.block1
  BY <1>1
<1> QED
  BY <1>5, <1>8, <1>9, <1>10, <1>11, <1>12

\* shiftBlocks leaves everything in front of its place alone, and moves what
\* lies numShift bytes behind it there, byte by byte.
LEMMA ShiftIs ==
  ASSUME blocks \in Disks, NEW b0 \in Nat, NEW o0 \in 0 .. BS, NEW m \in Int, m >= -1,
         NEW stray \in Bytes
  PROVE  LET images == ShiftBlocks(b0, o0, m, stray)
         IN  /\ images \in Images
             /\ FrontOf(Last(images), blocks, b0 * BS + o0)
             /\ m >= 0 /\ b0 * BS + o0 >= DATA_START * BS =>
                  \A b \in DataBlocks, q \in 0 .. BS - 1 :
                    b * BS + q >= b0 * BS + o0 /\ b * BS + q + m < DISK_BLOCKS * BS =>
                      Last(images)[b][q] = ByteAt(blocks, b * BS + q + m)
<1> DEFINE images == ShiftBlocks(b0, o0, m, stray)
           p == b0 * BS + o0
<1>1. p \in Nat /\ b0 * BS \in Nat
  <2>1. b0 * BS \in Nat
    BY FileSystemAssumption
  <2> QED
    BY <2>1, FileSystemAssumption
<1>2. CASE m = 0
  <2>1. images = <<blocks>>
    BY <1>2 DEF ShiftBlocks
  <2>2. images \in Images /\ Last(images) = blocks
    BY <2>1, ImagesStart
  <2> HIDE DEF images
  <2>3. FrontOf(Last(images), blocks, p)
    BY <2>2 DEF FrontOf
  <2>4. ASSUME NEW b \in DataBlocks, NEW q \in 0 .. BS - 1
        PROVE  Last(images)[b][q] = ByteAt(blocks, b * BS + q + m)
    <3>1. b \in Nat
      BY DataStart, FileSystemAssumption DEF DataBlocks
    <3>2. (b * BS + q) \div BS = b /\ (b * BS + q) % BS = q
      BY <3>1, DivModIs
    <3>3. b * BS \in Int /\ b * BS + q + m = b * BS + q
      BY <3>1, <1>2, FileSystemAssumption
    <3> QED
      BY <3>2, <3>3, <2>2 DEF ByteAt
  <2> QED
    BY <2>2, <2>3, <2>4 DEF images
<1>3. CASE m # 0
  <2> DEFINE from == CarryFull(b0, o0 + m)
             start == [images |-> <<blocks>>,
                       block1 |-> b0, offset1 |-> o0, buffer1 |-> BlockRead(blocks, b0, Blank),
                       block2 |-> from.block, offset2 |-> from.offset,
                       buffer2 |-> BlockRead(blocks, from.block, Blank)]
             end == ShiftLoop(start, stray)
  <2>1. images = ZeroRest(end)
    BY <1>3 DEF ShiftBlocks, Blank
  <2>2. /\ from.block \in Nat /\ from.offset \in -1 .. BS - 1
        /\ from.offset = -1 => o0 + m = -1
        /\ from.block * BS + from.offset = b0 * BS + (o0 + m)
    <3>1. o0 + m \in Int /\ o0 + m >= -1
      BY FileSystemAssumption
    <3> HIDE DEF from
    <3> QED
      BY <3>1, CarryFullIs DEF from
  <2> HIDE DEF from
  <2>3. /\ <<blocks>> \in Images /\ Last(<<blocks>>) = blocks
        /\ BlockRead(blocks, b0, Blank) \in Buffer
        /\ BlockRead(blocks, from.block, Blank) \in Buffer
        /\ b0 \in DataBlocks => BlockRead(blocks, b0, Blank) = blocks[b0]
        /\ from.block \in DataBlocks => BlockRead(blocks, from.block, Blank) = blocks[from.block]
    BY BlankIs, ReadIs, ImagesStart
  <2>4. /\ start.images = <<blocks>> /\ start.block1 = b0 /\ start.offset1 = o0
        /\ start.block2 = from.block /\ start.offset2 = from.offset
        /\ start.buffer1 = BlockRead(blocks, b0, Blank)
        /\ start.buffer2 = BlockRead(blocks, from.block, Blank)
    OBVIOUS
  <2>5. start \in Between
    <3>1. from.offset \in -1 .. BS /\ from.offset # BS
      BY <2>2, FileSystemAssumption
    <3>2. start \in Shifting
      BY <2>2, <2>3, <3>1 DEF Shifting
    <3> HIDE DEF start
    <3> QED
      BY <2>4, <3>1, <3>2 DEF Between
  <2> HIDE DEF start
  <2>6. FrontKept(start, blocks, p)
    <3>1. To(start) = p
      BY <2>4 DEF To
    <3> QED
      BY <1>1, <2>3, <2>4, <3>1 DEF FrontKept, FrontOf, BufferFront
  <2>7. /\ end \in Shifting /\ FrontKept(end, blocks, p)
        /\ \A k \in Nat \ {0} : Moved(start, blocks, p, k) /\ p >= DATA_START * BS =>
             Moved(end, blocks, p, k) /\ end.block2 >= DISK_BLOCKS
    BY <1>1, <2>5, <2>6, LoopIs
  <2> HIDE DEF end, p
  <2>8. /\ images \in Images
        /\ \A b \in DataBlocks : b < end.block1 => Last(images)[b] = Last(end.images)[b]
        /\ end.block1 \in DataBlocks =>
             \A q \in 0 .. BS - 1 : q < end.offset1 => Last(images)[end.block1][q] = end.buffer1[q]
    BY <2>1, <2>7, ZeroIs
  <2> HIDE DEF images
  <2> DEFINE x == end.block1 * BS
  <2>9. /\ end.block1 \in Nat /\ end.offset1 \in 0 .. BS /\ x \in Int
        /\ end.block2 \in Nat /\ end.offset2 \in Int
    <3>1. end.block1 \in Int
      BY <2>7, ShiftingFields
    <3> QED
      BY <3>1, <2>7, ShiftingFields, NextBlock
  <2>10. ASSUME NEW b \in DataBlocks, NEW q \in 0 .. BS - 1, b * BS + q < x + end.offset1
         PROVE  b < end.block1 \/ (b = end.block1 /\ q < end.offset1)
    <3>1. b \in Int /\ b * BS \in Int /\ end.block1 \in Int
      BY <2>9, DataStart, FileSystemAssumption, NextBlock DEF DataBlocks
    <3>2. end.block1 < b => x + BS <= b * BS
      BY <3>1, BlockOrder
    <3>3. ~ (end.block1 < b)
      BY <3>1, <3>2, <2>9, <2>10, FileSystemAssumption
    <3>4. b = end.block1 => b * BS = x
      OBVIOUS
    <3> HIDE DEF x
    <3>5. b = end.block1 => q < end.offset1
      BY <3>1, <3>4, <2>9, <2>10, FileSystemAssumption
    <3> QED
      BY <3>1, <3>3, <3>5
  <2>11. FrontOf(Last(images), blocks, p)
    <3> SUFFICES ASSUME NEW b \in DataBlocks, NEW q \in 0 .. BS - 1, b * BS + q < p
                 PROVE  Last(images)[b][q] = blocks[b][q]
      BY DEF FrontOf
    <3>1. b * BS + q < x + end.offset1
      <4>1. b * BS \in Int
        BY DataStart, FileSystemAssumption, NextBlock DEF DataBlocks
      <4> QED
        BY <4>1, <1>1, <2>7, <2>9, FileSystemAssumption DEF FrontKept, To
    <3>2. CASE b < end.block1
      BY <3>2, <2>7, <2>8 DEF FrontKept, FrontOf
    <3>3. CASE b = end.block1 /\ q < end.offset1
      BY <3>3, <2>7, <2>8 DEF FrontKept, BufferFront
    <3> QED
      BY <3>1, <3>2, <3>3, <2>10
  <2>12. ASSUME m >= 0, p >= DATA_START * BS,
                NEW b \in DataBlocks, NEW q \in 0 .. BS - 1,
                b * BS + q >= p, b * BS + q + m < DISK_BLOCKS * BS
         PROVE  Last(images)[b][q] = ByteAt(blocks, b * BS + q + m)
    <3>1. m \in Nat \ {0}
      BY <1>3, <2>12
    <3>2. Moved(start, blocks, p, m)
      <4>1. From(start) = To(start) + m
        BY <1>1, <2>2, <2>4, FileSystemAssumption DEF From, To
      <4>2. start.offset2 >= 0
        BY <3>1, <2>2, <2>4, FileSystemAssumption
      <4>3. MovedOnDisk(Last(start.images), start.block1, blocks, p, m)
        <5> SUFFICES ASSUME NEW c \in DataBlocks, NEW k \in 0 .. BS - 1, c < b0, c * BS + k >= p
                     PROVE  FALSE
          BY <2>4 DEF MovedOnDisk
        <5>1. c \in Int /\ c * BS \in Int /\ b0 \in Int
          BY DataStart, FileSystemAssumption, NextBlock DEF DataBlocks
        <5>2. c * BS + BS <= b0 * BS
          BY <5>1, BlockOrder
        <5> QED
          BY <5>1, <5>2, <1>1, FileSystemAssumption DEF p
      <4>4. MovedInBuffer(start.buffer1, start.block1, start.offset1, blocks, p, m)
        <5> SUFFICES ASSUME NEW k \in 0 .. BS - 1, k < o0, b0 * BS + k >= p
                     PROVE  FALSE
          BY <2>4 DEF MovedInBuffer
        <5> QED
          BY <1>1, FileSystemAssumption DEF p
      <4>5. Unread(Last(start.images), start.block2, blocks)
        BY <2>3, <2>4 DEF Unread
      <4> QED
        BY <2>3, <2>4, <4>1, <4>2, <4>3, <4>4, <4>5 DEF Moved
    <3>3. Moved(end, blocks, p, m) /\ end.block2 >= DISK_BLOCKS
      BY <3>1, <3>2, <2>7, <2>12
    <3>4. b * BS + q < x + end.offset1
      <4>1. end.block2 * BS \in Int /\ end.block2 * BS >= DISK_BLOCKS * BS /\ DISK_BLOCKS * BS \in Int
        <5>1. end.block2 \in Int /\ DISK_BLOCKS \in Int
          BY <2>9, FileSystemAssumption
        <5>2. DISK_BLOCKS < end.block2 => DISK_BLOCKS * BS + BS <= end.block2 * BS
          BY <5>1, BlockOrder
        <5>3. DISK_BLOCKS = end.block2 => DISK_BLOCKS * BS = end.block2 * BS
          OBVIOUS
        <5>4. end.block2 * BS \in Int /\ DISK_BLOCKS * BS \in Int
          BY <5>1, NextBlock
        <5> QED
          BY <5>1, <5>2, <5>3, <5>4, <3>3, FileSystemAssumption
      <4>2. end.block2 * BS + end.offset2 = x + end.offset1 + m /\ end.offset2 >= 0
        BY <3>3 DEF Moved, From, To
      <4>3. b * BS \in Int
        BY DataStart, FileSystemAssumption, NextBlock DEF DataBlocks
      <4> HIDE DEF x
      <4> QED
        BY <4>1, <4>2, <4>3, <2>9, <2>12, <3>1
    <3>5. CASE b < end.block1
      BY <3>3, <3>5, <2>8, <2>12 DEF Moved, MovedOnDisk
    <3>6. CASE b = end.block1 /\ q < end.offset1
      BY <3>3, <3>6, <2>8, <2>12 DEF Moved, MovedInBuffer
    <3> QED
      BY <3>4, <3>5, <3>6, <2>10
  <2> QED
    BY <2>8, <2>11, <2>12 DEF images, p
<1> QED
  BY <1>2, <1>3

-----------------------------------------------------------------------------
(* fs_write.                                                               *)

Writing == [images : Images, block : Nat, pos : 0 .. BS, buffer : Buffer]

\* What fs_write keeps while it copies bytes.
LEMMA WritingFields ==
  ASSUME NEW s \in Writing
  PROVE  /\ s.images \in Images /\ s.block \in Nat /\ s.pos \in 0 .. BS /\ s.buffer \in Buffer
         /\ s.block * BS \in Nat
<1>1. s.images \in Images /\ s.block \in Nat /\ s.pos \in 0 .. BS /\ s.buffer \in Buffer
  BY DEF Writing
<1>2. s.block * BS \in Nat
  BY <1>1, FileSystemAssumption
<1> QED
  BY <1>1, <1>2

\* A full buffer is written, and the next block read.
Turned(s) ==
  IF s.pos # BS THEN s
  ELSE LET done == Written(s.images, s.block, s.buffer)
       IN  [s EXCEPT !.images = done, !.pos = 0, !.block = @ + 1,
                     !.buffer = BlockRead(Last(done), s.block + 1, @)]

\* A full buffer is written before the next block is read.
LEMMA TurnedIs ==
  ASSUME NEW s \in Writing
  PROVE  /\ Turned(s) \in Writing /\ Turned(s).pos # BS
         /\ s.pos # BS => Turned(s) = s
         /\ s.pos = BS =>
              /\ Turned(s).images = Written(s.images, s.block, s.buffer)
              /\ Turned(s).pos = 0 /\ Turned(s).block = s.block + 1
              /\ Turned(s).buffer = BlockRead(Last(Turned(s).images), s.block + 1, s.buffer)
<1> DEFINE t == Turned(s)
           done == Written(s.images, s.block, s.buffer)
           buf == BlockRead(Last(done), s.block + 1, s.buffer)
<1>1. CASE s.pos # BS
  BY <1>1 DEF Turned
<1>2. CASE s.pos = BS
  <2>1. done \in Images /\ Last(done) \in Disks
    BY WritingFields, WrittenIs
  <2>2. buf \in Buffer
    BY <2>1, WritingFields, ReadIs
  <2>3. s = [images |-> s.images, block |-> s.block, pos |-> s.pos, buffer |-> s.buffer]
    BY DEF Writing
  <2>4. t = [s EXCEPT !.images = done, !.pos = 0, !.block = @ + 1, !.buffer = buf]
    BY <1>2 DEF Turned
  <2> HIDE DEF t, done, buf
  <2>5. t = [images |-> done, block |-> s.block + 1, pos |-> 0, buffer |-> buf]
    BY <2>3, <2>4
  <2>6. t \in Writing
    BY <2>1, <2>2, <2>5, WritingFields, FileSystemAssumption DEF Writing
  <2>7. t.images = done /\ t.pos = 0 /\ t.block = s.block + 1 /\ t.buffer = buf
    BY <2>5
  <2>8. t.pos # BS
    BY <2>7, FileSystemAssumption
  <2> QED
    BY <1>2, <2>6, <2>7, <2>8 DEF t, done, buf
<1> QED
  BY <1>1, <1>2

\* A byte of data goes to the next place of the buffer.
LEMMA WriteByteIs ==
  ASSUME NEW s \in Writing, NEW byte \in Bytes
  PROVE  LET t == Turned(s)
             w == WriteByte(s, byte)
         IN  /\ w \in Writing
             /\ w.images = t.images /\ w.block = t.block /\ w.pos = t.pos + 1
             /\ \A q \in 0 .. BS - 1 : w.buffer[q] = IF q = t.pos THEN byte ELSE t.buffer[q]
<1> DEFINE t == Turned(s)
           w == WriteByte(s, byte)
           buf == [t.buffer EXCEPT ![t.pos] = byte]
<1>1. w = [t EXCEPT !.buffer[t.pos] = byte, !.pos = @ + 1]
  BY DEF WriteByte, Turned
<1>2. t \in Writing /\ t.pos \in 0 .. BS /\ t.pos # BS /\ t.buffer \in Buffer
  BY TurnedIs, WritingFields
<1> HIDE DEF t, w
<1>3. t = [images |-> t.images, block |-> t.block, pos |-> t.pos, buffer |-> t.buffer]
  BY <1>2 DEF Writing
<1>4. w = [images |-> t.images, block |-> t.block, pos |-> t.pos + 1, buffer |-> buf]
  BY <1>1, <1>3
<1>5. /\ buf \in Buffer
      /\ \A q \in 0 .. BS - 1 : buf[q] = IF q = t.pos THEN byte ELSE t.buffer[q]
  BY <1>2 DEF Buffer
<1> HIDE DEF buf
<1>6. t.pos + 1 \in 0 .. BS
  BY <1>2, FileSystemAssumption
<1>7. w \in Writing
  BY <1>2, <1>4, <1>5, <1>6 DEF Writing
<1>8. w.images = t.images /\ w.block = t.block /\ w.pos = t.pos + 1 /\ w.buffer = buf
  BY <1>4
<1> QED
  BY <1>5, <1>7, <1>8 DEF t, w

\* The byte v that is found in the place q of block b is the one of data, from
\* the place p on, and otherwise an old one, but for the first block.
Own(v, b, q, old, first, p, data) ==
  IF b * BS + q >= p THEN v = data[b * BS + q - p + 1] ELSE b = first \/ v = old[b][q]

\* What has been reached when k bytes of data have been taken.
Wrote(s, k, old, first, p, data) ==
  /\ s.block * BS + s.pos = p + k
  /\ Unread(Last(s.images), s.block, old)
  /\ \A b \in DataBlocks, q \in 0 .. BS - 1 :
       b < s.block => Own(Last(s.images)[b][q], b, q, old, first, p, data)
  /\ s.block \in DataBlocks => \A q \in 0 .. BS - 1 :
       IF q < s.pos THEN Own(s.buffer[q], s.block, q, old, first, p, data)
       ELSE s.block = first \/ s.buffer[q] = old[s.block][q]

\* Going on to the next block keeps what has been reached.
LEMMA TurnedWrote ==
  ASSUME NEW s \in Writing, NEW k \in Nat, NEW old \in Disks, NEW first, NEW p \in Nat, NEW data,
         Wrote(s, k, old, first, p, data)
  PROVE  Wrote(Turned(s), k, old, first, p, data)
<1> DEFINE t == Turned(s)
<1>1. CASE s.pos # BS
  BY <1>1, TurnedIs
<1>2. CASE s.pos = BS
  <2>1. /\ t.images = Written(s.images, s.block, s.buffer)
        /\ t.pos = 0 /\ t.block = s.block + 1
        /\ t.buffer = BlockRead(Last(t.images), s.block + 1, s.buffer)
    BY <1>2, TurnedIs
  <2> HIDE DEF t
  <2>2. /\ s.images \in Images /\ s.block \in Nat /\ s.pos \in 0 .. BS /\ s.buffer \in Buffer
    BY WritingFields
  <2>3. /\ Last(t.images) \in Disks
        /\ s.block \in DataBlocks => Last(t.images)[s.block] = s.buffer
        /\ \A c \in DataBlocks : c # s.block => Last(t.images)[c] = Last(s.images)[c]
    BY <2>1, <2>2, WrittenIs
  <2>4. t.block * BS + t.pos = p + k
    <3>1. s.block \in Int
      BY <2>2
    <3>2. (s.block + 1) * BS = s.block * BS + BS /\ s.block * BS \in Int
      BY <3>1, NextBlock
    <3> QED
      BY <1>2, <2>1, <3>2, FileSystemAssumption DEF Wrote
  <2>5. \A c \in DataBlocks : c >= s.block + 1 => Last(t.images)[c] = old[c]
    <3>1. \A c \in DataBlocks : c >= s.block + 1 => c >= s.block /\ c # s.block
      BY <2>2, DataStart, FileSystemAssumption DEF DataBlocks
    <3> QED
      BY <3>1, <2>3 DEF Wrote, Unread
  <2>6. ASSUME NEW b \in DataBlocks, NEW q \in 0 .. BS - 1, b < s.block + 1
        PROVE  Own(Last(t.images)[b][q], b, q, old, first, p, data)
    <3>1. CASE b = s.block
      <4>1. q < s.pos
        BY <1>2, FileSystemAssumption
      <4> QED
        BY <3>1, <4>1, <2>3 DEF Wrote
    <3>2. CASE b # s.block
      <4>1. b < s.block
        BY <3>2, <2>2, <2>6, DataStart, FileSystemAssumption DEF DataBlocks
      <4> QED
        BY <3>2, <4>1, <2>3 DEF Wrote
    <3> QED
      BY <3>1, <3>2
  <2>7. ASSUME t.block \in DataBlocks, NEW q \in 0 .. BS - 1
        PROVE  IF q < t.pos THEN Own(t.buffer[q], t.block, q, old, first, p, data)
               ELSE t.block = first \/ t.buffer[q] = old[t.block][q]
    <3>1. ~ (q < t.pos)
      BY <2>1
    <3>2. t.buffer = Last(t.images)[t.block]
      BY <2>1, <2>2, <2>3, <2>7, ReadIs
    <3>3. t.block >= s.block + 1
      BY <2>1, <2>2
    <3>4. t.buffer[q] = old[t.block][q]
      BY <3>2, <3>3, <2>5, <2>7
    <3> QED
      BY <3>1, <3>4
  <2>8. Unread(Last(t.images), t.block, old)
    BY <2>1, <2>5 DEF Unread
  <2> QED
    BY <2>1, <2>4, <2>6, <2>7, <2>8 DEF Wrote, t
<1> QED
  BY <1>1, <1>2

\* One more byte of data is in its place.
LEMMA ByteWrote ==
  ASSUME NEW s \in Writing, NEW k \in Nat, NEW old \in Disks, NEW first, NEW p \in Nat, NEW data,
         data[k + 1] \in Bytes, Wrote(s, k, old, first, p, data)
  PROVE  /\ WriteByte(s, data[k + 1]) \in Writing
         /\ Wrote(WriteByte(s, data[k + 1]), k + 1, old, first, p, data)
<1> DEFINE t == Turned(s)
           byte == data[k + 1]
           w == WriteByte(s, byte)
<1>1. Wrote(t, k, old, first, p, data)
  BY TurnedWrote
<1>2. t \in Writing /\ t.pos # BS
  BY TurnedIs
<1>3. /\ w \in Writing
      /\ w.images = t.images /\ w.block = t.block /\ w.pos = t.pos + 1
      /\ \A q \in 0 .. BS - 1 : w.buffer[q] = IF q = t.pos THEN byte ELSE t.buffer[q]
  BY WriteByteIs
<1> HIDE DEF w, t
<1>4. t.block * BS \in Nat /\ t.pos \in Nat
  BY <1>2, WritingFields, FileSystemAssumption
<1>p. t.block * BS + t.pos = p + k
  BY <1>1 DEF Wrote
<1>5. w.block * BS + w.pos = p + (k + 1)
  BY <1>p, <1>3, <1>4
<1>6. ASSUME w.block \in DataBlocks, NEW q \in 0 .. BS - 1
      PROVE  IF q < w.pos THEN Own(w.buffer[q], w.block, q, old, first, p, data)
             ELSE w.block = first \/ w.buffer[q] = old[w.block][q]
  <2>1. CASE q = t.pos
    <3>1. t.block * BS + q - p + 1 = k + 1 /\ t.block * BS + q >= p
      BY <2>1, <1>p, <1>4
    <3>2. q < w.pos /\ w.buffer[q] = data[k + 1]
      BY <2>1, <1>3, <1>4
    <3> QED
      BY <3>1, <3>2, <1>3 DEF Own
  <2>2. CASE q # t.pos
    <3>1. w.buffer[q] = t.buffer[q] /\ (q < w.pos <=> q < t.pos)
      BY <2>2, <1>3, <1>4
    <3> QED
      BY <3>1, <1>1, <1>3, <1>6 DEF Wrote
  <2> QED
    BY <2>1, <2>2
<1>7. /\ Unread(Last(w.images), w.block, old)
      /\ \A b \in DataBlocks, q \in 0 .. BS - 1 :
           b < w.block => Own(Last(w.images)[b][q], b, q, old, first, p, data)
  BY <1>1, <1>3 DEF Wrote
<1>8. Wrote(w, k + 1, old, first, p, data)
  BY <1>5, <1>6, <1>7 DEF Wrote
<1> QED
  BY <1>3, <1>8 DEF w

\* The states that the fold of WriteImages goes through.
Filing(run, n, base, data) ==
  /\ run \in [0 .. n -> Writing]
  /\ run[0] = base /\ run[n] = FoldLeft(WriteByte, base, data)
  /\ \A k \in 1 .. n : run[k] = WriteByte(run[k - 1], data[k])

\* The loop of fs_write is a sequence of such steps.
LEMMA WriteRun ==
  ASSUME NEW base \in Writing, NEW n \in Nat, NEW data \in [1 .. n -> Bytes]
  PROVE  \E run : Filing(run, n, base, data)
<1> DEFINE step == [p \in Writing \X (1 .. n) |-> WriteByte(p[1], data[p[2]])]
           eq(f) == f = [s \in SUBSET DOMAIN data |->
                           IF s = {} THEN base ELSE WriteByte(f[s \ {Max(s)}], data[Max(s)])]
           it == CHOOSE f : eq(f)
<1>1. FoldLeft(WriteByte, base, data) = it[DOMAIN data]
  BY DEF FoldLeft, MapThenFoldSet
<1>2. DOMAIN data = 1 .. n
  OBVIOUS
<1>4. \A v \in Writing, k \in 1 .. n : /\ WriteByte(v, data[k]) \in Writing
                                       /\ step[<<v, k>>] = WriteByte(v, data[k])
  BY WriteByteIs
<1>5. step \in Steps(n, Writing)
  BY <1>4 DEF Steps
<1> HIDE DEF step
<1>6. \E f : eq(f)
  <2>1. PICK f : IsFold(f, n, Writing, base, step)
    BY <1>5, FoldExists
  <2>2. /\ f \in [SUBSET (1 .. n) -> Writing]
        /\ \A s \in SUBSET (1 .. n) : f[s] = Folded(f, s, base, step)
    BY <2>1 DEF IsFold
  <2>3. ASSUME NEW s \in SUBSET (1 .. n), s # {}
        PROVE  f[s] = WriteByte(f[s \ {Max(s)}], data[Max(s)])
    <3>1. Max(s) \in 1 .. n /\ s \ {Max(s)} \in SUBSET (1 .. n)
      BY <2>3, Removing
    <3>2. f[s] = step[<<f[s \ {Max(s)}], Max(s)>>] /\ f[s \ {Max(s)}] \in Writing
      BY <2>2, <2>3, <3>1 DEF Folded
    <3> QED
      BY <3>1, <3>2, <1>4
  <2>4. f[{}] = base
    BY <2>2 DEF Folded
  <2>5. eq(f)
    BY <2>2, <2>3, <2>4, <1>2
  <2> QED
    BY <2>5
<1>7. eq(it)
  <2> HIDE DEF eq
  <2> QED
    BY <1>6
<1> HIDE DEF it
<1>8. it[{}] = base
  BY <1>7
<1>9. Unfolds(it, n, Writing, base, step)
  <2> SUFFICES ASSUME NEW s \in SUBSET (1 .. n), s # {}, it[s \ {Max(s)}] \in Writing
               PROVE  it[s] = step[<<it[s \ {Max(s)}], Max(s)>>]
    BY <1>8 DEF Unfolds
  <2>1. it[s] = WriteByte(it[s \ {Max(s)}], data[Max(s)])
    BY <1>7, <1>2
  <2> QED
    BY <2>1, <1>4, Removing
<1> HIDE DEF eq
<1>10. PICK run : IsRun(run, n, Writing, base, step) /\ run[n] = it[1 .. n]
  BY <1>5, <1>9, FoldRun
<1>11. /\ run \in [0 .. n -> Writing] /\ run[0] = base
       /\ \A k \in 1 .. n : run[k] = step[<<run[k - 1], k>>]
  BY <1>10 DEF IsRun
<1>12. \A k \in 1 .. n : run[k] = WriteByte(run[k - 1], data[k])
  <2> TAKE k \in 1 .. n
  <2>1. run[k - 1] \in Writing
    <3>1. k - 1 \in 0 .. n
      OBVIOUS
    <3> QED
      BY <3>1, <1>11
  <2>2. run[k] = step[<<run[k - 1], k>>]
    BY <1>11
  <2> QED
    BY <2>1, <2>2, <1>4
<1> QED
  BY <1>1, <1>2, <1>10, <1>11, <1>12 DEF Filing

\* The state in which the loop ends, and what the data make of the disk.
FileEnd(old, b0, o0, garbage, data) ==
  FoldLeft(WriteByte, [images |-> <<old>>, block |-> b0, pos |-> o0, buffer |-> garbage], data)
Filed(images, b0, p, n, data, old) ==
  \A b \in DataBlocks, q \in 0 .. BS - 1 :
    IF b * BS + q \in p .. p + n - 1
    THEN Last(images)[b][q] = data[b * BS + q - p + 1]
    ELSE b = b0 \/ Last(images)[b][q] = old[b][q]

\* The data are in their place, and no other byte has changed but for the rest
\* of the block in which they start.
LEMMA WriteIs ==
  ASSUME NEW b0 \in Nat, NEW o0 \in 0 .. BS - 1, NEW n \in Nat, NEW data \in [1 .. n -> Bytes],
         NEW garbage \in Buffer, NEW old \in Disks
  PROVE  LET end == FileEnd(old, b0, o0, garbage, data)
         IN  /\ Written(end.images, end.block, end.buffer) \in Images
             /\ Filed(Written(end.images, end.block, end.buffer), b0, b0 * BS + o0, n, data, old)
<1> DEFINE p == b0 * BS + o0
           base == [images |-> <<old>>, block |-> b0, pos |-> o0, buffer |-> garbage]
           end == FoldLeft(WriteByte, base, data)
           images == Written(end.images, end.block, end.buffer)
<1>1. b0 * BS \in Nat /\ p \in Nat
  BY FileSystemAssumption
<1>2. <<old>> \in Images /\ Last(<<old>>) = old
  BY ImagesStart
<1>3. base \in Writing
  BY <1>2, FileSystemAssumption DEF Writing
<1>4. base.images = <<old>> /\ base.block = b0 /\ base.pos = o0 /\ base.buffer = garbage
  OBVIOUS
<1> HIDE DEF base
<1>5. Wrote(base, 0, old, b0, p, data)
  <2>1. base.block * BS + base.pos = p + 0
    BY <1>1, <1>4
  <2>2. Unread(Last(base.images), base.block, old)
    BY <1>2, <1>4 DEF Unread
  <2>3. ASSUME NEW b \in DataBlocks, NEW q \in 0 .. BS - 1, b < b0
        PROVE  Own(Last(base.images)[b][q], b, q, old, b0, p, data)
    <3>1. b \in Int /\ b * BS \in Int
      BY DataStart, FileSystemAssumption, NextBlock DEF DataBlocks
    <3>2. b * BS + BS <= b0 * BS
      BY <3>1, <2>3, BlockOrder
    <3>3. ~ (b * BS + q >= p)
      BY <3>1, <3>2, <1>1, FileSystemAssumption
    <3> QED
      BY <3>3, <1>2, <1>4 DEF Own
  <2>4. \A q \in 0 .. BS - 1 : q < base.pos => Own(base.buffer[q], base.block, q, old, b0, p, data)
    <3> TAKE q \in 0 .. BS - 1
    <3> HAVE q < base.pos
    <3>1. ~ (b0 * BS + q >= p)
      BY <1>1, <1>4, FileSystemAssumption
    <3> QED
      BY <3>1, <1>4 DEF Own
  <2> QED
    BY <2>1, <2>2, <2>3, <2>4, <1>4 DEF Wrote
<1>6. PICK run : Filing(run, n, base, data)
  BY <1>3, WriteRun
<1>7. /\ run \in [0 .. n -> Writing]
      /\ run[0] = base /\ run[n] = end
      /\ \A k \in 1 .. n : run[k] = WriteByte(run[k - 1], data[k])
  BY <1>6 DEF Filing
<1> DEFINE S == {k \in 0 .. n : Wrote(run[k], k, old, b0, p, data)}
<1>8. \A k \in 0 .. n : k \in S
  <2>1. 0 \in S
    BY <1>5, <1>7
  <2>2. ASSUME NEW k \in 0 .. n, k \in S, k < n PROVE k + 1 \in S
    <3>1. k + 1 \in 1 .. n /\ (k + 1) - 1 = k /\ k \in Nat
      BY <2>2
    <3>2. run[k] \in Writing /\ run[k + 1] = WriteByte(run[k], data[k + 1])
      BY <3>1, <1>7
    <3>3. Wrote(run[k], k, old, b0, p, data) /\ data[k + 1] \in Bytes
      BY <2>2, <3>1
    <3> HIDE DEF p
    <3>4. Wrote(run[k + 1], k + 1, old, b0, p, data)
      BY <3>1, <3>2, <3>3, <1>1, ByteWrote
    <3> QED
      BY <3>1, <3>4
  <2> HIDE DEF S
  <2> QED
    BY <2>1, <2>2, CountingTo
<1>9. end \in Writing /\ Wrote(end, n, old, b0, p, data)
  BY <1>7, <1>8
<1> HIDE DEF end, p
<1>10. end.images \in Images /\ end.block \in Nat /\ end.pos \in 0 .. BS /\ end.buffer \in Buffer
  BY <1>9, WritingFields
<1>11. /\ images \in Images
       /\ end.block \in DataBlocks => Last(images)[end.block] = end.buffer
       /\ \A c \in DataBlocks : c # end.block => Last(images)[c] = Last(end.images)[c]
  BY <1>10, WrittenIs
<1> HIDE DEF images
<1>12. end.block * BS + end.pos = p + n /\ end.block * BS \in Int
  <2>1. end.block \in Int
    BY <1>10
  <2> QED
    BY <2>1, <1>9, NextBlock DEF Wrote
<1>13. ASSUME NEW b \in DataBlocks, NEW q \in 0 .. BS - 1
       PROVE  IF b * BS + q \in p .. p + n - 1
              THEN Last(images)[b][q] = data[b * BS + q - p + 1]
              ELSE b = b0 \/ Last(images)[b][q] = old[b][q]
  <2>1. b \in Int /\ b * BS \in Int /\ end.block \in Int
    BY <1>10, DataStart, FileSystemAssumption, NextBlock DEF DataBlocks
  <2> DEFINE x == b * BS
             y == end.block * BS
  <2>a. /\ x \in Int /\ y \in Int /\ p \in Int /\ n \in Int /\ q \in Int /\ end.pos \in Nat
        /\ q < BS /\ BS \in Nat /\ y + end.pos = p + n /\ q >= 0
    BY <2>1, <1>1, <1>10, <1>12, FileSystemAssumption
  <2>b. b = end.block => x = y
    OBVIOUS
  <2> HIDE DEF x, y
  <2>c. x + BS <= y => x + q <= p + n - 1
    BY <2>a
  <2>d. x = y /\ q < end.pos => x + q <= p + n - 1
    BY <2>a
  <2>e. x = y /\ ~ (q < end.pos) => ~ (x + q \in p .. p + n - 1)
    <3>1. x = y /\ ~ (q < end.pos) => x + q >= p + n
      BY <2>a
    <3> QED
      BY <3>1, <2>a
  <2>f. y + BS <= x => ~ (x + q \in p .. p + n - 1)
    <3>1. end.pos <= BS
      BY <1>10, FileSystemAssumption
    <3>2. y + BS <= x => x + q >= p + n
      BY <2>a, <3>1
    <3> QED
      BY <3>2, <2>a
  <2> USE DEF x, y
  <2>2. CASE b < end.block
    <3>1. b * BS + BS <= end.block * BS
      BY <2>1, <2>2, BlockOrder
    <3>2. b * BS + q <= p + n - 1
      BY <3>1, <2>c
    <3>3. b * BS + q >= p <=> b * BS + q \in p .. p + n - 1
      BY <2>1, <3>2, <1>1
    <3>4. Own(Last(end.images)[b][q], b, q, old, b0, p, data)
      BY <2>2, <1>9 DEF Wrote
    <3>5. b # end.block
      BY <2>1, <2>2
    <3>6. Own(Last(images)[b][q], b, q, old, b0, p, data)
      BY <3>4, <3>5, <1>11
    <3> QED
      BY <3>3, <3>6 DEF Own
  <2>3. CASE b = end.block /\ q < end.pos
    <3>1. b * BS + q <= p + n - 1
      BY <2>3, <2>b, <2>d
    <3>2. b * BS + q >= p <=> b * BS + q \in p .. p + n - 1
      BY <2>1, <3>1, <1>1
    <3>3. Own(end.buffer[q], b, q, old, b0, p, data)
      BY <2>3, <1>9 DEF Wrote
    <3>4. Own(Last(images)[b][q], b, q, old, b0, p, data)
      BY <2>3, <3>3, <1>11
    <3> QED
      BY <3>2, <3>4 DEF Own
  <2>4. CASE b = end.block /\ ~ (q < end.pos)
    <3>1. ~ (b * BS + q \in p .. p + n - 1)
      BY <2>4, <2>b, <2>e
    <3>2. b = b0 \/ end.buffer[q] = old[b][q]
      BY <2>4, <1>9 DEF Wrote
    <3> QED
      BY <2>4, <3>1, <3>2, <1>11
  <2>5. CASE b > end.block
    <3>1. end.block * BS + BS <= b * BS
      BY <2>1, <2>5, BlockOrder
    <3>2. ~ (b * BS + q \in p .. p + n - 1)
      BY <3>1, <2>f
    <3>3. b # end.block /\ b >= end.block
      BY <2>1, <2>5
    <3>4. Last(end.images)[b] = old[b]
      BY <3>3, <1>9 DEF Wrote, Unread
    <3> QED
      BY <3>2, <3>3, <3>4, <1>11
  <2> QED
    BY <2>1, <2>2, <2>3, <2>4, <2>5
<1> QED
  BY <1>11, <1>13 DEF Filed, FileEnd, images, end, base, p

-----------------------------------------------------------------------------
(* fs_read.                                                                *)

Reading == [block : Nat, pos : 0 .. BS, data : Seq(Bytes), buffer : Buffer]

\* What fs_read keeps while it copies bytes.
LEMMA ReadingFields ==
  ASSUME NEW s \in Reading
  PROVE  /\ s.block \in Nat /\ s.pos \in 0 .. BS /\ s.data \in Seq(Bytes) /\ s.buffer \in Buffer
         /\ s.block * BS \in Nat
<1>1. s.block \in Nat /\ s.pos \in 0 .. BS /\ s.data \in Seq(Bytes) /\ s.buffer \in Buffer
  BY DEF Reading
<1>2. s.block * BS \in Nat
  BY <1>1, FileSystemAssumption
<1> QED
  BY <1>1, <1>2

\* What has been read when k bytes have been taken from the place p on.
Took(s, k, p) ==
  /\ s.block * BS + s.pos = p + k
  /\ s.block \in DataBlocks => s.buffer = blocks[s.block]
  /\ Len(s.data) = k
  /\ \A j \in 1 .. k : ((p + j - 1) \div BS) \in DataBlocks => s.data[j] = ByteAt(blocks, p + j - 1)

\* One more byte has been taken from its place.
LEMMA ReadByteIs ==
  ASSUME blocks \in Disks, NEW s \in Reading, NEW k
  PROVE  /\ ReadByte(s, k) \in Reading
         /\ \A n \in Nat, p \in Nat : Took(s, n, p) => Took(ReadByte(s, k), n + 1, p)
<1> DEFINE t == IF s.pos = BS
                THEN [s EXCEPT !.pos = 0, !.block = @ + 1, !.buffer = BlockRead(blocks, s.block + 1, @)]
                ELSE s
           w == ReadByte(s, k)
<1>1. /\ s.block \in Nat /\ s.pos \in 0 .. BS /\ s.data \in Seq(Bytes) /\ s.buffer \in Buffer
      /\ s.block * BS \in Nat
  BY ReadingFields
<1>2. /\ t \in Reading /\ t.pos \in 0 .. BS - 1 /\ t.data = s.data
      /\ t.block * BS + t.pos = s.block * BS + s.pos
      /\ (s.block \in DataBlocks => s.buffer = blocks[s.block]) =>
           (t.block \in DataBlocks => t.buffer = blocks[t.block])
  <2>1. CASE s.pos # BS
    <3>1. t = s /\ s.pos \in 0 .. BS - 1
      <4>1. t = s
        BY <2>1
      <4> HIDE DEF t
      <4>2. s.pos \in 0 .. BS - 1
        BY <2>1, <1>1, FileSystemAssumption
      <4> QED
        BY <4>1, <4>2
    <3> HIDE DEF t
    <3> QED
      BY <3>1
  <2>2. CASE s.pos = BS
    <3> DEFINE buf == BlockRead(blocks, s.block + 1, s.buffer)
    <3>1. buf \in Buffer /\ (s.block + 1 \in DataBlocks => buf = blocks[s.block + 1])
      BY <1>1, ReadIs
    <3>2. t = [s EXCEPT !.pos = 0, !.block = @ + 1, !.buffer = buf]
      BY <2>2
    <3>3. s = [block |-> s.block, pos |-> s.pos, data |-> s.data, buffer |-> s.buffer]
      BY DEF Reading
    <3> HIDE DEF t, buf
    <3>4. t = [block |-> s.block + 1, pos |-> 0, data |-> s.data, buffer |-> buf]
      BY <3>2, <3>3
    <3>5. t \in Reading
      BY <3>1, <3>4, <1>1, FileSystemAssumption DEF Reading
    <3>6. t.block = s.block + 1 /\ t.pos = 0 /\ t.data = s.data /\ t.buffer = buf
      BY <3>4
    <3>7. (s.block + 1) * BS = s.block * BS + BS
      <4>1. s.block \in Int
        BY <1>1
      <4> QED
        BY <4>1, NextBlock
    <3> QED
      BY <2>2, <3>1, <3>5, <3>6, <3>7, <1>1, FileSystemAssumption
  <2> QED
    BY <2>1, <2>2
<1>3. w = [t EXCEPT !.data = Append(@, t.buffer[t.pos]), !.pos = @ + 1]
  BY DEF ReadByte
<1> HIDE DEF t, w
<1> DEFINE byte == t.buffer[t.pos]
<1>4. t = [block |-> t.block, pos |-> t.pos, data |-> t.data, buffer |-> t.buffer]
  BY <1>2 DEF Reading
<1>5. byte \in Bytes /\ t.block \in Nat /\ t.buffer \in Buffer
  BY <1>2, ReadingFields DEF Buffer
<1>6. w = [block |-> t.block, pos |-> t.pos + 1, data |-> Append(t.data, byte), buffer |-> t.buffer]
  BY <1>3, <1>4
<1> HIDE DEF byte
<1>7. w \in Reading
  <2>1. t.pos + 1 \in 0 .. BS
    BY <1>2, FileSystemAssumption
  <2>2. Append(t.data, byte) \in Seq(Bytes)
    BY <1>1, <1>2, <1>5
  <2> QED
    BY <2>1, <2>2, <1>5, <1>6 DEF Reading
<1>8. w.block = t.block /\ w.pos = t.pos + 1 /\ w.data = Append(s.data, byte) /\ w.buffer = t.buffer
  BY <1>2, <1>6
<1>9. ASSUME NEW n \in Nat, NEW p \in Nat, Took(s, n, p) PROVE Took(w, n + 1, p)
  <2>1. t.block * BS + t.pos = p + n /\ Len(s.data) = n
    BY <1>2, <1>9 DEF Took
  <2>2. t.block * BS \in Int
    BY <1>2, ReadingFields
  <2>3. w.block * BS + w.pos = p + (n + 1)
    <3>1. w.block * BS = t.block * BS /\ w.pos = t.pos + 1 /\ t.pos \in Int
      BY <1>2, <1>8
    <3> QED
      BY <2>1, <2>2, <3>1
  <2>4. w.block \in DataBlocks => w.buffer = blocks[w.block]
    BY <1>2, <1>8, <1>9 DEF Took
  <2>5. /\ Len(w.data) = n + 1 /\ w.data[n + 1] = byte
        /\ \A j \in 1 .. n : w.data[j] = s.data[j]
    BY <1>1, <1>5, <1>8, <2>1
  <2>6. ASSUME NEW j \in 1 .. n + 1, ((p + j - 1) \div BS) \in DataBlocks
        PROVE  w.data[j] = ByteAt(blocks, p + j - 1)
    <3>1. CASE j = n + 1
      <4>1. p + j - 1 = t.block * BS + t.pos
        BY <2>1, <2>2, <3>1
      <4>2. (t.block * BS + t.pos) \div BS = t.block /\ (t.block * BS + t.pos) % BS = t.pos
        BY <1>2, <1>5, DivModIs
      <4>3. t.block \in DataBlocks
        BY <2>6, <4>1, <4>2
      <4>4. byte = blocks[t.block][t.pos]
        BY <4>3, <1>2, <1>9 DEF Took, byte
      <4> QED
        BY <2>5, <3>1, <4>1, <4>2, <4>4 DEF ByteAt
    <3>2. CASE j # n + 1
      <4>1. j \in 1 .. n
        BY <3>2
      <4> QED
        BY <4>1, <2>5, <2>6, <1>9 DEF Took
    <3> QED
      BY <3>1, <3>2
  <2> QED
    BY <2>3, <2>4, <2>5, <2>6 DEF Took
<1> QED
  BY <1>7, <1>9 DEF w

\* The states that the fold of ReadData goes through.
Taking(run, n, base) ==
  /\ run \in [0 .. n -> Reading]
  /\ run[0] = base /\ run[n] = FoldLeft(ReadByte, base, [k \in 1 .. n |-> k])
  /\ \A k \in 1 .. n : run[k] = ReadByte(run[k - 1], k)

\* The loop of fs_read is a sequence of such steps.
LEMMA ReadRun ==
  ASSUME blocks \in Disks, NEW base \in Reading, NEW n \in Nat
  PROVE  \E run : Taking(run, n, base)
<1> DEFINE seq == [k \in 1 .. n |-> k]
           step == [p \in Reading \X (1 .. n) |-> ReadByte(p[1], seq[p[2]])]
           eq(f) == f = [s \in SUBSET DOMAIN seq |->
                           IF s = {} THEN base ELSE ReadByte(f[s \ {Max(s)}], seq[Max(s)])]
           it == CHOOSE f : eq(f)
<1>1. FoldLeft(ReadByte, base, seq) = it[DOMAIN seq]
  BY DEF FoldLeft, MapThenFoldSet
<1>2. DOMAIN seq = 1 .. n
  OBVIOUS
<1>3. \A k \in 1 .. n : seq[k] = k
  OBVIOUS
<1>4. \A v \in Reading, k \in 1 .. n : /\ ReadByte(v, seq[k]) \in Reading
                                       /\ step[<<v, k>>] = ReadByte(v, seq[k])
  BY ReadByteIs
<1>5. step \in Steps(n, Reading)
  BY <1>4 DEF Steps
<1> HIDE DEF step, seq
<1>6. \E f : eq(f)
  <2>1. PICK f : IsFold(f, n, Reading, base, step)
    BY <1>5, FoldExists
  <2>2. /\ f \in [SUBSET (1 .. n) -> Reading]
        /\ \A s \in SUBSET (1 .. n) : f[s] = Folded(f, s, base, step)
    BY <2>1 DEF IsFold
  <2>3. ASSUME NEW s \in SUBSET (1 .. n), s # {}
        PROVE  f[s] = ReadByte(f[s \ {Max(s)}], seq[Max(s)])
    <3>1. Max(s) \in 1 .. n /\ s \ {Max(s)} \in SUBSET (1 .. n)
      BY <2>3, Removing
    <3>2. f[s] = step[<<f[s \ {Max(s)}], Max(s)>>] /\ f[s \ {Max(s)}] \in Reading
      BY <2>2, <2>3, <3>1 DEF Folded
    <3> QED
      BY <3>1, <3>2, <1>4
  <2>4. f[{}] = base
    BY <2>2 DEF Folded
  <2>5. eq(f)
    BY <2>2, <2>3, <2>4, <1>2
  <2> QED
    BY <2>5
<1>7. eq(it)
  <2> HIDE DEF eq
  <2> QED
    BY <1>6
<1> HIDE DEF it
<1>8. it[{}] = base
  BY <1>7
<1>9. Unfolds(it, n, Reading, base, step)
  <2> SUFFICES ASSUME NEW s \in SUBSET (1 .. n), s # {}, it[s \ {Max(s)}] \in Reading
               PROVE  it[s] = step[<<it[s \ {Max(s)}], Max(s)>>]
    BY <1>8 DEF Unfolds
  <2>1. it[s] = ReadByte(it[s \ {Max(s)}], seq[Max(s)])
    BY <1>7, <1>2
  <2> QED
    BY <2>1, <1>4, Removing
<1> HIDE DEF eq
<1>10. PICK run : IsRun(run, n, Reading, base, step) /\ run[n] = it[1 .. n]
  BY <1>5, <1>9, FoldRun
<1>11. /\ run \in [0 .. n -> Reading] /\ run[0] = base
       /\ \A k \in 1 .. n : run[k] = step[<<run[k - 1], k>>]
  BY <1>10 DEF IsRun
<1>12. \A k \in 1 .. n : run[k] = ReadByte(run[k - 1], k)
  <2> TAKE k \in 1 .. n
  <2>1. run[k - 1] \in Reading
    <3>1. k - 1 \in 0 .. n
      OBVIOUS
    <3> QED
      BY <3>1, <1>11
  <2>2. run[k] = step[<<run[k - 1], k>>]
    BY <1>11
  <2> QED
    BY <2>1, <2>2, <1>3, <1>4
<1> QED
  BY <1>1, <1>2, <1>10, <1>11, <1>12 DEF Taking, seq

\* The bytes come one after the other from the place where the reading starts.
LEMMA ReadsInOrder ==
  ASSUME blocks \in Disks, NEW b0 \in Nat, NEW o0 \in 0 .. BS, NEW garbage \in Buffer, NEW n \in Nat
  PROVE  LET p == b0 * BS + o0
             data == FoldLeft(ReadByte, [block |-> b0, pos |-> o0, data |-> << >>,
                                         buffer |-> BlockRead(blocks, b0, garbage)],
                              [k \in 1 .. n |-> k]).data
         IN  /\ Len(data) = n
             /\ \A j \in 1 .. n : ((p + j - 1) \div BS) \in DataBlocks =>
                                    data[j] = ByteAt(blocks, p + j - 1)
<1> DEFINE p == b0 * BS + o0
           base == [block |-> b0, pos |-> o0, data |-> << >>,
                    buffer |-> BlockRead(blocks, b0, garbage)]
           end == FoldLeft(ReadByte, base, [k \in 1 .. n |-> k])
<1>1. p \in Nat
  <2>1. b0 * BS \in Nat
    BY FileSystemAssumption
  <2> QED
    BY <2>1, FileSystemAssumption
<1>2. /\ BlockRead(blocks, b0, garbage) \in Buffer
      /\ b0 \in DataBlocks => BlockRead(blocks, b0, garbage) = blocks[b0]
  BY ReadIs
<1>3. base \in Reading
  BY <1>2 DEF Reading
<1>4. Took(base, 0, p)
  <2>1. base.block * BS + base.pos = p + 0
    BY <1>1
  <2> QED
    BY <2>1, <1>2 DEF Took
<1> HIDE DEF base
<1>5. PICK run : Taking(run, n, base)
  BY <1>3, ReadRun
<1>6. /\ run \in [0 .. n -> Reading]
      /\ run[0] = base /\ run[n] = end
      /\ \A k \in 1 .. n : run[k] = ReadByte(run[k - 1], k)
  BY <1>5 DEF Taking
<1> DEFINE S == {k \in 0 .. n : Took(run[k], k, p)}
<1>7. \A k \in 0 .. n : k \in S
  <2>1. 0 \in S
    BY <1>4, <1>6
  <2>2. ASSUME NEW k \in 0 .. n, k \in S, k < n PROVE k + 1 \in S
    <3>1. k + 1 \in 1 .. n /\ (k + 1) - 1 = k /\ k \in Nat
      BY <2>2
    <3>2. run[k] \in Reading /\ run[k + 1] = ReadByte(run[k], k + 1) /\ Took(run[k], k, p)
      BY <2>2, <3>1, <1>6
    <3> HIDE DEF p
    <3>3. Took(run[k + 1], k + 1, p)
      BY <3>1, <3>2, <1>1, ReadByteIs
    <3> QED
      BY <3>1, <3>3
  <2> HIDE DEF S
  <2> QED
    BY <2>1, <2>2, CountingTo
<1>8. Took(end, n, p)
  BY <1>6, <1>7
<1> HIDE DEF end, p
<1> QED
  BY <1>8 DEF Took, end, base, p

-----------------------------------------------------------------------------
(* The inductive invariant.                                                *)

Handles == [Descriptors -> [file_num : -1..(NFILES - 1), offset : 0..MaxSize]]
Sound(t) == t = ZeroTable \/ Packed(t)

\* The tables are packed, the one on the disk and the one in memory, and a
\* descriptor that is open names an entry in use.  A table that is not all zeros
\* is that of a disk of which every block is written.
FileSystemInv ==
  /\ active \in BOOLEAN /\ mounted \in BOOLEAN /\ (mounted => active)
  /\ files \in Tables /\ table \in Tables
  /\ open_files \in Handles
  /\ blocks \in Disks
  /\ Sound(table)
  /\ made \in 0..DISK_BLOCKS /\ unread \in BOOLEAN
  /\ table # ZeroTable => made = DISK_BLOCKS
  /\ mounted => Sound(files)
  /\ mounted /\ files # ZeroTable => made = DISK_BLOCKS
  /\ mounted => \A d \in Descriptors : IsOpen(d) => FileOf(d).name # NoName

\* The two tables make_disk and make_fs leave: zeros, and all entries free.
LEMMA TablesAre ==
  /\ ZeroTable \in Tables /\ \A i \in Entries : ZeroTable[i].name = NoName /\ ZeroTable[i].size = 0
  /\ FreeTable \in Tables /\ Packed(FreeTable)
<1>1. ZeroEntry = [name |-> NoName, block |-> 0, offset |-> 0, size |-> 0]
  BY DEF ZeroEntry
<1>2. ZeroEntry \in Row
  BY <1>1, FileSystemAssumption DEF Row
<1>3. FreeEntry \in Row /\ FreeEntry.name = NoName /\ FreeEntry.size = -1
  <2>1. FreeEntry = [name |-> NoName, block |-> 0, offset |-> 0, size |-> -1]
    BY <1>1 DEF FreeEntry
  <2> QED
    BY <2>1, FileSystemAssumption DEF Row
<1>4. ZeroTable \in Tables /\ \A i \in Entries : ZeroTable[i].name = NoName /\ ZeroTable[i].size = 0
  BY <1>1, <1>2 DEF ZeroTable, Tables
<1>5. FreeTable \in Tables /\ \A i \in Entries : FreeTable[i].name = NoName /\ FreeTable[i].size = -1
  BY <1>3 DEF FreeTable, Tables
<1>6. Packed(FreeTable)
  BY <1>5 DEF Packed
<1> QED
  BY <1>4, <1>5, <1>6

\* A named file that is found, and the file of an open descriptor.
LEMMA InUse ==
  ASSUME FileSystemInv, mounted, NEW i \in Entries, files[i].name # NoName
  PROVE  Packed(files) /\ files[i].size \in 0 .. MaxSize
<1>1. files \in Tables /\ Sound(files)
  BY DEF FileSystemInv
<1>2. files # ZeroTable
  BY TablesAre
<1>3. Packed(files)
  BY <1>1, <1>2 DEF Sound
<1>4. files[i].size >= 0
  BY <1>3 DEF Packed
<1> QED
  BY <1>1, <1>3, <1>4, RowFields

\* Where there is a file, every block of the disk is written.
LEMMA DiskIsWhole ==
  ASSUME FileSystemInv, mounted, NEW i \in Entries,
         files[i].name # NoName \/ files[i].size = -1
  PROVE  made = DISK_BLOCKS
<1>1. files # ZeroTable
  <2>1. ZeroTable[i].name = NoName /\ ZeroTable[i].size = 0
    BY TablesAre
  <2> QED
    BY <2>1
<1> QED
  BY <1>1 DEF FileSystemInv

\* What a descriptor holds; one that is open names an entry.
LEMMA HandleFields ==
  ASSUME FileSystemInv, NEW d \in Descriptors
  PROVE  /\ open_files[d].file_num \in -1..(NFILES - 1) /\ open_files[d].offset \in 0..MaxSize
         /\ open_files[d] = [file_num |-> open_files[d].file_num, offset |-> open_files[d].offset]
         /\ IsOpen(d) => open_files[d].file_num \in Entries
<1>1. open_files[d] \in [file_num : -1..(NFILES - 1), offset : 0..MaxSize]
  BY DEF FileSystemInv, Handles
<1>2. /\ open_files[d].file_num \in -1..(NFILES - 1) /\ open_files[d].offset \in 0..MaxSize
      /\ open_files[d] = [file_num |-> open_files[d].file_num, offset |-> open_files[d].offset]
  BY <1>1
<1>3. IsOpen(d) => open_files[d].file_num \in Entries
  BY <1>2, FileSystemAssumption DEF IsOpen, Entries
<1> QED
  BY <1>2, <1>3

\* The entry an open descriptor names is in use.
LEMMA OpenInUse ==
  ASSUME FileSystemInv, mounted, NEW d \in Descriptors, IsOpen(d)
  PROVE  /\ open_files[d].file_num \in Entries
         /\ Packed(files) /\ FileOf(d).size \in 0 .. MaxSize
<1>1. open_files[d].file_num \in Entries
  BY HandleFields
<1>2. files[open_files[d].file_num].name # NoName
  BY DEF FileSystemInv, FileOf
<1> QED
  BY <1>1, <1>2, InUse DEF FileOf

\* Every image that a call leaves behind is one of a disk.
LEMMA DeleteImagesAre ==
  ASSUME FileSystemInv, NEW name, Find(files, name) # NFILES, NEW stray \in Bytes
  PROVE  /\ DeleteImages(name, stray) \in Images
         /\ Last(DeleteImages(name, stray)) \in Disks
         /\ \A disk \in ToSet(DeleteImages(name, stray)) : disk \in Disks
<1> DEFINE gone == files[Find(files, name)]
<1>1. Find(files, name) \in Entries
  BY FindIs
<1>2. gone.block \in Nat /\ gone.offset \in 0 .. BS /\ gone.size \in Int /\ gone.size >= -1
  <2>1. files \in Tables
    BY DEF FileSystemInv
  <2> QED
    BY <1>1, <2>1, RowFields
<1>3. blocks \in Disks
  BY DEF FileSystemInv
<1> HIDE DEF gone
<1>4. ShiftBlocks(gone.block, gone.offset, gone.size, stray) \in Images
  BY <1>2, <1>3, ShiftIs
<1>5. DeleteImages(name, stray) \in Images
  BY <1>4 DEF DeleteImages, gone
<1> QED
  BY <1>5, ImagesAre

\* fs_truncate changes nothing in front of the place at which it cuts.
LEMMA TruncateImagesAre ==
  ASSUME FileSystemInv, NEW d \in Descriptors, IsOpen(d), NEW length \in Nat, NEW stray \in Bytes
  PROVE  LET images == TruncateImages(d, length, stray)
         IN  /\ images \in Images
             /\ FrontOf(Last(images), blocks, Place(FileOf(d)) + length)
             /\ Last(images) \in Disks
             /\ \A disk \in ToSet(images) : disk \in Disks
<1> DEFINE f == FileOf(d)
           start == Carry(f.block, f.offset + length)
           images == TruncateImages(d, length, stray)
<1>1. f.block \in Nat /\ f.offset \in Nat /\ blocks \in Disks
  <2>1. files \in Tables /\ open_files[d].file_num \in Entries /\ blocks \in Disks
    BY HandleFields DEF FileSystemInv
  <2> QED
    BY <2>1, RowFields, FileSystemAssumption DEF FileOf
<1>2. f.offset + length \in Nat
  BY <1>1
<1>3. /\ start.block \in Nat /\ start.offset \in 0 .. BS
      /\ start.block * BS + start.offset = f.block * BS + (f.offset + length)
  BY <1>1, <1>2, CarryIs
<1>4. length - 1 \in Int /\ length - 1 >= -1
  OBVIOUS
<1>5. images = ShiftBlocks(start.block, start.offset, length - 1, stray)
  BY DEF TruncateImages
<1> HIDE DEF images, start
<1>6. images \in Images /\ FrontOf(Last(images), blocks, start.block * BS + start.offset)
  BY <1>1, <1>3, <1>4, <1>5, ShiftIs
<1>7. start.block * BS + start.offset = Place(f) + length
  <2>1. f.block * BS \in Int
    BY <1>1, FileSystemAssumption
  <2> QED
    BY <2>1, <1>1, <1>3 DEF Place
<1>8. Last(images) \in Disks /\ \A disk \in ToSet(images) : disk \in Disks
  BY <1>6, ImagesAre
<1> QED
  BY <1>6, <1>7, <1>8 DEF images

\* fs_write puts the data where its descriptor points.
LEMMA WriteImagesAre ==
  ASSUME FileSystemInv, NEW d \in Descriptors, IsOpen(d),
         NEW n \in Nat, NEW data \in [1 .. n -> Bytes], NEW garbage \in Buffer
  PROVE  LET images == WriteImages(d, data, garbage)
             p == Place(FileOf(d)) + open_files[d].offset
         IN  /\ images \in Images
             /\ Last(images) \in Disks
             /\ \A disk \in ToSet(images) : disk \in Disks
             /\ Filed(images, p \div BS, p, n, data, blocks)
<1> DEFINE f == FileOf(d)
           off == open_files[d].offset
           at == CarryFull(f.block, f.offset + off)
           p == Place(f) + off
           images == WriteImages(d, data, garbage)
           end == FileEnd(blocks, at.block, at.offset, garbage, data)
<1>1. f.block \in Nat /\ f.offset \in Nat /\ blocks \in Disks /\ off \in Nat
  <2>1. files \in Tables /\ open_files[d].file_num \in Entries /\ blocks \in Disks
    BY HandleFields DEF FileSystemInv
  <2>2. off \in Nat
    <3>1. off \in 0 .. MaxSize
      BY HandleFields
    <3> HIDE DEF off
    <3> QED
      BY <3>1, FileSystemAssumption
  <2> HIDE DEF off
  <2>3. f.block \in Nat /\ f.offset \in 0 .. BS
    BY <2>1, RowFields DEF FileOf
  <2> HIDE DEF f
  <2> QED
    BY <2>1, <2>2, <2>3, FileSystemAssumption
<1>2. f.offset + off \in Int /\ f.offset + off >= -1 /\ f.offset + off # -1
  BY <1>1
<1>3. /\ at.block \in Nat /\ at.offset \in 0 .. BS - 1
      /\ at.block * BS + at.offset = f.block * BS + (f.offset + off)
  <2>1. /\ at.block \in Nat /\ at.offset \in -1 .. BS - 1 /\ at.offset # -1
        /\ at.block * BS + at.offset = f.block * BS + (f.offset + off)
    BY <1>1, <1>2, CarryFullIs
  <2> HIDE DEF at
  <2> QED
    BY <2>1, FileSystemAssumption
<1>4. images = Written(end.images, end.block, end.buffer)
  BY DEF WriteImages, FileEnd
<1> HIDE DEF images, at
<1>5. at.block * BS + at.offset = p /\ p \div BS = at.block
  <2>1. f.block * BS \in Int
    BY <1>1, FileSystemAssumption
  <2>2. at.block * BS + at.offset = p
    BY <2>1, <1>1, <1>3 DEF Place
  <2> QED
    BY <2>2, <1>3, DivModIs
<1>6. images \in Images /\ Filed(images, at.block, at.block * BS + at.offset, n, data, blocks)
  BY <1>1, <1>3, <1>4, WriteIs
<1> HIDE DEF end, p
<1>7. images \in Images /\ Filed(images, p \div BS, p, n, data, blocks)
  BY <1>5, <1>6
<1>8. Last(images) \in Disks /\ \A disk \in ToSet(images) : disk \in Disks
  BY <1>7, ImagesAre
<1> QED
  BY <1>7, <1>8 DEF images, p

-----------------------------------------------------------------------------
(* What each call does to the table and to the descriptors.                *)

\* A descriptor that was open and stays open has its file, its size and offset.
KeepsFiles ==
  \A d \in Descriptors : IsOpen(d) /\ IsOpen(d)' =>
    /\ FileOf(d)'.name = FileOf(d).name
    /\ Used(files)' # Used(files) => /\ FileOf(d)'.size = FileOf(d).size
                                     /\ open_files'[d].offset = open_files[d].offset

\* fs_create changes entries that are free.
LEMMA CreateIs ==
  ASSUME FileSystemInv, NEW name \in Names, FsCreate(name)
  PROVE  /\ files' \in Tables /\ Packed(files')
         /\ \A j \in Entries : files[j].size # -1 => files'[j] = files[j]
         /\ open_files' \in Handles
         /\ \A d \in Descriptors : IsOpen(d)' => open_files'[d] = open_files[d]
<1> DEFINE i == FirstFree(files)
           filled == FillBlockAndOffset(files, i)
           created == [filled EXCEPT ![i].size = 0, ![i].name = name]
<1>1. /\ files \in Tables /\ open_files \in Handles /\ Sound(files) /\ mounted
      /\ i # NFILES
      /\ IF i + 1 \in Entries
         THEN files' = [created EXCEPT ![i + 1].size = -1] /\ UNCHANGED open_files
         ELSE /\ files' = created
              /\ open_files' \in {open_files, [open_files EXCEPT ![Struck] = Closed]}
  BY DEF FileSystemInv, FsCreate
<1>2. /\ i \in Entries /\ files[i].size = -1
      /\ \A j \in Entries : j < i => files[j].size # -1
  BY <1>1, FirstFreeIs
<1> HIDE DEF i
<1>3. Packed(files)
  <2>1. files # ZeroTable
    <3>1. ZeroTable[i].size = 0
      BY <1>2, TablesAre
    <3> QED
      BY <3>1, <1>2
  <2> QED
    BY <2>1, <1>1 DEF Sound
<1>4. /\ filled \in Tables /\ \A j \in Entries \ {i} : filled[j] = files[j]
      /\ Place(filled[i]) = Behind(files, i)
  BY <1>1, <1>2, FillEntry
<1> HIDE DEF filled
<1>5. /\ created \in Tables
      /\ created[i].name = name /\ created[i].size = 0
      /\ Place(created[i]) = Place(filled[i])
      /\ \A j \in Entries \ {i} : created[j] = files[j]
  <2> DEFINE sized == [filled EXCEPT ![i].size = 0]
  <2>1. filled \in [Entries -> Row] /\ filled[i] \in Row
    BY <1>2, <1>4 DEF Tables
  <2>2. /\ sized \in [Entries -> Row] /\ sized[i] = [filled[i] EXCEPT !.size = 0]
        /\ \A j \in Entries \ {i} : sized[j] = filled[j]
    BY <2>1, <1>2, FileSystemAssumption DEF Row
  <2>3. /\ sized[i].size = 0 /\ sized[i].block = filled[i].block
        /\ sized[i].offset = filled[i].offset
    BY <2>1, <2>2 DEF Row
  <2>4. created = [sized EXCEPT ![i].name = name]
    BY <2>1, <1>2
  <2> HIDE DEF sized, created
  <2>5. /\ created \in [Entries -> Row] /\ created[i] = [sized[i] EXCEPT !.name = name]
        /\ \A j \in Entries \ {i} : created[j] = sized[j]
    <3>1. [sized[i] EXCEPT !.name = name] \in Row
      <4>1. sized[i] \in Row
        BY <2>2, <1>2
      <4> QED
        BY <4>1, <1>2 DEF Row
    <3> HIDE DEF Row
    <3> QED
      BY <2>2, <2>4, <3>1, <1>2
  <2>6. /\ created[i].name = name /\ created[i].size = 0
        /\ created[i].block = filled[i].block /\ created[i].offset = filled[i].offset
    BY <2>2, <2>3, <2>5, <1>2 DEF Row
  <2> QED
    BY <2>2, <2>5, <2>6, <1>4 DEF Tables, Place
<1> HIDE DEF created
<1>6. Packed(created)
  BY <1>1, <1>2, <1>3, <1>4, <1>5, CreateKeepsPacked
<1>7. files' = created
  <2>1. CASE i + 1 \in Entries
    <3>1. files[i + 1].size = -1 /\ i + 1 # i
      <4>1. i <= i + 1 /\ i + 1 # i
        BY <1>2 DEF Entries
      <4> QED
        BY <4>1, <2>1, <1>1, <1>2, <1>3, FreeBehind
    <3>2. created[i + 1].size = -1
      BY <3>1, <2>1, <1>5
    <3>3. files' = [created EXCEPT ![i + 1].size = -1]
      BY <2>1, <1>1
    <3>4. created \in [Entries -> Row] /\ created[i + 1] \in Row
      BY <2>1, <1>5 DEF Tables
    <3>5. [created[i + 1] EXCEPT !.size = -1] = created[i + 1]
      BY <3>2, <3>4 DEF Row
    <3> QED
      BY <3>3, <3>4, <3>5
  <2>2. CASE i + 1 \notin Entries
    BY <2>2, <1>1
  <2> QED
    BY <2>1, <2>2
<1>8. \A j \in Entries : files[j].size # -1 => files'[j] = files[j]
  BY <1>2, <1>5, <1>7
<1>9. /\ open_files' \in Handles
      /\ \A d \in Descriptors : IsOpen(d)' => open_files'[d] = open_files[d]
  <2>1. CASE open_files' = open_files
    BY <2>1, <1>1
  <2>2. CASE open_files' = [open_files EXCEPT ![Struck] = Closed]
    <3>1. Closed \in [file_num : -1..(NFILES - 1), offset : 0..MaxSize] /\ Closed.file_num = -1
      BY FileSystemAssumption DEF Closed
    <3>2. Struck \in Descriptors
      BY FileSystemAssumption DEF Descriptors
    <3>3. /\ open_files' \in Handles /\ open_files'[Struck] = Closed
          /\ \A d \in Descriptors \ {Struck} : open_files'[d] = open_files[d]
      BY <2>2, <3>1, <3>2, <1>1 DEF Handles
    <3> QED
      BY <3>1, <3>3 DEF IsOpen
  <2> QED
    BY <2>1, <2>2, <1>1
<1> QED
  BY <1>5, <1>6, <1>7, <1>8, <1>9

\* fs_delete moves the entries behind the deleted one, and the descriptors
\* that name them, up by one.
LEMMA DeleteIs ==
  ASSUME FileSystemInv, NEW name \in Names, NEW heap, FsDelete(name, heap)
  PROVE  /\ files' \in Tables /\ Packed(files')
         /\ open_files' \in Handles
         /\ \A d \in Descriptors : IsOpen(d)' =>
              /\ IsOpen(d) /\ open_files'[d].offset = open_files[d].offset
              /\ FileOf(d)'.name = FileOf(d).name /\ FileOf(d)'.size = FileOf(d).size
<1> DEFINE g == Find(files, name)
<1>1. /\ files \in Tables /\ open_files \in Handles /\ mounted
      /\ Deletable(name) /\ open_files' = Renumber(g) /\ files' = DeleteTable(name)
  BY DEF FileSystemInv, FsDelete
<1>2. g \in Entries /\ files[g].name = name /\ \A d \in Descriptors : open_files[d].file_num # g
  BY <1>1, FindIs DEF Deletable
<1>3. Packed(files)
  BY <1>1, <1>2, InUse, FileSystemAssumption
<1>4. files' = FillFrom(ShiftEntries(files, g), g, NFILES - 1)
  BY <1>1 DEF DeleteTable
<1> HIDE DEF g
<1>5. /\ files' \in Tables /\ Packed(files')
      /\ \A i \in Entries : i < g => files'[i] = files[i]
      /\ \A i \in Entries : i >= g /\ i + 1 \in Entries =>
           files'[i].name = files[i + 1].name /\ files'[i].size = files[i + 1].size
  <2>1. files \in Tables /\ g \in Entries /\ Packed(files)
    BY <1>1, <1>2, <1>3
  <2> QED
    BY <2>1, <1>4, DeleteKeepsPacked
<1>6. ASSUME NEW d \in Descriptors
      PROVE  /\ open_files'[d] \in [file_num : -1..(NFILES - 1), offset : 0..MaxSize]
             /\ open_files'[d].offset = open_files[d].offset
             /\ open_files'[d].file_num = IF open_files[d].file_num > g
                                          THEN open_files[d].file_num - 1
                                          ELSE open_files[d].file_num
  <2>1. /\ open_files[d].file_num \in -1..(NFILES - 1) /\ open_files[d].offset \in 0..MaxSize
        /\ open_files[d] = [file_num |-> open_files[d].file_num, offset |-> open_files[d].offset]
    BY HandleFields
  <2>2. open_files'[d] = IF open_files[d].file_num > g
                         THEN [open_files[d] EXCEPT !.file_num = @ - 1]
                         ELSE open_files[d]
    BY <1>1 DEF Renumber
  <2>3. CASE open_files[d].file_num > g
    <3>1. open_files'[d] = [file_num |-> open_files[d].file_num - 1, offset |-> open_files[d].offset]
      BY <2>1, <2>2, <2>3
    <3>2. open_files[d].file_num - 1 \in -1..(NFILES - 1)
      BY <2>1, <2>3, <1>2, FileSystemAssumption DEF Entries
    <3> QED
      BY <2>1, <2>3, <3>1, <3>2
  <2>4. CASE ~ (open_files[d].file_num > g)
    BY <2>1, <2>2, <2>4
  <2> QED
    BY <2>3, <2>4
<1>7. open_files' \in Handles
  <2>1. open_files' = [d \in Descriptors |-> open_files'[d]]
    BY <1>1 DEF Renumber
  <2> QED
    BY <2>1, <1>6 DEF Handles
<1>8. ASSUME NEW d \in Descriptors, IsOpen(d)'
      PROVE  /\ IsOpen(d)
             /\ FileOf(d)'.name = FileOf(d).name /\ FileOf(d)'.size = FileOf(d).size
  <2> DEFINE f == open_files[d].file_num
             h == open_files'[d].file_num
  <2>1. f \in -1..(NFILES - 1) /\ f # g /\ h # -1 /\ h = IF f > g THEN f - 1 ELSE f
    BY <1>2, <1>6, <1>8, HandleFields DEF IsOpen
  <2>2. FileOf(d) = files[f] /\ FileOf(d)' = files'[h]
    BY DEF FileOf
  <2> HIDE DEF f, h
  <2>3. g \in Nat
    BY <1>2 DEF Entries
  <2>4. CASE f > g
    <3>1. f # -1 /\ h \in Entries /\ h >= g /\ h + 1 = f /\ f \in Entries
      BY <2>1, <2>3, <2>4, FileSystemAssumption DEF Entries
    <3> QED
      BY <2>2, <3>1, <1>5 DEF IsOpen, f
  <2>5. CASE ~ (f > g)
    <3>1. f # -1 /\ h = f /\ f \in Entries /\ f < g
      BY <2>1, <2>3, <2>5, FileSystemAssumption DEF Entries
    <3> QED
      BY <2>2, <3>1, <1>5 DEF IsOpen, f
  <2> QED
    BY <2>4, <2>5
<1> QED
  BY <1>5, <1>6, <1>7, <1>8

\* fs_write lets a file grow only into room that no other file has.
LEMMA WriteTableIs ==
  ASSUME FileSystemInv, NEW d \in Descriptors, NEW data, Len(data) \in Nat, FsWrite(d, data)
  PROVE  /\ files' \in Tables /\ Packed(files')
         /\ \A j \in Entries : files'[j].name = files[j].name
         /\ Used(files)' = Used(files)
         /\ open_files' \in Handles
         /\ \A e \in Descriptors : open_files'[e].file_num = open_files[e].file_num
<1> DEFINE f == open_files[d].file_num
           end == open_files[d].offset + Len(data)
<1>1. /\ mounted /\ IsOpen(d) /\ files \in Tables /\ open_files \in Handles
      /\ end <= MaxSize /\ Writable(d, Len(data))
      /\ open_files' = [open_files EXCEPT ![d].offset = end]
      /\ files' = IF files[f].size < end THEN [files EXCEPT ![f].size = end] ELSE files
  BY DEF FileSystemInv, FsWrite, FileOf
<1>2. f \in Entries /\ Packed(files) /\ files[f].size \in 0 .. MaxSize
  BY <1>1, OpenInUse DEF FileOf
<1>3. open_files[d].offset \in Nat /\ end \in 0 .. MaxSize
  <2>1. open_files[d].offset \in 0 .. MaxSize
    BY HandleFields
  <2>2. open_files[d].offset \in Nat
    BY <2>1, FileSystemAssumption
  <2>3. end \in Nat
    BY <2>2
  <2>4. end <= MaxSize
    BY <1>1
  <2> HIDE DEF end
  <2> QED
    BY <2>2, <2>3, <2>4, FileSystemAssumption
<1>w. \/ files[f].size = -1 \/ end <= files[f].size
      \/ f + 1 \in Entries => files[f + 1].size = -1
  BY <1>1 DEF Writable, FileOf
<1> HIDE DEF f, end
<1>4. /\ files[f].size >= 0
      /\ files[f].size < end => (f + 1 \in Entries => files[f + 1].size = -1)
  <2>1. files[f].size \in Nat /\ end \in Nat
    BY <1>2, <1>3, FileSystemAssumption
  <2>2. files[f].size # -1 /\ (files[f].size < end => ~ (end <= files[f].size))
    BY <2>1
  <2> QED
    BY <2>1, <2>2, <1>w
<1>5. /\ files' \in Tables /\ Packed(files')
      /\ \A j \in Entries : files'[j].name = files[j].name
  <2>1. CASE files[f].size < end
    <3>1. files' = [files EXCEPT ![f].size = end]
      BY <1>1, <2>1
    <3>a. files \in Tables /\ Packed(files) /\ f \in Entries /\ files[f].size >= 0
          /\ end \in 0 .. MaxSize /\ (f + 1 \in Entries => files[f + 1].size = -1)
      BY <2>1, <1>1, <1>2, <1>3, <1>4
    <3>2. files' \in Tables /\ Packed(files')
      BY <3>a, <3>1, GrowKeepsPacked
    <3>3. files \in [Entries -> Row]
      BY <1>1 DEF Tables
    <3>4. \A j \in Entries : files'[j].name = files[j].name
      BY <3>1, <3>3, <1>2 DEF Row
    <3> QED
      BY <3>2, <3>4
  <2>2. CASE ~ (files[f].size < end)
    BY <2>2, <1>1, <1>2
  <2> QED
    BY <2>1, <2>2
<1>6. Used(files)' = Used(files)
  BY <1>2, <1>5 DEF Used, Packed
<1>7. /\ open_files' \in Handles
      /\ \A e \in Descriptors : open_files'[e].file_num = open_files[e].file_num
  <2>1. open_files \in [Descriptors -> [file_num : -1..(NFILES - 1), offset : 0..MaxSize]]
    BY <1>1 DEF Handles
  <2> QED
    BY <2>1, <1>1, <1>3 DEF Handles
<1> QED
  BY <1>5, <1>6, <1>7

\* fs_truncate makes its file shorter, and moves others down.
LEMMA TruncateIs ==
  ASSUME FileSystemInv, NEW d \in Descriptors, NEW length \in 0 .. MaxSize, NEW heap,
         FsTruncate(d, length, heap)
  PROVE  /\ files' \in Tables /\ Packed(files')
         /\ \A j \in Entries : files'[j].name = files[j].name
         /\ Used(files)' = Used(files)
         /\ open_files' \in Handles
         /\ \A e \in Descriptors : open_files'[e].file_num = open_files[e].file_num
<1> DEFINE f == open_files[d].file_num
<1>1. /\ mounted /\ IsOpen(d) /\ files \in Tables /\ open_files \in Handles
      /\ length <= files[f].size
      /\ files' = FillFrom([files EXCEPT ![f].size = length], d, NFILES - 2)
      /\ open_files' = IF open_files[d].offset > length
                       THEN [open_files EXCEPT ![d].offset = length] ELSE open_files
  BY DEF FileSystemInv, FsTruncate, TruncateTable, FileOf
<1>2. f \in Entries /\ Packed(files) /\ files[f].size \in 0 .. MaxSize /\ d \in Nat
  BY <1>1, OpenInUse DEF FileOf, Descriptors
<1> HIDE DEF f
<1>3. files[f].size >= 0
  BY <1>2, FileSystemAssumption
<1>4. /\ files' \in Tables /\ Packed(files')
      /\ \A j \in Entries : files'[j].name = files[j].name
  <2>1. Shortened(files', files, f, length)
    BY <1>1, <1>2, <1>3, TruncateKeepsPacked
  <2> QED
    BY <2>1 DEF Shortened
<1>5. Used(files)' = Used(files)
  BY <1>2, <1>4 DEF Used, Packed
<1>6. /\ open_files' \in Handles
      /\ \A e \in Descriptors : open_files'[e].file_num = open_files[e].file_num
  <2>1. open_files \in [Descriptors -> [file_num : -1..(NFILES - 1), offset : 0..MaxSize]]
    BY <1>1 DEF Handles
  <2> QED
    BY <2>1, <1>1 DEF Handles
<1> QED
  BY <1>4, <1>5, <1>6

-----------------------------------------------------------------------------
(* The invariant holds.                                                    *)

\* What fs_write is given is a sequence of bytes.
LEMMA DataAre ==
  ASSUME NEW data \in Data
  PROVE  \E n \in Nat : data \in [1 .. n -> Bytes] /\ Len(data) = n
<1>1. PICK n \in 0 .. MaxWrite : data \in [1 .. n -> Bytes]
  BY DEF Data
<1>2. n \in Nat
  BY <1>1, FileSystemAssumption
<1>3. data = [k \in 1 .. n |-> data[k]]
  BY <1>1
<1>4. Len(data) = n
  BY <1>2, <1>3
<1> QED
  BY <1>1, <1>2, <1>4

\* The empty disk, and the descriptors all closed.
LEMMA EmptyAre ==
  /\ ZeroBlocks \in Disks /\ AllClosed \in Handles
  /\ \A d \in Descriptors : AllClosed[d].file_num = -1
<1>1. ZeroBlocks \in Disks
  BY FileSystemAssumption DEF ZeroBlocks, Disks, DataBlocks, Buffer
<1>2. Closed \in [file_num : -1..(NFILES - 1), offset : 0..MaxSize] /\ Closed.file_num = -1
  BY FileSystemAssumption DEF Closed
<1> QED
  BY <1>1, <1>2 DEF AllClosed, Handles

\* The descriptors of a process that has just started.
LEMMA ZeroedAre == [d \in Descriptors |-> [file_num |-> 0, offset |-> 0]] \in Handles
<1>1. [file_num |-> 0, offset |-> 0] \in [file_num : -1..(NFILES - 1), offset : 0..MaxSize]
  BY FileSystemAssumption
<1> QED
  BY <1>1 DEF Handles

\* The disk as make_disk leaves it.
LEMMA InvInit == Init => FileSystemInv
<1> SUFFICES ASSUME Init PROVE FileSystemInv
  OBVIOUS
<1>1. Sound(ZeroTable) /\ ZeroTable \in Tables
  BY TablesAre DEF Sound
<1>2. DISK_BLOCKS \in 0..DISK_BLOCKS
  BY FileSystemAssumption
<1> QED
  BY <1>1, <1>2, EmptyAre, ZeroedAre DEF Init, FileSystemInv

\* A process that starts anew finds what its predecessor left on the disk.
LEMMA KilledIs ==
  ASSUME FileSystemInv, NEW disk \in Disks, Killed(disk), table' \in Tables, Sound(table'),
         made' \in 0..DISK_BLOCKS, table' # ZeroTable => made' = DISK_BLOCKS
  PROVE  FileSystemInv'
<1>1. /\ active' = FALSE /\ mounted' = FALSE /\ unread' = FALSE
      /\ files' = ZeroTable /\ blocks' = disk
      /\ open_files' = [d \in Descriptors |-> [file_num |-> 0, offset |-> 0]]
  BY DEF Killed
<1> QED
  BY <1>1, TablesAre, ZeroedAre DEF FileSystemInv

\* The calls that make, mount and unmount the file system.
LEMMA MountingIs ==
  ASSUME FileSystemInv,
         \/ Crash \/ MakeFsKilled \/ UnmountFs \/ UnmountFsKilled
         \/ \E heap \in BOOLEAN : MakeFs(heap) \/ MountFs(heap)
  PROVE  FileSystemInv'
<1>1. /\ Sound(ZeroTable) /\ ZeroTable \in Tables
      /\ Sound(FreeTable) /\ FreeTable \in Tables
  BY TablesAre DEF Sound
<1>2. /\ table \in Tables /\ Sound(table) /\ files \in Tables /\ open_files \in Handles
      /\ blocks \in Disks /\ active \in BOOLEAN /\ mounted \in BOOLEAN
      /\ mounted => Sound(files)
      /\ made \in 0..DISK_BLOCKS /\ unread \in BOOLEAN
      /\ table # ZeroTable => made = DISK_BLOCKS
      /\ mounted /\ files # ZeroTable => made = DISK_BLOCKS
  BY DEF FileSystemInv
<1>3. CASE Crash
  BY <1>2, <1>3, KilledIs DEF Crash
<1>4. CASE MakeFsKilled
  BY <1>1, <1>4, EmptyAre, KilledIs DEF MakeFsKilled
<1>5. CASE UnmountFs
  BY <1>1, <1>2, <1>5, EmptyAre DEF UnmountFs, FileSystemInv
<1>6. CASE UnmountFsKilled
  BY <1>2, <1>6, KilledIs DEF UnmountFsKilled
<1>7. ASSUME NEW heap \in BOOLEAN, MakeFs(heap) PROVE FileSystemInv'
  <2>0. DISK_BLOCKS \in 0..DISK_BLOCKS
    BY FileSystemAssumption
  <2>1. /\ blocks' = ZeroBlocks /\ mounted' = FALSE /\ unread' = FALSE
        /\ active' \in BOOLEAN /\ made' = DISK_BLOCKS /\ made' \in 0..DISK_BLOCKS
        /\ table' \in Tables /\ Sound(table')
        /\ files' \in Tables /\ open_files' \in Handles
    <3>1. CASE heap
      BY <2>0, <1>1, <1>7, <3>1, EmptyAre DEF MakeFs
    <3>2. CASE ~ heap
      BY <2>0, <1>1, <1>2, <1>7, <3>2, EmptyAre DEF MakeFs
    <3> QED
      BY <3>1, <3>2
  <2> QED
    BY <2>1, EmptyAre DEF FileSystemInv
<1>8. ASSUME NEW heap \in BOOLEAN, MountFs(heap) PROVE FileSystemInv'
  <2>1. /\ active' = TRUE
        /\ mounted' = (heap /\ made # 0) /\ unread' = (heap /\ made = 0)
        /\ files' = IF heap /\ made # 0 THEN table ELSE files
        /\ open_files' = IF heap THEN AllClosed ELSE open_files
        /\ UNCHANGED <<table, blocks, made>>
    BY <1>8 DEF MountFs
  <2>2. CASE heap /\ made # 0
    BY <2>1, <2>2, <1>2, EmptyAre DEF FileSystemInv, IsOpen
  <2>3. CASE ~ (heap /\ made # 0)
    <3>1. /\ active' = TRUE /\ mounted' = FALSE /\ unread' \in BOOLEAN
          /\ files' = files /\ open_files' \in Handles
          /\ UNCHANGED <<table, blocks, made>>
      BY <2>1, <2>3, <1>2, EmptyAre
    <3> QED
      BY <3>1, <1>2 DEF FileSystemInv
  <2> QED
    BY <2>2, <2>3
<1> QED
  BY <1>3, <1>4, <1>5, <1>6, <1>7, <1>8

\* A descriptor that is opened names the file that was found; reading and
\* seeking move its offset only.
LEMMA OpenIs ==
  ASSUME FileSystemInv, NEW name \in Names, FsOpen(name)
  PROVE  /\ FileSystemInv' /\ UNCHANGED files
         /\ \A e \in Descriptors : IsOpen(e) => open_files'[e] = open_files[e]
<1> DEFINE i == Find(files, name)
           h == [file_num |-> i, offset |-> 0]
<1>1. /\ mounted /\ i # NFILES /\ open_files \in Handles
      /\ UNCHANGED <<active, mounted, files, table, blocks, made, unread>>
  BY DEF FsOpen, FileSystemInv
<1>2. PICK d \in Descriptors : ~IsOpen(d) /\ open_files' = [open_files EXCEPT ![d] = h]
  BY DEF FsOpen
<1>3. i \in Entries /\ files[i].name = name
  BY <1>1, FindIs
<1>4. h \in [file_num : -1..(NFILES - 1), offset : 0..MaxSize] /\ h.file_num = i
  <2>1. i \in -1..(NFILES - 1) /\ 0 \in 0..MaxSize
    BY <1>3, FileSystemAssumption DEF Entries
  <2> QED
    BY <2>1
<1> HIDE DEF i, h
<1>5. /\ open_files' \in Handles /\ open_files'[d] = h
      /\ \A e \in Descriptors \ {d} : open_files'[e] = open_files[e]
  BY <1>1, <1>2, <1>4 DEF Handles
<1>6. ASSUME NEW e \in Descriptors, IsOpen(e)' PROVE (FileOf(e).name # NoName)'
  <2>1. CASE e = d
    <3>1. FileOf(e)' = files[i]
      BY <2>1, <1>1, <1>4, <1>5 DEF FileOf
    <3> QED
      BY <3>1, <1>3, FileSystemAssumption
  <2>2. CASE e # d
    <3>1. IsOpen(e) /\ FileOf(e)' = FileOf(e)
      BY <2>2, <1>1, <1>5, <1>6 DEF FileOf, IsOpen
    <3> QED
      BY <3>1, <1>1 DEF FileSystemInv
  <2> QED
    BY <2>1, <2>2
<1>7. FileSystemInv'
  BY <1>1, <1>5, <1>6 DEF FileSystemInv
<1> QED
  BY <1>1, <1>2, <1>5, <1>7

\* A descriptor that is closed leaves the others as they are.
LEMMA CloseIs ==
  ASSUME FileSystemInv, NEW d \in Descriptors, FsClose(d)
  PROVE  /\ FileSystemInv' /\ UNCHANGED files
         /\ \A e \in Descriptors : IsOpen(e)' => open_files'[e] = open_files[e]
<1>1. /\ mounted /\ open_files \in Handles /\ open_files' = [open_files EXCEPT ![d] = Closed]
      /\ UNCHANGED <<active, mounted, files, table, blocks, made, unread>>
  BY DEF FsClose, FileSystemInv
<1>2. Closed \in [file_num : -1..(NFILES - 1), offset : 0..MaxSize] /\ Closed.file_num = -1
  BY FileSystemAssumption DEF Closed
<1>3. /\ open_files' \in Handles /\ open_files'[d] = Closed
      /\ \A e \in Descriptors \ {d} : open_files'[e] = open_files[e]
  BY <1>1, <1>2 DEF Handles
<1>4. ASSUME NEW e \in Descriptors, IsOpen(e)'
      PROVE  open_files'[e] = open_files[e] /\ (FileOf(e).name # NoName)'
  <2>1. e # d
    BY <1>2, <1>3, <1>4 DEF IsOpen
  <2>2. open_files'[e] = open_files[e] /\ IsOpen(e) /\ FileOf(e)' = FileOf(e)
    BY <2>1, <1>1, <1>3, <1>4 DEF FileOf, IsOpen
  <2> QED
    BY <2>2, <1>1 DEF FileSystemInv
<1> QED
  BY <1>1, <1>3, <1>4 DEF FileSystemInv

\* A step that moves an offset and leaves the rest as it is.
LEMMA OffsetIs ==
  ASSUME FileSystemInv, NEW d \in Descriptors, NEW to \in 0 .. MaxSize,
         open_files' = [open_files EXCEPT ![d].offset = to],
         UNCHANGED <<active, mounted, files, table, blocks, made, unread>>
  PROVE  FileSystemInv' /\ (\A e \in Descriptors : open_files'[e].file_num = open_files[e].file_num)
<1>1. open_files \in [Descriptors -> [file_num : -1..(NFILES - 1), offset : 0..MaxSize]]
  BY DEF FileSystemInv, Handles
<1>2. /\ open_files' \in Handles
      /\ \A e \in Descriptors : open_files'[e].file_num = open_files[e].file_num
  BY <1>1 DEF Handles
<1>3. ASSUME mounted', NEW e \in Descriptors, IsOpen(e)' PROVE (FileOf(e).name # NoName)'
  <2>1. IsOpen(e) /\ FileOf(e)' = FileOf(e)
    BY <1>2, <1>3 DEF FileOf, IsOpen
  <2> QED
    BY <2>1, <1>3 DEF FileSystemInv
<1> QED
  BY <1>2, <1>3 DEF FileSystemInv

\* fs_lseek and fs_read move the offset of their descriptor only.
LEMMA SeekIs ==
  ASSUME FileSystemInv, NEW d \in Descriptors, NEW n \in 0 .. MaxSize, FsLseek(d, n) \/ FsRead(d, n)
  PROVE  /\ FileSystemInv' /\ UNCHANGED files
         /\ \A e \in Descriptors : open_files'[e].file_num = open_files[e].file_num
<1>1. CASE FsLseek(d, n)
  BY <1>1, OffsetIs DEF FsLseek
<1>2. CASE FsRead(d, n)
  <2> DEFINE to == open_files[d].offset + ReadCount(d, n)
  <2>1. /\ mounted /\ IsOpen(d) /\ to <= MaxSize
        /\ UNCHANGED <<active, mounted, files, table, blocks, made, unread>>
        /\ open_files' = [open_files EXCEPT ![d].offset = to]
    BY <1>2 DEF FsRead
  <2>2. open_files[d].offset \in 0 .. MaxSize /\ FileOf(d).size \in 0 .. MaxSize
    BY <2>1, HandleFields, OpenInUse
  <2>3. ReadCount(d, n) \in Nat
    <3> DEFINE o == open_files[d].offset
               z == FileOf(d).size
    <3>1. o \in Int /\ z \in Int /\ n \in Nat
      BY <2>2, FileSystemAssumption
    <3>2. ReadCount(d, n) = IF z - o >= 0 /\ n > z - o THEN z - o ELSE n
      BY DEF ReadCount
    <3> HIDE DEF o, z
    <3> QED
      BY <3>1, <3>2
  <2>4. to \in 0 .. MaxSize
    BY <2>1, <2>2, <2>3, FileSystemAssumption
  <2> HIDE DEF to
  <2> QED
    BY <2>1, <2>4, OffsetIs
<1> QED
  BY <1>1, <1>2

\* The calls that change a file.
LEMMA CreateKeeps ==
  ASSUME FileSystemInv, NEW name \in Names, FsCreate(name) PROVE FileSystemInv'
<1>1. mounted /\ UNCHANGED <<active, mounted, table, blocks, made, unread>>
  BY DEF FsCreate
<1>2. /\ files' \in Tables /\ Packed(files')
      /\ \A j \in Entries : files[j].size # -1 => files'[j] = files[j]
      /\ open_files' \in Handles
      /\ \A d \in Descriptors : IsOpen(d)' => open_files'[d] = open_files[d]
  BY CreateIs
<1>3. ASSUME NEW d \in Descriptors, IsOpen(d)' PROVE (FileOf(d).name # NoName)'
  <2>1. open_files'[d] = open_files[d] /\ IsOpen(d)
    BY <1>2, <1>3 DEF IsOpen
  <2>2. open_files[d].file_num \in Entries /\ files[open_files[d].file_num].size # -1
    <3>1. open_files[d].file_num \in Entries /\ FileOf(d).size \in 0 .. MaxSize
      BY <1>1, <2>1, OpenInUse
    <3> QED
      BY <3>1, FileSystemAssumption DEF FileOf
  <2>3. FileOf(d)' = FileOf(d)
    BY <1>2, <2>1, <2>2 DEF FileOf
  <2> QED
    BY <1>1, <2>1, <2>3 DEF FileSystemInv
<1>4. made = DISK_BLOCKS
  <2>1. files \in Tables /\ FirstFree(files) # NFILES
    BY DEF FsCreate, FileSystemInv
  <2>2. FirstFree(files) \in Entries /\ files[FirstFree(files)].size = -1
    BY <2>1, FirstFreeIs
  <2> QED
    BY <1>1, <2>2, DiskIsWhole
<1> QED
  BY <1>1, <1>2, <1>3, <1>4 DEF FileSystemInv, Sound

\* fs_delete keeps the invariant, with or without memory for its buffers.
LEMMA DeleteKeeps ==
  ASSUME FileSystemInv, NEW name \in Names, NEW heap \in BOOLEAN, FsDelete(name, heap)
  PROVE  FileSystemInv'
<1>1. /\ mounted /\ Deletable(name) /\ UNCHANGED <<active, mounted, table, made, unread>>
      /\ blocks' = IF heap THEN Last(DeleteImages(name, Zero)) ELSE blocks
  BY DEF FsDelete, DeleteDisk
<1>2. /\ files' \in Tables /\ Packed(files')
      /\ open_files' \in Handles
      /\ \A d \in Descriptors : IsOpen(d)' => IsOpen(d) /\ FileOf(d)'.name = FileOf(d).name
  BY DeleteIs
<1>3. blocks' \in Disks
  <2>1. Find(files, name) # NFILES
    BY <1>1 DEF Deletable
  <2>2. Last(DeleteImages(name, Zero)) \in Disks /\ blocks \in Disks
    BY <2>1, DeleteImagesAre, FileSystemAssumption DEF FileSystemInv
  <2> QED
    BY <1>1, <2>2
<1>4. \A d \in Descriptors : IsOpen(d)' => (FileOf(d).name # NoName)'
  BY <1>1, <1>2 DEF FileSystemInv
<1>5. made = DISK_BLOCKS
  <2>1. files \in Tables /\ Find(files, name) # NFILES
    BY <1>1 DEF Deletable, FileSystemInv
  <2>2. Find(files, name) \in Entries /\ files[Find(files, name)].name # NoName
    BY <2>1, FindIs, FileSystemAssumption
  <2> QED
    BY <1>1, <2>2, DiskIsWhole
<1> QED
  BY <1>1, <1>2, <1>3, <1>4, <1>5 DEF FileSystemInv, Sound

\* fs_write keeps the invariant.
LEMMA WriteKeeps ==
  ASSUME FileSystemInv, NEW d \in Descriptors, NEW data \in Data, FsWrite(d, data)
  PROVE  FileSystemInv'
<1>1. PICK n \in Nat : data \in [1 .. n -> Bytes] /\ Len(data) = n
  BY DataAre
<1>2. /\ mounted /\ IsOpen(d) /\ UNCHANGED <<active, mounted, table, made, unread>>
      /\ \E images \in Writes(d, data) : blocks' = Last(images)
  BY DEF FsWrite
<1>3. Len(data) \in Nat
  BY <1>1
<1>4. /\ files' \in Tables /\ Packed(files')
      /\ \A j \in Entries : files'[j].name = files[j].name
      /\ open_files' \in Handles
      /\ \A e \in Descriptors : open_files'[e].file_num = open_files[e].file_num
  BY <1>3, WriteTableIs
<1>5. blocks' \in Disks
  <2>1. PICK garbage \in Buffer : blocks' = Last(WriteImages(d, data, garbage))
    BY <1>2 DEF Writes
  <2>2. Last(WriteImages(d, data, garbage)) \in Disks
    BY <1>1, <1>2, WriteImagesAre
  <2> QED
    BY <2>1, <2>2
<1>6. ASSUME NEW e \in Descriptors, IsOpen(e)' PROVE (FileOf(e).name # NoName)'
  <2>1. IsOpen(e) /\ open_files[e].file_num \in Entries
    BY <1>4, <1>6, HandleFields DEF IsOpen
  <2>2. FileOf(e)'.name = FileOf(e).name
    BY <1>4, <2>1 DEF FileOf
  <2> QED
    BY <1>2, <2>1, <2>2 DEF FileSystemInv
<1>7. made = DISK_BLOCKS
  <2>1. open_files[d].file_num \in Entries /\ FileOf(d).name # NoName
    BY <1>2, HandleFields DEF FileSystemInv
  <2> QED
    BY <1>2, <2>1, DiskIsWhole DEF FileOf
<1> QED
  BY <1>2, <1>4, <1>5, <1>6, <1>7 DEF FileSystemInv, Sound

\* The disks fs_truncate may leave.
LEMMA TruncateDisksAre ==
  ASSUME FileSystemInv, NEW d \in Descriptors, IsOpen(d), mounted,
         NEW length \in Nat, NEW heap \in BOOLEAN, NEW disk \in TruncateDisks(d, length, heap)
  PROVE  disk \in Disks
<1>1. CASE heap
  <2>1. PICK stray \in Bytes : disk = Last(TruncateImages(d, length, stray))
    BY <1>1 DEF TruncateDisks
  <2> QED
    BY <2>1, TruncateImagesAre
<1>2. CASE ~ heap
  BY <1>2 DEF TruncateDisks, FileSystemInv
<1> QED
  BY <1>1, <1>2

\* fs_truncate keeps the invariant, with or without memory for its buffers.
LEMMA TruncateKeeps ==
  ASSUME FileSystemInv, NEW d \in Descriptors, NEW n \in 0 .. MaxSize, NEW heap \in BOOLEAN,
         FsTruncate(d, n, heap)
  PROVE  FileSystemInv'
<1>1. /\ mounted /\ IsOpen(d) /\ UNCHANGED <<active, mounted, table, made, unread>>
      /\ blocks' \in TruncateDisks(d, n, heap)
  BY DEF FsTruncate
<1>2. /\ files' \in Tables /\ Packed(files')
      /\ \A j \in Entries : files'[j].name = files[j].name
      /\ open_files' \in Handles
      /\ \A e \in Descriptors : open_files'[e].file_num = open_files[e].file_num
  BY TruncateIs
<1>3. blocks' \in Disks
  <2>1. n \in Nat
    BY FileSystemAssumption
  <2> QED
    BY <1>1, <2>1, TruncateDisksAre
<1>4. ASSUME NEW e \in Descriptors, IsOpen(e)' PROVE (FileOf(e).name # NoName)'
  <2>1. IsOpen(e) /\ open_files[e].file_num \in Entries
    BY <1>2, <1>4, HandleFields DEF IsOpen
  <2>2. FileOf(e)'.name = FileOf(e).name
    BY <1>2, <2>1 DEF FileOf
  <2> QED
    BY <1>1, <2>1, <2>2 DEF FileSystemInv
<1>5. made = DISK_BLOCKS
  <2>1. open_files[d].file_num \in Entries /\ FileOf(d).name # NoName
    BY <1>1, HandleFields DEF FileSystemInv
  <2> QED
    BY <1>1, <2>1, DiskIsWhole DEF FileOf
<1> QED
  BY <1>1, <1>2, <1>3, <1>4, <1>5 DEF FileSystemInv, Sound

\* The calls that are cut off between two of their images.
LEMMA KilledKeeps ==
  ASSUME FileSystemInv,
         \/ \E name \in Names : FsDeleteKilled(name)
         \/ \E d \in Descriptors : \E n \in 0 .. MaxSize : FsTruncateKilled(d, n)
         \/ \E d \in Descriptors : \E data \in Data : FsWriteKilled(d, data)
  PROVE  FileSystemInv'
<1>1. /\ table \in Tables /\ Sound(table) /\ made \in 0..DISK_BLOCKS
      /\ table # ZeroTable => made = DISK_BLOCKS
  BY DEF FileSystemInv
<1>2. ASSUME NEW name \in Names, FsDeleteKilled(name) PROVE FileSystemInv'
  <2>1. UNCHANGED <<table, made>> /\ Find(files, name) # NFILES
    BY <1>2 DEF FsDeleteKilled, Deletable
  <2>2. PICK disk \in ToSet(DeleteImages(name, Zero)) : Killed(disk)
    BY <1>2 DEF FsDeleteKilled
  <2>3. disk \in Disks
    BY <2>1, DeleteImagesAre, FileSystemAssumption
  <2> QED
    BY <1>1, <2>1, <2>2, <2>3, KilledIs
<1>3. ASSUME NEW d \in Descriptors, NEW n \in 0 .. MaxSize, FsTruncateKilled(d, n)
      PROVE  FileSystemInv'
  <2>1. UNCHANGED <<table, made>> /\ IsOpen(d) /\ n \in Nat
    BY <1>3, FileSystemAssumption DEF FsTruncateKilled
  <2>2. PICK stray \in Bytes : \E disk \in ToSet(TruncateImages(d, n, stray)) : Killed(disk)
    BY <1>3 DEF FsTruncateKilled
  <2>3. PICK disk \in ToSet(TruncateImages(d, n, stray)) : Killed(disk)
    BY <2>2
  <2>4. disk \in Disks
    BY <2>1, TruncateImagesAre
  <2> QED
    BY <1>1, <2>1, <2>3, <2>4, KilledIs
<1>4. ASSUME NEW d \in Descriptors, NEW data \in Data, FsWriteKilled(d, data)
      PROVE  FileSystemInv'
  <2>1. UNCHANGED <<table, made>> /\ IsOpen(d)
    BY <1>4 DEF FsWriteKilled
  <2>2. PICK images \in Writes(d, data) : \E disk \in ToSet(images) : Killed(disk)
    BY <1>4 DEF FsWriteKilled
  <2>3. PICK disk \in ToSet(images) : Killed(disk)
    BY <2>2
  <2>4. PICK garbage \in Buffer : images = WriteImages(d, data, garbage)
    BY DEF Writes
  <2>5. PICK n \in Nat : data \in [1 .. n -> Bytes] /\ Len(data) = n
    BY DataAre
  <2>6. \A image \in ToSet(images) : image \in Disks
    BY <2>1, <2>4, <2>5, WriteImagesAre
  <2> QED
    BY <1>1, <2>1, <2>3, <2>6, KilledIs
<1> QED
  BY <1>2, <1>3, <1>4

\* Every step keeps the invariant.
LEMMA InvNext == FileSystemInv /\ [Next]_vars => FileSystemInv'
<1> SUFFICES ASSUME FileSystemInv, [Next]_vars PROVE FileSystemInv'
  OBVIOUS
<1>1. CASE UNCHANGED vars
  BY <1>1 DEF FileSystemInv, vars, IsOpen, FileOf
<1>2. CASE \/ Crash \/ MakeFsKilled \/ UnmountFs \/ UnmountFsKilled
           \/ \E heap \in BOOLEAN : MakeFs(heap) \/ MountFs(heap)
  BY <1>2, MountingIs
<1>3. CASE \/ \E name \in Names : FsDeleteKilled(name)
           \/ \E d \in Descriptors : \E n \in 0 .. MaxSize : FsTruncateKilled(d, n)
           \/ \E d \in Descriptors : \E data \in Data : FsWriteKilled(d, data)
  BY <1>3, KilledKeeps
<1>4. ASSUME NEW name \in Names,
             FsOpen(name) \/ FsCreate(name) \/ \E heap \in BOOLEAN : FsDelete(name, heap)
      PROVE  FileSystemInv'
  BY <1>4, OpenIs, CreateKeeps, DeleteKeeps
<1>5. ASSUME NEW d \in Descriptors,
             \/ FsClose(d)
             \/ \E n \in 0 .. MaxSize : \/ FsLseek(d, n) \/ FsRead(d, n)
                                        \/ \E heap \in BOOLEAN : FsTruncate(d, n, heap)
             \/ \E data \in Data : FsWrite(d, data)
      PROVE  FileSystemInv'
  BY <1>5, CloseIs, SeekIs, WriteKeeps, TruncateKeeps
<1> QED
  BY <1>1, <1>2, <1>3, <1>4, <1>5 DEF Next

\* In every state the tables are packed, the one on the disk and the one in
\* memory, whatever calls were made or cut off, and an open descriptor names an
\* entry in use.
THEOREM FileSystemInvariance == Spec => []FileSystemInv
<1>1. Init => FileSystemInv
  BY InvInit
<1>2. FileSystemInv /\ [Next]_vars => FileSystemInv'
  BY InvNext
<1> QED
  BY <1>1, <1>2, PTL DEF Spec

\* Every variable keeps its type, and an open descriptor names an entry of the
\* table: fs_delete renumbers the descriptors and fs_create never leaves one open
\* that it hits.
THEOREM TypeCorrect == Spec => []TypeOK
<1>1. FileSystemInv => TypeOK
  <2> SUFFICES ASSUME FileSystemInv PROVE TypeOK
    OBVIOUS
  <2>1. \A t \in {files, table} : \A i \in Entries :
          /\ t[i].name \in Names \cup {NoName}
          /\ t[i].block \in Nat /\ t[i].offset \in 0..BS
          /\ t[i].size \in -1..MaxSize
    <3>1. files \in Tables /\ table \in Tables
      BY DEF FileSystemInv
    <3> QED
      BY <3>1, RowFields
  <2> QED
    BY <2>1 DEF FileSystemInv, TypeOK, Handles, Disks, DataBlocks
<1> QED
  BY <1>1, FileSystemInvariance, PTL

\* However files are created, grown, cut and deleted, and between whatever two
\* writes to the disk a process was killed, no two files share a byte: neither
\* in a table mount_fs has read nor in the one it will find.  A disk that
\* make_disk did not finish has no files.
THEOREM NoFilesShareBytes == Spec => []NoSharedBytes
<1>1. FileSystemInv => NoSharedBytes
  BY PackedNoOverlap DEF FileSystemInv, Sound, NoSharedBytes
<1> QED
  BY <1>1, FileSystemInvariance, PTL

\* Any step between two states in which the file system is mounted leaves the
\* descriptors with their files.
LEMMA KeepsNext == FileSystemInv /\ Next /\ mounted /\ mounted' => KeepsFiles
<1> SUFFICES ASSUME FileSystemInv, Next, mounted, mounted' PROVE KeepsFiles
  OBVIOUS
<1>1. CASE \/ Crash \/ MakeFsKilled \/ UnmountFs \/ UnmountFsKilled
           \/ \E heap \in BOOLEAN : MakeFs(heap) \/ MountFs(heap)
  BY <1>1 DEF Crash, MakeFsKilled, UnmountFs, UnmountFsKilled, MakeFs, MountFs, Killed, FileSystemInv
<1>2. CASE \/ \E name \in Names : FsDeleteKilled(name)
           \/ \E d \in Descriptors : \E n \in 0 .. MaxSize : FsTruncateKilled(d, n)
           \/ \E d \in Descriptors : \E data \in Data : FsWriteKilled(d, data)
  BY <1>2 DEF FsDeleteKilled, FsTruncateKilled, FsWriteKilled, Killed
<1>3. ASSUME UNCHANGED files, \A e \in Descriptors : IsOpen(e) /\ IsOpen(e)' =>
                                open_files'[e].file_num = open_files[e].file_num
      PROVE  KeepsFiles
  BY <1>3 DEF KeepsFiles, FileOf, Used
<1>4. ASSUME NEW name \in Names, FsOpen(name) PROVE KeepsFiles
  BY <1>3, <1>4, OpenIs
<1>5. ASSUME NEW name \in Names, FsCreate(name) PROVE KeepsFiles
  <2>1. /\ \A j \in Entries : files[j].size # -1 => files'[j] = files[j]
        /\ \A d \in Descriptors : IsOpen(d)' => open_files'[d] = open_files[d]
    BY <1>5, CreateIs
  <2>2. ASSUME NEW d \in Descriptors, IsOpen(d), IsOpen(d)'
        PROVE  FileOf(d)' = FileOf(d) /\ open_files'[d] = open_files[d]
    <3>1. open_files'[d] = open_files[d]
      BY <2>1, <2>2
    <3>2. open_files[d].file_num \in Entries /\ FileOf(d).size \in 0 .. MaxSize
      BY <2>2, OpenInUse
    <3>3. files[open_files[d].file_num].size # -1
      BY <3>2, FileSystemAssumption DEF FileOf
    <3> QED
      BY <2>1, <3>1, <3>2, <3>3 DEF FileOf
  <2> QED
    BY <2>2 DEF KeepsFiles
<1>6. ASSUME NEW name \in Names, NEW heap \in BOOLEAN, FsDelete(name, heap) PROVE KeepsFiles
  BY <1>6, DeleteIs DEF KeepsFiles
<1>7. ASSUME NEW d \in Descriptors, FsClose(d) PROVE KeepsFiles
  BY <1>3, <1>7, CloseIs
<1>8. ASSUME NEW d \in Descriptors, NEW n \in 0 .. MaxSize, FsLseek(d, n) \/ FsRead(d, n)
      PROVE  KeepsFiles
  BY <1>3, <1>8, SeekIs
<1>9. ASSUME Used(files)' = Used(files),
             \A j \in Entries : files'[j].name = files[j].name,
             \A e \in Descriptors : open_files'[e].file_num = open_files[e].file_num
      PROVE  KeepsFiles
  <2>1. Used(files') = Used(files)
    BY <1>9 DEF Used
  <2>2. ASSUME NEW e \in Descriptors, IsOpen(e) PROVE FileOf(e)'.name = FileOf(e).name
    <3>1. open_files[e].file_num \in Entries
      BY <2>2, HandleFields
    <3> QED
      BY <1>9, <3>1 DEF FileOf
  <2> QED
    BY <2>1, <2>2 DEF KeepsFiles
<1>10. ASSUME NEW d \in Descriptors, NEW n \in 0 .. MaxSize, NEW heap \in BOOLEAN,
              FsTruncate(d, n, heap)
       PROVE  KeepsFiles
  BY <1>9, <1>10, TruncateIs
<1>11. ASSUME NEW d \in Descriptors, NEW data \in Data, FsWrite(d, data) PROVE KeepsFiles
  <2>1. Len(data) \in Nat
    BY DataAre
  <2> QED
    BY <1>9, <1>11, <2>1, WriteTableIs
<1> QED
  BY <1>1, <1>2, <1>4, <1>5, <1>6, <1>7, <1>8, <1>10, <1>11 DEF Next

\* A descriptor that stays open stays with its file, and when entries come or
\* go it keeps the file's size and its own offset.
THEOREM DescriptorsKeepTheirFile == Spec => DescriptorsKeepFile
<1>1. FileSystemInv /\ [Next]_vars =>
        [\A d \in Descriptors :
           mounted /\ mounted' /\ IsOpen(d) /\ IsOpen(d)' =>
             /\ FileOf(d)'.name = FileOf(d).name
             /\ Used(files)' # Used(files) => /\ FileOf(d)'.size = FileOf(d).size
                                              /\ open_files'[d].offset = open_files[d].offset]_vars
  BY KeepsNext DEF KeepsFiles
<1> QED
  BY <1>1, FileSystemInvariance, PTL DEF Spec, DescriptorsKeepFile

-----------------------------------------------------------------------------
(* The contents of the files.                                              *)

\* The block of a byte behind DATA_START is one of the disk's.
LEMMA ByteInBlock ==
  ASSUME NEW p \in Nat, p >= DATA_START * BS, p < DISK_BLOCKS * BS
  PROVE  p \div BS \in DataBlocks
<1> DEFINE b == p \div BS
           r == p % BS
<1>1. b \in Nat /\ r \in 0 .. BS - 1 /\ p = b * BS + r
  BY DivMod
<1>2. b \in Int /\ DATA_START \in Int /\ DISK_BLOCKS \in Int /\ BS \in Nat \ {0}
  BY <1>1, DataStart, FileSystemAssumption
<1> HIDE DEF b, r
<1>3. b * BS \in Int /\ DATA_START * BS \in Int /\ DISK_BLOCKS * BS \in Int
  BY <1>2, BlockSum
<1>4. ~ (b < DATA_START)
  <2>1. b < DATA_START => b * BS + BS <= DATA_START * BS
    BY <1>2, BlockOrder
  <2> QED
    BY <2>1, <1>1, <1>2, <1>3
<1>5. ~ (DISK_BLOCKS <= b)
  <2>1. DISK_BLOCKS < b => DISK_BLOCKS * BS + BS <= b * BS
    BY <1>2, BlockOrder
  <2>2. DISK_BLOCKS = b => DISK_BLOCKS * BS = b * BS
    OBVIOUS
  <2> QED
    BY <2>1, <2>2, <1>1, <1>2, <1>3
<1> QED
  BY <1>1, <1>2, <1>4, <1>5 DEF DataBlocks, b

\* The number of bytes fs_read copies is not negative.
LEMMA ReadCountIs ==
  ASSUME FileSystemInv, mounted, NEW d \in Descriptors, IsOpen(d), NEW n \in 0 .. MaxSize
  PROVE  ReadCount(d, n) \in Nat
<1> DEFINE o == open_files[d].offset
           z == FileOf(d).size
<1>1. o \in 0 .. MaxSize /\ z \in 0 .. MaxSize
  BY HandleFields, OpenInUse
<1>2. ReadCount(d, n) = IF z - o >= 0 /\ n > z - o THEN z - o ELSE n
  BY DEF ReadCount
<1> HIDE DEF o, z
<1>3. o \in Int /\ z \in Int /\ n \in Nat
  BY <1>1, FileSystemAssumption
<1> QED
  BY <1>2, <1>3

\* What fs_read returns lies one byte after the other from the place of its
\* descriptor on.
LEMMA ReadDataIs ==
  ASSUME FileSystemInv, mounted, NEW d \in Descriptors, IsOpen(d), NEW n \in 0 .. MaxSize,
         NEW garbage \in Buffer
  PROVE  LET data == ReadData(d, n, garbage)
             p == Place(FileOf(d)) + open_files[d].offset
         IN  /\ Len(data) = ReadCount(d, n)
             /\ \A j \in 1 .. Len(data) : ((p + j - 1) \div BS) \in DataBlocks =>
                                            data[j] = ByteAt(blocks, p + j - 1)
<1> DEFINE f == FileOf(d)
           off == open_files[d].offset
           at == Carry(f.block, f.offset + off)
           data == ReadData(d, n, garbage)
           count == ReadCount(d, n)
           p == Place(f) + off
<1>1. f.block \in Nat /\ f.offset \in Nat /\ blocks \in Disks
  <2>1. files \in Tables /\ open_files[d].file_num \in Entries /\ blocks \in Disks
    BY HandleFields DEF FileSystemInv
  <2> QED
    BY <2>1, RowFields, FileSystemAssumption DEF FileOf
<1>2. off \in Nat
  <2>1. off \in 0 .. MaxSize
    BY HandleFields
  <2> HIDE DEF off
  <2> QED
    BY <2>1, FileSystemAssumption
<1>3. count \in Nat
  BY ReadCountIs
<1>4. /\ at.block \in Nat /\ at.offset \in 0 .. BS
      /\ at.block * BS + at.offset = f.block * BS + (f.offset + off)
  <2>1. f.offset + off \in Nat
    BY <1>1, <1>2
  <2> HIDE DEF off
  <2> QED
    BY <2>1, <1>1, CarryIs
<1>5. data = FoldLeft(ReadByte, [block |-> at.block, pos |-> at.offset, data |-> << >>,
                                 buffer |-> BlockRead(blocks, at.block, garbage)],
                      [k \in 1 .. count |-> k]).data
  BY DEF ReadData
<1> HIDE DEF data, at, count
<1>6. at.block * BS + at.offset = p
  <2>1. f.block * BS \in Int
    BY <1>1, FileSystemAssumption
  <2> QED
    BY <2>1, <1>1, <1>2, <1>4 DEF Place
<1>7. /\ Len(data) = count
      /\ \A j \in 1 .. count : ((at.block * BS + at.offset + j - 1) \div BS) \in DataBlocks =>
                                 data[j] = ByteAt(blocks, at.block * BS + at.offset + j - 1)
  BY <1>1, <1>3, <1>4, <1>5, ReadsInOrder
<1> HIDE DEF p
<1>8. /\ Len(data) = count
      /\ \A j \in 1 .. count : ((p + j - 1) \div BS) \in DataBlocks =>
                                 data[j] = ByteAt(blocks, p + j - 1)
  BY <1>6, <1>7
<1> QED
  BY <1>8 DEF data, count, p

\* fs_read returns the bytes of its own file, in order, from whatever offset it
\* starts and through however many blocks it goes.
THEOREM ReadsTheirOwnBytes == Spec => []ReadsOwnBytes
<1>1. FileSystemInv => ReadsOwnBytes
  <2> DEFINE blank == [k \in 0..(BS - 1) |-> Zero]
  <2> SUFFICES ASSUME FileSystemInv, mounted, NEW d \in Descriptors, IsOpen(d),
                      NEW k \in 1 .. Len(ReadData(d, MaxSize, blank)),
                      open_files[d].offset + k - 1 \in DOMAIN Content(files, blocks, open_files[d].file_num)
               PROVE  ReadData(d, MaxSize, blank)[k]
                      = Content(files, blocks, open_files[d].file_num)[open_files[d].offset + k - 1]
    BY DEF ReadsOwnBytes
  <2> DEFINE f == open_files[d].file_num
             off == open_files[d].offset
             place == Place(files[f])
             p == place + off
             data == ReadData(d, MaxSize, blank)
             own == Content(files, blocks, f)
  <2>1. /\ f \in Entries /\ Packed(files) /\ files \in Tables
        /\ files[f].size >= 0
    BY OpenInUse, FileSystemAssumption DEF FileSystemInv, FileOf
  <2>2. blank \in Buffer /\ MaxSize \in 0 .. MaxSize
    BY FileSystemAssumption DEF Buffer
  <2> HIDE DEF blank
  <2>3. /\ Len(data) = ReadCount(d, MaxSize) /\ ReadCount(d, MaxSize) \in Nat
        /\ \A j \in 1 .. Len(data) : ((p + j - 1) \div BS) \in DataBlocks =>
                                       data[j] = ByteAt(blocks, p + j - 1)
    BY <2>2, ReadDataIs, ReadCountIs DEF FileOf
  <2>4. off \in Nat
    <3>1. off \in 0 .. MaxSize
      BY HandleFields
    <3> HIDE DEF off
    <3> QED
      BY <3>1, FileSystemAssumption
  <2>5. place \in Nat /\ place >= DATA_START * BS
    BY <2>1, RowFields, PackedStart
  <2>6. /\ off + k - 1 \in Nat /\ place + (off + k - 1) < DISK_BLOCKS * BS
        /\ own[off + k - 1] = ByteAt(blocks, place + (off + k - 1))
    <3>1. off + k - 1 \in {n \in 0..(files[f].size - 1) : OnDisk(place + n)}
      BY DEF Content
    <3> HIDE DEF off, f, place
    <3>2. own[off + k - 1] = ByteAt(blocks, place + (off + k - 1))
      BY <3>1 DEF Content, place
    <3> QED
      BY <3>1, <3>2 DEF OnDisk
  <2> HIDE DEF off, f, place, own, data
  <2>7. k \in 1 .. Len(data) /\ k \in Nat
    BY <2>3 DEF data
  <2>8. p + k - 1 = place + (off + k - 1) /\ p + k - 1 \in Nat /\ p + k - 1 >= DATA_START * BS
    BY <2>4, <2>5, <2>6, <2>7, DataStart
  <2>9. ((p + k - 1) \div BS) \in DataBlocks
    BY <2>6, <2>8, ByteInBlock
  <2>10. data[k] = own[off + k - 1]
    BY <2>3, <2>6, <2>7, <2>8, <2>9
  <2> QED
    BY <2>10 DEF data, own, off, f
<1> QED
  BY <1>1, FileSystemInvariance, PTL

\* A byte in front of p is the old one.
LEMMA FrontByte ==
  ASSUME NEW disk, NEW old, NEW p \in Int, FrontOf(disk, old, p),
         NEW at \in Nat, at >= DATA_START * BS, at < DISK_BLOCKS * BS, at < p
  PROVE  ByteAt(disk, at) = ByteAt(old, at)
<1>1. /\ at \div BS \in DataBlocks /\ (at % BS) \in 0 .. BS - 1
      /\ (at \div BS) * BS + (at % BS) = at
  BY ByteInBlock, DivMod
<1> QED
  BY <1>1 DEF FrontOf, ByteAt

\* The bytes behind p have come down by m, as far as there were any on the disk.
MovedDown(disk, old, p, m) ==
  \A b \in DataBlocks, q \in 0 .. BS - 1 :
    b * BS + q >= p /\ b * BS + q + m < DISK_BLOCKS * BS =>
      disk[b][q] = ByteAt(old, b * BS + q + m)

\* A byte behind p was m bytes further behind before.
LEMMA MovedByte ==
  ASSUME NEW disk, NEW old, NEW p \in Int, NEW m \in Nat, MovedDown(disk, old, p, m),
         NEW at \in Nat, at >= DATA_START * BS, at >= p, at + m < DISK_BLOCKS * BS
  PROVE  ByteAt(disk, at) = ByteAt(old, at + m)
<1>1. at < DISK_BLOCKS * BS
  BY FileSystemAssumption
<1>2. /\ at \div BS \in DataBlocks /\ (at % BS) \in 0 .. BS - 1
      /\ (at \div BS) * BS + (at % BS) = at
  BY <1>1, ByteInBlock, DivMod
<1> QED
  BY <1>2 DEF MovedDown, ByteAt

\* What fs_delete makes of the disk.
LEMMA DeleteBytesAre ==
  ASSUME FileSystemInv, mounted, NEW g \in Entries, NEW name \in Names,
         g = Find(files, name), files[g].name = name, NEW stray \in Bytes
  PROVE  /\ FrontOf(Last(DeleteImages(name, stray)), blocks, Place(files[g]))
         /\ MovedDown(Last(DeleteImages(name, stray)), blocks, Place(files[g]), files[g].size)
<1> DEFINE gone == files[g]
           images == DeleteImages(name, stray)
<1>1. Packed(files) /\ gone.size \in 0 .. MaxSize /\ files \in Tables /\ blocks \in Disks
  BY InUse, FileSystemAssumption DEF FileSystemInv
<1>2. gone.block \in Nat /\ gone.offset \in 0 .. BS
  BY <1>1, RowFields
<1>3. gone.size \in Int /\ gone.size >= -1 /\ gone.size >= 0 /\ Place(gone) >= DATA_START * BS
  <2>1. gone.size \in Int /\ gone.size >= -1 /\ gone.size >= 0
    BY <1>1, FileSystemAssumption
  <2> QED
    BY <2>1, <1>1, PackedStart
<1>4. images = ShiftBlocks(gone.block, gone.offset, gone.size, stray)
  BY DEF DeleteImages
<1>5. Place(gone) = gone.block * BS + gone.offset
  BY DEF Place
<1> HIDE DEF images, gone
<1>6. /\ FrontOf(Last(images), blocks, gone.block * BS + gone.offset)
      /\ gone.size >= 0 /\ gone.block * BS + gone.offset >= DATA_START * BS =>
           \A b \in DataBlocks, q \in 0 .. BS - 1 :
             b * BS + q >= gone.block * BS + gone.offset
             /\ b * BS + q + gone.size < DISK_BLOCKS * BS =>
               Last(images)[b][q] = ByteAt(blocks, b * BS + q + gone.size)
  BY <1>1, <1>2, <1>3, <1>4, ShiftIs
<1>7. FrontOf(Last(images), blocks, Place(gone)) /\ MovedDown(Last(images), blocks, Place(gone), gone.size)
  BY <1>3, <1>5, <1>6 DEF MovedDown
<1> QED
  BY <1>7 DEF images, gone

\* When the files follow each other without a gap, those behind a deleted one
\* come to lie exactly as many bytes lower as it had.
LEMMA DeletePlaces ==
  ASSUME NEW t \in Tables, Packed(t), Tight(t), NEW g \in Entries, t[g].size >= 0,
         NEW i \in Entries, i > g, t[i].size >= 0
  PROVE  LET r == FillFrom(ShiftEntries(t, g), g, NFILES - 1)
         IN  /\ i - 1 \in Entries /\ r[i - 1].size = t[i].size
             /\ Place(r[i - 1]) + t[g].size = Place(t[i])
             /\ Place(r[i - 1]) >= Place(t[g])
<1> DEFINE r == FillFrom(ShiftEntries(t, g), g, NFILES - 1)
           z == t[g].size
<1>1. /\ r \in Tables
      /\ \A j \in Entries : j < g => r[j] = t[j]
      /\ \A j \in Entries : j >= g /\ j + 1 \in Entries => r[j].size = t[j + 1].size
      /\ \A j \in Entries : j >= g => Place(r[j]) = Behind(r, j)
  BY DeleteKeepsPacked
<1> HIDE DEF r
<1>2. g \in Nat /\ i \in Nat /\ z \in Nat /\ i - 1 \in Entries /\ i - 1 >= g /\ (i - 1) + 1 = i
  <2>1. z \in Int
    BY RowFields, FileSystemAssumption
  <2> HIDE DEF z
  <2>2. z >= 0
    BY DEF z
  <2> QED
    BY <2>1, <2>2, FileSystemAssumption DEF Entries
<1>3. ASSUME NEW j \in Entries, t[j].size >= 0
      PROVE  /\ j \in Nat /\ Place(t[j]) \in Nat /\ Place(r[j]) \in Nat
             /\ t[j].size \in Nat /\ Held(t[j]) = t[j].size
             /\ Place(t[j]) = Behind(t, j)
  <2>1. Place(t[j]) \in Nat /\ Place(r[j]) \in Nat /\ t[j].size \in Nat /\ j \in Nat
    BY <1>1, <1>3, RowFields, FileSystemAssumption DEF Entries
  <2>2. j # 0 => j - 1 \in Entries /\ t[j - 1].size >= 0
    BY <1>3, FileSystemAssumption DEF Packed, Entries
  <2>3. j # 0 => Held(t[j - 1]) = t[j - 1].size
    BY <2>2 DEF Held
  <2>4. Place(t[j]) = IF j = 0 THEN DATA_START * BS ELSE Place(t[j - 1]) + t[j - 1].size
    BY <1>3 DEF Tight, Used
  <2> QED
    BY <2>1, <2>3, <2>4, <1>3 DEF Behind, Held
<1>4. Place(r[g]) = Place(t[g])
  <2>1. Place(r[g]) = Behind(r, g) /\ Place(t[g]) = Behind(t, g)
    BY <1>1, <1>2, <1>3
  <2>2. g # 0 => r[g - 1] = t[g - 1]
    <3>1. g # 0 => g - 1 \in Entries /\ g - 1 < g
      BY <1>2, FileSystemAssumption DEF Entries
    <3> QED
      BY <3>1, <1>1
  <2> QED
    BY <2>1, <2>2 DEF Behind
<1> DEFINE Lower(j) == Place(r[j]) + z = Place(t[j + 1])
<1>5. ASSUME NEW j \in Entries, j >= g, j + 1 \in Entries, t[j + 1].size >= 0,
             j > g => Lower(j - 1)
      PROVE  Lower(j)
  <2>1. j \in Nat /\ j + 1 # 0 /\ (j + 1) - 1 = j
    BY DEF Entries
  <2>2. t[j].size >= 0
    BY <2>1, <1>5 DEF Packed
  <2>3. Place(t[j + 1]) = Place(t[j]) + t[j].size
    <3>1. Place(t[j + 1]) = Behind(t, j + 1) /\ Held(t[j]) = t[j].size
      BY <1>3, <1>5, <2>2
    <3> QED
      BY <3>1, <2>1 DEF Behind
  <2>4. Place(t[j]) \in Nat /\ t[j].size \in Nat /\ Place(r[j]) \in Nat
    BY <1>3, <2>2
  <2>5. CASE j = g
    BY <2>3, <2>4, <2>5, <1>2, <1>4
  <2>6. CASE j # g
    <3>1. j > g /\ j # 0 /\ j - 1 \in Entries /\ j - 1 >= g /\ (j - 1) + 1 = j
      BY <2>6, <1>2, <1>5, FileSystemAssumption DEF Entries
    <3>2. r[j - 1].size = t[j].size /\ Place(r[j - 1]) + z = Place(t[j])
      BY <3>1, <1>1, <1>5
    <3>3. Held(r[j - 1]) = t[j].size
      BY <3>2, <2>2 DEF Held
    <3>4. Place(r[j]) = Place(r[j - 1]) + t[j].size
      <4>1. Place(r[j]) = Behind(r, j)
        BY <1>1, <1>5
      <4> QED
        BY <4>1, <3>1, <3>3 DEF Behind
    <3>5. Place(r[j - 1]) \in Nat
      BY <3>1, <1>1, RowFields
    <3> HIDE DEF z
    <3> QED
      BY <3>2, <3>4, <3>5, <2>3, <2>4, <1>2
  <2> QED
    BY <2>5, <2>6
<1>6. Lower(i - 1)
  <2> DEFINE S == {m \in Nat : g + m + 1 \in Entries /\ t[g + m + 1].size >= 0 => Lower(g + m)}
  <2>1. 0 \in S
    <3>1. g + 0 = g /\ ~ (g > g)
      BY <1>2
    <3> QED
      BY <3>1, <1>5, <1>2
  <2>2. ASSUME NEW m \in S PROVE m + 1 \in S
    <3> SUFFICES ASSUME g + (m + 1) + 1 \in Entries, t[g + (m + 1) + 1].size >= 0
                 PROVE  Lower(g + (m + 1))
      OBVIOUS
    <3> DEFINE j == g + (m + 1)
    <3>1. j \in Entries /\ j >= g /\ j # 0 /\ j - 1 = g + m /\ g + m + 1 = j
      BY <1>2, FileSystemAssumption DEF Entries
    <3>2. t[j].size >= 0
      <4>1. j + 1 # 0 /\ (j + 1) - 1 = j
        BY <3>1, <1>2
      <4> QED
        BY <4>1, <3>1 DEF Packed
    <3>3. Lower(j - 1)
      BY <3>1, <3>2
    <3> HIDE DEF j, Lower
    <3>4. Lower(j)
      BY <3>1, <3>3, <1>5 DEF j
    <3> QED
      BY <3>4 DEF j
  <2>3. S = Nat
    <3>1. S \in SUBSET Nat
      OBVIOUS
    <3> HIDE DEF S
    <3> QED
      BY <2>1, <2>2, <3>1, Counting
  <2> DEFINE m == (i - 1) - g
  <2>4. m \in Nat /\ g + m = i - 1 /\ g + m + 1 = i
    BY <1>2
  <2>5. m \in S
    <3> HIDE DEF S, m
    <3> QED
      BY <2>3, <2>4
  <2> HIDE DEF m, Lower
  <2> QED
    BY <2>4, <2>5
<1>7. Place(t[g]) + z <= Place(t[i])
  BY PackedOrder
<1>8. Place(t[g]) \in Nat /\ Place(t[i]) \in Nat /\ Place(r[i - 1]) \in Nat
  BY <1>1, <1>2, RowFields
<1>9. Place(r[i - 1]) + z = Place(t[i])
  BY <1>2, <1>6
<1>10. Place(r[i - 1]) >= Place(t[g])
  <2> HIDE DEF z
  <2> QED
    BY <1>2, <1>7, <1>8, <1>9
<1>11. r[i - 1].size = t[i].size
  BY <1>1, <1>2
<1> QED
  BY <1>2, <1>9, <1>10, <1>11 DEF r, z

\* With memory for its buffers fs_delete takes the other files to where its table
\* says they are.
LEMMA DeleteKeepsThem ==
  ASSUME FileSystemInv, mounted, Tight(files), NEW name \in Names, Deletable(name)
  PROVE  DeleteKeepsOthers(name, TRUE)
<1> DEFINE g == Find(files, name)
           disk == DeleteDisk(name, TRUE)
           r == DeleteTable(name)
           to(i) == IF i > g THEN i - 1 ELSE i
           p == Place(files[g])
           z == files[g].size
<1>1. g \in Entries /\ files[g].name = name
  BY FindIs DEF Deletable
<1>2. Packed(files) /\ z \in 0 .. MaxSize /\ files \in Tables
  BY <1>1, InUse, FileSystemAssumption DEF FileSystemInv
<1>3. FrontOf(disk, blocks, p) /\ MovedDown(disk, blocks, p, z)
  <2>1. disk = Last(DeleteImages(name, Zero))
    BY DEF DeleteDisk
  <2> QED
    BY <2>1, <1>1, DeleteBytesAre, FileSystemAssumption
<1>4. z \in Nat /\ p \in Nat /\ p >= DATA_START * BS
  <2>1. z >= 0 /\ z \in Nat
    BY <1>2, FileSystemAssumption
  <2> QED
    BY <2>1, <1>1, <1>2, RowFields, PackedStart
<1>5. r = FillFrom(ShiftEntries(files, g), g, NFILES - 1)
  BY DEF DeleteTable
<1> HIDE DEF g, disk, r
<1>6. ASSUME NEW i \in Used(files) \ {g}
      PROVE  /\ i \in Entries /\ files[i].size \in Nat /\ r[to(i)].size = files[i].size
             /\ Place(files[i]) \in Nat /\ Place(files[i]) >= DATA_START * BS
             /\ Place(r[to(i)]) \in Nat /\ Place(r[to(i)]) <= Place(files[i])
             /\ IF i > g THEN Place(r[to(i)]) + z = Place(files[i]) /\ Place(r[to(i)]) >= p
                ELSE Place(r[to(i)]) = Place(files[i]) /\ Place(files[i]) + files[i].size <= p
  <2>1. i \in Entries /\ i # g /\ files[i].size >= 0 /\ i \in Int /\ g \in Int
    BY <1>1, FileSystemAssumption DEF Used, Entries
  <2>2. files[i].size \in Nat /\ Place(files[i]) \in Nat /\ Place(files[i]) >= DATA_START * BS
    BY <2>1, <1>2, RowFields, PackedStart, FileSystemAssumption
  <2>3. CASE i > g
    <3>1. files[g].size >= 0
      BY <1>4
    <3>2. /\ i - 1 \in Entries /\ r[i - 1].size = files[i].size
          /\ Place(r[i - 1]) + z = Place(files[i]) /\ Place(r[i - 1]) >= p
      BY <2>1, <2>3, <3>1, <1>1, <1>2, <1>5, DeletePlaces
    <3>3. Place(r[i - 1]) \in Nat
      <4>1. r \in Tables
        BY <1>1, <1>2, <1>5, DeleteKeepsPacked
      <4> QED
        BY <4>1, <3>2, RowFields
    <3> HIDE DEF z, p
    <3> QED
      BY <2>1, <2>2, <2>3, <3>2, <3>3, <1>4
  <2>4. CASE ~ (i > g)
    <3>1. i < g
      BY <2>1, <2>4
    <3>2. r[i] = files[i]
      BY <2>1, <3>1, <1>1, <1>2, <1>5, DeleteKeepsPacked
    <3>3. Place(files[i]) + files[i].size <= p
      BY <2>1, <3>1, <1>1, <1>2, <1>4, PackedOrder
    <3> HIDE DEF z, p
    <3> QED
      BY <2>1, <2>2, <2>4, <3>2, <3>3
  <2> QED
    BY <2>3, <2>4
<1> HIDE DEF z, p
<1>7. ASSUME NEW i \in Used(files) \ {g}
      PROVE  LET moved == Content(r, disk, to(i))
                 kept == Content(files, blocks, i)
             IN  Restrict(moved, DOMAIN kept) = kept
  <2> DEFINE moved == Content(r, disk, to(i))
             kept == Content(files, blocks, i)
             old == Place(files[i])
             new == Place(r[to(i)])
             size == files[i].size
  <2>1. /\ DOMAIN kept = {n \in 0..(size - 1) : old + n < DISK_BLOCKS * BS}
        /\ kept = [k \in DOMAIN kept |-> ByteAt(blocks, old + k)]
    BY DEF Content, OnDisk
  <2>2. moved = [k \in {n \in 0..(size - 1) : new + n < DISK_BLOCKS * BS} |-> ByteAt(disk, new + k)]
    BY <1>6 DEF Content, OnDisk
  <2>3. /\ size \in Nat /\ old \in Nat /\ old >= DATA_START * BS /\ new \in Nat /\ new <= old
        /\ IF i > g THEN new + z = old /\ new >= p ELSE new = old /\ old + size <= p
    BY <1>6
  <2> HIDE DEF kept, moved, old, new, size, to
  <2>4. ASSUME NEW k \in DOMAIN kept
        PROVE  /\ k \in {n \in 0..(size - 1) : new + n < DISK_BLOCKS * BS}
               /\ ByteAt(disk, new + k) = ByteAt(blocks, old + k)
    <3>1. /\ k \in Nat /\ k < size /\ old + k < DISK_BLOCKS * BS
          /\ DISK_BLOCKS * BS \in Nat /\ DATA_START * BS \in Nat
      BY <2>1, <2>3, DataStart, FileSystemAssumption
    <3>2. /\ new + k < DISK_BLOCKS * BS /\ new + k \in Nat
          /\ k \in {n \in 0..(size - 1) : new + n < DISK_BLOCKS * BS}
      <4>1. new + k < DISK_BLOCKS * BS /\ new + k \in Nat /\ k \in 0..(size - 1)
        BY <2>3, <3>1
      <4> QED
        BY <4>1
    <3>3. CASE i > g
      <4>1. new + k >= p /\ (new + k) + z = old + k /\ new + k >= DATA_START * BS
        BY <2>3, <3>1, <3>3, <1>4
      <4>2. ByteAt(disk, new + k) = ByteAt(blocks, (new + k) + z)
        <5>1. (new + k) + z < DISK_BLOCKS * BS
          BY <4>1, <3>1
        <5> QED
          BY <5>1, <4>1, <3>2, <1>3, <1>4, MovedByte
      <4> QED
        BY <4>1, <4>2, <3>1, <3>2
    <3>4. CASE ~ (i > g)
      <4>1. new = old /\ new + k < p /\ new + k >= DATA_START * BS
        BY <2>3, <3>1, <3>4, <1>4
      <4>2. ByteAt(disk, new + k) = ByteAt(blocks, new + k)
        BY <4>1, <3>2, <1>3, <1>4, FrontByte
      <4> QED
        BY <4>1, <4>2, <3>1, <3>2
    <3> QED
      BY <3>3, <3>4
  <2>5. Restrict(moved, DOMAIN kept) = [k \in DOMAIN kept |-> moved[k]]
    BY DEF Restrict
  <2>6. \A k \in DOMAIN kept : moved[k] = ByteAt(blocks, old + k)
    BY <2>2, <2>4
  <2>7. Restrict(moved, DOMAIN kept) = kept
    BY <2>1, <2>5, <2>6
  <2> QED
    BY <2>7 DEF moved, kept
<1> QED
  BY <1>7 DEF DeleteKeepsOthers, g, disk, r

\* fs_truncate leaves the places of the files up to its own as they are.
LEMMA TruncatePlaces ==
  ASSUME NEW t \in Tables, Packed(t), Tight(t), NEW f \in Entries, t[f].size >= 0,
         NEW r, NEW length \in 0 .. MaxSize, Shortened(r, t, f, length),
         NEW i \in Entries, i <= f
  PROVE  Place(r[i]) = Place(t[i])
<1> DEFINE Same(j) == Place(r[j]) = Place(t[j])
           S == {m \in Nat : m <= f => Same(m)}
<1>1. ASSUME NEW j \in Nat, j <= f
      PROVE  /\ j \in Entries /\ t[j].size >= 0
             /\ Place(r[j]) = Behind(r, j) \/ Place(r[j]) = Place(t[j])
             /\ j < f => r[j].size = t[j].size
             /\ Place(t[j]) = IF j = 0 THEN DATA_START * BS ELSE Place(t[j - 1]) + t[j - 1].size
  <2>1. j \in Entries /\ f \in Nat
    BY <1>1, FileSystemAssumption DEF Entries
  <2>2. t[j].size >= 0
    <3>1. j = f \/ j < f
      BY <1>1, <2>1
    <3> QED
      BY <3>1, <2>1, PackedOrder
  <2>3. Place(t[j]) = IF j = 0 THEN DATA_START * BS ELSE Place(t[j - 1]) + t[j - 1].size
    BY <2>1, <2>2 DEF Tight, Used
  <2>4. j < f => j # f
    BY <2>1
  <2> QED
    BY <2>1, <2>2, <2>3, <2>4 DEF Shortened
<1>2. 0 \in S
  <2>1. 0 <= f
    BY FileSystemAssumption DEF Entries
  <2>2. Behind(r, 0) = DATA_START * BS
    BY DEF Behind
  <2> QED
    BY <2>1, <2>2, <1>1
<1>3. ASSUME NEW m \in S PROVE m + 1 \in S
  <2> SUFFICES ASSUME m + 1 <= f PROVE Same(m + 1)
    OBVIOUS
  <2>1. m \in Nat /\ m + 1 \in Nat /\ m + 1 # 0 /\ (m + 1) - 1 = m /\ m < f /\ m <= f
    BY FileSystemAssumption DEF Entries
  <2>2. Same(m)
    BY <2>1
  <2>3. t[m].size >= 0 /\ r[m].size = t[m].size
    BY <2>1, <1>1
  <2>4. Held(r[m]) = t[m].size
    BY <2>3 DEF Held
  <2>5. Behind(r, m + 1) = Place(t[m + 1])
    <3>1. Behind(r, m + 1) = Place(r[m]) + Held(r[m])
      BY <2>1 DEF Behind
    <3>2. Place(t[m + 1]) = Place(t[m]) + t[m].size
      BY <2>1, <1>1
    <3> QED
      BY <3>1, <3>2, <2>2, <2>4
  <2> QED
    BY <2>1, <2>5, <1>1
<1>4. S = Nat
  <2>1. S \in SUBSET Nat
    OBVIOUS
  <2> HIDE DEF S
  <2> QED
    BY <1>2, <1>3, <2>1, Counting
<1>5. i \in Nat
  BY DEF Entries
<1> QED
  BY <1>4, <1>5

\* fs_truncate leaves the files before its own and the front of its own alone,
\* with or without memory for its buffers.
LEMMA TruncateKeepsThem ==
  ASSUME FileSystemInv, mounted, Tight(files), NEW d \in Descriptors, IsOpen(d),
         NEW length \in 0 .. FileOf(d).size, NEW heap \in BOOLEAN,
         NEW disk \in TruncateDisks(d, length, heap)
  PROVE  TruncateKeepsFront(d, length, disk)
<1> DEFINE f == open_files[d].file_num
           r == TruncateTable(d, length)
           p == Place(files[f])
<1>1. /\ f \in Entries /\ Packed(files) /\ files[f].size \in 0 .. MaxSize /\ d \in Nat
      /\ files \in Tables
  BY OpenInUse DEF FileOf, Descriptors, FileSystemInv
<1>2. /\ files[f].size \in Nat /\ files[f].size >= 0
      /\ length \in 0 .. MaxSize /\ length <= files[f].size /\ length \in Nat
  BY <1>1, FileSystemAssumption DEF FileOf
<1>3. r = FillFrom([files EXCEPT ![f].size = length], d, NFILES - 2)
  BY DEF TruncateTable
<1>4. FrontOf(disk, blocks, p + length)
  <2>1. CASE heap
    <3>1. PICK stray \in Bytes : disk = Last(TruncateImages(d, length, stray))
      BY <2>1 DEF TruncateDisks
    <3> QED
      BY <3>1, <1>2, TruncateImagesAre DEF FileOf
  <2>2. CASE ~ heap
    BY <2>2 DEF TruncateDisks, FrontOf
  <2> QED
    BY <2>1, <2>2
<1> HIDE DEF f, r
<1>5. Shortened(r, files, f, length)
  BY <1>1, <1>2, <1>3, TruncateKeepsPacked
<1>6. p \in Nat
  BY <1>1, RowFields
<1> HIDE DEF p
<1>7. ASSUME NEW i \in 0 .. f
      PROVE  LET rest == Content(r, disk, i)
             IN  rest = Restrict(Content(files, blocks, i), DOMAIN rest)
  <2> DEFINE rest == Content(r, disk, i)
             own == Content(files, blocks, i)
             place == Place(files[i])
             size == files[i].size
             new == r[i].size
  <2>1. i \in Entries /\ i <= f /\ i \in Int /\ f \in Int
    BY <1>1, FileSystemAssumption DEF Entries
  <2>2. /\ Place(r[i]) = place /\ place \in Nat
        /\ new = IF i = f THEN length ELSE size
    BY <2>1, <1>1, <1>2, <1>5, TruncatePlaces, RowFields DEF Shortened
  <2>3. i < f \/ i = f
    BY <2>1
  <2>4. size \in Nat /\ size >= 0
    <3>1. files[i].size >= 0
      BY <2>1, <2>3, <1>1, <1>2, PackedOrder
    <3> QED
      BY <3>1, <2>1, <1>1, RowFields, FileSystemAssumption
  <2>5. place >= DATA_START * BS
    BY <2>1, <2>4, <1>1, PackedStart
  <2>6. new \in Nat /\ new <= size /\ place + new <= p + length
    <3>1. CASE i = f
      BY <3>1, <2>2, <1>2, <1>6 DEF p
    <3>2. CASE i < f
      <4>1. place + size <= p /\ new = size
        BY <3>2, <2>1, <2>2, <1>1, <1>2, PackedOrder DEF p
      <4> HIDE DEF place, size, new
      <4> QED
        BY <4>1, <2>2, <2>4, <1>2, <1>6
    <3> QED
      BY <2>3, <3>1, <3>2
  <2>7. /\ DOMAIN rest = {n \in 0..(new - 1) : place + n < DISK_BLOCKS * BS}
        /\ rest = [k \in DOMAIN rest |-> ByteAt(disk, place + k)]
    BY <2>2 DEF Content, OnDisk
  <2>8. own = [k \in {n \in 0..(size - 1) : place + n < DISK_BLOCKS * BS} |-> ByteAt(blocks, place + k)]
    BY DEF Content, OnDisk
  <2> HIDE DEF rest, own, place, size, new
  <2>9. ASSUME NEW k \in DOMAIN rest
        PROVE  /\ k \in {n \in 0..(size - 1) : place + n < DISK_BLOCKS * BS}
               /\ ByteAt(disk, place + k) = ByteAt(blocks, place + k)
    <3>1. /\ k \in Nat /\ k < new /\ place + k < DISK_BLOCKS * BS
          /\ DATA_START * BS \in Nat
      BY <2>6, <2>7, DataStart
    <3>2. /\ place + k \in Nat /\ place + k >= DATA_START * BS /\ place + k < p + length
          /\ k \in 0..(size - 1) /\ p + length \in Int
      BY <3>1, <2>2, <2>4, <2>5, <2>6, <1>2, <1>6
    <3>3. ByteAt(disk, place + k) = ByteAt(blocks, place + k)
      BY <3>1, <3>2, <1>4, FrontByte
    <3> QED
      BY <3>1, <3>2, <3>3
  <2>10. Restrict(own, DOMAIN rest) = [k \in DOMAIN rest |-> own[k]]
    BY DEF Restrict
  <2>11. \A k \in DOMAIN rest : own[k] = ByteAt(disk, place + k)
    BY <2>8, <2>9
  <2>12. rest = Restrict(own, DOMAIN rest)
    BY <2>7, <2>10, <2>11
  <2> QED
    BY <2>12 DEF rest, own
<1> QED
  BY <1>7 DEF TruncateKeepsFront, f, r

\* fs_write changes the bytes it is given the place of, and no others but those
\* of the block in which it starts.
LEMMA WriteKeepsThem ==
  ASSUME FileSystemInv, mounted, NEW d \in Descriptors, IsOpen(d), NEW data \in Data,
         NEW images \in Writes(d, data)
  PROVE  WriteStaysInside(d, data, Last(images))
<1> DEFINE first == Place(FileOf(d)) + open_files[d].offset
           b0 == first \div BS
<1>1. PICK n \in Nat : data \in [1 .. n -> Bytes] /\ Len(data) = n
  BY DataAre
<1>2. PICK garbage \in Buffer : images = WriteImages(d, data, garbage)
  BY DEF Writes
<1>3. Filed(images, b0, first, n, data, blocks)
  BY <1>1, <1>2, WriteImagesAre
<1>4. first \in Nat
  <2>1. open_files[d].offset \in Nat
    <3>1. open_files[d].offset \in 0 .. MaxSize
      BY HandleFields
    <3> QED
      BY <3>1, FileSystemAssumption
  <2>2. Place(FileOf(d)) \in Nat
    BY HandleFields, RowFields DEF FileSystemInv, FileOf
  <2> QED
    BY <2>1, <2>2
<1> HIDE DEF first
<1>5. b0 \in Nat
  BY <1>4, DivMod
<1> HIDE DEF b0
<1>6. ASSUME NEW p \in (DATA_START * BS)..(DISK_BLOCKS * BS - 1)
      PROVE  IF p \in first..(first + n - 1)
             THEN ByteAt(Last(images), p) = data[p - first + 1]
             ELSE p \in (b0 * BS)..(b0 * BS + BS - 1) \/ ByteAt(Last(images), p) = ByteAt(blocks, p)
  <2> DEFINE b == p \div BS
             q == p % BS
  <2>1. p \in Nat /\ p >= DATA_START * BS /\ p < DISK_BLOCKS * BS
    BY DataStart, FileSystemAssumption
  <2>2. b \in DataBlocks /\ q \in 0 .. BS - 1 /\ p = b * BS + q
    BY <2>1, ByteInBlock, DivMod
  <2>3. ByteAt(Last(images), p) = Last(images)[b][q] /\ ByteAt(blocks, p) = blocks[b][q]
    BY DEF ByteAt
  <2> HIDE DEF b, q
  <2> DEFINE at == b * BS + q
  <2>4. IF at \in first .. first + n - 1
        THEN Last(images)[b][q] = data[at - first + 1]
        ELSE b = b0 \/ Last(images)[b][q] = blocks[b][q]
    <3>1. b \in DataBlocks /\ q \in 0 .. BS - 1
      BY <2>2
    <3>2. IF b * BS + q \in first .. first + n - 1
          THEN Last(images)[b][q] = data[b * BS + q - first + 1]
          ELSE b = b0 \/ Last(images)[b][q] = blocks[b][q]
      BY <3>1, <1>3 DEF Filed
    <3>3. b * BS + q - first + 1 = at - first + 1
      <4>1. b \in Int
        BY <3>1, DataStart, FileSystemAssumption DEF DataBlocks
      <4>2. b * BS \in Int
        BY <4>1, BlockSum
      <4> QED
        BY <4>2, <3>1, <1>4, FileSystemAssumption
    <3> QED
      BY <3>2, <3>3
  <2>a. p = at
    BY <2>2
  <2>5. b = b0 => p \in (b0 * BS)..(b0 * BS + BS - 1)
    BY <2>1, <2>2, <1>5, FileSystemAssumption, BlockSum
  <2> HIDE DEF at
  <2> QED
    BY <2>3, <2>4, <2>5, <2>a
<1>7. \A p \in (DATA_START * BS)..(DISK_BLOCKS * BS - 1) :
        IF p \in first..(first + Len(data) - 1)
        THEN ByteAt(Last(images), p) = data[p - first + 1]
        ELSE p \in (b0 * BS)..(b0 * BS + BS - 1) \/ ByteAt(Last(images), p) = ByteAt(blocks, p)
  BY <1>1, <1>6
<1> QED
  BY <1>7 DEF WriteStaysInside, first, b0

\* Whatever has happened before, a call leaves the bytes of the other files as
\* they were: fs_delete if shiftBlocks gets its memory and fs_truncate in any
\* case, as long as the files follow each other without a gap; fs_write but for
\* the block in which it starts.
THEOREM FilesKeepTheirContents == Spec => []ContentsKept
<1>1. FileSystemInv => ContentsKept
  <2> SUFFICES ASSUME FileSystemInv, mounted PROVE ContentsKept
    BY DEF ContentsKept
  <2>1. ASSUME Tight(files), NEW name \in Names, Deletable(name)
        PROVE  DeleteKeepsOthers(name, TRUE)
    BY <2>1, DeleteKeepsThem
  <2>2. ASSUME Tight(files), NEW d \in Descriptors, IsOpen(d),
               NEW n \in 0 .. FileOf(d).size, NEW heap \in BOOLEAN,
               NEW disk \in TruncateDisks(d, n, heap)
        PROVE  TruncateKeepsFront(d, n, disk)
    BY <2>2, TruncateKeepsThem
  <2>3. ASSUME NEW d \in Descriptors, NEW data \in Data, IsOpen(d), NEW images \in Writes(d, data)
        PROVE  WriteStaysInside(d, data, Last(images))
    BY <2>3, WriteKeepsThem
  <2> QED
    BY <2>1, <2>2, <2>3 DEF ContentsKept
<1> QED
  BY <1>1, FileSystemInvariance, PTL

===============================================================================
