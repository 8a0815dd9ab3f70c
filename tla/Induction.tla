------------------------------ MODULE Induction ------------------------------
(***************************************************************************)
(* Induction and folds for the proofs.  The induction theorems of the       *)
(* library take an operator and cannot be used; that a set of numbers which *)
(* has 0 and every successor has all of Nat can, and from it follows that   *)
(* the folds of the community modules are what a loop computes, and that    *)
(* the sizes of things that lie side by side add up to what they cover.     *)
(* At the end, what is needed of the places in a sequence and their order.  *)
(***************************************************************************)
EXTENDS Integers, FiniteSets, FiniteSetsExt, SequencesExt, FiniteSetTheorems,
        SequenceTheorems, WellFoundedInduction, TLAPS

\* Every set of natural numbers that is not empty has a least element.
LEMMA LeastElement ==
  ASSUME NEW S \in SUBSET Nat, S # {}
  PROVE  \E n \in S : \A m \in S : n <= m
<1>1. IsWellFoundedOn(OpToRel(<, Nat), Nat)
  BY NatLessThanWellFounded
<1>2. PICK n \in S : \A m \in S : ~ (<<m, n>> \in OpToRel(<, Nat))
  BY <1>1, WFMin
<1>3. \A m \in S : ~ (m < n)
  BY <1>2 DEF OpToRel
<1> QED
  BY <1>3

\* A set of natural numbers with 0 and with the successor of each of its
\* elements has them all.
LEMMA Counting ==
  ASSUME NEW S \in SUBSET Nat, 0 \in S, \A n \in S : n + 1 \in S
  PROVE  S = Nat
<1> SUFFICES ASSUME Nat \ S # {} PROVE FALSE
  OBVIOUS
<1>1. PICK n \in Nat \ S : \A m \in Nat \ S : n <= m
  BY LeastElement
<1>2. n # 0 /\ n - 1 \in Nat
  BY <1>1
<1>3. n - 1 \in S
  BY <1>1, <1>2
<1> QED
  BY <1>1, <1>2, <1>3

\* The same of the numbers up to n.
LEMMA CountingTo ==
  ASSUME NEW n \in Nat, NEW S, 0 \in S, \A k \in 0 .. n : k \in S /\ k < n => k + 1 \in S
  PROVE  \A k \in 0 .. n : k \in S
<1> DEFINE T == {k \in Nat : k <= n => k \in S}
<1>1. 0 \in T
  OBVIOUS
<1>2. ASSUME NEW k \in T PROVE k + 1 \in T
  <2>1. k \in Nat /\ (k <= n => k \in S)
    OBVIOUS
  <2>2. k + 1 \in Nat /\ (k + 1 <= n => k <= n /\ k < n)
    BY <2>1
  <2> QED
    BY <2>1, <2>2
<1>3. T \in SUBSET Nat
  OBVIOUS
<1>4. T = Nat
  <2> HIDE DEF T
  <2> QED
    BY <1>1, <1>2, <1>3, Counting
<1> QED
  <2> TAKE k \in 0 .. n
  <2>1. k \in Nat /\ k <= n
    OBVIOUS
  <2>2. k \in T
    <3> HIDE DEF T
    <3> QED
      BY <1>4, <2>1
  <2> QED
    BY <2>1, <2>2

\* Min of the community modules returns the least of natural numbers.
LEMMA MinIs ==
  ASSUME NEW S \in SUBSET Nat, S # {}
  PROVE  Min(S) \in S /\ \A m \in S : Min(S) <= m
BY LeastElement DEF Min

\* Max returns the largest of natural numbers that have a bound.
LEMMA MaxIs ==
  ASSUME NEW S \in SUBSET Nat, S # {}, NEW n \in Nat, \A m \in S : m <= n
  PROVE  Max(S) \in S /\ \A m \in S : Max(S) >= m
<1> DEFINE Short == {d \in 0 .. n : n - d \in S}
<1>1. Short \in SUBSET Nat
  OBVIOUS
<1>2. PICK m \in S : TRUE
  OBVIOUS
<1>3. n - m \in 0 .. n /\ n - (n - m) = m
  BY <1>2
<1>4. Short # {}
  BY <1>2, <1>3
<1>5. PICK d \in Short : \A e \in Short : d <= e
  BY <1>1, <1>4, LeastElement
<1>6. \A k \in S : n - k \in Short
  <2> TAKE k \in S
  <2>1. n - k \in 0 .. n /\ n - (n - k) = k
    OBVIOUS
  <2> QED
    BY <2>1
<1>7. n - d \in S /\ d \in 0 .. n
  BY <1>5
<1>8. \A k \in S : d <= n - k
  BY <1>5, <1>6
<1>9. \A k \in S : n - d >= k
  BY <1>7, <1>8
<1> QED
  BY <1>7, <1>9 DEF Max

\* What a fold over 1 .. n makes of the set s, if it has made it[t] of the smaller t.
Folded(it, s, base, step) ==
  IF s = {} THEN base ELSE step[<<it[s \ {Max(s)}], Max(s)>>]

FoldedUpto(it, n, k, base, step) ==
  \A s \in SUBSET (1 .. n) :
    Cardinality(s) <= k => it[s] = Folded(it, s, base, step)

Steps(n, V) == [V \X (1 .. n) -> V]
IsFold(it, n, V, base, step) ==
  /\ it \in [SUBSET (1 .. n) -> V]
  /\ \A s \in SUBSET (1 .. n) : it[s] = Folded(it, s, base, step)
IsRun(run, n, V, base, step) ==
  /\ run \in [0 .. n -> V] /\ run[0] = base
  /\ \A k \in 1 .. n : run[k] = step[<<run[k - 1], k>>]
Follows(it, n, V, base, step) ==
  /\ it[{}] = base
  /\ \A k \in 1 .. n : it[1 .. k - 1] \in V =>
                          it[1 .. k] = step[<<it[1 .. k - 1], k>>]

\* What is left of a set of 1 .. n without its largest element, in the order
\* in which a fold takes it apart.
LEMMA Removing ==
  ASSUME NEW n \in Nat, NEW s \in SUBSET (1 .. n)
  PROVE  /\ IsFiniteSet(s) /\ Cardinality(s) \in 0 .. n
         /\ Cardinality(s) = 0 => s = {}
         /\ s # {} => /\ Max(s) \in 1 .. n
                      /\ s \ {Max(s)} \in SUBSET (1 .. n)
                      /\ Cardinality(s \ {Max(s)}) = Cardinality(s) - 1
<1>1. IsFiniteSet(1 .. n) /\ Cardinality(1 .. n) = n
  BY FS_Interval, 1 \in Int, n \in Int
<1>2. IsFiniteSet(s) /\ Cardinality(s) <= n
  BY <1>1, FS_Subset
<1>3. Cardinality(s) \in Nat
  BY <1>2, FS_CardinalityType
<1>4. ASSUME s # {} PROVE Max(s) \in s
  <2>1. s \in SUBSET Nat /\ \A m \in s : m <= n
    OBVIOUS
  <2> QED
    BY <1>4, <2>1, MaxIs
<1>5. ASSUME s # {} PROVE Cardinality(s \ {Max(s)}) = Cardinality(s) - 1
  BY <1>2, <1>4, <1>5, FS_RemoveElement
<1>6. Cardinality(s) = 0 => s = {}
  BY <1>2, FS_EmptySet
<1>7. Cardinality(s) \in 0 .. n
  BY <1>2, <1>3
<1>8. s # {} => Max(s) \in 1 .. n /\ s \ {Max(s)} \in SUBSET (1 .. n)
  BY <1>4
<1> QED
  BY <1>2, <1>5, <1>6, <1>7, <1>8

\* There is a function that satisfies the equation by which the community
\* modules define a fold over the sets of 1 .. n, so that what CHOOSE picks
\* there satisfies it too.
LEMMA FoldExists ==
  ASSUME NEW n \in Nat, NEW V, NEW base \in V,
         NEW step \in Steps(n, V)
  PROVE  \E it : IsFold(it, n, V, base, step)
<1> USE DEF Steps
<1> DEFINE Done(k) == \E it \in [SUBSET (1 .. n) -> V] :
                        FoldedUpto(it, n, k, base, step)
           K == {k \in Nat : Done(k)}
<1>2. Done(0)
  <2> DEFINE h == [s \in SUBSET (1 .. n) |-> base]
  <2>1. h \in [SUBSET (1 .. n) -> V]
    OBVIOUS
  <2>2. ASSUME NEW s \in SUBSET (1 .. n), Cardinality(s) <= 0 PROVE s = {}
    <3>1. Cardinality(s) \in 0 .. n /\ (Cardinality(s) = 0 => s = {})
      BY Removing
    <3> QED
      BY <2>2, <3>1
  <2>3. FoldedUpto(h, n, 0, base, step)
    BY <2>2 DEF FoldedUpto, Folded
  <2> HIDE DEF h
  <2> QED
    BY <2>1, <2>3
<1>3. ASSUME NEW k \in Nat, Done(k) PROVE Done(k + 1)
  <2>1. PICK f \in [SUBSET (1 .. n) -> V] : FoldedUpto(f, n, k, base, step)
    BY <1>3
  <2> DEFINE h == [s \in SUBSET (1 .. n) |-> Folded(f, s, base, step)]
  <2>3. h \in [SUBSET (1 .. n) -> V]
    <3> SUFFICES ASSUME NEW s \in SUBSET (1 .. n) PROVE Folded(f, s, base, step) \in V
      OBVIOUS
    <3> QED
      BY Removing DEF Folded
  <2>4. ASSUME NEW s \in SUBSET (1 .. n), Cardinality(s) <= k + 1
        PROVE  h[s] = Folded(h, s, base, step)
    <3>1. CASE s = {}
      BY <3>1 DEF Folded
    <3>2. CASE s # {}
      <4>1. Cardinality(s \ {Max(s)}) <= k /\ s \ {Max(s)} \in SUBSET (1 .. n)
        BY <2>4, <3>2, Removing
      <4>2. f[s \ {Max(s)}] = h[s \ {Max(s)}]
        BY <4>1, <2>1 DEF FoldedUpto
      <4> QED
        BY <4>2, <3>2 DEF Folded
    <3> QED
      BY <3>1, <3>2
  <2>5. FoldedUpto(h, n, k + 1, base, step)
    BY <2>4 DEF FoldedUpto
  <2> HIDE DEF h
  <2> QED
    BY <2>3, <2>5
<1>4. K = Nat
  <2> HIDE DEF Done
  <2>1. K \in SUBSET Nat /\ 0 \in K
    BY <1>2
  <2>2. \A k \in K : k + 1 \in K
    BY <1>3
  <2> HIDE DEF K
  <2> QED
    BY <2>1, <2>2, Counting
<1>5. PICK f \in [SUBSET (1 .. n) -> V] : FoldedUpto(f, n, n, base, step)
  BY <1>4
<1>6. ASSUME NEW s \in SUBSET (1 .. n) PROVE f[s] = Folded(f, s, base, step)
  <2>1. Cardinality(s) \in 0 .. n
    BY Removing
  <2>2. Cardinality(s) <= n
    BY <2>1
  <2> QED
    BY <1>5, <2>2 DEF FoldedUpto
<1>7. \A s \in SUBSET (1 .. n) : f[s] = Folded(f, s, base, step)
  BY <1>6
<1> QED
  BY <1>7 DEF IsFold

\* A fold over 1 .. n is the last state of a run that takes the elements
\* one after the other.
LEMMA Runs ==
  ASSUME NEW n \in Nat, NEW V, NEW base \in V,
         NEW step \in Steps(n, V), NEW it, Follows(it, n, V, base, step)
  PROVE  \E run : IsRun(run, n, V, base, step) /\ run[n] = it[1 .. n]
<1> USE DEF Steps
<1> DEFINE run == [k \in 0 .. n |-> it[1 .. k]]
           Good(k) == k <= n => run[k] \in V
           K == {k \in Nat : Good(k)}
<1>1. run[0] = base
  <2>1. 1 .. 0 = {}
    OBVIOUS
  <2>2. 0 \in 0 .. n
    OBVIOUS
  <2> QED
    BY <2>1, <2>2 DEF Follows
<1>2. ASSUME NEW k \in 1 .. n, run[k - 1] \in V
      PROVE  run[k] = step[<<run[k - 1], k>>] /\ run[k] \in V
  <2>1. k - 1 \in 0 .. n /\ k \in 0 .. n
    OBVIOUS
  <2>2. run[k - 1] = it[1 .. k - 1] /\ run[k] = it[1 .. k]
    BY <2>1
  <2>3. it[1 .. k] = step[<<it[1 .. k - 1], k>>]
    BY <1>2, <2>2 DEF Follows
  <2> HIDE DEF run
  <2>4. run[k] = step[<<run[k - 1], k>>]
    BY <2>2, <2>3
  <2> QED
    BY <1>2, <2>4
<1>3. ASSUME NEW k \in Nat, Good(k) PROVE Good(k + 1)
  <2> SUFFICES ASSUME k + 1 <= n PROVE run[k + 1] \in V
    OBVIOUS
  <2>1. k + 1 \in 1 .. n /\ (k + 1) - 1 = k /\ k <= n
    OBVIOUS
  <2>2. run[k] \in V
    BY <1>3, <2>1
  <2> HIDE DEF run
  <2> QED
    BY <1>2, <2>1, <2>2
<1>4. K = Nat
  <2>1. Good(0)
    BY <1>1
  <2> HIDE DEF Good
  <2>2. K \in SUBSET Nat /\ 0 \in K /\ \A k \in K : k + 1 \in K
    BY <1>3, <2>1
  <2> HIDE DEF K
  <2> QED
    BY <2>2, Counting
<1>5. \A k \in 0 .. n : run[k] \in V
  <2> TAKE k \in 0 .. n
  <2>1. k \in K
    <3> HIDE DEF K
    <3> QED
      BY <1>4
  <2> QED
    BY <2>1
<1>6. run \in [0 .. n -> V]
  BY <1>5
<1>7. run[n] = it[1 .. n]
  OBVIOUS
<1>8. \A k \in 1 .. n : run[k] = step[<<run[k - 1], k>>]
  <2> TAKE k \in 1 .. n
  <2>1. k - 1 \in 0 .. n
    OBVIOUS
  <2> QED
    BY <1>2, <1>5, <2>1
<1> HIDE DEF run
<1> QED
  BY <1>1, <1>6, <1>7, <1>8 DEF IsRun

\* What a function of the sets of 1 .. n has to satisfy to be such a fold, as
\* far as the smaller sets are mapped to V.
Unfolds(it, n, V, base, step) ==
  /\ it[{}] = base
  /\ \A s \in SUBSET (1 .. n) : s # {} /\ it[s \ {Max(s)}] \in V =>
                                 it[s] = step[<<it[s \ {Max(s)}], Max(s)>>]

\* The same, said of what CHOOSE picks: a function of the sets of 1 .. n that
\* satisfies the equation of a fold wherever the smaller set is mapped to V.
LEMMA FoldRun ==
  ASSUME NEW n \in Nat, NEW V, NEW base \in V, NEW step \in Steps(n, V), NEW it,
         Unfolds(it, n, V, base, step)
  PROVE  \E run : IsRun(run, n, V, base, step) /\ run[n] = it[1 .. n]
<1> USE DEF Unfolds
<1>1. ASSUME NEW k \in 1 .. n, it[1 .. k - 1] \in V
      PROVE  it[1 .. k] = step[<<it[1 .. k - 1], k>>]
  <2>1. 1 .. k \in SUBSET (1 .. n) /\ 1 .. k # {}
    <3>1. k \in 1 .. k
      OBVIOUS
    <3>2. 1 .. k \in SUBSET (1 .. n)
      OBVIOUS
    <3> QED
      BY <3>1, <3>2
  <2>2. (1 .. k) \ {k} = 1 .. k - 1
    OBVIOUS
  <2>3. Max(1 .. k) = k
    <3>1. 1 .. k \in SUBSET Nat /\ k \in Nat /\ k \in 1 .. k /\ \A m \in 1 .. k : m <= k
      OBVIOUS
    <3>2. Max(1 .. k) \in 1 .. k /\ Max(1 .. k) >= k
      BY <3>1, <2>1, MaxIs
    <3> QED
      BY <3>2
  <2> QED
    BY <1>1, <2>1, <2>2, <2>3
<1>2. Follows(it, n, V, base, step)
  BY <1>1 DEF Follows
<1> QED
  BY <1>2, Runs

\* 2^n is a positive integer, and 2^(n + 1) is twice as much.
LEMMA Powers ==
  ASSUME NEW n \in Nat
  PROVE  2^n \in Nat \ {0} /\ 2^(n + 1) = 2 * 2^n
<1> DEFINE S == 1 .. n
           x == n + 1
           small == SUBSET S
           with == {t \cup {x} : t \in SUBSET S}
           big == SUBSET (1 .. n + 1)
           g == [t \in SUBSET S |-> t \cup {x}]
<1>1. IsFiniteSet(S) /\ Cardinality(S) = n
  BY FS_Interval, 1 \in Int, n \in Int
<1>2. IsFiniteSet(1 .. n + 1) /\ Cardinality(1 .. n + 1) = n + 1
  BY FS_Interval, 1 \in Int, n + 1 \in Int
<1>3. x \notin S /\ 1 .. n + 1 = S \cup {x}
  OBVIOUS
<1>4. IsFiniteSet(small) /\ Cardinality(small) = 2^n
  BY <1>1, FS_SUBSET
<1>5. Cardinality(big) = 2^(n + 1)
  <2>1. n + 1 \in Nat
    OBVIOUS
  <2> QED
    BY <1>2, <2>1, FS_SUBSET
<1> HIDE DEF S, x
<1>6. big = small \cup with
  <2>1. ASSUME NEW u \in big, x \in u PROVE u \in with
    <3>1. u = (u \ {x}) \cup {x} /\ u \ {x} \in SUBSET S
      BY <2>1, <1>3
    <3> QED
      BY <3>1
  <2>2. ASSUME NEW u \in big, x \notin u PROVE u \in small
    BY <2>2, <1>3
  <2>3. ASSUME NEW u \in with PROVE u \in big
    BY <1>3
  <2>4. ASSUME NEW u \in small PROVE u \in big
    BY <1>3
  <2> HIDE DEF with, small, big
  <2> QED
    BY <2>1, <2>2, <2>3, <2>4
<1>7. small \cap with = {}
  <2>1. ASSUME NEW t \in with PROVE t \notin small
    BY <1>3
  <2> HIDE DEF with, small
  <2> QED
    BY <2>1
<1>8. g \in Bijection(small, with)
  <2>1. g \in [small -> with] /\ \A w \in with : \E t \in small : g[t] = w
    OBVIOUS
  <2>2. ASSUME NEW t \in small, NEW u \in small, g[t] = g[u] PROVE t = u
    <3>1. t \cup {x} = u \cup {x}
      BY <2>2
    <3> QED
      BY <3>1, <1>3
  <2>3. DOMAIN g = small
    OBVIOUS
  <2> HIDE DEF g, with, small
  <2>4. g \in Injection(small, with)
    BY <2>1, <2>2, <2>3 DEF Injection, IsInjective
  <2> QED
    BY <2>1, <2>4 DEF Bijection, Surjection
<1> HIDE DEF g, with, small, big
<1>9. IsFiniteSet(with) /\ Cardinality(with) = 2^n
  BY <1>4, <1>8, FS_Bijection DEF ExistsBijection
<1>10. Cardinality(big) = 2^n + 2^n - 0
  BY <1>4, <1>6, <1>7, <1>9, FS_Union, FS_EmptySet
<1>11. 2^n \in Nat
  BY <1>4, FS_CardinalityType
<1>12. 2^n # 0
  <2>1. {} \in small
    BY DEF small
  <2> QED
    BY <1>4, <2>1, FS_EmptySet
<1> QED
  BY <1>5, <1>10, <1>11, <1>12

\* RemoveAt(s, i) takes exactly the i-th element out of s.
LEMMA RemoveAtLemma ==
  ASSUME NEW S, NEW s \in Seq(S), NEW i \in 1 .. Len(s)
  PROVE  /\ RemoveAt(s, i) \in Seq(S)
         /\ Len(RemoveAt(s, i)) = Len(s) - 1
         /\ \A j \in 1 .. Len(s) - 1 :
              RemoveAt(s, i)[j] = IF j < i THEN s[j] ELSE s[j + 1]
<1> DEFINE front == SubSeq(s, 1, i - 1)
           back == SubSeq(s, i + 1, Len(s))
<1>1. /\ front \in Seq(S) /\ Len(front) = i - 1
      /\ \A j \in 1 .. i - 1 : front[j] = s[j]
  BY SubSeqProperties
<1>2. /\ back \in Seq(S) /\ Len(back) = Len(s) - i
      /\ \A j \in 1 .. Len(s) - i : back[j] = s[i + j]
  <2>1. \A j \in i + 1 .. Len(s) : s[j] \in S
    OBVIOUS
  <2>2. \A j \in 1 .. Len(s) - i : (i + 1) + j - 1 = i + j
    OBVIOUS
  <2> QED
    BY <2>1, <2>2, SubSeqProperties
<1>3. RemoveAt(s, i) = front \o back
  BY DEF RemoveAt
<1> HIDE DEF front, back
<1>4. /\ front \o back \in Seq(S) /\ Len(front \o back) = Len(s) - 1
      /\ \A j \in 1 .. Len(s) - 1 :
           (front \o back)[j] = IF j <= i - 1 THEN front[j] ELSE back[j - (i - 1)]
  <2>1. Len(front) + Len(back) = Len(s) - 1
    BY <1>1, <1>2
  <2>2. front \in Seq(S) /\ back \in Seq(S) /\ Len(front) = i - 1
    BY <1>1, <1>2
  <2>3. /\ front \o back \in Seq(S)
        /\ Len(front \o back) = Len(front) + Len(back)
        /\ \A j \in 1 .. Len(front) + Len(back) : (front \o back)[j] =
             IF j <= Len(front) THEN front[j] ELSE back[j - Len(front)]
    BY <2>2, ConcatProperties, Zenon
  <2> QED
    BY <2>1, <2>2, <2>3
<1>5. ASSUME NEW j \in 1 .. Len(s) - 1
      PROVE  (front \o back)[j] = IF j < i THEN s[j] ELSE s[j + 1]
  <2>1. CASE j < i
    BY <2>1, <1>1, <1>4
  <2>2. CASE ~ (j < i)
    <3>1. j - (i - 1) \in 1 .. Len(s) - i /\ i + (j - (i - 1)) = j + 1
      BY <2>2
    <3> QED
      BY <2>2, <3>1, <1>2, <1>4
  <2> QED
    BY <2>1, <2>2
<1> QED
  BY <1>3, <1>4, <1>5

-----------------------------------------------------------------------------
(* Sums, of things that lie side by side                                   *)

\* What MapThenSumSet makes of the sizes len of the elements of S.
Sums(it, S, len) ==
  /\ it[{}] = 0
  /\ \A s \in SUBSET S : s # {} =>
       LET x == CHOOSE x \in s : TRUE IN it[s] = len[x] + it[s \ {x}]

\* The elements of S lie apart from each other between 0 and n.
Apart(S, at, len, n) ==
  /\ at \in [S -> Nat] /\ len \in [S -> Nat] /\ n \in Nat
  /\ \A x \in S : at[x] + len[x] <= n
  /\ \A x, y \in S : x # y => at[x] + len[x] <= at[y] \/ at[y] + len[y] <= at[x]

\* The numbers that the elements of s take up.
Covered(s, at, len) == {i \in Nat : \E x \in s : i \in at[x] .. at[x] + len[x] - 1}

\* An element more takes up as many numbers more as it is long.
LEMMA CoveredStep ==
  ASSUME NEW S, NEW at, NEW len, NEW n, Apart(S, at, len, n), NEW s \in SUBSET S, NEW x \in s
  PROVE  /\ IsFiniteSet(Covered(s, at, len)) /\ Cardinality(Covered(s, at, len)) \in Nat
         /\ Cardinality(Covered(s, at, len))
              = len[x] + Cardinality(Covered(s \ {x}, at, len))
<1> DEFINE one == at[x] .. at[x] + len[x] - 1
           rest == Covered(s \ {x}, at, len)
<1>1. at[x] \in Nat /\ len[x] \in Nat /\ n \in Nat
  BY DEF Apart
<1>2. IsFiniteSet(one) /\ Cardinality(one) = len[x]
  <2>1. at[x] \in Int /\ at[x] + len[x] - 1 \in Int
    BY <1>1
  <2>2. IsFiniteSet(one) /\ Cardinality(one) = IF at[x] > at[x] + len[x] - 1 THEN 0
                                               ELSE (at[x] + len[x] - 1) - at[x] + 1
    <3> DEFINE b == at[x] + len[x] - 1
    <3>1. b \in Int
      BY <2>1
    <3> HIDE DEF b
    <3>2. IsFiniteSet(at[x] .. b) /\ Cardinality(at[x] .. b) = IF at[x] > b THEN 0 ELSE b - at[x] + 1
      BY <2>1, <3>1, FS_Interval
    <3> QED
      BY <3>2 DEF b
  <2> HIDE DEF one
  <2> QED
    BY <1>1, <2>2
<1>3. IsFiniteSet(rest)
  <2>1. ASSUME NEW i \in rest PROVE i \in Nat /\ i <= n
    <3>1. PICK y \in S : i \in Nat /\ i \in at[y] .. at[y] + len[y] - 1
      BY <2>1 DEF Covered
    <3>2. at[y] \in Nat /\ len[y] \in Nat /\ at[y] + len[y] <= n
      BY DEF Apart
    <3> QED
      BY <3>1, <3>2, <1>1
  <2> HIDE DEF rest
  <2>2. rest \in SUBSET Nat /\ \A i \in rest : i <= n
    BY <2>1
  <2> QED
    BY <2>2, <1>1, FS_BoundedSetOfNaturals
<1>4. one \cap rest = {}
  <2> SUFFICES ASSUME NEW i \in one, i \in rest PROVE FALSE
    OBVIOUS
  <2>1. PICK y \in s \ {x} : i \in at[y] .. at[y] + len[y] - 1
    BY DEF Covered
  <2>2. /\ at[y] \in Nat /\ len[y] \in Nat
        /\ at[x] + len[x] <= at[y] \/ at[y] + len[y] <= at[x]
    BY DEF Apart
  <2>3. i \in Int /\ at[x] <= i /\ i < at[x] + len[x] /\ at[y] <= i /\ i < at[y] + len[y]
    BY <2>1, <2>2, <1>1
  <2> QED
    BY <2>2, <2>3, <1>1
<1>5. Covered(s, at, len) = one \cup rest
  <2>1. one \subseteq Nat
    BY <1>1
  <2> QED
    BY <2>1 DEF Covered
<1> HIDE DEF one, rest
<1>6. /\ IsFiniteSet(one \cup rest)
      /\ Cardinality(one \cup rest) = Cardinality(one) + Cardinality(rest) - Cardinality(one \cap rest)
  BY <1>2, <1>3, FS_Union
<1>7. Cardinality(one \cap rest) = 0 /\ Cardinality(rest) \in Nat
  BY <1>3, <1>4, FS_EmptySet, FS_CardinalityType
<1> QED
  BY <1>1, <1>2, <1>5, <1>6, <1>7 DEF rest

\* There is such a sum, so that what CHOOSE picks in MapThenSumSet is one: the
\* number of numbers that the elements take up.
LEMMA SumExists ==
  ASSUME NEW S, NEW at, NEW len, NEW n, Apart(S, at, len, n)
  PROVE  \E it : it = [s \in SUBSET S |-> it[s]] /\ Sums(it, S, len)
<1> DEFINE it == [s \in SUBSET S |-> Cardinality(Covered(s, at, len))]
<1>1. it[{}] = 0
  <2>1. Covered({}, at, len) = {}
    BY DEF Covered
  <2> QED
    BY <2>1, FS_EmptySet
<1>2. ASSUME NEW s \in SUBSET S, s # {}
      PROVE  LET x == CHOOSE x \in s : TRUE IN it[s] = len[x] + it[s \ {x}]
  <2> DEFINE x == CHOOSE x \in s : TRUE
  <2>1. x \in s
    BY <1>2
  <2> HIDE DEF x
  <2>2. it[s] = Cardinality(Covered(s, at, len))
        /\ it[s \ {x}] = Cardinality(Covered(s \ {x}, at, len))
    OBVIOUS
  <2> HIDE DEF it
  <2>3. it[s] = len[x] + it[s \ {x}]
    BY <2>1, <2>2, CoveredStep
  <2> QED
    BY <2>3 DEF x
<1>3. it = [s \in SUBSET S |-> it[s]]
  OBVIOUS
<1> HIDE DEF it
<1>4. Sums(it, S, len)
  BY <1>1, <1>2 DEF Sums
<1> QED
  BY <1>3, <1>4

\* A sum of sizes is the number of numbers that the elements take up.
LEMMA SumCovers ==
  ASSUME NEW S, IsFiniteSet(S), NEW at, NEW len, NEW n, Apart(S, at, len, n),
         NEW it, Sums(it, S, len)
  PROVE  it[S] = Cardinality(Covered(S, at, len))
<1> DEFINE K == {k \in Nat : \A s \in SUBSET S :
                   IsFiniteSet(s) /\ Cardinality(s) = k => it[s] = Cardinality(Covered(s, at, len))}
<1>1. 0 \in K
  <2>1. Covered({}, at, len) = {}
    BY DEF Covered
  <2>2. it[{}] = Cardinality(Covered({}, at, len))
    BY <2>1, FS_EmptySet DEF Sums
  <2> QED
    BY <2>2, FS_EmptySet
<1>2. ASSUME NEW k \in K PROVE k + 1 \in K
  <2> SUFFICES ASSUME NEW s \in SUBSET S, IsFiniteSet(s), Cardinality(s) = k + 1
               PROVE  it[s] = Cardinality(Covered(s, at, len))
    OBVIOUS
  <2> DEFINE x == CHOOSE x \in s : TRUE
  <2>1. s # {}
    BY FS_EmptySet
  <2>2. x \in s
    BY <2>1
  <2>3. it[s] = len[x] + it[s \ {x}]
    BY <2>1 DEF Sums
  <2> HIDE DEF x
  <2>4. IsFiniteSet(s \ {x}) /\ Cardinality(s \ {x}) = k
    <3>1. IsFiniteSet(s \ {x}) /\ Cardinality(s \ {x}) = Cardinality(s) - 1
      BY <2>2, FS_RemoveElement
    <3> QED
      BY <3>1
  <2>5. it[s \ {x}] = Cardinality(Covered(s \ {x}, at, len))
    BY <2>4
  <2> QED
    BY <2>2, <2>3, <2>5, CoveredStep
<1>3. K = Nat
  <2>1. K \in SUBSET Nat
    OBVIOUS
  <2> HIDE DEF K
  <2> QED
    BY <2>1, <1>1, <1>2, Counting
<1>4. Cardinality(S) \in Nat
  BY FS_CardinalityType
<1> QED
  BY <1>3, <1>4

-----------------------------------------------------------------------------
(* The stretches of a sequence.                                            *)

\* The number of an element of a set of positions in their order, and back.
Rank(S, k) == Cardinality({j \in S : j <= k})
Nth(S, n) == CHOOSE k \in S : Rank(S, k) = n

\* A set of positions has as many ranks as elements.
LEMMA Ranks ==
  ASSUME NEW L \in Nat, NEW S \in SUBSET (1 .. L)
  PROVE  /\ IsFiniteSet(S) /\ Cardinality(S) \in Nat
         /\ \A n \in 1 .. Cardinality(S) : \E k \in S : Rank(S, k) = n
<1> DEFINE Good(k) ==
             \A T \in SUBSET (1 .. k) :
               /\ IsFiniteSet(T) /\ Cardinality(T) \in Nat
               /\ \A n \in 1 .. Cardinality(T) : \E x \in T : Cardinality({j \in T : j <= x}) = n
           K == {k \in Nat : Good(k)}
<1>1. Good(0)
  <2> SUFFICES ASSUME NEW T \in SUBSET (1 .. 0)
               PROVE  /\ IsFiniteSet(T) /\ Cardinality(T) \in Nat
                      /\ \A n \in 1 .. Cardinality(T) :
                           \E x \in T : Cardinality({j \in T : j <= x}) = n
    OBVIOUS
  <2>1. T = {}
    OBVIOUS
  <2>2. IsFiniteSet(T) /\ Cardinality(T) = 0
    BY <2>1, FS_EmptySet
  <2> QED
    BY <2>2
<1>2. ASSUME NEW k \in Nat, Good(k) PROVE Good(k + 1)
  <2> SUFFICES ASSUME NEW T \in SUBSET (1 .. k + 1)
               PROVE  /\ IsFiniteSet(T) /\ Cardinality(T) \in Nat
                      /\ \A n \in 1 .. Cardinality(T) :
                           \E x \in T : Cardinality({j \in T : j <= x}) = n
    OBVIOUS
  <2> DEFINE U == T \ {k + 1}
  <2>1. U \in SUBSET (1 .. k)
    OBVIOUS
  <2> HIDE DEF U
  <2>2. /\ IsFiniteSet(U) /\ Cardinality(U) \in Nat
        /\ \A n \in 1 .. Cardinality(U) : \E x \in U : Cardinality({j \in U : j <= x}) = n
    BY <2>1, <1>2
  <2>3. CASE k + 1 \notin T
    <3>1. U = T
      BY <2>3 DEF U
    <3> QED
      BY <2>2, <3>1
  <2>4. CASE k + 1 \in T
    <3>1. T = U \cup {k + 1} /\ k + 1 \notin U
      BY <2>4 DEF U
    <3>2. IsFiniteSet(T) /\ Cardinality(T) = Cardinality(U) + 1
      BY <2>2, <3>1, FS_AddElement
    <3>3. ASSUME NEW n \in 1 .. Cardinality(U)
          PROVE  \E x \in T : Cardinality({j \in T : j <= x}) = n
      <4>1. PICK x \in U : Cardinality({j \in U : j <= x}) = n
        BY <2>2
      <4>2. {j \in T : j <= x} = {j \in U : j <= x}
        <5>1. x \in 1 .. k
          BY <2>1
        <5>2. ~ (k + 1 <= x)
          BY <5>1
        <5> QED
          BY <3>1, <5>2
      <4> QED
        BY <4>1, <4>2, <3>1
    <3>4. Cardinality({j \in T : j <= k + 1}) = Cardinality(T)
      <4>1. \A j \in T : j <= k + 1
        OBVIOUS
      <4>2. {j \in T : j <= k + 1} = T
        BY <4>1, Zenon
      <4> QED
        BY <4>2
    <3>5. ASSUME NEW n \in 1 .. Cardinality(T)
          PROVE  \E x \in T : Cardinality({j \in T : j <= x}) = n
      <4>1. n \in 1 .. Cardinality(U) \/ n = Cardinality(T)
        BY <2>2, <3>2
      <4> QED
        BY <4>1, <3>3, <3>4, <2>4
    <3>6. Cardinality(T) \in Nat
      BY <2>2, <3>2
    <3> QED
      BY <3>2, <3>5, <3>6
  <2> QED
    BY <2>3, <2>4
<1>3. K = Nat
  <2> HIDE DEF Good
  <2>1. K \in SUBSET Nat /\ 0 \in K /\ \A k \in K : k + 1 \in K
    BY <1>1, <1>2
  <2> HIDE DEF K
  <2> QED
    BY <2>1, Counting
<1>4. Good(L)
  <2> HIDE DEF Good
  <2> QED
    BY <1>3
<1> QED
  BY <1>4 DEF Rank

\* The n-th position is one, with n positions up to it, and the only such one.
LEMMA NthIs ==
  ASSUME NEW L \in Nat, NEW S \in SUBSET (1 .. L), NEW n \in 1 .. Cardinality(S)
  PROVE  /\ Nth(S, n) \in S /\ Rank(S, Nth(S, n)) = n
         /\ \A k \in S : Rank(S, k) = n => k = Nth(S, n)
<1>1. \E k \in S : Rank(S, k) = n
  BY Ranks
<1>2. Nth(S, n) \in S /\ Rank(S, Nth(S, n)) = n
  BY <1>1 DEF Nth
<1>3. ASSUME NEW x \in S, NEW y \in S, x < y
      PROVE  Rank(S, x) # Rank(S, y)
  <2>1. {j \in S : j <= y} \in SUBSET (1 .. L)
    OBVIOUS
  <2>2. IsFiniteSet({j \in S : j <= y})
    BY <2>1, Ranks
  <2>3. x \in 1 .. L /\ y \in 1 .. L
    OBVIOUS
  <2>4. {j \in S : j <= x} \in SUBSET {j \in S : j <= y}
    <3>1. \A j \in S : j <= x => j <= y
      <4> TAKE j \in S
      <4>1. j \in 1 .. L
        OBVIOUS
      <4> QED
        BY <4>1, <2>3, <1>3
    <3> QED
      BY <3>1, Zenon
  <2>5. y \in {j \in S : j <= y} /\ y \notin {j \in S : j <= x}
    BY <2>3, <1>3
  <2> QED
    BY <2>2, <2>4, <2>5, FS_Subset DEF Rank
<1>4. ASSUME NEW k \in S, Rank(S, k) = n PROVE k = Nth(S, n)
  <2>1. k \in Nat /\ Nth(S, n) \in Nat
    <3>1. \A j \in S : j \in Nat
      OBVIOUS
    <3> QED
      BY <1>2, <3>1, Zenon
  <2>2. ~ (k < Nth(S, n)) /\ ~ (Nth(S, n) < k)
    BY <1>2, <1>3, <1>4
  <2> QED
    BY <2>1, <2>2
<1> QED
  BY <1>2, <1>4

\* Behind the n-th position there is another unless it is the last.
LEMMA NthBehind ==
  ASSUME NEW L \in Nat, NEW S \in SUBSET (1 .. L), NEW n \in 1 .. Cardinality(S)
  PROVE  /\ n < Cardinality(S) => \E k \in S : k > Nth(S, n)
         /\ n = Cardinality(S) => \A k \in S : k <= Nth(S, n)
<1> DEFINE U == {j \in S : j <= Nth(S, n)}
<1>1. Nth(S, n) \in S /\ Cardinality(U) = n /\ U \in SUBSET S
  BY NthIs DEF Rank
<1>2. IsFiniteSet(S)
  BY Ranks
<1>3. CASE n < Cardinality(S)
  <2>1. U # S
    <3> HIDE DEF U
    <3> QED
      BY <1>1, <1>3
  <2>2. PICK k \in S : ~ (k <= Nth(S, n))
    BY <2>1
  <2>3. k \in Nat /\ Nth(S, n) \in Nat
    <3>1. \A j \in S : j \in Nat
      OBVIOUS
    <3> QED
      BY <1>1, <3>1, Zenon
  <2> QED
    BY <1>3, <2>2, <2>3
<1>4. CASE n = Cardinality(S)
  <2>1. U = S
    <3> HIDE DEF U
    <3> QED
      BY <1>1, <1>2, <1>4, FS_Subset
  <2> QED
    BY <2>1, <1>4
<1>5. Cardinality(S) \in Nat
  BY Ranks
<1> QED
  BY <1>3, <1>4, <1>5

\* One position more, behind all others.
Wider(S, L) == S \cup {L + 1}

\* A position behind all others does not change their numbers.
LEMMA NthMore ==
  ASSUME NEW L \in Nat, NEW S \in SUBSET (1 .. L), NEW T, T = Wider(S, L)
  PROVE  /\ Cardinality(T) = Cardinality(S) + 1
         /\ \A n \in 1 .. Cardinality(S) : Nth(T, n) = Nth(S, n)
         /\ Nth(T, Cardinality(T)) = L + 1
<1> USE DEF Wider
<1>1. IsFiniteSet(S) /\ Cardinality(S) \in Nat
  BY Ranks
<1>2. Cardinality(T) = Cardinality(S) + 1
  <2>1. L + 1 \notin S
    OBVIOUS
  <2> QED
    BY <1>1, <2>1, FS_AddElement
<1>3. L + 1 \in Nat /\ T \in SUBSET (1 .. L + 1)
  OBVIOUS
<1> DEFINE M == L + 1
<1>m. M \in Nat /\ T \in SUBSET (1 .. M)
  BY <1>3
<1> HIDE DEF M
<1>4. ASSUME NEW n \in 1 .. Cardinality(S) PROVE Nth(T, n) = Nth(S, n)
  <2>1. Nth(S, n) \in S /\ Rank(S, Nth(S, n)) = n
    BY NthIs
  <2>2. {j \in T : j <= Nth(S, n)} = {j \in S : j <= Nth(S, n)}
    <3>1. Nth(S, n) \in 1 .. L
      BY <2>1
    <3>2. ~ (L + 1 <= Nth(S, n))
      BY <3>1
    <3> QED
      BY <3>2
  <2>3. n \in 1 .. Cardinality(T) /\ Nth(S, n) \in T
    BY <1>1, <1>2, <2>1
  <2>4. Rank(T, Nth(S, n)) = n
    BY <2>1, <2>2 DEF Rank
  <2>5. \A k \in T : Rank(T, k) = n => k = Nth(T, n)
    BY <1>m, <2>3, NthIs
  <2> QED
    BY <2>3, <2>4, <2>5, Zenon
<1>5. Nth(T, Cardinality(T)) = L + 1
  <2>1. {j \in T : j <= L + 1} = T
    <3>1. \A j \in T : j <= L + 1
      BY <1>3
    <3> QED
      BY <3>1, Zenon
  <2>2. Cardinality(T) \in 1 .. Cardinality(T) /\ L + 1 \in T
    BY <1>1, <1>2
  <2>3. Rank(T, L + 1) = Cardinality(T)
    BY <2>1 DEF Rank
  <2>4. \A k \in T : Rank(T, k) = Cardinality(T)
                      => k = Nth(T, Cardinality(T))
    BY <1>m, <2>2, NthIs
  <2> QED
    BY <2>2, <2>3, <2>4, Zenon
<1> QED
  BY <1>2, <1>4, <1>5

-----------------------------------------------------------------------------
(* A fold over a sequence, from its head on.                               *)

Passes(run, s, V, base, f) ==
  /\ run \in [0 .. Len(s) -> V] /\ run[0] = base
  /\ \A k \in 1 .. Len(s) : run[k] = f[<<run[k - 1], s[k]>>]

\* A fold has one result.
LEMMA PassesOnce ==
  ASSUME NEW s, Len(s) \in Nat, NEW V, NEW base, NEW f,
         NEW run, Passes(run, s, V, base, f), NEW q, Passes(q, s, V, base, f)
  PROVE  run[Len(s)] = q[Len(s)]
<1> DEFINE n == Len(s)
           S == {k \in 0 .. n : run[k] = q[k]}
<1>1. 0 \in S /\ n \in Nat
  BY DEF Passes
<1>2. ASSUME NEW k \in 0 .. n, k \in S, k < n PROVE k + 1 \in S
  <2>1. k + 1 \in 1 .. n /\ (k + 1) - 1 = k /\ k + 1 \in 0 .. n
    BY <1>1, <1>2
  <2>2. run[k + 1] = f[<<run[k], s[k + 1]>>] /\ q[k + 1] = f[<<q[k], s[k + 1]>>]
    BY <2>1 DEF Passes
  <2> QED
    BY <1>2, <2>1, <2>2
<1> HIDE DEF S
<1>3. \A k \in 0 .. n : k \in S
  BY <1>1, <1>2, CountingTo
<1> QED
  BY <1>1, <1>3 DEF S

\* After the first step it goes on with the tail.
LEMMA PassesOn ==
  ASSUME NEW E, NEW s \in Seq(E), s # << >>, NEW V, NEW base, NEW f,
         NEW run, Passes(run, s, V, base, f)
  PROVE  \E q : /\ Passes(q, Tail(s), V, f[<<base, Head(s)>>], f)
                /\ q[Len(Tail(s))] = run[Len(s)]
<1> DEFINE n == Len(s)
           t == Tail(s)
           q == [k \in 0 .. n - 1 |-> run[k + 1]]
<1>1. /\ n \in Nat \ {0} /\ Len(t) = n - 1 /\ Head(s) = s[1]
      /\ \A j \in 1 .. n - 1 : t[j] = s[j + 1]
  BY EmptySeq, HeadTailProperties
<1> HIDE DEF t
<1>2. /\ run \in [0 .. n -> V] /\ run[0] = base
      /\ \A k \in 1 .. n : run[k] = f[<<run[k - 1], s[k]>>]
  BY DEF Passes
<1> HIDE DEF n
<1>3. q \in [0 .. n - 1 -> V] /\ \A k \in 0 .. n - 1 : q[k] = run[k + 1]
  <2>1. \A k \in 0 .. n - 1 : k + 1 \in 0 .. n
    BY <1>1
  <2> QED
    BY <1>2, <2>1
<1> HIDE DEF q
<1>4. q[0] = f[<<base, Head(s)>>]
  <2>1. 0 \in 0 .. n - 1 /\ 0 + 1 = 1 /\ 1 \in 1 .. n /\ 1 - 1 = 0
    BY <1>1
  <2>2. run[1] = f[<<run[0], s[1]>>]
    BY <1>2, <2>1
  <2> QED
    BY <1>1, <1>2, <1>3, <2>1, <2>2
<1>5. ASSUME NEW k \in 1 .. n - 1 PROVE q[k] = f[<<q[k - 1], t[k]>>]
  <2>1. k + 1 \in 1 .. n /\ (k + 1) - 1 = k /\ k - 1 \in 0 .. n - 1 /\ (k - 1) + 1 = k /\ k \in 0 .. n - 1
    BY <1>1
  <2>2. run[k + 1] = f[<<run[k], s[k + 1]>>]
    BY <1>2, <2>1
  <2>3. q[k] = run[k + 1] /\ q[k - 1] = run[k]
    BY <1>3, <2>1
  <2> QED
    BY <1>1, <2>2, <2>3
<1>6. Passes(q, t, V, f[<<base, Head(s)>>], f)
  BY <1>1, <1>3, <1>4, <1>5 DEF Passes
<1>7. q[n - 1] = run[n]
  <2>1. n - 1 \in 0 .. n - 1 /\ (n - 1) + 1 = n
    BY <1>1
  <2> QED
    BY <1>3, <2>1
<1> QED
  BY <1>1, <1>6, <1>7 DEF t, n

\* The sequence w begins with v.
Goes(v, w) == Len(v) <= Len(w) /\ \A j \in 1 .. Len(v) : w[j] = v[j]

\* If each step only adds to a sequence, so does the fold.
LEMMA PassesKeep ==
  ASSUME NEW E, NEW s \in Seq(E), NEW B, NEW V, V = Seq(B), NEW base \in V, NEW f,
         NEW run, Passes(run, s, V, base, f), \A v \in V, e \in E : Goes(v, f[<<v, e>>])
  PROVE  run[Len(s)] \in V /\ Goes(base, run[Len(s)])
<1> DEFINE n == Len(s)
           S == {k \in 0 .. n : Goes(base, run[k])}
<1>1. n \in Nat /\ run \in [0 .. n -> V] /\ run[0] = base
  BY DEF Passes
<1>2. 0 \in S
  <2>1. Len(base) \in Nat
    OBVIOUS
  <2> QED
    BY <1>1, <2>1 DEF Goes
<1>3. ASSUME NEW k \in 0 .. n, k \in S, k < n PROVE k + 1 \in S
  <2>1. k + 1 \in 1 .. n /\ (k + 1) - 1 = k /\ k + 1 \in 0 .. n
    BY <1>1, <1>3
  <2>2. run[k + 1] = f[<<run[k], s[k + 1]>>]
    BY <2>1 DEF Passes
  <2>3. run[k] \in V /\ run[k + 1] \in V /\ s[k + 1] \in E
    BY <1>1, <2>1, ElementOfSeq
  <2>4. Goes(run[k], run[k + 1])
    BY <2>2, <2>3
  <2>5. Goes(base, run[k])
    BY <1>3
  <2> DEFINE v == run[k]  w == run[k + 1]
  <2>6. v \in Seq(B) /\ w \in Seq(B) /\ base \in Seq(B)
    BY <2>3
  <2> HIDE DEF v, w
  <2>7. Len(v) \in Nat /\ Len(w) \in Nat /\ Len(base) \in Nat
    BY <2>6
  <2>8. Goes(base, v) /\ Goes(v, w)
    BY <2>4, <2>5 DEF v, w
  <2>9. Goes(base, w)
    BY <2>7, <2>8 DEF Goes
  <2> QED
    BY <2>1, <2>9 DEF w
<1> HIDE DEF S
<1>4. \A k \in 0 .. n : k \in S
  BY <1>1, <1>2, <1>3, CountingTo
<1>5. n \in 0 .. n
  BY <1>1
<1> QED
  BY <1>1, <1>4, <1>5 DEF S

=============================================================================
