------------------------------ MODULE ShellProofs ------------------------------
(***************************************************************************)
(* Two properties of the shell, for every input.                           *)
(*                                                                         *)
(* ChildrenReaped: while a line runs, the children left are numbered by    *)
(* the commands taken; once the shell waits they are only counted, since   *)
(* wait takes any of them: there are at most as many as there are waits to *)
(* come.                                                                   *)
(*                                                                         *)
(* RunsAsWritten: what has been tried, followed by the commands in hand    *)
(* and by those of the text that is still to be read, is what the whole    *)
(* text asks for.  For a line that is read this needs to be known of the   *)
(* parsing: that the lines, the parts between semicolons and the words of  *)
(* a text are the stretches that it is cut into.  So the proof begins with *)
(* what the stretches of a string are when a character is added, and when  *)
(* another string is.                                                      *)
(***************************************************************************)
EXTENDS Shell, Induction

\* The processes not waited for.
Left == DOMAIN children

IInv ==
  /\ pc \in {"prompt", "run", "foreground", "wait", "done"}
  /\ i \in Nat
  /\ children = [n \in Left |-> children[n]]
  /\ pc \in {"run", "foreground"} => Left \subseteq 1..i
  /\ pc = "wait" => IsFiniteSet(Left) /\ Cardinality(Left) <= i
  /\ pc \in {"prompt", "done"} => Left = {}

\* A function with an empty domain is the empty sequence.
LEMMA NoneLeft == ASSUME children = [n \in Left |-> children[n]], Left = {} PROVE children = << >>
<1>1. << >> = [n \in 1..0 |-> children[n]]
  OBVIOUS
<1>2. 1..0 = {}
  OBVIOUS
<1> QED BY <1>1, <1>2

\* What wait and waitpid leave: at most one child fewer, and none more; one
\* fewer if they may take any and there is one.
LEMMA ReapLeaves ==
  ASSUME NEW who, Reap(who), children = [n \in Left |-> children[n]]
  PROVE  /\ children' = [n \in Left' |-> children'[n]]
         /\ Left' = Left \/ \E n \in who \cap Left : Left' = Left \ {n}
         /\ who \cap Left # {} => Left' # Left
BY DEF Reap, Left

\* A child only changes its state.
LEMMA ChildLeaves ==
  ASSUME NEW n, Child(n), children = [m \in Left |-> children[m]]
  PROVE  Left' = Left /\ children' = [m \in Left' |-> children'[m]] /\ pc' = pc /\ i' = i
BY DEF Child, Exec, ExecFails, Exit, Left

-----------------------------------------------------------------------------
(* No child is left.                                                       *)

\* The invariant holds in every reachable state.
THEOREM Invariance == Spec => []IInv
<1>1. Init => IInv
  BY DEF Init, IInv, Left
<1>2. IInv /\ [Next]_vars => IInv'
  <2> SUFFICES ASSUME IInv, [Next]_vars PROVE IInv'
    OBVIOUS
  <2>1. CASE ReadLine
    BY <2>1 DEF ReadLine, IInv, Left
  <2>2. CASE NoChild
    <3>1. i' = i + 1 /\ children' = children /\ pc' = "run" /\ pc = "run"
      BY <2>2 DEF NoChild
    <3> QED BY <3>1 DEF IInv, Left
  <2>3. CASE Fork
    <3>1. pc = "run" /\ i' = i + 1 /\ pc' \in {"run", "foreground"}
      BY <2>3 DEF Fork
    <3>2. CASE UNCHANGED children
      BY <3>1, <3>2 DEF IInv, Left
    <3>3. CASE children' = [n \in DOMAIN children \cup {i + 1} |->
                              IF n = i + 1 THEN "forked" ELSE children[n]]
      <4>1. Left' = Left \cup {i + 1} /\ children' = [n \in Left' |-> children'[n]]
        BY <3>3 DEF Left
      <4> QED BY <3>1, <4>1 DEF IInv
    <3> QED BY <2>3, <3>2, <3>3 DEF Fork
  <2>4. CASE WaitForeground
    <3>1. PICK who : Reap(who)
      BY <2>4 DEF WaitForeground
    <3>2. pc = "foreground" /\ pc' = "run" /\ i' = i
      BY <2>4 DEF WaitForeground
    <3>3. Left' \subseteq Left /\ children' = [n \in Left' |-> children'[n]]
      BY <3>1, ReapLeaves DEF IInv
    <3> QED BY <3>2, <3>3 DEF IInv
  <2>5. CASE EndOfCommands
    <3>1. pc = "run" /\ pc' = "wait" /\ i' = i /\ children' = children
      BY <2>5 DEF EndOfCommands
    <3>2. IsFiniteSet(1..i) /\ Cardinality(1..i) = i
      BY FS_Interval DEF IInv
    <3>3. Left \in SUBSET (1..i)
      BY <3>1 DEF IInv
    <3>4. IsFiniteSet(Left) /\ Cardinality(Left) <= i
      BY <3>2, <3>3, FS_Subset
    <3> QED BY <3>1, <3>4 DEF IInv, Left
  <2>6. CASE WaitChild
    <3>1. pc = "wait" /\ pc' = "wait" /\ i' = i - 1 /\ i > 0 /\ Reap(Left)
      BY <2>6 DEF WaitChild, Left
    <3>2. /\ children' = [n \in Left' |-> children'[n]]
          /\ Left' = Left \/ \E n \in Left : Left' = Left \ {n}
          /\ Left # {} => Left' # Left
      BY <3>1, ReapLeaves DEF IInv
    <3>3. IsFiniteSet(Left) /\ Cardinality(Left) <= i /\ Cardinality(Left) \in Nat
      BY <3>1, FS_CardinalityType DEF IInv
    <3>4. CASE Left = {}
      <4>1. Left' = {}
        BY <3>2, <3>4
      <4>2. IsFiniteSet(Left') /\ Cardinality(Left') = 0
        BY <4>1, FS_EmptySet
      <4> QED BY <3>1, <3>2, <4>2 DEF IInv
    <3>5. CASE Left # {}
      <4>1. PICK n \in Left : Left' = Left \ {n}
        BY <3>2, <3>5
      <4>2. IsFiniteSet(Left') /\ Cardinality(Left') = Cardinality(Left) - 1
        BY <3>3, <4>1, FS_RemoveElement
      <4> QED BY <3>1, <3>2, <3>3, <4>2 DEF IInv
    <3> QED BY <3>4, <3>5
  <2>7. CASE EndOfLine
    <3>1. pc = "wait" /\ i = 0 /\ pc' \in {"prompt", "done"} /\ i' = i /\ children' = children
      BY <2>7 DEF EndOfLine
    <3>2. Left = {}
      BY <3>1, FS_CardinalityType, FS_EmptySet DEF IInv
    <3> QED BY <3>1, <3>2 DEF IInv, Left
  <2>8. ASSUME NEW n, Child(n) PROVE IInv'
    BY <2>8, ChildLeaves DEF IInv
  <2>9. CASE UNCHANGED vars
    BY <2>9 DEF vars, IInv, Left
  <2> QED BY <2>1, <2>2, <2>3, <2>4, <2>5, <2>6, <2>7, <2>8, <2>9 DEF Next, Shell
<1> QED BY <1>1, <1>2, PTL DEF Spec

\* Whatever the lines are and whichever forks fail, the shell leaves no child
\* behind when it asks for the next line or ends.
THEOREM NoChildLeft == Spec => []ChildrenReaped
<1>1. IInv => ChildrenReaped
  BY NoneLeft DEF IInv, ChildrenReaped
<1> QED BY <1>1, Invariance, PTL

-----------------------------------------------------------------------------
(* What strtok makes of a string, character by character.                  *)

\* Where a stretch of s without delimiters begins, how far one that begins at
\* k goes, and the stretch.
Starts(s, D) == {k \in 1..Len(s) : s[k] \notin D /\ (k = 1 \/ s[k - 1] \in D)}
Reach(s, D, k) == {e \in k..Len(s) : \A m \in k..e : s[m] \notin D}
Stretch(s, D, k) == SubSeq(s, k, Max(Reach(s, D, k)))

\* The stretches, with their first characters and their ends named.
LEMMA StretchesAre ==
  ASSUME NEW s, NEW D
  PROVE  Stretches(s, D) = [n \in 1..Cardinality(Starts(s, D)) |->
                              Stretch(s, D, Nth(Starts(s, D), n))]
BY DEF Stretches, Stretch, Starts, Reach, Nth, Rank

\* A stretch goes at least as far as the character it begins with.
LEMMA ReachIs ==
  ASSUME NEW A, NEW s \in Seq(A), NEW D, NEW k \in Starts(s, D)
  PROVE  /\ k \in 1..Len(s) /\ Max(Reach(s, D, k)) \in k..Len(s)
         /\ Max(Reach(s, D, k)) \in Reach(s, D, k)
<1>1. k \in 1..Len(s) /\ s[k] \notin D /\ Len(s) \in Nat
  BY DEF Starts
<1>2. k \in Reach(s, D, k)
  <2>1. k \in k..Len(s) /\ k..k = {k}
    BY <1>1
  <2> QED
    BY <1>1, <2>1 DEF Reach
<1>3. Reach(s, D, k) \in SUBSET Nat /\ \A e \in Reach(s, D, k) : e <= Len(s)
  BY <1>1 DEF Reach
<1>4. Max(Reach(s, D, k)) \in Reach(s, D, k)
  BY <1>1, <1>2, <1>3, MaxIs
<1>5. Max(Reach(s, D, k)) \in k..Len(s)
  BY <1>4 DEF Reach
<1> QED
  BY <1>1, <1>4, <1>5

\* What is between two characters of a string.
LEMMA StretchIs ==
  ASSUME NEW A, NEW s \in Seq(A), NEW k \in 1..Len(s), NEW e \in k..Len(s)
  PROVE  /\ SubSeq(s, k, e) \in Seq(A) /\ Len(SubSeq(s, k, e)) = e - k + 1
         /\ \A j \in 1..e - k + 1 : SubSeq(s, k, e)[j] = s[k + j - 1]
<1>1. Len(s) \in Nat /\ k \in Int /\ e \in Int /\ k <= e
  OBVIOUS
<1>2. \A j \in k..e : s[j] \in A
  BY <1>1, ElementOfSeq
<1> QED
  BY <1>1, <1>2, SubSeqProperties

\* A string has as many stretches as characters that begin one.
LEMMA StartsAre ==
  ASSUME NEW A, NEW s \in Seq(A), NEW D
  PROVE  /\ Len(s) \in Nat /\ Starts(s, D) \in SUBSET (1..Len(s))
         /\ IsFiniteSet(Starts(s, D)) /\ Cardinality(Starts(s, D)) \in Nat
         /\ \A n \in 1..Cardinality(Starts(s, D)) : Nth(Starts(s, D), n) \in Starts(s, D)
<1>1. Len(s) \in Nat /\ Starts(s, D) \in SUBSET (1..Len(s))
  BY DEF Starts
<1> QED
  BY <1>1, Ranks, NthIs

\* The stretches are strings, in the order of their first characters.
LEMMA StretchesType ==
  ASSUME NEW A, NEW s \in Seq(A), NEW D
  PROVE  /\ Stretches(s, D) \in Seq(Seq(A))
         /\ Len(Stretches(s, D)) = Cardinality(Starts(s, D))
         /\ \A n \in 1..Cardinality(Starts(s, D)) :
              Stretches(s, D)[n] = Stretch(s, D, Nth(Starts(s, D), n))
<1> DEFINE m == Cardinality(Starts(s, D))
           f == [n \in 1..m |-> Stretch(s, D, Nth(Starts(s, D), n))]
<1>1. m \in Nat
  BY StartsAre
<1>2. ASSUME NEW n \in 1..m PROVE Stretch(s, D, Nth(Starts(s, D), n)) \in Seq(A)
  <2>1. Nth(Starts(s, D), n) \in Starts(s, D)
    BY StartsAre
  <2> QED
    BY <2>1, ReachIs, StretchIs DEF Stretch
<1>3. f \in [1..m -> Seq(A)] /\ \A n \in 1..m : f[n] = Stretch(s, D, Nth(Starts(s, D), n))
  BY <1>2
<1>4. Stretches(s, D) = f
  BY StretchesAre
<1> HIDE DEF f, m
<1>5. f \in Seq(Seq(A)) /\ Len(f) = m
  BY <1>1, <1>3
<1> QED
  BY <1>3, <1>4, <1>5 DEF m

\* A longer string has the same characters in front.
LEMMA Longer ==
  ASSUME NEW A, NEW s \in Seq(A), NEW c \in A
  PROVE  /\ Len(s) \in Nat /\ Append(s, c) \in Seq(A) /\ Len(Append(s, c)) = Len(s) + 1
         /\ \A k \in 1..Len(s) : Append(s, c)[k] = s[k]
         /\ Append(s, c)[Len(s) + 1] = c
BY AppendProperties

\* A stretch that does not go on stays as it is.
LEMMA StretchStays ==
  ASSUME NEW A, NEW s \in Seq(A), NEW c \in A, NEW D, NEW k \in Starts(s, D),
         c \in D \/ \E m \in k..Len(s) : s[m] \in D
  PROVE  Stretch(Append(s, c), D, k) = Stretch(s, D, k)
<1> DEFINE t == Append(s, c)  L == Len(s)
<1>1. /\ L \in Nat /\ t \in Seq(A) /\ Len(t) = L + 1
      /\ \A j \in 1..L : t[j] = s[j]
      /\ t[L + 1] = c
  BY Longer
<1>2. k \in 1..L
  BY DEF Starts
<1> HIDE DEF t, L
<1>3. ASSUME NEW e \in k..L + 1, \A m \in k..e : t[m] \notin D PROVE e \in k..L
  <2> SUFFICES ASSUME e = L + 1 PROVE FALSE
    BY <1>1, <1>2
  <2>1. L + 1 \in k..e /\ \A m \in k..L : m \in k..e /\ m \in 1..L
    BY <1>1, <1>2
  <2> QED
    BY <1>1, <1>3, <2>1 DEF L
<1>4. ASSUME NEW e \in k..L PROVE (\A m \in k..e : t[m] \notin D) <=> \A m \in k..e : s[m] \notin D
  <2>1. \A m \in k..e : m \in 1..L
    BY <1>1, <1>2
  <2> QED
    BY <1>1, <2>1
<1>5. Reach(t, D, k) = Reach(s, D, k)
  <2>1. ASSUME NEW e \in Reach(t, D, k) PROVE e \in Reach(s, D, k)
    BY <1>1, <1>3, <1>4 DEF Reach, L
  <2>2. ASSUME NEW e \in Reach(s, D, k) PROVE e \in Reach(t, D, k)
    <3>1. e \in k..L /\ e \in k..L + 1
      BY <1>1, <1>2 DEF Reach, L
    <3> QED
      BY <1>1, <1>4, <3>1 DEF Reach
  <2> QED
    BY <2>1, <2>2
<1>6. Max(Reach(s, D, k)) \in k..L
  BY ReachIs DEF L
<1> DEFINE e == Max(Reach(s, D, k))
<1>7. e \in k..Len(s) /\ k \in 1..Len(s) /\ k \in 1..Len(t) /\ e \in k..Len(t)
  BY <1>1, <1>2, <1>6 DEF L
<1> HIDE DEF e
<1>8. /\ SubSeq(s, k, e) \in Seq(A) /\ Len(SubSeq(s, k, e)) = e - k + 1
      /\ \A j \in 1..e - k + 1 : SubSeq(s, k, e)[j] = s[k + j - 1]
  BY <1>7, StretchIs
<1>9. /\ SubSeq(t, k, e) \in Seq(A) /\ Len(SubSeq(t, k, e)) = e - k + 1
      /\ \A j \in 1..e - k + 1 : SubSeq(t, k, e)[j] = t[k + j - 1]
  BY <1>1, <1>7, StretchIs
<1>10. \A j \in 1..e - k + 1 : k + j - 1 \in 1..L
  BY <1>1, <1>7 DEF L
<1>11. SubSeq(t, k, e) = SubSeq(s, k, e)
  <2>1. \A j \in 1..e - k + 1 : SubSeq(t, k, e)[j] = SubSeq(s, k, e)[j]
    BY <1>1, <1>8, <1>9, <1>10
  <2>2. Len(SubSeq(t, k, e)) = Len(SubSeq(s, k, e))
    BY <1>8, <1>9
  <2> QED
    BY <1>8, <1>9, <2>1, <2>2, SeqEqual, Zenon
<1> QED
  BY <1>5, <1>11 DEF Stretch, t, e

\* A delimiter adds nothing.
LEMMA DelimiterEnds ==
  ASSUME NEW A, NEW s \in Seq(A), NEW c \in A, NEW D, c \in D
  PROVE  Stretches(Append(s, c), D) = Stretches(s, D)
<1> DEFINE t == Append(s, c)  L == Len(s)
<1>1. /\ L \in Nat /\ t \in Seq(A) /\ Len(t) = L + 1
      /\ \A j \in 1..L : t[j] = s[j]
      /\ t[L + 1] = c
  BY Longer
<1> HIDE DEF t, L
<1>2. Starts(t, D) = Starts(s, D)
  <2>1. \A k \in 1..L : k - 1 = 0 \/ k - 1 \in 1..L
    BY <1>1
  <2>2. ASSUME NEW k \in 1..L PROVE k \in Starts(t, D) <=> k \in Starts(s, D)
    <3>1. k \in 1..Len(s) /\ k \in 1..Len(t) /\ t[k] = s[k]
      BY <1>1 DEF L
    <3>2. k # 1 => t[k - 1] = s[k - 1]
      BY <1>1
    <3> QED
      BY <3>1, <3>2 DEF Starts
  <2>3. L + 1 \notin Starts(t, D)
    BY <1>1 DEF Starts
  <2>4. Starts(t, D) \subseteq 1..L /\ Starts(s, D) \subseteq 1..L
    <3>1. Starts(t, D) \subseteq 1..L + 1 /\ Starts(s, D) \subseteq 1..L
      BY <1>1 DEF Starts, L
    <3>2. \A k \in 1..L + 1 : k = L + 1 \/ k \in 1..L
      BY <1>1
    <3> QED
      BY <2>3, <3>1, <3>2
  <2> QED
    BY <2>2, <2>4
<1>3. ASSUME NEW n \in 1..Cardinality(Starts(s, D))
      PROVE  Stretch(t, D, Nth(Starts(s, D), n)) = Stretch(s, D, Nth(Starts(s, D), n))
  BY StartsAre, StretchStays DEF t
<1>4. Stretches(t, D) = [n \in 1..Cardinality(Starts(s, D)) |-> Stretch(t, D, Nth(Starts(s, D), n))]
  BY <1>2, StretchesAre
<1> QED
  BY <1>3, <1>4, StretchesAre DEF t

\* A character behind a delimiter, or the first, begins a stretch.
LEMMA CharacterBegins ==
  ASSUME NEW A, NEW s \in Seq(A), NEW c \in A, NEW D, c \notin D,
         Len(s) = 0 \/ s[Len(s)] \in D
  PROVE  Stretches(Append(s, c), D) = Append(Stretches(s, D), <<c>>)
<1> DEFINE t == Append(s, c)  L == Len(s)
           S == Starts(s, D)  T == Starts(t, D)
           v == Stretches(s, D)  w == Stretches(t, D)
<1>1. /\ L \in Nat /\ t \in Seq(A) /\ Len(t) = L + 1
      /\ \A j \in 1..L : t[j] = s[j]
      /\ t[L + 1] = c
  BY Longer
<1>2. S \in SUBSET (1..L) /\ Cardinality(S) \in Nat
      /\ \A n \in 1..Cardinality(S) : Nth(S, n) \in S
  BY StartsAre
<1>3. T = S \cup {L + 1}
  <2> HIDE DEF t, L
  <2>1. \A k \in 1..L : k - 1 = 0 \/ k - 1 \in 1..L
    BY <1>1
  <2>2. ASSUME NEW k \in 1..L PROVE k \in T <=> k \in S
    <3>1. k \in 1..Len(s) /\ k \in 1..Len(t) /\ t[k] = s[k]
      BY <1>1 DEF L
    <3>2. k # 1 => t[k - 1] = s[k - 1]
      BY <1>1
    <3> QED
      BY <3>1, <3>2 DEF Starts
  <2>3. L + 1 \in T
    <3>1. L + 1 \in 1..Len(t) /\ t[L + 1] \notin D
      BY <1>1
    <3>2. L + 1 = 1 \/ t[(L + 1) - 1] \in D
      <4>1. CASE L = 0
        BY <4>1
      <4>2. CASE L # 0
        <5>1. L \in 1..L /\ (L + 1) - 1 = L
          BY <1>1, <4>2
        <5> QED
          BY <1>1, <4>2, <5>1 DEF L
      <4> QED
        BY <4>1, <4>2
    <3> DEFINE k == L + 1
    <3>3. k \in 1..Len(t) /\ t[k] \notin D /\ (k = 1 \/ t[k - 1] \in D)
      BY <3>1, <3>2
    <3> HIDE DEF k
    <3>4. k \in T
      BY <3>3 DEF Starts
    <3> QED
      BY <3>4 DEF k
  <2>4. T \subseteq 1..L + 1 /\ S \subseteq 1..L
    BY <1>1, <1>2 DEF Starts
  <2>5. \A k \in 1..L + 1 : k = L + 1 \/ k \in 1..L
    BY <1>1
  <2> HIDE DEF S, T
  <2> QED
    BY <2>2, <2>3, <2>4, <2>5
<1>4. /\ v \in Seq(Seq(A)) /\ Len(v) = Cardinality(S)
      /\ \A n \in 1..Cardinality(S) : v[n] = Stretch(s, D, Nth(S, n))
  BY StretchesType
<1>5. /\ w \in Seq(Seq(A)) /\ Len(w) = Cardinality(T)
      /\ \A n \in 1..Cardinality(T) : w[n] = Stretch(t, D, Nth(T, n))
  <2> HIDE DEF t
  <2> QED
    BY <1>1, StretchesType
<1>6. /\ Cardinality(T) = Cardinality(S) + 1
      /\ \A n \in 1..Cardinality(S) : Nth(T, n) = Nth(S, n)
      /\ Nth(T, Cardinality(T)) = L + 1
  <2>1. L \in Nat /\ S \in SUBSET (1..L) /\ T = Wider(S, L)
    BY <1>1, <1>2, <1>3 DEF Wider
  <2> HIDE DEF S, T, L
  <2> QED
    BY ONLY <2>1, NthMore
<1>7. ASSUME NEW k \in S PROVE Stretch(t, D, k) = Stretch(s, D, k)
  <2>1. k \in 1..L
    BY <1>2
  <2>2. L \in k..Len(s) /\ s[L] \in D
    BY <1>1, <2>1
  <2> QED
    BY <2>2, StretchStays
<1>8. Stretch(t, D, L + 1) = <<c>>
  <2> HIDE DEF t, L
  <2>1. L + 1 \in T
    BY <1>3
  <2>2. Max(Reach(t, D, L + 1)) \in L + 1..Len(t)
    BY <1>1, <2>1, ReachIs
  <2>3. Max(Reach(t, D, L + 1)) = L + 1
    BY <1>1, <2>2
  <2>4. L + 1 \in 1..Len(t) /\ L + 1 \in L + 1..Len(t)
    BY <1>1
  <2> DEFINE u == SubSeq(t, L + 1, L + 1)
  <2>5. u \in Seq(A) /\ Len(u) = (L + 1) - (L + 1) + 1
        /\ \A j \in 1..(L + 1) - (L + 1) + 1 : u[j] = t[L + 1 + j - 1]
    BY <1>1, <2>4, StretchIs
  <2> HIDE DEF u
  <2>6. Len(u) = 1 /\ u[1] = t[L + 1]
    BY <1>1, <2>5
  <2>7. u = <<c>>
    <3>1. u \in Seq(A) /\ Len(u) = 1 /\ u[1] = c
      BY <1>1, <2>5, <2>6
    <3>2. <<c>> \in Seq(A) /\ Len(<<c>>) = 1 /\ <<c>>[1] = c
      OBVIOUS
    <3>3. \A j \in 1..1 : u[j] = <<c>>[j]
      BY ONLY <3>1, <3>2
    <3> QED
      BY ONLY <3>1, <3>2, <3>3, SeqEqual
  <2> QED
    BY <2>3, <2>7 DEF Stretch, u
<1>9. <<c>> \in Seq(A)
  OBVIOUS
<1> DEFINE x == Append(v, <<c>>)
<1>10. /\ x \in Seq(Seq(A)) /\ Len(x) = Len(v) + 1
       /\ \A n \in 1..Len(v) : x[n] = v[n]
       /\ x[Len(v) + 1] = <<c>>
  <2> HIDE DEF v
  <2> QED
    BY <1>4, <1>9, AppendProperties
<1> HIDE DEF v, w, S, T, x, t, L
<1>11. ASSUME NEW n \in 1..Cardinality(T) PROVE w[n] = x[n]
  <2>1. n \in 1..Cardinality(S) \/ n = Cardinality(T)
    BY <1>2, <1>6
  <2>2. CASE n \in 1..Cardinality(S)
    <3>1. Nth(S, n) \in S
      BY <2>2, <1>2
    <3>2. w[n] = Stretch(t, D, Nth(S, n)) /\ v[n] = Stretch(s, D, Nth(S, n)) /\ x[n] = v[n]
      BY <1>4, <1>5, <1>6, <1>10, <2>2
    <3> QED
      BY <1>7, <3>1, <3>2
  <2>3. CASE n = Cardinality(T)
    BY <1>4, <1>5, <1>6, <1>8, <1>10, <2>3
  <2> QED
    BY <2>1, <2>2, <2>3
<1>12. Len(w) = Len(x)
  BY <1>4, <1>5, <1>6, <1>10
<1>13. w = x
  BY <1>5, <1>10, <1>11, <1>12, SeqEqual
<1> QED
  BY <1>13 DEF w, x, v, t

\* A character behind another one lengthens the last stretch.
LEMMA CharacterLengthens ==
  ASSUME NEW A, NEW s \in Seq(A), NEW c \in A, NEW D, c \notin D,
         Len(s) # 0, s[Len(s)] \notin D
  PROVE  /\ Len(Stretches(s, D)) \in Nat \ {0}
         /\ Stretches(Append(s, c), D)
              = [Stretches(s, D) EXCEPT ![Len(Stretches(s, D))] = Append(@, c)]
<1> DEFINE t == Append(s, c)  L == Len(s)
           S == Starts(s, D)  T == Starts(t, D)
           v == Stretches(s, D)  w == Stretches(t, D)
           m == Cardinality(S)
<1>1. /\ L \in Nat /\ t \in Seq(A) /\ Len(t) = L + 1
      /\ \A j \in 1..L : t[j] = s[j]
      /\ t[L + 1] = c
  BY Longer
<1>2. S \in SUBSET (1..L) /\ m \in Nat
      /\ \A n \in 1..m : Nth(S, n) \in S
  BY StartsAre
<1>3. T = S
  <2> HIDE DEF t, L
  <2>1. \A k \in 1..L : k - 1 = 0 \/ k - 1 \in 1..L
    BY <1>1
  <2>2. ASSUME NEW k \in 1..L PROVE k \in T <=> k \in S
    <3>1. k \in 1..Len(s) /\ k \in 1..Len(t) /\ t[k] = s[k]
      BY <1>1 DEF L
    <3>2. k # 1 => t[k - 1] = s[k - 1]
      BY <1>1
    <3> QED
      BY <3>1, <3>2 DEF Starts
  <2>3. L + 1 \notin T
    <3>1. L + 1 # 1 /\ (L + 1) - 1 = L /\ L \in 1..L /\ t[L] \notin D
      BY <1>1 DEF L
    <3> QED
      BY <3>1 DEF Starts
  <2>4. T \subseteq 1..L + 1 /\ S \subseteq 1..L
    BY <1>1, <1>2 DEF Starts
  <2>5. \A k \in 1..L + 1 : k = L + 1 \/ k \in 1..L
    BY <1>1
  <2> HIDE DEF S, T
  <2> QED
    BY <2>2, <2>3, <2>4, <2>5
<1>4. ASSUME NEW k \in 1..L, s[k] \in D PROVE \E e \in S : e > k
  <2> DEFINE Del == {j \in 1..L : s[j] \in D}
  <2>1. Del \in SUBSET Nat /\ Del # {} /\ \A j \in Del : j <= L
    BY <1>1, <1>4
  <2>2. PICK d \in Del : \A j \in Del : d >= j
    BY <1>1, <2>1, MaxIs
  <2>3. d \in 1..L /\ d # L /\ s[d] \in D /\ d >= k
    BY <1>4, <2>2
  <2>4. d + 1 \in 1..L /\ (d + 1) - 1 = d /\ d + 1 > k
    BY <1>1, <2>3
  <2>5. s[d + 1] \notin D
    <3>1. ~ (d >= d + 1)
      BY <2>3
    <3> QED
      BY <2>2, <2>4, <3>1
  <2>6. d + 1 \in S
    BY <2>3, <2>4, <2>5 DEF Starts
  <2> QED
    BY <2>4, <2>6
<1>5. m # 0
  <2>1. S # {}
    <3>1. CASE s[1] \in D
      <4>1. 1 \in 1..L
        BY <1>1
      <4> QED
        BY <1>4, <3>1, <4>1
    <3>2. CASE s[1] \notin D
      <4>1. 1 \in 1..Len(s)
        BY <1>1
      <4> QED
        BY <3>2, <4>1 DEF Starts
    <3> QED
      BY <3>1, <3>2
  <2>2. IsFiniteSet(S)
    BY StartsAre
  <2> QED
    BY <2>1, <2>2, FS_EmptySet
<1>6. /\ v \in Seq(Seq(A)) /\ Len(v) = m
      /\ \A n \in 1..m : v[n] = Stretch(s, D, Nth(S, n))
  BY StretchesType
<1>7. /\ w \in Seq(Seq(A)) /\ Len(w) = m
      /\ \A n \in 1..m : w[n] = Stretch(t, D, Nth(S, n))
  <2>1. /\ w \in Seq(Seq(A)) /\ Len(w) = Cardinality(T)
        /\ \A n \in 1..Cardinality(T) : w[n] = Stretch(t, D, Nth(T, n))
    <3> HIDE DEF t
    <3> QED
      BY <1>1, StretchesType
  <2> QED
    BY <1>3, <2>1
<1>8. ASSUME NEW n \in 1..m, n # m PROVE w[n] = v[n]
  <2> DEFINE k == Nth(S, n)
  <2>1. k \in S /\ k \in 1..L
    BY <1>2
  <2>2. \E e \in S : e > k
    <3>1. n < m
      BY <1>2, <1>8
    <3> QED
      BY <1>1, <1>2, <3>1, NthBehind
  <2> HIDE DEF k
  <2>3. PICK e \in S : e > k
    BY <2>2
  <2>4. e \in 1..L /\ e # 1 /\ s[e - 1] \in D
    BY <2>1, <2>3, <1>2 DEF Starts
  <2>5. e - 1 \in k..L
    BY <2>1, <2>3, <2>4
  <2>6. Stretch(t, D, k) = Stretch(s, D, k)
    BY <2>1, <2>4, <2>5, StretchStays
  <2> QED
    BY <1>6, <1>7, <1>8, <2>6 DEF k
<1>9. w[m] = Append(v[m], c)
  <2> DEFINE k == Nth(S, m)
  <2>1. m \in 1..m
    BY <1>2, <1>5
  <2>2. k \in S /\ k \in 1..L
    BY <1>2, <2>1
  <2>3. ASSUME NEW j \in k..L, s[j] \in D PROVE FALSE
    <3>1. j \in 1..L
      BY <1>1, <2>2
    <3>2. PICK e \in S : e > j
      BY <1>4, <2>3, <3>1
    <3>3. e <= k
      BY <1>1, <1>2, <2>1, <3>2, NthBehind
    <3>4. e \in 1..L
      BY <1>2, <3>2
    <3> HIDE DEF k
    <3> QED
      BY <2>2, <3>1, <3>2, <3>3, <3>4
  <2> HIDE DEF k
  <2>4. Max(Reach(s, D, k)) = L
    <3>1. L \in k..L
      BY <1>1, <2>2
    <3>2. L \in Reach(s, D, k)
      BY <2>3, <3>1 DEF Reach
    <3>3. Reach(s, D, k) \in SUBSET Nat /\ \A e \in Reach(s, D, k) : e <= L
      BY <1>1, <2>2 DEF Reach
    <3>4. Max(Reach(s, D, k)) \in Reach(s, D, k) /\ \A e \in Reach(s, D, k) : Max(Reach(s, D, k)) >= e
      BY <1>1, <3>2, <3>3, MaxIs
    <3>5. Max(Reach(s, D, k)) >= L /\ Max(Reach(s, D, k)) <= L /\ Max(Reach(s, D, k)) \in Nat
      BY <3>2, <3>3, <3>4
    <3> QED
      BY <1>1, <3>5
  <2>5. Max(Reach(t, D, k)) = L + 1
    <3> HIDE DEF t
    <3>1. L + 1 \in k..L + 1
      BY <1>1, <2>2
    <3>2. \A j \in k..L + 1 : t[j] \notin D
      <4> TAKE j \in k..L + 1
      <4>1. j = L + 1 \/ (j \in k..L /\ j \in 1..L)
        BY <1>1, <2>2
      <4> QED
        BY <1>1, <2>3, <4>1
    <3>3. L + 1 \in Reach(t, D, k)
      BY <1>1, <3>1, <3>2 DEF Reach
    <3>4. Reach(t, D, k) \in SUBSET Nat /\ \A e \in Reach(t, D, k) : e <= L + 1
      BY <1>1, <2>2 DEF Reach
    <3>5. L + 1 \in Nat
      BY <1>1
    <3>6. Max(Reach(t, D, k)) \in Reach(t, D, k) /\ \A e \in Reach(t, D, k) : Max(Reach(t, D, k)) >= e
      BY <3>3, <3>4, <3>5, MaxIs
    <3>7. Max(Reach(t, D, k)) >= L + 1 /\ Max(Reach(t, D, k)) <= L + 1 /\ Max(Reach(t, D, k)) \in Nat
      BY <3>3, <3>4, <3>6
    <3> QED
      BY <1>1, <3>7
  <2> DEFINE a == SubSeq(s, k, L)  b == SubSeq(t, k, L + 1)
  <2>6. /\ a \in Seq(A) /\ Len(a) = L - k + 1
        /\ \A j \in 1..L - k + 1 : a[j] = s[k + j - 1]
    <3>1. k \in 1..Len(s) /\ L \in k..Len(s)
      BY <1>1, <2>2
    <3> QED
      BY <3>1, StretchIs
  <2>7. /\ b \in Seq(A) /\ Len(b) = (L + 1) - k + 1
        /\ \A j \in 1..(L + 1) - k + 1 : b[j] = t[k + j - 1]
    <3> HIDE DEF t, L
    <3>1. k \in 1..Len(t) /\ L + 1 \in k..Len(t)
      BY <1>1, <2>2
    <3> QED
      BY <1>1, <3>1, StretchIs
  <2> HIDE DEF a, b
  <2> DEFINE x == Append(a, c)
  <2>8. /\ x \in Seq(A) /\ Len(x) = Len(a) + 1
        /\ \A j \in 1..Len(a) : x[j] = a[j]
        /\ x[Len(a) + 1] = c
    BY <2>6, AppendProperties
  <2> HIDE DEF x, t, L
  <2>9. Len(b) = Len(x) /\ Len(b) = L - k + 2 /\ L - k + 1 \in Nat
    BY <1>1, <2>2, <2>6, <2>7, <2>8
  <2>10. ASSUME NEW j \in 1..L - k + 2 PROVE b[j] = x[j]
    <3>1. CASE j = L - k + 2
      <4>1. k + j - 1 = L + 1 /\ j = Len(a) + 1 /\ j \in 1..(L + 1) - k + 1
        BY <1>1, <2>2, <2>6, <3>1
      <4> QED
        BY <1>1, <2>7, <2>8, <4>1
    <3>2. CASE j # L - k + 2
      <4>1. j \in 1..L - k + 1 /\ k + j - 1 \in 1..L /\ j \in 1..(L + 1) - k + 1 /\ j \in 1..Len(a)
        BY <1>1, <2>2, <2>6, <3>2
      <4> QED
        BY <1>1, <2>6, <2>7, <2>8, <4>1
    <3> QED
      BY <3>1, <3>2
  <2>11. b = x
    BY <2>7, <2>8, <2>9, <2>10, SeqEqual
  <2>12. w[m] = b /\ v[m] = a
    BY <1>6, <1>7, <2>1, <2>4, <2>5 DEF Stretch, a, b, k
  <2> QED
    BY <2>11, <2>12 DEF x
<1> HIDE DEF v, w, S, T, t, L, m
<1> DEFINE x == [v EXCEPT ![m] = Append(@, c)]
<1>10. m \in 1..m /\ v[m] \in Seq(A)
  BY <1>2, <1>5, <1>6
<1>11. x \in Seq(Seq(A)) /\ Len(x) = m /\ \A n \in 1..m : x[n] = IF n = m THEN Append(v[m], c) ELSE v[n]
  BY <1>6, <1>10, ExceptSeq, AppendProperties
<1> HIDE DEF x
<1>12. \A n \in 1..m : w[n] = x[n]
  BY <1>8, <1>9, <1>11
<1>13. w = x
  BY <1>7, <1>11, <1>12, SeqEqual
<1>14. x = [v EXCEPT ![Len(v)] = Append(@, c)]
  BY <1>6 DEF x
<1> QED
  BY <1>2, <1>5, <1>6, <1>13, <1>14 DEF w, v, t

\* The first k characters of a string, and one more.
LEMMA FirstOnes ==
  ASSUME NEW A, NEW s \in Seq(A), NEW k \in 0..Len(s)
  PROVE  /\ SubSeq(s, 1, k) \in Seq(A) /\ Len(SubSeq(s, 1, k)) = k
         /\ \A j \in 1..k : SubSeq(s, 1, k)[j] = s[j]
         /\ k < Len(s) => SubSeq(s, 1, k + 1) = Append(SubSeq(s, 1, k), s[k + 1])
<1>1. Len(s) \in Nat /\ k \in Int /\ 1 \in Int
  OBVIOUS
<1>2. \A j \in 1..k : s[j] \in A
  BY <1>1, ElementOfSeq
<1>3. /\ SubSeq(s, 1, k) \in Seq(A) /\ Len(SubSeq(s, 1, k)) = k
      /\ \A j \in 1..k : SubSeq(s, 1, k)[j] = s[j]
  <2>1. /\ SubSeq(s, 1, k) \in Seq(A)
        /\ Len(SubSeq(s, 1, k)) = IF 1 <= k THEN k - 1 + 1 ELSE 0
        /\ \A j \in 1..k - 1 + 1 : SubSeq(s, 1, k)[j] = s[1 + j - 1]
    BY <1>1, <1>2, SubSeqProperties
  <2>2. \A j \in 1..k : j \in 1..k - 1 + 1 /\ 1 + j - 1 = j
    BY <1>1
  <2> QED
    BY <1>1, <2>1, <2>2
<1>4. ASSUME k < Len(s) PROVE SubSeq(s, 1, k + 1) = Append(SubSeq(s, 1, k), s[k + 1])
  <2>1. 1 \in 1..Len(s) /\ k + 1 \in 1..Len(s) /\ (k + 1) - 1 = k
    BY <1>1, <1>4
  <2>2. SubSeq(s, 1, k + 1) = SubSeq(s, 1, (k + 1) - 1) \o <<s[k + 1]>>
    BY <2>1, SubSeqRecursiveSecond
  <2>3. s[k + 1] \in A
    BY <2>1, ElementOfSeq
  <2> QED
    BY <1>3, <2>1, <2>2, <2>3, AppendIsConcat
<1> QED
  BY <1>3, <1>4

\* The empty string has none.
LEMMA NoStretches ==
  ASSUME NEW D
  PROVE  Stretches(<< >>, D) = << >>
<1> DEFINE A == {0}
<1>1. << >> \in Seq(A) /\ Len(<< >>) = 0
  OBVIOUS
<1>2. Starts(<< >>, D) = {}
  BY <1>1 DEF Starts
<1>3. Stretches(<< >>, D) \in Seq(Seq(A)) /\ Len(Stretches(<< >>, D)) = 0
  BY <1>1, <1>2, StretchesType, FS_EmptySet
<1> QED
  BY <1>3

\* It may be put behind the second part of a string first.
LEMMA AppendBehind ==
  ASSUME NEW V, NEW y \in Seq(V), NEW z \in Seq(V), NEW e \in V
  PROVE  y \o Append(z, e) = Append(y \o z, e)
<1> DEFINE f == <<e>>
<1>1. Append(z, e) = z \o f /\ f \in Seq(V)
  BY AppendIsConcat
<1>2. Append(y \o z, e) = (y \o z) \o f
  BY ConcatProperties, AppendIsConcat
<1> HIDE DEF f
<1>3. (y \o z) \o f = y \o (z \o f)
  <2>1. f \in Seq(V)
    BY <1>1
  <2> QED
    BY ONLY <2>1, ConcatAssociative
<1> QED
  BY <1>1, <1>2, <1>3

\* What one character more makes of the stretches so far.
Begun(w, c) == Append(w, <<c>>)
Lengthened(w, c) == [w EXCEPT ![Len(w)] = Append(@, c)]

\* A character more ends a stretch or is between two, begins one, or goes on
\* with the last.
LEMMA OneMore ==
  ASSUME NEW A, NEW s \in Seq(A), NEW c \in A, NEW D
  PROVE  /\ Stretches(s, D) \in Seq(Seq(A))
         /\ c \in D => Stretches(Append(s, c), D) = Stretches(s, D)
         /\ c \notin D /\ (Len(s) = 0 \/ s[Len(s)] \in D)
              => Stretches(Append(s, c), D) = Begun(Stretches(s, D), c)
         /\ c \notin D /\ Len(s) # 0 /\ s[Len(s)] \notin D
              => /\ Len(Stretches(s, D)) \in Nat \ {0}
                 /\ Stretches(Append(s, c), D) = Lengthened(Stretches(s, D), c)
BY StretchesType, DelimiterEnds, CharacterBegins, CharacterLengthens DEF Begun, Lengthened

\* It makes the same of them behind other stretches.
LEMMA BegunBehind ==
  ASSUME NEW B, NEW y \in Seq(Seq(B)), NEW z \in Seq(Seq(B)), NEW c \in B
  PROVE  Begun(y \o z, c) = y \o Begun(z, c)
<1> DEFINE e == <<c>>
           V == Seq(B)
<1>1. e \in V /\ y \in Seq(V) /\ z \in Seq(V)
  OBVIOUS
<1> HIDE DEF e, V
<1>2. y \o Append(z, e) = Append(y \o z, e)
  BY ONLY <1>1, AppendBehind
<1> QED
  BY <1>2 DEF Begun, e

\* The last of the second part may go on before that part is put behind.
LEMMA LengthenedBehind ==
  ASSUME NEW B, NEW y \in Seq(Seq(B)), NEW z \in Seq(Seq(B)), NEW c \in B,
         Len(z) \in Nat \ {0}
  PROVE  Lengthened(y \o z, c) = y \o Lengthened(z, c)
<1> DEFINE V == Seq(B)
           x == y \o z
           p == Len(y)
           q == Len(z)
           e == Append(z[q], c)
           g == [x EXCEPT ![p + q] = e]
           h == [z EXCEPT ![q] = e]
           r == y \o h
<1>1. y \in Seq(V) /\ z \in Seq(V) /\ p \in Nat /\ q \in Nat \ {0}
  OBVIOUS
<1> HIDE DEF V, p, q
<1>2. /\ x \in Seq(V) /\ Len(x) = p + q
      /\ \A n \in 1..p + q : x[n] = IF n <= p THEN y[n] ELSE z[n - p]
  BY <1>1, ConcatProperties DEF p, q
<1> HIDE DEF x
<1>3. q \in 1..q /\ p + q \in 1..p + q
  BY <1>1
<1>4. e \in V
  <2>1. z[q] \in Seq(B)
    BY <1>1, <1>3, ElementOfSeq DEF q
  <2> QED
    BY <2>1, AppendProperties DEF V
<1> HIDE DEF e
<1>5. g \in Seq(V) /\ Len(g) = p + q /\ \A n \in 1..p + q : g[n] = IF n = p + q THEN e ELSE x[n]
  <2> DEFINE m == p + q
  <2>1. m \in 1..Len(x) /\ Len(x) = m
    BY <1>2, <1>3
  <2> HIDE DEF m
  <2> QED
    BY <1>2, <1>4, <2>1, ExceptSeq DEF m
<1>6. h \in Seq(V) /\ Len(h) = q /\ \A n \in 1..q : h[n] = IF n = q THEN e ELSE z[n]
  BY <1>1, <1>3, <1>4, ExceptSeq DEF q
<1> HIDE DEF g, h
<1>7. /\ r \in Seq(V) /\ Len(r) = p + q
      /\ \A n \in 1..p + q : r[n] = IF n <= p THEN y[n] ELSE h[n - p]
  BY <1>1, <1>6, ConcatProperties DEF p
<1> HIDE DEF r
<1>8. ASSUME NEW n \in 1..p + q PROVE g[n] = r[n]
  <2>1. CASE n <= p
    <3>1. n # p + q
      BY <1>1, <2>1
    <3> QED
      BY <1>2, <1>5, <1>7, <2>1, <3>1
  <2>2. CASE ~ (n <= p)
    <3>1. n - p \in 1..q /\ (n = p + q <=> n - p = q)
      BY <1>1, <2>2
    <3>2. g[n] = IF n = p + q THEN e ELSE z[n - p]
      BY <1>2, <1>5, <2>2
    <3>3. r[n] = IF n - p = q THEN e ELSE z[n - p]
      BY <1>6, <1>7, <2>2, <3>1
    <3> QED
      BY <3>1, <3>2, <3>3
  <2> QED
    BY <2>1, <2>2
<1>9. g = r
  BY <1>5, <1>7, <1>8, SeqEqual
<1>10. Lengthened(x, c) = g
  <2>1. x[p + q] = z[q]
    <3>1. ~ (p + q <= p) /\ (p + q) - p = q
      BY <1>1
    <3> QED
      BY <1>2, <1>3, <3>1
  <2> QED
    BY <1>2, <2>1 DEF Lengthened, g, e
<1>11. Lengthened(z, c) = h
  BY DEF Lengthened, h, e, q
<1> QED
  BY <1>9, <1>10, <1>11 DEF r, x

\* A delimiter parts the stretches before it from those behind.
LEMMA StretchesJoin ==
  ASSUME NEW A, NEW a \in Seq(A), NEW d \in A, NEW b \in Seq(A), NEW D, d \in D
  PROVE  Stretches(Append(a, d) \o b, D) = Stretches(a, D) \o Stretches(b, D)
<1> DEFINE p == Append(a, d)
           pre(k) == p \o SubSeq(b, 1, k)
           y == Stretches(a, D)
           z(k) == Stretches(SubSeq(b, 1, k), D)
           Good(k) == k <= Len(b) => Stretches(pre(k), D) = y \o z(k)
           K == {k \in Nat : Good(k)}
<1>1. /\ p \in Seq(A) /\ Len(p) \in Nat \ {0} /\ p[Len(p)] = d
      /\ Len(b) \in Nat
  BY Longer
<1>2. y \in Seq(Seq(A)) /\ Stretches(p, D) = y
  BY StretchesType, DelimiterEnds
<1> HIDE DEF p, y
<1>3. Good(0)
  <2>1. SubSeq(b, 1, 0) = << >>
    BY FirstOnes, <1>1
  <2>2. p \o << >> = p /\ y \o << >> = y
    BY <1>1, <1>2, ConcatEmptySeq
  <2> QED
    BY <1>2, <2>1, <2>2, NoStretches
<1>4. ASSUME NEW k \in Nat, Good(k) PROVE Good(k + 1)
  <2> SUFFICES ASSUME k + 1 <= Len(b) PROVE Stretches(pre(k + 1), D) = y \o z(k + 1)
    OBVIOUS
  <2> DEFINE u == SubSeq(b, 1, k)
             c == b[k + 1]
  <2>1. k \in 0..Len(b) /\ k < Len(b) /\ k + 1 \in 1..Len(b)
    BY <1>1
  <2>2. /\ u \in Seq(A) /\ Len(u) = k /\ SubSeq(b, 1, k + 1) = Append(u, c) /\ c \in A
    BY <2>1, FirstOnes, ElementOfSeq
  <2>3. Stretches(p \o u, D) = y \o Stretches(u, D)
    BY <1>4, <2>1
  <2> HIDE DEF u, c
  <2>4. p \o Append(u, c) = Append(p \o u, c)
    BY ONLY <2>2, <1>1, AppendBehind
  <2> DEFINE v == p \o u
  <2>5. /\ v \in Seq(A) /\ Len(v) = Len(p) + k /\ Len(v) # 0
        /\ v[Len(v)] = IF k = 0 THEN d ELSE u[k]
    <3>1. /\ v \in Seq(A) /\ Len(v) = Len(p) + Len(u)
          /\ \A n \in 1..Len(p) + Len(u) : v[n] = IF n <= Len(p) THEN p[n] ELSE u[n - Len(p)]
      BY <1>1, <2>2, ConcatProperties
    <3> HIDE DEF v
    <3>2. Len(p) + k \in 1..Len(p) + k /\ (Len(p) + k <= Len(p) <=> k = 0) /\ (Len(p) + k) - Len(p) = k
      BY <1>1, <2>2
    <3>3. v[Len(p) + k] = IF Len(p) + k <= Len(p) THEN p[Len(p) + k] ELSE u[(Len(p) + k) - Len(p)]
      BY <2>2, <3>1, <3>2
    <3>4. v[Len(p) + k] = IF k = 0 THEN d ELSE u[k]
      <4>1. p[Len(p)] = d /\ Len(p) \in Nat
        BY <1>1
      <4>2. CASE k = 0
        <5>1. Len(p) + k = Len(p) /\ Len(p) + k <= Len(p)
          BY <4>1, <4>2
        <5>2. v[Len(p) + k] = p[Len(p)]
          BY ONLY <3>3, <5>1
        <5> QED
          BY ONLY <4>1, <4>2, <5>2
      <4>3. CASE k # 0
        <5>1. ~(Len(p) + k <= Len(p)) /\ (Len(p) + k) - Len(p) = k
          BY <3>2, <4>3
        <5> QED
          BY ONLY <3>3, <4>3, <5>1
      <4> QED
        BY <4>2, <4>3
    <3> QED
      BY <1>1, <2>2, <3>1, <3>4
  <2> HIDE DEF v
  <2>6. (Len(v) = 0 \/ v[Len(v)] \in D) <=> (Len(u) = 0 \/ u[Len(u)] \in D)
    BY <2>2, <2>5
  <2> DEFINE w == Stretches(u, D)
  <2>7. /\ w \in Seq(Seq(A))
        /\ c \in D => Stretches(Append(u, c), D) = w
        /\ c \notin D /\ (Len(u) = 0 \/ u[Len(u)] \in D)
             => Stretches(Append(u, c), D) = Begun(w, c)
        /\ c \notin D /\ Len(u) # 0 /\ u[Len(u)] \notin D
             => Len(w) \in Nat \ {0} /\ Stretches(Append(u, c), D) = Lengthened(w, c)
    <3>1. u \in Seq(A) /\ c \in A
      BY <2>2
    <3> QED
      BY ONLY <3>1, OneMore DEF w
  <2>8. Stretches(v, D) = y \o w
    BY <2>3 DEF v
  <2> HIDE DEF w
  <2>9. /\ c \in D => Stretches(Append(v, c), D) = y \o w
        /\ c \notin D /\ (Len(u) = 0 \/ u[Len(u)] \in D)
             => Stretches(Append(v, c), D) = Begun(y \o w, c)
        /\ c \notin D /\ Len(u) # 0 /\ u[Len(u)] \notin D
             => Stretches(Append(v, c), D) = Lengthened(y \o w, c)
    <3>1. /\ c \in D => Stretches(Append(v, c), D) = Stretches(v, D)
          /\ c \notin D /\ (Len(v) = 0 \/ v[Len(v)] \in D)
               => Stretches(Append(v, c), D) = Begun(Stretches(v, D), c)
          /\ c \notin D /\ Len(v) # 0 /\ v[Len(v)] \notin D
               => Stretches(Append(v, c), D) = Lengthened(Stretches(v, D), c)
      <4>1. v \in Seq(A) /\ c \in A
        BY <2>2, <2>5
      <4> QED
        BY ONLY <4>1, OneMore
    <3> QED
      BY <2>6, <2>8, <3>1
  <2>10. Begun(y \o w, c) = y \o Begun(w, c)
    <3>1. y \in Seq(Seq(A)) /\ w \in Seq(Seq(A)) /\ c \in A
      BY <1>2, <2>2, <2>7
    <3> QED
      BY ONLY <3>1, BegunBehind
  <2>11. Stretches(Append(v, c), D) = y \o Stretches(Append(u, c), D)
    <3>1. CASE c \in D
      BY <2>7, <2>9, <3>1
    <3>2. CASE c \notin D /\ (Len(u) = 0 \/ u[Len(u)] \in D)
      BY <2>7, <2>9, <2>10, <3>2
    <3>3. CASE c \notin D /\ Len(u) # 0 /\ u[Len(u)] \notin D
      <4>1. Len(w) \in Nat \ {0}
        BY <2>7, <3>3
      <4>2. Lengthened(y \o w, c) = y \o Lengthened(w, c)
        <5>1. y \in Seq(Seq(A)) /\ w \in Seq(Seq(A)) /\ c \in A
          BY <1>2, <2>2, <2>7
        <5> QED
          BY ONLY <4>1, <5>1, LengthenedBehind
      <4> QED
        BY <2>7, <2>9, <3>3, <4>2
    <3> QED
      BY <3>1, <3>2, <3>3
  <2> QED
    BY <2>2, <2>4, <2>11 DEF v
<1>5. K = Nat
  <2> HIDE DEF Good
  <2>1. K \in SUBSET Nat /\ 0 \in K /\ \A k \in K : k + 1 \in K
    BY <1>3, <1>4
  <2> HIDE DEF K
  <2> QED
    BY <2>1, Counting
<1>6. Good(Len(b))
  <2> HIDE DEF Good
  <2> QED
    BY <1>1, <1>5
<1>7. SubSeq(b, 1, Len(b)) = b
  BY SubSeqFull
<1>8. Stretches(p \o SubSeq(b, 1, Len(b)), D) = y \o Stretches(SubSeq(b, 1, Len(b)), D)
  BY <1>1, <1>6
<1> QED
  BY <1>7, <1>8 DEF p, y

-----------------------------------------------------------------------------
(* The words of a command.                                                 *)

\* The states of the scanner.
ScanStates == {v \in [words : Seq(Seq(Chars)), inWord : BOOLEAN] : v.inWord => v.words # << >>}

\* The scanner keeps its words in order: inside a word there is one.
LEMMA ScanType ==
  ASSUME NEW v \in ScanStates, NEW c \in Chars
  PROVE  Scan(v, c) \in ScanStates
<1>1. v \in [words : Seq(Seq(Chars)), inWord : BOOLEAN] /\ (v.inWord => v.words # << >>)
  BY DEF ScanStates
<1>2. CASE c = " "
  BY <1>1, <1>2 DEF Scan, ScanStates
<1>3. CASE c # " " /\ ~v.inWord
  <2> DEFINE w == Append(v.words, <<c>>)
  <2>1. w \in Seq(Seq(Chars)) /\ w # << >>
    <3> DEFINE e == <<c>>
    <3>1. e \in Seq(Chars) /\ v.words \in Seq(Seq(Chars))
      BY <1>1
    <3> DEFINE V == Seq(Chars)
               y == v.words
    <3>2. y \in Seq(V) /\ e \in V
      BY <3>1
    <3> HIDE DEF e, V, y
    <3>3. Append(y, e) \in Seq(V) /\ Append(y, e) # << >>
      BY ONLY <3>2, AppendProperties
    <3> QED
      BY <3>3 DEF e, V, y
  <2>2. Scan(v, c) = [words |-> w, inWord |-> TRUE]
    BY <1>3 DEF Scan
  <2> HIDE DEF w
  <2> QED
    BY <2>1, <2>2 DEF ScanStates
<1>4. CASE c # " " /\ v.inWord
  <2> DEFINE w == v.words
             x == [w EXCEPT ![Len(w)] = Append(@, c)]
  <2>1. w \in Seq(Seq(Chars)) /\ w # << >>
    BY <1>1, <1>4
  <2>2. Scan(v, c) = [v EXCEPT !.words = x]
    BY <1>1, <1>4 DEF Scan
  <2> HIDE DEF w
  <2>3. Len(w) \in 1..Len(w) /\ w[Len(w)] \in Seq(Chars)
    <3>1. Len(w) \in Nat \ {0}
      BY <2>1, EmptySeq
    <3> QED
      BY <2>1, <3>1, ElementOfSeq
  <2>4. Append(w[Len(w)], c) \in Seq(Chars)
    BY <2>3, AppendProperties
  <2>5. x \in Seq(Seq(Chars)) /\ Len(x) = Len(w)
    BY <2>1, <2>3, <2>4, ExceptSeq
  <2>6. x # << >>
    BY <2>3, <2>5
  <2> HIDE DEF x
  <2> QED
    BY <1>1, <2>2, <2>5, <2>6 DEF ScanStates
<1> QED
  BY <1>2, <1>3, <1>4

\* A fold of Scan passes through one state after the other.
LEMMA ScanRun ==
  ASSUME NEW base \in ScanStates, NEW s \in Seq(Chars)
  PROVE  \E run : /\ run \in [0..Len(s) -> ScanStates] /\ run[0] = base
                  /\ \A k \in 1..Len(s) : run[k] = Scan(run[k - 1], s[k])
                  /\ run[Len(s)] = FoldLeft(Scan, base, s)
<1> DEFINE n == Len(s)
           V == ScanStates
           step == [p \in V \X (1..n) |-> Scan(p[1], s[p[2]])]
           eq(f) == f = [t \in SUBSET DOMAIN s |->
                           IF t = {} THEN base ELSE Scan(f[t \ {Max(t)}], s[Max(t)])]
           it == CHOOSE f : eq(f)
<1>1. FoldLeft(Scan, base, s) = it[DOMAIN s]
  BY DEF FoldLeft, MapThenFoldSet
<1>2. DOMAIN s = 1..n /\ n \in Nat /\ base \in V
  OBVIOUS
<1>3. \A v \in V, k \in 1..n : Scan(v, s[k]) \in V /\ step[<<v, k>>] = Scan(v, s[k])
  <2>1. \A v \in V, k \in 1..n : step[<<v, k>>] = Scan(v, s[k])
    OBVIOUS
  <2> HIDE DEF step
  <2>2. ASSUME NEW v \in V, NEW k \in 1..n PROVE Scan(v, s[k]) \in V
    <3>1. s[k] \in Chars
      BY ElementOfSeq
    <3> QED
      BY <3>1, ScanType
  <2> QED
    BY <2>1, <2>2
<1>4. step \in Steps(n, V)
  <2>1. ASSUME NEW p \in V \X (1..n) PROVE Scan(p[1], s[p[2]]) \in V
    <3>1. p[1] \in V /\ p[2] \in 1..n
      OBVIOUS
    <3> HIDE DEF step, V
    <3> QED
      BY <3>1, <1>3
  <2> HIDE DEF V
  <2> QED
    BY <2>1 DEF Steps
<1> HIDE DEF step, V, n
<1>5. \E f : eq(f)
  <2>1. PICK f : IsFold(f, n, V, base, step)
    BY <1>2, <1>4, FoldExists
  <2>2. /\ f \in [SUBSET (1..n) -> V]
        /\ \A t \in SUBSET (1..n) : f[t] = Folded(f, t, base, step)
    BY <2>1 DEF IsFold
  <2>3. ASSUME NEW t \in SUBSET (1..n), t # {}
        PROVE  f[t] = Scan(f[t \ {Max(t)}], s[Max(t)])
    <3>1. Max(t) \in 1..n /\ t \ {Max(t)} \in SUBSET (1..n)
      BY <1>2, <2>3, Removing
    <3>2. f[t] = step[<<f[t \ {Max(t)}], Max(t)>>] /\ f[t \ {Max(t)}] \in V
      BY <2>2, <2>3, <3>1 DEF Folded
    <3> QED
      BY <3>1, <3>2, <1>3
  <2>4. f[{}] = base
    BY <2>2 DEF Folded
  <2>5. eq(f)
    BY <2>2, <2>3, <2>4, <1>2
  <2> QED
    BY <2>5
<1>6. eq(it)
  <2> HIDE DEF eq
  <2> QED
    BY <1>5
<1> HIDE DEF it
<1>7. Unfolds(it, n, V, base, step)
  <2>1. it[{}] = base
    BY <1>6
  <2>2. ASSUME NEW t \in SUBSET (1..n), t # {}, it[t \ {Max(t)}] \in V
        PROVE  it[t] = step[<<it[t \ {Max(t)}], Max(t)>>]
    <3>1. it[t] = Scan(it[t \ {Max(t)}], s[Max(t)])
      BY <1>2, <1>6, <2>2
    <3>2. Max(t) \in 1..n
      BY <1>2, <2>2, Removing
    <3> QED
      BY <1>3, <2>2, <3>1, <3>2
  <2> QED
    BY <2>1, <2>2 DEF Unfolds
<1>8. PICK run : IsRun(run, n, V, base, step) /\ run[n] = it[1..n]
  BY <1>2, <1>4, <1>7, FoldRun
<1>9. ASSUME NEW k \in 1..n PROVE run[k] = Scan(run[k - 1], s[k])
  <2>1. k - 1 \in 0..n
    BY <1>2
  <2>2. run[k - 1] \in V /\ run[k] = step[<<run[k - 1], k>>]
    BY <1>8, <2>1 DEF IsRun
  <2> QED
    BY <1>3, <2>2
<1>10. run \in [0..n -> V] /\ run[0] = base /\ run[n] = FoldLeft(Scan, base, s)
  BY <1>1, <1>2, <1>8 DEF IsRun
<1> QED
  BY <1>9, <1>10 DEF n, V

\* OneMore, said of the first characters of a string and the one behind them.
LEMMA OneMoreOf ==
  ASSUME NEW A, NEW s \in Seq(A), NEW D, NEW k \in Nat, k + 1 <= Len(s)
  PROVE  /\ SubSeq(s, 1, k) \in Seq(A) /\ Len(SubSeq(s, 1, k)) = k
         /\ s[k + 1] \in A /\ SubSeq(s, 1, k + 1) = Append(SubSeq(s, 1, k), s[k + 1])
         /\ s[k + 1] \in D =>
              Stretches(SubSeq(s, 1, k + 1), D) = Stretches(SubSeq(s, 1, k), D)
         /\ s[k + 1] \notin D /\ (k = 0 \/ s[k] \in D) =>
              Stretches(SubSeq(s, 1, k + 1), D) = Begun(Stretches(SubSeq(s, 1, k), D), s[k + 1])
         /\ s[k + 1] \notin D /\ k # 0 /\ s[k] \notin D =>
              Stretches(SubSeq(s, 1, k + 1), D) = Lengthened(Stretches(SubSeq(s, 1, k), D), s[k + 1])
<1> DEFINE v == SubSeq(s, 1, k)
           c == s[k + 1]
<1>1. Len(s) \in Nat
  OBVIOUS
<1>2. k \in 0..Len(s) /\ k < Len(s) /\ k + 1 \in 1..Len(s)
  BY <1>1
<1>3. c \in A
  BY ONLY <1>2, ElementOfSeq, s \in Seq(A) DEF c
<1>4. /\ v \in Seq(A) /\ Len(v) = k /\ SubSeq(s, 1, k + 1) = Append(v, c)
      /\ \A j \in 1..k : v[j] = s[j]
  BY ONLY <1>2, FirstOnes, s \in Seq(A) DEF v, c
<1> HIDE DEF v, c
<1>5. /\ c \in D => Stretches(Append(v, c), D) = Stretches(v, D)
      /\ c \notin D /\ (Len(v) = 0 \/ v[Len(v)] \in D)
           => Stretches(Append(v, c), D) = Begun(Stretches(v, D), c)
      /\ c \notin D /\ Len(v) # 0 /\ v[Len(v)] \notin D
           => Stretches(Append(v, c), D) = Lengthened(Stretches(v, D), c)
  <2>1. v \in Seq(A) /\ c \in A
    BY <1>3, <1>4
  <2> QED
    BY ONLY <2>1, OneMore
<1>6. k # 0 => v[k] = s[k]
  BY <1>4
<1> DEFINE x == Stretches(v, D)
           y == Stretches(Append(v, c), D)
<1>7. /\ c \in D => y = x
      /\ c \notin D /\ (k = 0 \/ s[k] \in D) => y = Begun(x, c)
      /\ c \notin D /\ k # 0 /\ s[k] \notin D => y = Lengthened(x, c)
  <2>1. Len(v) = k
    BY <1>4
  <2> QED
    BY <1>5, <1>6, <2>1, Zenon
<1>8. y = Stretches(SubSeq(s, 1, k + 1), D)
  BY <1>4
<1>9. x = Stretches(SubSeq(s, 1, k), D)
  BY DEF v
<1> HIDE DEF x, y
<1>10. /\ c \in D => Stretches(SubSeq(s, 1, k + 1), D) = Stretches(SubSeq(s, 1, k), D)
       /\ c \notin D /\ (k = 0 \/ s[k] \in D) =>
            Stretches(SubSeq(s, 1, k + 1), D) = Begun(Stretches(SubSeq(s, 1, k), D), c)
       /\ c \notin D /\ k # 0 /\ s[k] \notin D =>
            Stretches(SubSeq(s, 1, k + 1), D) = Lengthened(Stretches(SubSeq(s, 1, k), D), c)
  BY <1>7, <1>8, <1>9
<1> QED
  BY <1>3, <1>4, <1>10 DEF v, c

\* A string without delimiters is one stretch.
LEMMA StretchesWhole ==
  ASSUME NEW A, NEW s \in Seq(A), NEW D, Len(s) # 0, \A j \in 1..Len(s) : s[j] \notin D
  PROVE  Stretches(s, D) = <<s>>
<1> DEFINE u(k) == SubSeq(s, 1, k)
           Good(k) == k + 1 <= Len(s) => Stretches(u(k + 1), D) = <<u(k + 1)>>
           K == {k \in Nat : Good(k)}
<1>1. Len(s) \in Nat \ {0}
  OBVIOUS
<1>2. ASSUME NEW k \in Nat, k + 1 <= Len(s)
      PROVE  /\ u(k) \in Seq(A) /\ s[k + 1] \in A
             /\ u(k + 1) = Append(u(k), s[k + 1]) /\ (k = 0 => u(k) = << >>)
             /\ k = 0 => Stretches(u(k + 1), D) = Begun(Stretches(u(k), D), s[k + 1])
             /\ k # 0 => Stretches(u(k + 1), D) = Lengthened(Stretches(u(k), D), s[k + 1])
  <2>1. k + 1 \in 1..Len(s) /\ (k # 0 => k \in 1..Len(s))
    BY <1>1, <1>2
  <2>2. s[k + 1] \notin D /\ (k # 0 => s[k] \notin D)
    BY <2>1
  <2>3. /\ u(k) \in Seq(A) /\ Len(u(k)) = k /\ s[k + 1] \in A
        /\ u(k + 1) = Append(u(k), s[k + 1])
        /\ k = 0 \/ s[k] \in D =>
             Stretches(u(k + 1), D) = Begun(Stretches(u(k), D), s[k + 1])
        /\ k # 0 /\ s[k] \notin D =>
             Stretches(u(k + 1), D) = Lengthened(Stretches(u(k), D), s[k + 1])
    <3>1. \A S : \A t \in Seq(S) : t = s /\ k + 1 <= Len(t) =>
            /\ SubSeq(t, 1, k) \in Seq(S) /\ Len(SubSeq(t, 1, k)) = k
            /\ t[k + 1] \in S /\ SubSeq(t, 1, k + 1) = Append(SubSeq(t, 1, k), t[k + 1])
            /\ t[k + 1] \notin D /\ (k = 0 \/ t[k] \in D) =>
                 Stretches(SubSeq(t, 1, k + 1), D) = Begun(Stretches(SubSeq(t, 1, k), D), t[k + 1])
            /\ t[k + 1] \notin D /\ k # 0 /\ t[k] \notin D =>
                 Stretches(SubSeq(t, 1, k + 1), D)
                   = Lengthened(Stretches(SubSeq(t, 1, k), D), t[k + 1])
      BY OneMoreOf
    <3> QED
      BY <1>2, <2>2, <3>1
  <2> HIDE DEF u
  <2>4. k = 0 => u(k) = << >>
    BY <2>3, EmptySeq
  <2> QED
    BY <2>2, <2>3, <2>4
<1>3. Good(0)
  <2> SUFFICES ASSUME 0 + 1 <= Len(s) PROVE Stretches(u(0 + 1), D) = <<u(0 + 1)>>
    OBVIOUS
  <2> HIDE DEF u
  <2>1. /\ u(0 + 1) = Append(u(0), s[0 + 1]) /\ u(0) = << >>
        /\ Stretches(u(0 + 1), D) = Begun(Stretches(u(0), D), s[0 + 1])
    BY <1>2
  <2>2. Stretches(u(0), D) = << >>
    BY <2>1, NoStretches
  <2> DEFINE c == s[0 + 1]
  <2>3. Begun(<< >>, c) = <<Append(<< >>, c)>>
    <3> HIDE DEF c
    <3>1. Append(<< >>, c) = <<c>>
      OBVIOUS
    <3> QED
      BY <3>1 DEF Begun
  <2> QED
    BY <2>1, <2>2, <2>3
<1>4. ASSUME NEW k \in Nat, Good(k) PROVE Good(k + 1)
  <2> SUFFICES ASSUME (k + 1) + 1 <= Len(s)
               PROVE  Stretches(u((k + 1) + 1), D) = <<u((k + 1) + 1)>>
    OBVIOUS
  <2>1. k + 1 \in Nat /\ k + 1 # 0 /\ k + 1 <= Len(s)
    BY <1>1
  <2>2. Stretches(u(k + 1), D) = <<u(k + 1)>>
    BY <1>4, <2>1
  <2> HIDE DEF u
  <2>3. /\ u((k + 1) + 1) = Append(u(k + 1), s[(k + 1) + 1])
        /\ Stretches(u((k + 1) + 1), D) = Lengthened(Stretches(u(k + 1), D), s[(k + 1) + 1])
    BY <1>2, <2>1
  <2> DEFINE v == u(k + 1)
             c == s[(k + 1) + 1]
  <2>4. Lengthened(<<v>>, c) = <<Append(v, c)>>
    <3> HIDE DEF v, c
    <3> QED
      BY DEF Lengthened
  <2> QED
    BY <2>2, <2>3, <2>4
<1>5. K = Nat
  <2> HIDE DEF Good
  <2>1. K \in SUBSET Nat /\ 0 \in K /\ \A k \in K : k + 1 \in K
    BY <1>3, <1>4
  <2> HIDE DEF K
  <2> QED
    BY <2>1, Counting
<1>6. Good(Len(s) - 1)
  <2>1. Len(s) - 1 \in Nat
    BY <1>1
  <2> HIDE DEF Good
  <2> QED
    BY <1>5, <2>1
<1>7. (Len(s) - 1) + 1 = Len(s)
  BY <1>1
<1>8. Stretches(u(Len(s)), D) = <<u(Len(s))>>
  BY <1>6, <1>7
<1>9. SubSeq(s, 1, Len(s)) = s
  BY SubSeqFull
<1> QED
  BY <1>8, <1>9

\* The scanner of splitCommandAndArgs takes a command apart at the blanks.
LEMMA SplitIs ==
  ASSUME NEW s \in Seq(Chars)
  PROVE  SplitCommandAndArgs(s) = WordsOf(s)
<1> DEFINE base == [words |-> << >>, inWord |-> FALSE]
           D == {" "}
           w(k) == Stretches(SubSeq(s, 1, k), D)
           in(k) == k # 0 /\ s[k] \notin D
<1>1. base \in ScanStates /\ Len(s) \in Nat
  BY DEF ScanStates
<1>2. PICK run : /\ run \in [0..Len(s) -> ScanStates] /\ run[0] = base
                 /\ \A k \in 1..Len(s) : run[k] = Scan(run[k - 1], s[k])
                 /\ run[Len(s)] = FoldLeft(Scan, base, s)
  BY <1>1, ScanRun
<1> DEFINE Good(k) == k <= Len(s) => run[k].words = w(k) /\ (run[k].inWord <=> in(k))
           K == {k \in Nat : Good(k)}
<1>3. Good(0)
  <2>1. SubSeq(s, 1, 0) = << >>
    BY SubSeqEmpty
  <2>2. w(0) = << >>
    BY <2>1, NoStretches
  <2>3. run[0].words = << >> /\ run[0].inWord = FALSE
    BY <1>2
  <2> QED
    BY <2>2, <2>3
<1>4. ASSUME NEW k \in Nat, Good(k) PROVE Good(k + 1)
  <2> SUFFICES ASSUME k + 1 <= Len(s)
               PROVE  run[k + 1].words = w(k + 1) /\ (run[k + 1].inWord <=> in(k + 1))
    OBVIOUS
  <2>9. (k + 1) # 0
    OBVIOUS
  <2> SUFFICES run[k + 1].words = w(k + 1) /\ (run[k + 1].inWord <=> s[k + 1] \notin D)
    <3> HIDE DEF w, D
    <3> QED
      BY <2>9, Zenon
  <2> DEFINE c == s[k + 1]
             r == run[k]
  <2>1. k \in 0..Len(s) /\ k <= Len(s) /\ k + 1 \in 1..Len(s) /\ (k + 1) - 1 = k
    BY <1>1
  <2>2. /\ c \in D => w(k + 1) = w(k)
        /\ c \notin D /\ (k = 0 \/ s[k] \in D) => w(k + 1) = Begun(w(k), c)
        /\ c \notin D /\ k # 0 /\ s[k] \notin D => w(k + 1) = Lengthened(w(k), c)
    <3>1. s \in Seq(Chars) /\ k \in Nat /\ k + 1 <= Len(s)
      OBVIOUS
    <3> HIDE DEF D
    <3> QED
      BY ONLY <3>1, OneMoreOf DEF w
  <2>3. run[k + 1] = Scan(r, c)
    <3>1. run[k + 1] = Scan(run[(k + 1) - 1], s[k + 1])
      BY ONLY <1>2, <2>1
    <3> QED
      BY <2>1, <3>1
  <2>4. r.words = w(k) /\ (r.inWord <=> in(k))
    BY <1>4, <2>1
  <2>5. r \in [words : Seq(Seq(Chars)), inWord : BOOLEAN]
    <3>1. r \in ScanStates
      BY ONLY <1>2, <2>1
    <3> QED
      BY <3>1 DEF ScanStates
  <2> HIDE DEF c, r, w, D, in
  <2>6. CASE c \in D
    <3>1. Scan(r, c) = [r EXCEPT !.inWord = FALSE]
      BY <2>6 DEF Scan, D
    <3>2. Scan(r, c).words = r.words /\ Scan(r, c).inWord = FALSE
      BY <2>5, <3>1
    <3>3. run[k + 1].words = w(k + 1) /\ ~run[k + 1].inWord
      BY <2>2, <2>3, <2>4, <2>6, <3>2
    <3> QED
      BY <2>6, <3>3, Zenon DEF c
  <2>7. CASE c \notin D /\ ~in(k)
    <3>1. ~r.inWord /\ w(k + 1) = Begun(w(k), c)
      BY <2>2, <2>4, <2>7, Zenon DEF in, c
    <3>2. Scan(r, c) = [words |-> Begun(w(k), c), inWord |-> TRUE]
      BY <2>4, <2>7, <3>1 DEF Scan, D, Begun
    <3>3. run[k + 1].words = w(k + 1) /\ run[k + 1].inWord
      <4> DEFINE x == w(k + 1)
                 y == run[k + 1]
      <4>1. y = [words |-> x, inWord |-> TRUE]
        BY <2>3, <3>1, <3>2, Zenon
      <4> HIDE DEF x, y
      <4>2. y.words = x /\ y.inWord
        BY <4>1
      <4> QED
        BY <4>2 DEF x, y
    <3> QED
      BY <2>7, <3>3, Zenon DEF c
  <2>8. CASE c \notin D /\ in(k)
    <3>1. r.inWord /\ w(k + 1) = Lengthened(w(k), c)
      BY <2>2, <2>4, <2>8, Zenon DEF in, c
    <3>2. Scan(r, c).words = Lengthened(r.words, c) /\ Scan(r, c).inWord
      BY <2>5, <2>8, <3>1 DEF Scan, D, Lengthened
    <3> QED
      BY <2>3, <2>4, <2>8, <3>1, <3>2 DEF c
  <2> QED
    BY <2>6, <2>7, <2>8
<1>5. K = Nat
  <2> HIDE DEF Good
  <2>1. K \in SUBSET Nat /\ 0 \in K /\ \A k \in K : k + 1 \in K
    BY <1>3, <1>4
  <2> HIDE DEF K
  <2> QED
    BY <2>1, Counting
<1>6. run[Len(s)].words = w(Len(s))
  <2>1. Good(Len(s))
    <3> HIDE DEF Good
    <3> QED
      BY <1>1, <1>5
  <2>2. Len(s) <= Len(s)
    BY <1>1
  <2> HIDE DEF w, in
  <2> QED
    BY <2>1, <2>2
<1>7. SubSeq(s, 1, Len(s)) = s
  BY SubSeqFull
<1> QED
  BY <1>2, <1>6, <1>7 DEF SplitCommandAndArgs, WordsOf

-----------------------------------------------------------------------------
(* The lines of a text.                                                    *)

\* The words of a command, the commands of a line.
Args == Seq(Seq(Chars))
Line == Seq(Args)

\* Where UpToFF may cut a text.
Stops(t) == {n \in 1..Len(t) : t[n] = "FF" /\ (n = 1 \/ t[n - 1] \in Ends)}

\* Where the text ends: at the first stop, or at its end.
EndsAt(t, e) ==
  /\ e \in 0..Len(t) /\ \A n \in 1..e : n \notin Stops(t)
  /\ e = Len(t) \/ e + 1 \in Stops(t)

\* The stops of a text, and the first.
LEMMA StopsAre ==
  ASSUME NEW t \in Seq(Chars)
  PROVE  /\ Len(t) \in Nat /\ Stops(t) \in SUBSET (1..Len(t)) /\ Stops(t) \in SUBSET Nat
         /\ Stops(t) # {} => Min(Stops(t)) \in Stops(t) /\ \A m \in Stops(t) : Min(Stops(t)) <= m
<1>1. Len(t) \in Nat /\ Stops(t) \in SUBSET (1..Len(t)) /\ Stops(t) \in SUBSET Nat
  BY DEF Stops
<1> QED
  BY <1>1, MinIs

\* UpToFF cuts a text where it ends.
LEMMA UpToIs ==
  ASSUME NEW t \in Seq(Chars), NEW e, EndsAt(t, e)
  PROVE  UpToFF(t) = SubSeq(t, 1, e)
<1> DEFINE S == Stops(t)
<1>1. UpToFF(t) = IF S = {} THEN t ELSE SubSeq(t, 1, Min(S) - 1)
  BY DEF UpToFF, Stops
<1>2. /\ Len(t) \in Nat /\ S \in SUBSET (1..Len(t))
      /\ S # {} => Min(S) \in S /\ \A m \in S : Min(S) <= m
  BY StopsAre
<1>3. e \in 0..Len(t) /\ (\A n \in 1..e : n \notin S) /\ (e = Len(t) \/ e + 1 \in S)
  BY DEF EndsAt
<1> HIDE DEF S
<1>4. CASE S = {}
  <2>1. e = Len(t)
    BY <1>3, <1>4
  <2> QED
    BY <1>1, <1>4, <2>1, SubSeqFull
<1>5. CASE S # {}
  <2>1. Min(S) \in 1..Len(t) /\ Min(S) \in S /\ ~(Min(S) \in 1..e)
    BY <1>2, <1>3, <1>5
  <2>2. e + 1 \in S
    BY <1>2, <1>3, <2>1
  <2>3. Min(S) <= e + 1 /\ Min(S) > e
    BY <1>2, <1>3, <1>5, <2>1, <2>2
  <2>4. Min(S) - 1 = e
    BY <1>3, <2>1, <2>3
  <2> QED
    BY <1>1, <1>5, <2>4
<1> QED
  BY <1>4, <1>5

\* A text ends somewhere.
LEMMA UpToExists ==
  ASSUME NEW t \in Seq(Chars)
  PROVE  \E e : EndsAt(t, e)
<1> DEFINE S == Stops(t)
<1>1. /\ Len(t) \in Nat /\ S \in SUBSET (1..Len(t))
      /\ S # {} => Min(S) \in S /\ \A m \in S : Min(S) <= m
  BY StopsAre
<1> HIDE DEF S
<1>2. CASE S = {}
  <2>1. Len(t) \in 0..Len(t) /\ \A n \in 1..Len(t) : n \notin S
    BY <1>1, <1>2
  <2>2. EndsAt(t, Len(t))
    BY <2>1 DEF EndsAt, S
  <2> QED
    BY <2>2
<1>3. CASE S # {}
  <2> DEFINE m == Min(S)
             e == m - 1
  <2>0. m \in S /\ m \in 1..Len(t) /\ \A n \in S : m <= n
    BY <1>1, <1>3
  <2> HIDE DEF m
  <2>1. e + 1 \in S /\ e \in 0..Len(t) /\ \A n \in 1..e : n \notin S
    <3>1. e + 1 = m /\ e \in 0..Len(t)
      BY <1>1, <2>0
    <3>2. ASSUME NEW n \in 1..e PROVE n \notin S
      BY <2>0
    <3> QED
      BY <2>0, <3>1, <3>2
  <2> HIDE DEF e
  <2>2. EndsAt(t, e)
    BY <2>1 DEF EndsAt, S
  <2> QED
    BY <2>2
<1> QED
  BY <1>2, <1>3

\* The first elements of a concatenation.
LEMMA FirstOfConcat ==
  ASSUME NEW A, NEW p \in Seq(A), NEW b \in Seq(A), NEW e \in 0..Len(b)
  PROVE  SubSeq(p \o b, 1, Len(p) + e) = p \o SubSeq(b, 1, e)
<1> DEFINE t == p \o b  L == Len(p)  u == SubSeq(b, 1, e)
<1>1. /\ L \in Nat /\ Len(b) \in Nat /\ t \in Seq(A) /\ Len(t) = L + Len(b)
      /\ \A n \in 1..L + Len(b) : t[n] = IF n <= L THEN p[n] ELSE b[n - L]
  BY ConcatProperties
<1>2. u \in Seq(A) /\ Len(u) = e /\ \A j \in 1..e : u[j] = b[j]
  BY FirstOnes
<1> HIDE DEF t, u
<1>3. L + e \in 0..Len(t)
  BY <1>1
<1> DEFINE v == SubSeq(t, 1, L + e)
           w == p \o u
<1>4. v \in Seq(A) /\ Len(v) = L + e /\ \A j \in 1..L + e : v[j] = t[j]
  <2>1. t \in Seq(A) /\ L + e \in 0..Len(t)
    BY <1>1, <1>3
  <2> HIDE DEF L
  <2> QED
    BY ONLY <2>1, FirstOnes
<1>5. /\ w \in Seq(A) /\ Len(w) = L + e
      /\ \A n \in 1..L + e : w[n] = IF n <= L THEN p[n] ELSE u[n - L]
  <2>1. p \in Seq(A) /\ u \in Seq(A) /\ Len(u) = e
    BY <1>2
  <2> QED
    BY ONLY <2>1, ConcatProperties
<1> HIDE DEF v, w, L
<1>6. ASSUME NEW j \in 1..L + e PROVE v[j] = w[j]
  <2>1. j \in 1..L + Len(b) /\ (j <= L \/ j - L \in 1..e)
    BY <1>1
  <2> QED
    BY <1>1, <1>2, <1>4, <1>5, <2>1
<1>7. v = w
  <2>1. v \in Seq(A) /\ w \in Seq(A) /\ Len(v) = Len(w) /\ \A j \in 1..Len(v) : v[j] = w[j]
    BY <1>4, <1>5, <1>6
  <2> QED
    BY ONLY <2>1, SeqEqual
<1> QED
  BY <1>7 DEF v, w, t, u, L

\* What comes after the end of a line ends where it would end alone.
LEMMA UpToJoin ==
  ASSUME NEW p \in Seq(Chars), Len(p) # 0, p[Len(p)] \in Ends, Stops(p) = {}, NEW b \in Seq(Chars)
  PROVE  UpToFF(p \o b) = p \o UpToFF(b)
<1> DEFINE t == p \o b  L == Len(p)
<1>1. /\ L \in Nat \ {0} /\ Len(b) \in Nat /\ t \in Seq(Chars) /\ Len(t) = L + Len(b)
      /\ \A n \in 1..L + Len(b) : t[n] = IF n <= L THEN p[n] ELSE b[n - L]
  BY ConcatProperties
<1>2. PICK e : EndsAt(b, e)
  BY UpToExists
<1>3. e \in 0..Len(b) /\ (\A n \in 1..e : n \notin Stops(b)) /\ (e = Len(b) \/ e + 1 \in Stops(b))
  BY <1>2 DEF EndsAt
<1> HIDE DEF t
<1>4. ASSUME NEW n \in 1..L PROVE n \notin Stops(t)
  <2>1. n \notin Stops(p) /\ n \in 1..L + Len(b) /\ n <= L
    BY <1>1
  <2>2. t[n] = p[n]
    BY <1>1, <2>1
  <2>3. n = 1 \/ (n - 1 \in 1..L + Len(b) /\ n - 1 <= L)
    BY <1>1
  <2>4. n # 1 => t[n - 1] = p[n - 1]
    BY <1>1, <2>3
  <2>5. ~(p[n] = "FF" /\ (n = 1 \/ p[n - 1] \in Ends))
    BY <2>1 DEF Stops
  <2> QED
    BY <2>2, <2>4, <2>5 DEF Stops
<1>5. ASSUME NEW n \in 1..Len(b) PROVE L + n \in Stops(t) <=> n \in Stops(b)
  <2>1. /\ L + n \in 1..L + Len(b) /\ ~(L + n <= L) /\ (L + n) - L = n
        /\ (L + n) - 1 \in 1..L + Len(b) /\ ((L + n) - 1 <= L <=> n = 1)
        /\ ((L + n) - 1) - L = n - 1 /\ (n = 1 => (L + n) - 1 = L) /\ L + n # 1
    BY <1>1
  <2>2. t[L + n] = b[n]
    BY <1>1, <2>1
  <2>3. t[(L + n) - 1] = IF n = 1 THEN p[L] ELSE b[n - 1]
    BY <1>1, <2>1
  <2>4. L + n \in Stops(t) <=> t[L + n] = "FF" /\ t[(L + n) - 1] \in Ends
    BY <1>1, <2>1 DEF Stops
  <2>5. n \in Stops(b) <=> b[n] = "FF" /\ (n = 1 \/ b[n - 1] \in Ends)
    BY DEF Stops
  <2> QED
    BY <2>2, <2>3, <2>4, <2>5
<1>6. EndsAt(t, L + e)
  <2>1. L + e \in 0..Len(t) /\ (e = Len(b) => L + e = Len(t))
    <3>1. L \in Nat /\ e \in 0..Len(b) /\ Len(b) \in Nat /\ Len(t) = L + Len(b)
      BY <1>1, <1>3
    <3> HIDE DEF L
    <3> QED
      BY ONLY <3>1
  <2>2. ASSUME NEW n \in 1..L + e PROVE n \notin Stops(t)
    <3>1. CASE n <= L
      BY <1>1, <1>3, <1>4, <3>1
    <3>2. CASE n > L
      <4>1. n - L \in 1..e /\ n - L \in 1..Len(b) /\ L + (n - L) = n
        BY <1>1, <1>3, <3>2
      <4> QED
        BY <1>3, <1>5, <4>1
    <3> QED
      BY <1>1, <1>3, <3>1, <3>2
  <2>3. e + 1 \in Stops(b) => (L + e) + 1 \in Stops(t)
    <3>1. e + 1 \in Stops(b) => e + 1 \in 1..Len(b)
      BY DEF Stops
    <3>2. L + (e + 1) = (L + e) + 1
      BY <1>1, <1>3
    <3> QED
      BY <1>5, <3>1, <3>2
  <2> QED
    BY <1>3, <2>1, <2>2, <2>3 DEF EndsAt
<1>7. UpToFF(t) = SubSeq(t, 1, L + e) /\ UpToFF(b) = SubSeq(b, 1, e)
  BY <1>1, <1>2, <1>6, UpToIs
<1>8. SubSeq(t, 1, L + e) = p \o SubSeq(b, 1, e)
  <2>1. p \in Seq(Chars) /\ b \in Seq(Chars) /\ e \in 0..Len(b)
    BY <1>3
  <2> QED
    BY ONLY <2>1, FirstOfConcat DEF t
<1> QED
  BY <1>7, <1>8 DEF t

\* The commands of a line are lists of words, and the shell finds them: it
\* splits at the semicolons and scans each part.
LEMMA CommandsType ==
  ASSUME NEW a \in Seq(Chars)
  PROVE  /\ Stretches(a, {";"}) \in Seq(Seq(Chars)) /\ CommandsOf(a) \in Line
         /\ a = << >> => CommandsOf(a) = << >>
         /\ CommandsOf(a) = [n \in 1..Len(GetCommands(a)) |-> SplitCommandAndArgs(GetCommands(a)[n])]
<1> DEFINE parts == Stretches(a, {";"})
<1>1. parts \in Seq(Seq(Chars))
  <2> DEFINE D == {";"}
  <2>1. a \in Seq(Chars)
    OBVIOUS
  <2> HIDE DEF D
  <2>2. Stretches(a, D) \in Seq(Seq(Chars))
    BY ONLY <2>1, StretchesType
  <2> QED
    BY <2>2 DEF D
<1>2. a = << >> => parts = << >>
  BY NoStretches
<1>3. CommandsOf(a) = [n \in 1..Len(parts) |-> WordsOf(parts[n])]
  BY DEF CommandsOf
<1>4. GetCommands(a) = parts
  BY DEF GetCommands
<1> HIDE DEF parts
<1>5. ASSUME NEW n \in 1..Len(parts)
      PROVE  WordsOf(parts[n]) \in Args /\ SplitCommandAndArgs(parts[n]) = WordsOf(parts[n])
  <2> DEFINE x == parts[n]
             D == {" "}
  <2>1. x \in Seq(Chars)
    BY <1>1, ElementOfSeq
  <2> HIDE DEF x, D
  <2>2. Stretches(x, D) \in Seq(Seq(Chars))
    BY ONLY <2>1, StretchesType
  <2>3. SplitCommandAndArgs(x) = WordsOf(x)
    BY <2>1, SplitIs
  <2>4. WordsOf(x) \in Args
    BY <2>2 DEF WordsOf, D, Args
  <2> QED
    BY <2>3, <2>4 DEF x
<1>6. Len(parts) \in Nat
  BY <1>1
<1>7. [n \in 1..Len(parts) |-> WordsOf(parts[n])] \in Seq(Args)
  BY <1>5, <1>6
<1>8. a = << >> => [n \in 1..Len(parts) |-> WordsOf(parts[n])] = << >>
  BY <1>2
<1>9. [n \in 1..Len(parts) |-> WordsOf(parts[n])]
        = [n \in 1..Len(parts) |-> SplitCommandAndArgs(parts[n])]
  BY <1>5
<1> QED
  BY <1>1, <1>3, <1>4, <1>7, <1>8, <1>9 DEF parts, Line

\* The commands of lines.
Commands(all) == [n \in 1..Len(all) |-> CommandsOf(all[n])]

\* Lines one after the other have their commands one after the other.
LEMMA CommandsJoin ==
  ASSUME NEW x \in Seq(Seq(Chars)), NEW y \in Seq(Seq(Chars))
  PROVE  /\ Commands(x) \in Seq(Line) /\ Commands(y) \in Seq(Line)
         /\ Commands(x \o y) = Commands(x) \o Commands(y)
<1> DEFINE V == Seq(Chars)
           f == Commands(x)  g == Commands(y)
           z == x \o y
           h == Commands(z)
<1>1. \A v \in V : CommandsOf(v) \in Line
  BY CommandsType
<1>2. x \in Seq(V) /\ y \in Seq(V)
  OBVIOUS
<1> HIDE DEF V
<1>3. /\ z \in Seq(V) /\ Len(z) = Len(x) + Len(y) /\ Len(x) \in Nat /\ Len(y) \in Nat
      /\ \A n \in 1..Len(x) + Len(y) : z[n] = IF n <= Len(x) THEN x[n] ELSE y[n - Len(x)]
  BY <1>2, ConcatProperties
<1> HIDE DEF z
<1>4. /\ f \in Seq(Line) /\ Len(f) = Len(x) /\ \A n \in 1..Len(x) : f[n] = CommandsOf(x[n])
  <2>1. \A n \in 1..Len(x) : x[n] \in V
    BY <1>2, ElementOfSeq
  <2> QED
    BY <1>1, <1>3, <2>1 DEF Commands
<1>5. /\ g \in Seq(Line) /\ Len(g) = Len(y) /\ \A n \in 1..Len(y) : g[n] = CommandsOf(y[n])
  <2>1. \A n \in 1..Len(y) : y[n] \in V
    BY <1>2, ElementOfSeq
  <2> QED
    BY <1>1, <1>3, <2>1 DEF Commands
<1>6. /\ h \in Seq(Line) /\ Len(h) = Len(z) /\ \A n \in 1..Len(z) : h[n] = CommandsOf(z[n])
  <2>1. \A n \in 1..Len(z) : z[n] \in V
    BY <1>3, ElementOfSeq
  <2> QED
    BY <1>1, <1>3, <2>1 DEF Commands
<1> HIDE DEF f, g, h
<1> DEFINE k == f \o g
<1>7. /\ k \in Seq(Line) /\ Len(k) = Len(f) + Len(g)
      /\ \A n \in 1..Len(f) + Len(g) : k[n] = IF n <= Len(f) THEN f[n] ELSE g[n - Len(f)]
  <2>1. f \in Seq(Line) /\ g \in Seq(Line)
    BY <1>4, <1>5
  <2> QED
    BY ONLY <2>1, ConcatProperties
<1> HIDE DEF k
<1>8. ASSUME NEW n \in 1..Len(h) PROVE h[n] = k[n]
  <2>1. n \in 1..Len(x) + Len(y) /\ (n <= Len(x) => n \in 1..Len(x))
        /\ (~(n <= Len(x)) => n - Len(x) \in 1..Len(y))
    BY <1>3, <1>6
  <2>2. h[n] = CommandsOf(z[n])
    BY <1>3, <1>6, <2>1
  <2>3. CASE n <= Len(x)
    BY <1>3, <1>4, <1>5, <1>7, <2>1, <2>2, <2>3
  <2>4. CASE ~(n <= Len(x))
    BY <1>3, <1>4, <1>5, <1>7, <2>1, <2>2, <2>4
  <2> QED
    BY <2>3, <2>4
<1>9. h = k
  <2>1. h \in Seq(Line) /\ k \in Seq(Line) /\ Len(h) = Len(k) /\ \A n \in 1..Len(h) : h[n] = k[n]
    BY <1>3, <1>4, <1>5, <1>6, <1>7, <1>8
  <2> QED
    BY ONLY <2>1, SeqEqual
<1> QED
  BY <1>4, <1>5, <1>9 DEF f, g, h, k, z

\* One line, and none.
LEMMA CommandsOfOne ==
  ASSUME NEW a
  PROVE  Commands(<<a>>) = <<CommandsOf(a)>> /\ Commands(<< >>) = << >>
BY DEF Commands

\* What a line without an end in it adds to the lines of a text.
FirstLine(a) == IF a = << >> THEN << >> ELSE <<CommandsOf(a)>>

\* A string without the end of a line in it is that one line.
LEMMA FirstLineIs ==
  ASSUME NEW a \in Seq(Chars), \A j \in 1..Len(a) : a[j] \notin Ends
  PROVE  /\ Stretches(a, Ends) \in Seq(Seq(Chars))
         /\ Commands(Stretches(a, Ends)) = FirstLine(a)
<1>1. a # << >> => Len(a) # 0
  BY EmptySeq
<1>2. Stretches(a, Ends) = IF a = << >> THEN << >> ELSE <<a>>
  <2>1. CASE a = << >>
    BY <2>1, NoStretches
  <2>2. CASE a # << >>
    BY <1>1, <2>2, StretchesWhole
  <2> QED
    BY <2>1, <2>2
<1>3. Stretches(a, Ends) \in Seq(Seq(Chars))
  <2>1. a \in Seq(Chars)
    OBVIOUS
  <2> QED
    BY ONLY <2>1, StretchesType
<1> QED
  BY <1>2, <1>3, CommandsOfOne DEF FirstLine

\* The lines of a text, with their commands named.
LEMMA LinesAre ==
  ASSUME NEW t
  PROVE  LinesOf(t) = Commands(Stretches(UpToFF(t), Ends))
BY DEF LinesOf, Commands

\* What is cut off is a text, and its lines are lines.
LEMMA UpToType ==
  ASSUME NEW t \in Seq(Chars)
  PROVE  UpToFF(t) \in Seq(Chars) /\ LinesOf(t) \in Seq(Line)
<1>1. PICK e : EndsAt(t, e)
  BY UpToExists
<1>2. UpToFF(t) \in Seq(Chars)
  <2>1. t \in Seq(Chars) /\ e \in 0..Len(t)
    BY <1>1 DEF EndsAt
  <2>2. SubSeq(t, 1, e) \in Seq(Chars)
    BY ONLY <2>1, FirstOnes
  <2> QED
    BY <1>1, <2>2, UpToIs
<1> DEFINE x == Stretches(UpToFF(t), Ends)
<1>3. x \in Seq(Seq(Chars))
  BY ONLY <1>2, StretchesType
<1> HIDE DEF x
<1>4. Commands(x) \in Seq(Line)
  BY ONLY <1>3, CommandsJoin
<1> QED
  BY <1>2, <1>4, LinesAre DEF x

\* StretchesJoin, said of the characters of a text.
LEMMA TextJoin ==
  ASSUME NEW D
  PROVE  \A s \in Seq(Chars), e \in Chars, t \in Seq(Chars) : e \in D =>
           Stretches(Append(s, e) \o t, D) = Stretches(s, D) \o Stretches(t, D)
BY StretchesJoin

\* A text begins with a line and its end.
LEMMA LinesJoin ==
  ASSUME NEW a \in Seq(Chars), \A j \in 1..Len(a) : a[j] \notin Ends,
         NEW d \in Ends, a = << >> => d = "nl", NEW b \in Seq(Chars)
  PROVE  LinesOf(Append(a, d) \o b) = FirstLine(a) \o LinesOf(b)
<1> DEFINE p == Append(a, d)
           u == UpToFF(b)
<1>1. d \in Chars /\ Len(a) \in Nat /\ (a # << >> => Len(a) # 0)
  <2>1. d \in Chars
    BY DEF Ends, Chars
  <2>2. Len(a) \in Nat /\ (a # << >> => Len(a) # 0)
    BY EmptySeq
  <2> QED
    BY <2>1, <2>2
<1>2. /\ p \in Seq(Chars) /\ Len(p) = Len(a) + 1 /\ p[Len(a) + 1] = d
      /\ \A j \in 1..Len(a) : p[j] = a[j]
  BY <1>1, AppendProperties
<1>3. u \in Seq(Chars)
  BY UpToType
<1> HIDE DEF p
<1>4. Stops(p) = {}
  <2> SUFFICES ASSUME NEW n \in Stops(p) PROVE FALSE
    OBVIOUS
  <2>1. n \in 1..Len(a) + 1 /\ p[n] = "FF" /\ (n = 1 \/ p[n - 1] \in Ends)
    BY <1>2 DEF Stops
  <2>2. CASE n \in 1..Len(a)
    <3>1. p[n] \notin Ends
      BY <1>2, <2>2
    <3> QED
      BY <2>1, <3>1 DEF Ends
  <2>3. CASE n = Len(a) + 1
    <3>1. d = "FF" /\ a # << >> /\ Len(a) # 0
      BY <1>1, <1>2, <2>1, <2>3
    <3>2. n # 1 /\ n - 1 \in 1..Len(a)
      BY <1>1, <2>3, <3>1
    <3> QED
      BY <1>2, <2>1, <3>2
  <2> QED
    BY <1>1, <2>1, <2>2, <2>3
<1>5. UpToFF(p \o b) = p \o u
  <2>1. Len(p) # 0 /\ p[Len(p)] \in Ends
    BY <1>1, <1>2
  <2> QED
    BY <1>2, <1>4, <2>1, UpToJoin
<1> HIDE DEF u
<1> DEFINE x == Stretches(a, Ends)
           y == Stretches(u, Ends)
<1>6. Stretches(p \o u, Ends) = x \o y
  <2>1. a \in Seq(Chars) /\ d \in Chars /\ u \in Seq(Chars) /\ d \in Ends
    BY <1>1, <1>3
  <2> DEFINE D == Ends
  <2>2. a \in Seq(Chars) /\ d \in Chars /\ u \in Seq(Chars) /\ d \in D
    BY <2>1
  <2> HIDE DEF D
  <2>3. Stretches(Append(a, d) \o u, D) = Stretches(a, D) \o Stretches(u, D)
    BY <2>2, TextJoin
  <2> QED
    BY <2>3 DEF p, D
<1>7. x \in Seq(Seq(Chars)) /\ y \in Seq(Seq(Chars)) /\ Commands(x) = FirstLine(a)
  <2>1. y \in Seq(Seq(Chars))
    BY ONLY <1>3, StretchesType
  <2> QED
    BY <2>1, FirstLineIs
<1> HIDE DEF x, y
<1>8. Commands(x \o y) = Commands(x) \o Commands(y)
  BY ONLY <1>7, CommandsJoin
<1>9. LinesOf(p \o b) = Commands(x \o y) /\ LinesOf(b) = Commands(y)
  BY <1>5, <1>6, LinesAre DEF u, y
<1> QED
  BY <1>7, <1>8, <1>9 DEF p

\* The last line of a text has no end.
LEMMA LinesLast ==
  ASSUME NEW a \in Seq(Chars), \A j \in 1..Len(a) : a[j] \notin Ends
  PROVE  LinesOf(a) = FirstLine(a)
<1>1. Len(a) \in Nat /\ Len(a) \in 0..Len(a)
  OBVIOUS
<1>2. \A n \in 1..Len(a) : n \notin Stops(a)
  BY DEF Stops, Ends
<1>3. EndsAt(a, Len(a))
  BY <1>1, <1>2 DEF EndsAt
<1>4. UpToFF(a) = a
  BY <1>3, UpToIs, SubSeqFull
<1> QED
  BY <1>4, LinesAre, FirstLineIs

\* A byte 255 at the start of a line ends the text.
LEMMA LinesNone ==
  ASSUME NEW r \in Seq(Chars), r # << >> => r[1] = "FF"
  PROVE  LinesOf(r) = << >>
<1>1. EndsAt(r, 0)
  <2>1. Len(r) \in Nat /\ (r # << >> => Len(r) # 0)
    BY EmptySeq
  <2>2. r # << >> => 1 \in Stops(r)
    BY <2>1 DEF Stops
  <2>3. r = << >> => Len(r) = 0
    OBVIOUS
  <2> QED
    BY <2>1, <2>2, <2>3 DEF EndsAt
<1>2. UpToFF(r) = << >>
  BY <1>1, UpToIs, SubSeqEmpty
<1> QED
  BY <1>2, LinesAre, NoStretches, CommandsOfOne

-----------------------------------------------------------------------------
(* What is tried of a line, and of the lines.                              *)

\* A command more is tried behind the others, or not at all.
LEMMA AddCommandType ==
  ASSUME NEW out \in Line, NEW args \in Args
  PROVE  AddCommand(out, args) \in Line /\ Goes(out, AddCommand(out, args))
<1>1. Len(out) \in Nat /\ out \in Seq(Args)
  BY DEF Line
<1>2. /\ Append(out, args) \in Seq(Args) /\ Len(Append(out, args)) = Len(out) + 1
      /\ \A j \in 1..Len(out) : Append(out, args)[j] = out[j]
  BY <1>1, AppendProperties
<1>3. AddCommand(out, args) = out \/ AddCommand(out, args) = Append(out, args)
  BY DEF AddCommand
<1>4. Goes(out, out) /\ Goes(out, Append(out, args))
  BY <1>1, <1>2 DEF Goes
<1> QED
  BY <1>2, <1>3, <1>4 DEF Line

\* A fold of AddCommand passes through one list after the other.
LEMMA AddCommandRun ==
  ASSUME NEW base \in Line, NEW s \in Seq(Args)
  PROVE  \E run : /\ run \in [0..Len(s) -> Line] /\ run[0] = base
                  /\ \A k \in 1..Len(s) : run[k] = AddCommand(run[k - 1], s[k])
                  /\ run[Len(s)] = FoldLeft(AddCommand, base, s)
<1> DEFINE n == Len(s)
           V == Line
           step == [p \in V \X (1..n) |-> AddCommand(p[1], s[p[2]])]
           eq(f) == f = [t \in SUBSET DOMAIN s |->
                           IF t = {} THEN base ELSE AddCommand(f[t \ {Max(t)}], s[Max(t)])]
           it == CHOOSE f : eq(f)
<1>1. FoldLeft(AddCommand, base, s) = it[DOMAIN s]
  BY DEF FoldLeft, MapThenFoldSet
<1>2. DOMAIN s = 1..n /\ n \in Nat /\ base \in V
  OBVIOUS
<1>3. \A v \in V, k \in 1..n : AddCommand(v, s[k]) \in V /\ step[<<v, k>>] = AddCommand(v, s[k])
  <2>1. \A v \in V, k \in 1..n : step[<<v, k>>] = AddCommand(v, s[k])
    OBVIOUS
  <2> HIDE DEF step
  <2>2. ASSUME NEW v \in V, NEW k \in 1..n PROVE AddCommand(v, s[k]) \in V
    <3>1. s[k] \in Args
      BY ElementOfSeq
    <3> QED
      BY <3>1, AddCommandType
  <2> QED
    BY <2>1, <2>2
<1>4. step \in Steps(n, V)
  <2>1. ASSUME NEW p \in V \X (1..n) PROVE AddCommand(p[1], s[p[2]]) \in V
    <3>1. p[1] \in V /\ p[2] \in 1..n
      OBVIOUS
    <3> HIDE DEF step, V
    <3> QED
      BY <3>1, <1>3
  <2> HIDE DEF V
  <2> QED
    BY <2>1 DEF Steps
<1> HIDE DEF step, V, n
<1>5. \E f : eq(f)
  <2>1. PICK f : IsFold(f, n, V, base, step)
    BY <1>2, <1>4, FoldExists
  <2>2. /\ f \in [SUBSET (1..n) -> V]
        /\ \A t \in SUBSET (1..n) : f[t] = Folded(f, t, base, step)
    BY <2>1 DEF IsFold
  <2>3. ASSUME NEW t \in SUBSET (1..n), t # {}
        PROVE  f[t] = AddCommand(f[t \ {Max(t)}], s[Max(t)])
    <3>1. Max(t) \in 1..n /\ t \ {Max(t)} \in SUBSET (1..n)
      BY <1>2, <2>3, Removing
    <3>2. f[t] = step[<<f[t \ {Max(t)}], Max(t)>>] /\ f[t \ {Max(t)}] \in V
      BY <2>2, <2>3, <3>1 DEF Folded
    <3> QED
      BY <3>1, <3>2, <1>3
  <2>4. f[{}] = base
    BY <2>2 DEF Folded
  <2>5. eq(f)
    BY <2>2, <2>3, <2>4, <1>2
  <2> QED
    BY <2>5
<1>6. eq(it)
  <2> HIDE DEF eq
  <2> QED
    BY <1>5
<1> HIDE DEF it
<1>7. Unfolds(it, n, V, base, step)
  <2>1. it[{}] = base
    BY <1>6
  <2>2. ASSUME NEW t \in SUBSET (1..n), t # {}, it[t \ {Max(t)}] \in V
        PROVE  it[t] = step[<<it[t \ {Max(t)}], Max(t)>>]
    <3>1. it[t] = AddCommand(it[t \ {Max(t)}], s[Max(t)])
      BY <1>2, <1>6, <2>2
    <3>2. Max(t) \in 1..n
      BY <1>2, <2>2, Removing
    <3> QED
      BY <1>3, <2>2, <3>1, <3>2
  <2> QED
    BY <2>1, <2>2 DEF Unfolds
<1>8. PICK run : IsRun(run, n, V, base, step) /\ run[n] = it[1..n]
  BY <1>2, <1>4, <1>7, FoldRun
<1>9. ASSUME NEW k \in 1..n PROVE run[k] = AddCommand(run[k - 1], s[k])
  <2>1. k - 1 \in 0..n
    BY <1>2
  <2>2. run[k - 1] \in V /\ run[k] = step[<<run[k - 1], k>>]
    BY <1>8, <2>1 DEF IsRun
  <2> QED
    BY <1>3, <2>2
<1>10. run \in [0..n -> V] /\ run[0] = base /\ run[n] = FoldLeft(AddCommand, base, s)
  BY <1>1, <1>2, <1>8 DEF IsRun
<1> QED
  BY <1>9, <1>10 DEF n, V

\* A line, one command after the other.
LEMMA AddLineIs ==
  ASSUME NEW out \in Line, NEW s \in Seq(Args)
  PROVE  /\ AddLine(out, s) \in Line /\ Goes(out, AddLine(out, s))
         /\ s = << >> => AddLine(out, s) = out
         /\ s # << >> => AddLine(out, s) = AddLine(AddCommand(out, Head(s)), Tail(s))
<1> DEFINE f == [p \in Line \X Args |-> AddCommand(p[1], p[2])]
<1>1. \A v \in Line, e \in Args : /\ f[<<v, e>>] = AddCommand(v, e) /\ AddCommand(v, e) \in Line
                              /\ Goes(v, f[<<v, e>>])
  BY AddCommandType
<1> HIDE DEF f
<1>2. \A v \in Line, t \in Seq(Args) :
        \E run : Passes(run, t, Line, v, f) /\ run[Len(t)] = AddLine(v, t)
  <2> SUFFICES ASSUME NEW v \in Line, NEW t \in Seq(Args)
               PROVE  \E run : Passes(run, t, Line, v, f) /\ run[Len(t)] = AddLine(v, t)
    OBVIOUS
  <2>1. PICK run : /\ run \in [0..Len(t) -> Line] /\ run[0] = v
                   /\ \A k \in 1..Len(t) : run[k] = AddCommand(run[k - 1], t[k])
                   /\ run[Len(t)] = FoldLeft(AddCommand, v, t)
    BY AddCommandRun
  <2>2. Len(t) \in Nat
    OBVIOUS
  <2>3. ASSUME NEW k \in 1..Len(t) PROVE run[k] = f[<<run[k - 1], t[k]>>]
    <3>1. k - 1 \in 0..Len(t)
      BY <2>2
    <3>2. run[k - 1] \in Line /\ t[k] \in Args
      BY <2>1, <3>1, ElementOfSeq
    <3> QED
      BY <1>1, <2>1, <3>2
  <2>4. Passes(run, t, Line, v, f)
    BY <2>1, <2>3 DEF Passes
  <2>5. run[Len(t)] = AddLine(v, t)
    BY <2>1 DEF AddLine
  <2> QED
    BY <2>4, <2>5
<1>3. PICK run : Passes(run, s, Line, out, f) /\ run[Len(s)] = AddLine(out, s)
  BY <1>2
<1>4. AddLine(out, s) \in Line /\ Goes(out, AddLine(out, s))
  <2>1. \A v \in Line, e \in Args : Goes(v, f[<<v, e>>])
    BY <1>1
  <2>2. Line = Seq(Args) /\ s \in Seq(Args) /\ out \in Line /\ Passes(run, s, Line, out, f)
    BY <1>3 DEF Line
  <2>3. run[Len(s)] \in Line /\ Goes(out, run[Len(s)])
    BY ONLY <2>1, <2>2, PassesKeep
  <2> QED
    BY <1>3, <2>3
<1>5. ASSUME s = << >> PROVE AddLine(out, s) = out
  BY <1>3, <1>5 DEF Passes
<1>6. ASSUME s # << >> PROVE AddLine(out, s) = AddLine(AddCommand(out, Head(s)), Tail(s))
  <2> DEFINE h == Head(s)
             t == Tail(s)
             b == AddCommand(out, h)
  <2>1. h \in Args /\ t \in Seq(Args)
    BY <1>6, HeadTailProperties
  <2>2. PICK q : Passes(q, t, Line, f[<<out, h>>], f) /\ q[Len(t)] = run[Len(s)]
    <3>1. s \in Seq(Args) /\ s # << >> /\ Passes(run, s, Line, out, f)
      BY <1>3, <1>6
    <3> QED
      BY ONLY <3>1, PassesOn DEF h, t
  <2> HIDE DEF h, t
  <2>3. f[<<out, h>>] = b /\ b \in Line
    BY <1>1, <2>1
  <2> HIDE DEF b
  <2>4. PICK r : Passes(r, t, Line, b, f) /\ r[Len(t)] = AddLine(b, t)
    BY <1>2, <2>1, <2>3
  <2>5. Passes(q, t, Line, b, f)
    BY <2>2, <2>3
  <2>6. q[Len(t)] = r[Len(t)]
    <3>1. Len(t) \in Nat
      BY <2>1
    <3> QED
      BY ONLY <2>4, <2>5, <3>1, PassesOnce
  <2> QED
    BY <1>3, <2>2, <2>4, <2>6 DEF b, h, t
<1> QED
  BY <1>4, <1>5, <1>6

\* What is tried of lines.
AddLines(out, lines) == FoldLeft(AddLine, out, lines)

\* The same of a line more.
LEMMA AddLineType ==
  ASSUME NEW out \in Line, NEW line \in Line
  PROVE  AddLine(out, line) \in Line /\ Goes(out, AddLine(out, line))
BY AddLineIs DEF Line

\* A fold of AddLine passes through one list after the other.
LEMMA AddLineRun ==
  ASSUME NEW base \in Line, NEW s \in Seq(Line)
  PROVE  \E run : /\ run \in [0..Len(s) -> Line] /\ run[0] = base
                  /\ \A k \in 1..Len(s) : run[k] = AddLine(run[k - 1], s[k])
                  /\ run[Len(s)] = FoldLeft(AddLine, base, s)
<1> DEFINE n == Len(s)
           V == Line
           step == [p \in V \X (1..n) |-> AddLine(p[1], s[p[2]])]
           eq(f) == f = [t \in SUBSET DOMAIN s |->
                           IF t = {} THEN base ELSE AddLine(f[t \ {Max(t)}], s[Max(t)])]
           it == CHOOSE f : eq(f)
<1>1. FoldLeft(AddLine, base, s) = it[DOMAIN s]
  BY DEF FoldLeft, MapThenFoldSet
<1>2. DOMAIN s = 1..n /\ n \in Nat /\ base \in V
  OBVIOUS
<1>3. \A v \in V, k \in 1..n : AddLine(v, s[k]) \in V /\ step[<<v, k>>] = AddLine(v, s[k])
  <2>1. \A v \in V, k \in 1..n : step[<<v, k>>] = AddLine(v, s[k])
    OBVIOUS
  <2> HIDE DEF step
  <2>2. ASSUME NEW v \in V, NEW k \in 1..n PROVE AddLine(v, s[k]) \in V
    <3>1. s[k] \in Line
      BY ElementOfSeq
    <3> QED
      BY <3>1, AddLineType
  <2> QED
    BY <2>1, <2>2
<1>4. step \in Steps(n, V)
  <2>1. ASSUME NEW p \in V \X (1..n) PROVE AddLine(p[1], s[p[2]]) \in V
    <3>1. p[1] \in V /\ p[2] \in 1..n
      OBVIOUS
    <3> HIDE DEF step, V
    <3> QED
      BY <3>1, <1>3
  <2> HIDE DEF V
  <2> QED
    BY <2>1 DEF Steps
<1> HIDE DEF step, V, n
<1>5. \E f : eq(f)
  <2>1. PICK f : IsFold(f, n, V, base, step)
    BY <1>2, <1>4, FoldExists
  <2>2. /\ f \in [SUBSET (1..n) -> V]
        /\ \A t \in SUBSET (1..n) : f[t] = Folded(f, t, base, step)
    BY <2>1 DEF IsFold
  <2>3. ASSUME NEW t \in SUBSET (1..n), t # {}
        PROVE  f[t] = AddLine(f[t \ {Max(t)}], s[Max(t)])
    <3>1. Max(t) \in 1..n /\ t \ {Max(t)} \in SUBSET (1..n)
      BY <1>2, <2>3, Removing
    <3>2. f[t] = step[<<f[t \ {Max(t)}], Max(t)>>] /\ f[t \ {Max(t)}] \in V
      BY <2>2, <2>3, <3>1 DEF Folded
    <3> QED
      BY <3>1, <3>2, <1>3
  <2>4. f[{}] = base
    BY <2>2 DEF Folded
  <2>5. eq(f)
    BY <2>2, <2>3, <2>4, <1>2
  <2> QED
    BY <2>5
<1>6. eq(it)
  <2> HIDE DEF eq
  <2> QED
    BY <1>5
<1> HIDE DEF it
<1>7. Unfolds(it, n, V, base, step)
  <2>1. it[{}] = base
    BY <1>6
  <2>2. ASSUME NEW t \in SUBSET (1..n), t # {}, it[t \ {Max(t)}] \in V
        PROVE  it[t] = step[<<it[t \ {Max(t)}], Max(t)>>]
    <3>1. it[t] = AddLine(it[t \ {Max(t)}], s[Max(t)])
      BY <1>2, <1>6, <2>2
    <3>2. Max(t) \in 1..n
      BY <1>2, <2>2, Removing
    <3> QED
      BY <1>3, <2>2, <3>1, <3>2
  <2> QED
    BY <2>1, <2>2 DEF Unfolds
<1>8. PICK run : IsRun(run, n, V, base, step) /\ run[n] = it[1..n]
  BY <1>2, <1>4, <1>7, FoldRun
<1>9. ASSUME NEW k \in 1..n PROVE run[k] = AddLine(run[k - 1], s[k])
  <2>1. k - 1 \in 0..n
    BY <1>2
  <2>2. run[k - 1] \in V /\ run[k] = step[<<run[k - 1], k>>]
    BY <1>8, <2>1 DEF IsRun
  <2> QED
    BY <1>3, <2>2
<1>10. run \in [0..n -> V] /\ run[0] = base /\ run[n] = FoldLeft(AddLine, base, s)
  BY <1>1, <1>2, <1>8 DEF IsRun
<1> QED
  BY <1>9, <1>10 DEF n, V

\* The lines, one after the other.
LEMMA AddLinesIs ==
  ASSUME NEW out \in Line, NEW s \in Seq(Line)
  PROVE  /\ AddLines(out, s) \in Line /\ Goes(out, AddLines(out, s))
         /\ s = << >> => AddLines(out, s) = out
         /\ s # << >> => AddLines(out, s) = AddLines(AddLine(out, Head(s)), Tail(s))
<1> DEFINE f == [p \in Line \X Line |-> AddLine(p[1], p[2])]
<1>1. \A v \in Line, e \in Line : /\ f[<<v, e>>] = AddLine(v, e) /\ AddLine(v, e) \in Line
                              /\ Goes(v, f[<<v, e>>])
  BY AddLineType
<1> HIDE DEF f
<1>2. \A v \in Line, t \in Seq(Line) :
        \E run : Passes(run, t, Line, v, f) /\ run[Len(t)] = AddLines(v, t)
  <2> SUFFICES ASSUME NEW v \in Line, NEW t \in Seq(Line)
               PROVE  \E run : Passes(run, t, Line, v, f) /\ run[Len(t)] = AddLines(v, t)
    OBVIOUS
  <2>1. PICK run : /\ run \in [0..Len(t) -> Line] /\ run[0] = v
                   /\ \A k \in 1..Len(t) : run[k] = AddLine(run[k - 1], t[k])
                   /\ run[Len(t)] = FoldLeft(AddLine, v, t)
    BY AddLineRun
  <2>2. Len(t) \in Nat
    OBVIOUS
  <2>3. ASSUME NEW k \in 1..Len(t) PROVE run[k] = f[<<run[k - 1], t[k]>>]
    <3>1. k - 1 \in 0..Len(t)
      BY <2>2
    <3>2. run[k - 1] \in Line /\ t[k] \in Line
      BY <2>1, <3>1, ElementOfSeq
    <3> QED
      BY <1>1, <2>1, <3>2
  <2>4. Passes(run, t, Line, v, f)
    BY <2>1, <2>3 DEF Passes
  <2>5. run[Len(t)] = AddLines(v, t)
    BY <2>1 DEF AddLines
  <2> QED
    BY <2>4, <2>5
<1>3. PICK run : Passes(run, s, Line, out, f) /\ run[Len(s)] = AddLines(out, s)
  BY <1>2
<1>4. AddLines(out, s) \in Line /\ Goes(out, AddLines(out, s))
  <2>1. \A v \in Line, e \in Line : Goes(v, f[<<v, e>>])
    BY <1>1
  <2>2. Line = Seq(Args) /\ s \in Seq(Line) /\ out \in Line /\ Passes(run, s, Line, out, f)
    BY <1>3 DEF Line
  <2>3. run[Len(s)] \in Line /\ Goes(out, run[Len(s)])
    BY ONLY <2>1, <2>2, PassesKeep
  <2> QED
    BY <1>3, <2>3
<1>5. ASSUME s = << >> PROVE AddLines(out, s) = out
  BY <1>3, <1>5 DEF Passes
<1>6. ASSUME s # << >> PROVE AddLines(out, s) = AddLines(AddLine(out, Head(s)), Tail(s))
  <2> DEFINE h == Head(s)
             t == Tail(s)
             b == AddLine(out, h)
  <2>1. h \in Line /\ t \in Seq(Line)
    BY <1>6, HeadTailProperties
  <2>2. PICK q : Passes(q, t, Line, f[<<out, h>>], f) /\ q[Len(t)] = run[Len(s)]
    <3>1. s \in Seq(Line) /\ s # << >> /\ Passes(run, s, Line, out, f)
      BY <1>3, <1>6
    <3> QED
      BY ONLY <3>1, PassesOn DEF h, t
  <2> HIDE DEF h, t
  <2>3. f[<<out, h>>] = b /\ b \in Line
    BY <1>1, <2>1
  <2> HIDE DEF b
  <2>4. PICK r : Passes(r, t, Line, b, f) /\ r[Len(t)] = AddLines(b, t)
    BY <1>2, <2>1, <2>3
  <2>5. Passes(q, t, Line, b, f)
    BY <2>2, <2>3
  <2>6. q[Len(t)] = r[Len(t)]
    <3>1. Len(t) \in Nat
      BY <2>1
    <3> QED
      BY ONLY <2>4, <2>5, <3>1, PassesOnce
  <2> QED
    BY <1>3, <2>2, <2>4, <2>6 DEF b, h, t
<1> QED
  BY <1>4, <1>5, <1>6

-----------------------------------------------------------------------------
(* Lines up to the first with a quit.                                      *)

\* The lines with a quit.
Quits(lines) == {n \in 1..Len(lines) : HasQuit(lines[n])}

\* Lines are cut behind the first with a quit, or at their end.
CutAt(lines, e) ==
  /\ e \in 0..Len(lines) /\ \A n \in Quits(lines) : n >= e
  /\ e = Len(lines) \/ e \in Quits(lines)

\* The lines with a quit, and the first.
LEMMA QuitsAre ==
  ASSUME NEW lines \in Seq(Line)
  PROVE  /\ Len(lines) \in Nat /\ Quits(lines) \in SUBSET (1..Len(lines))
         /\ Quits(lines) # {} => /\ Min(Quits(lines)) \in Quits(lines)
                                 /\ \A m \in Quits(lines) : Min(Quits(lines)) <= m
<1>1. Len(lines) \in Nat /\ Quits(lines) \in SUBSET (1..Len(lines)) /\ Quits(lines) \in SUBSET Nat
  BY DEF Quits
<1> QED
  BY <1>1, MinIs

\* UpToQuit cuts the lines behind the first with a quit.
LEMMA CutIs ==
  ASSUME NEW lines \in Seq(Line), NEW e, CutAt(lines, e)
  PROVE  UpToQuit(lines) = SubSeq(lines, 1, e)
<1> DEFINE S == Quits(lines)
<1>1. UpToQuit(lines) = IF S = {} THEN lines ELSE SubSeq(lines, 1, Min(S))
  BY DEF UpToQuit, Quits
<1>2. /\ Len(lines) \in Nat /\ S \in SUBSET (1..Len(lines))
      /\ S # {} => Min(S) \in S /\ \A m \in S : Min(S) <= m
  BY QuitsAre
<1>3. e \in 0..Len(lines) /\ (\A n \in S : n >= e) /\ (e = Len(lines) \/ e \in S)
  BY DEF CutAt
<1> HIDE DEF S
<1>4. CASE S = {}
  BY <1>1, <1>3, <1>4, SubSeqFull
<1>5. CASE S # {}
  <2> DEFINE m == Min(S)
  <2>1. m \in S /\ m \in 1..Len(lines) /\ \A n \in S : m <= n
    BY <1>2, <1>5
  <2> HIDE DEF m
  <2>2. m = e
    BY <1>2, <1>3, <2>1
  <2> QED
    BY <1>1, <1>5, <2>2 DEF m
<1> QED
  BY <1>4, <1>5

\* They are cut somewhere.
LEMMA CutExists ==
  ASSUME NEW lines \in Seq(Line)
  PROVE  \E e : CutAt(lines, e)
<1> DEFINE S == Quits(lines)
<1>1. /\ Len(lines) \in Nat /\ S \in SUBSET (1..Len(lines))
      /\ S # {} => Min(S) \in S /\ \A m \in S : Min(S) <= m
  BY QuitsAre
<1> HIDE DEF S
<1>2. CASE S = {}
  <2>1. Len(lines) \in 0..Len(lines) /\ \A n \in S : n >= Len(lines)
    BY <1>1, <1>2
  <2>2. CutAt(lines, Len(lines))
    BY <2>1 DEF CutAt, S
  <2> QED
    BY <2>2
<1>3. CASE S # {}
  <2> DEFINE m == Min(S)
  <2>1. m \in S /\ \A n \in S : m <= n
    BY <1>1, <1>3
  <2> HIDE DEF m
  <2>2. m \in 0..Len(lines) /\ \A n \in S : n >= m
    BY <1>1, <2>1
  <2>3. CutAt(lines, m)
    BY <2>1, <2>2 DEF CutAt, S
  <2> QED
    BY <2>3
<1> QED
  BY <1>2, <1>3

\* One line in front: it is the last, if there is a quit in it.
LEMMA UpToQuitJoin ==
  ASSUME NEW l \in Line, NEW lines \in Seq(Line)
  PROVE  /\ UpToQuit(<<l>> \o lines) = IF HasQuit(l) THEN <<l>> ELSE <<l>> \o UpToQuit(lines)
         /\ UpToQuit(lines) \in Seq(Line)
<1> DEFINE p == <<l>>
           t == p \o lines
<1>1. p \in Seq(Line) /\ Len(p) = 1 /\ p[1] = l
  OBVIOUS
<1> HIDE DEF p
<1>2. /\ t \in Seq(Line) /\ Len(t) = 1 + Len(lines) /\ Len(lines) \in Nat
      /\ t[1] = l /\ \A j \in 1..Len(lines) : t[1 + j] = lines[j]
  <2>1. /\ t \in Seq(Line) /\ Len(t) = Len(p) + Len(lines)
        /\ \A n \in 1..Len(p) + Len(lines) : t[n] = IF n <= Len(p) THEN p[n] ELSE lines[n - Len(p)]
    BY <1>1, ConcatProperties
  <2>2. Len(lines) \in Nat
    OBVIOUS
  <2> HIDE DEF t
  <2>3. \A j \in 1..Len(lines) : 1 + j \in 1..1 + Len(lines) /\ ~(1 + j <= 1) /\ (1 + j) - 1 = j
    BY <2>2
  <2>4. 1 \in 1..1 + Len(lines)
    BY <2>2
  <2> QED
    BY <1>1, <2>1, <2>2, <2>3, <2>4
<1>3. PICK e : CutAt(lines, e)
  BY CutExists
<1>4. e \in 0..Len(lines) /\ (\A n \in Quits(lines) : n >= e) /\ (e = Len(lines) \/ e \in Quits(lines))
  BY <1>3 DEF CutAt
<1>5. UpToQuit(lines) = SubSeq(lines, 1, e) /\ SubSeq(lines, 1, e) \in Seq(Line)
  <2>1. lines \in Seq(Line) /\ e \in 0..Len(lines)
    BY <1>4
  <2>2. SubSeq(lines, 1, e) \in Seq(Line)
    BY ONLY <2>1, FirstOnes
  <2> QED
    BY <1>3, <2>2, CutIs
<1>6. \A e2 \in 0..Len(lines) : SubSeq(t, 1, 1 + e2) = p \o SubSeq(lines, 1, e2)
  <2> SUFFICES ASSUME NEW e2 \in 0..Len(lines)
               PROVE  SubSeq(t, 1, 1 + e2) = p \o SubSeq(lines, 1, e2)
    OBVIOUS
  <2>1. p \in Seq(Line) /\ lines \in Seq(Line) /\ e2 \in 0..Len(lines)
    BY <1>1
  <2>2. SubSeq(t, 1, Len(p) + e2) = p \o SubSeq(lines, 1, e2)
    BY ONLY <2>1, FirstOfConcat DEF t
  <2> QED
    BY <1>1, <2>2
<1> HIDE DEF t
<1>7. ASSUME NEW n \in 1..Len(t)
      PROVE  /\ n = 1 => (n \in Quits(t) <=> HasQuit(l))
             /\ n # 1 => n - 1 \in 1..Len(lines) /\ (n \in Quits(t) <=> n - 1 \in Quits(lines))
  <2>1. n # 1 => n - 1 \in 1..Len(lines) /\ 1 + (n - 1) = n
    BY <1>2
  <2>2. n \in Quits(t) <=> HasQuit(t[n])
    BY DEF Quits
  <2>3. n # 1 => t[n] = lines[n - 1]
    BY <1>2, <2>1
  <2>4. n # 1 => (n - 1 \in Quits(lines) <=> HasQuit(lines[n - 1]))
    BY <2>1 DEF Quits
  <2> QED
    BY <1>2, <2>1, <2>2, <2>3, <2>4
<1>8. ASSUME HasQuit(l) PROVE UpToQuit(t) = p
  <2>1. 1 \in 1..Len(t) /\ 1 \in 0..Len(t)
    BY <1>2
  <2>2. 1 \in Quits(t)
    BY <1>7, <1>8, <2>1
  <2>3. \A n \in Quits(t) : n >= 1
    BY DEF Quits
  <2>4. CutAt(t, 1)
    BY <2>1, <2>2, <2>3 DEF CutAt
  <2>5. UpToQuit(t) = SubSeq(t, 1, 1)
    BY <1>2, <2>4, CutIs
  <2>6. 0 \in 0..Len(lines) /\ 1 + 0 = 1
    BY <1>2
  <2>7. SubSeq(t, 1, 1) = p \o SubSeq(lines, 1, 0)
    BY <1>6, <2>6
  <2>8. SubSeq(lines, 1, 0) = << >>
    BY SubSeqEmpty
  <2> QED
    BY <1>1, <2>5, <2>7, <2>8, ConcatEmptySeq
<1>9. ASSUME ~HasQuit(l) PROVE UpToQuit(t) = p \o UpToQuit(lines)
  <2>1. 1 + e \in 0..Len(t) /\ (e = Len(lines) => 1 + e = Len(t))
    BY <1>2, <1>4
  <2>2. ASSUME NEW n \in Quits(t) PROVE n >= 1 + e
    <3>1. n \in 1..Len(t)
      BY DEF Quits
    <3>2. n # 1 /\ n - 1 \in Quits(lines)
      BY <1>7, <1>9, <3>1
    <3>3. n - 1 >= e
      BY <1>4, <3>2
    <3> QED
      BY <1>4, <3>1, <3>3
  <2>3. e \in Quits(lines) => 1 + e \in Quits(t)
    <3>1. e \in Quits(lines) => e \in 1..Len(lines)
      BY DEF Quits
    <3>2. e \in 1..Len(lines) => 1 + e \in 1..Len(t) /\ 1 + e # 1 /\ (1 + e) - 1 = e
      BY <1>2
    <3> QED
      BY <1>7, <3>1, <3>2
  <2>4. CutAt(t, 1 + e)
    BY <1>4, <2>1, <2>2, <2>3 DEF CutAt
  <2>5. UpToQuit(t) = SubSeq(t, 1, 1 + e)
    BY <1>2, <2>4, CutIs
  <2> QED
    BY <1>4, <1>5, <1>6, <2>5
<1> QED
  BY <1>5, <1>8, <1>9 DEF t, p

\* What is tried, in the end, of lines, when out has been tried before.
Asks(out, lines) == AddLines(out, UpToQuit(lines))

\* What is tried begins with what has been tried before.
LEMMA AsksIs ==
  ASSUME NEW out \in Line, NEW lines \in Seq(Line)
  PROVE  /\ Asks(out, lines) \in Line /\ Goes(out, Asks(out, lines))
         /\ Asks(out, << >>) = out
<1>1. UpToQuit(lines) \in Seq(Line)
  <2>1. << >> \in Line
    BY DEF Line
  <2> QED
    BY <2>1, UpToQuitJoin
<1>2. UpToQuit(<< >>) = << >>
  BY DEF UpToQuit
<1>3. << >> \in Seq(Line)
  OBVIOUS
<1> QED
  BY <1>1, <1>2, <1>3, AddLinesIs DEF Asks

\* One line in front is tried first.
LEMMA AddLinesJoin ==
  ASSUME NEW out \in Line, NEW l \in Line, NEW x \in Seq(Line)
  PROVE  AddLines(out, <<l>> \o x) = AddLines(AddLine(out, l), x)
<1> DEFINE s == <<l>> \o x
<1>1. s \in Seq(Line) /\ s # << >> /\ Head(s) = l
  OBVIOUS
<1>2. Tail(s) = x
  OBVIOUS
<1> HIDE DEF s
<1>3. AddLines(out, s) = AddLines(AddLine(out, Head(s)), Tail(s))
  BY <1>1, AddLinesIs
<1> QED
  BY <1>1, <1>2, <1>3 DEF s

\* And the others after it, unless there is a quit in it.
LEMMA AsksJoin ==
  ASSUME NEW out \in Line, NEW l \in Line, NEW lines \in Seq(Line)
  PROVE  Asks(out, <<l>> \o lines) = IF HasQuit(l) THEN AddLine(out, l)
                                     ELSE Asks(AddLine(out, l), lines)
<1> DEFINE u == UpToQuit(lines)
           b == AddLine(out, l)
<1>1. u \in Seq(Line) /\ UpToQuit(<<l>> \o lines) = IF HasQuit(l) THEN <<l>> ELSE <<l>> \o u
  BY UpToQuitJoin
<1>2. b \in Line
  BY AddLineType
<1>3. AddLines(out, <<l>> \o u) = AddLines(b, u)
  BY <1>1, AddLinesJoin
<1>4. AddLines(out, <<l>>) = b
  <2>1. << >> \in Seq(Line) /\ <<l>> \o << >> = <<l>>
    OBVIOUS
  <2>2. AddLines(out, <<l>> \o << >>) = AddLines(b, << >>)
    BY <2>1, AddLinesJoin
  <2>3. AddLines(b, << >>) = b
    BY <1>2, <2>1, AddLinesIs
  <2> QED
    BY <2>1, <2>2, <2>3
<1> QED
  BY <1>1, <1>3, <1>4 DEF Asks

\* The same for the first line of a text.
LEMMA AsksFirst ==
  ASSUME NEW out \in Line, NEW a \in Seq(Chars), NEW lines \in Seq(Line)
  PROVE  /\ CommandsOf(a) \in Line
         /\ Asks(out, FirstLine(a) \o lines)
              = IF HasQuit(CommandsOf(a)) THEN AddLine(out, CommandsOf(a))
                ELSE Asks(AddLine(out, CommandsOf(a)), lines)
<1> DEFINE l == CommandsOf(a)
<1>1. l \in Line /\ (a = << >> => l = << >>)
  BY CommandsType
<1> HIDE DEF l
<1>2. CASE a # << >>
  <2>1. FirstLine(a) = <<l>>
    BY <1>2 DEF FirstLine, l
  <2> QED
    BY <1>1, <2>1, AsksJoin DEF l
<1>3. CASE a = << >>
  <2>1. FirstLine(a) = << >> /\ << >> \o lines = lines
    BY <1>3, ConcatEmptySeq DEF FirstLine
  <2>2. AddLine(out, l) = out
    <3>1. l \in Seq(Args) /\ l = << >>
      BY <1>1, <1>3 DEF Line
    <3> QED
      BY <3>1, AddLineIs
  <2>3. ~HasQuit(l)
    BY <1>1, <1>3 DEF HasQuit
  <2> QED
    BY <1>1, <2>1, <2>2, <2>3 DEF l
<1> QED
  BY <1>2, <1>3

-----------------------------------------------------------------------------
(* What getStringFromFile takes of the text r that is still to come.       *)

\* The ends of lines in r, the length of the first line and of what is taken,
\* the line itself, whether the input ends with it, and what is left.
LineEnds(r) == {k \in 1..Len(r) : r[k] \in {"nl", "FF"}}
LineLen(r) == IF LineEnds(r) = {} THEN Len(r) ELSE Min(LineEnds(r)) - 1
Taken(r) == IF LineEnds(r) = {} THEN LineLen(r) ELSE LineLen(r) + 1
FirstOf(r) == SubSeq(r, 1, LineLen(r))
EofAfter(r) == LineEnds(r) = {} \/ r[LineLen(r) + 1] = "FF"
RestOf(r) == SubSeq(r, Taken(r) + 1, Len(r))

\* A text without the end of a line in it.
LEMMA ReadLast ==
  ASSUME NEW r \in Seq(Chars), LineEnds(r) = {}
  PROVE  /\ FirstOf(r) = r /\ EofAfter(r) /\ Taken(r) = Len(r) /\ RestOf(r) = << >>
         /\ LinesOf(r) = FirstLine(r) \o LinesOf(RestOf(r))
<1>1. Len(r) \in Nat /\ LineLen(r) = Len(r) /\ Taken(r) = Len(r)
  BY DEF LineLen, Taken
<1>2. FirstOf(r) = r
  BY <1>1, SubSeqFull DEF FirstOf
<1>3. RestOf(r) = << >>
  BY <1>1, SubSeqEmpty DEF RestOf
<1>4. \A j \in 1..Len(r) : r[j] \notin Ends
  BY DEF LineEnds, Ends
<1>5. LinesOf(r) = FirstLine(r) /\ LinesOf(<< >>) = << >>
  <2>1. << >> \in Seq(Chars)
    OBVIOUS
  <2> QED
    BY <1>4, <2>1, LinesLast, LinesNone
<1>6. FirstLine(r) \in Seq(Line)
  <2>1. LinesOf(r) \in Seq(Line)
    BY UpToType
  <2> QED
    BY <1>5, <2>1
<1>7. FirstLine(r) \o << >> = FirstLine(r)
  BY <1>6, ConcatEmptySeq
<1> QED
  BY <1>1, <1>2, <1>3, <1>5, <1>7 DEF EofAfter

\* A text with the end of a line in it.
LEMMA ReadFirst ==
  ASSUME NEW r \in Seq(Chars), LineEnds(r) # {}
  PROVE  /\ Taken(r) \in 1..Len(r) /\ FirstOf(r) \in Seq(Chars) /\ RestOf(r) \in Seq(Chars)
         /\ EofAfter(r) /\ FirstOf(r) = << >> => r[1] = "FF"
         /\ ~(EofAfter(r) /\ FirstOf(r) = << >>) =>
              LinesOf(r) = FirstLine(FirstOf(r)) \o LinesOf(RestOf(r))
<1> DEFINE S == LineEnds(r)
           m == Min(S)
           d == r[m]
           a == FirstOf(r)
           b == RestOf(r)
<1>1. Len(r) \in Nat /\ S \in SUBSET Nat
  BY DEF LineEnds
<1>2. m \in S /\ \A n \in S : m <= n
  BY <1>1, MinIs
<1>3. m \in 1..Len(r) /\ d \in Ends
  BY <1>2 DEF LineEnds, Ends
<1> HIDE DEF m
<1>4. LineLen(r) = m - 1 /\ Taken(r) = m
  BY <1>3 DEF LineLen, Taken, m
<1>5. a = SubSeq(r, 1, m - 1) /\ b = SubSeq(r, m + 1, Len(r))
  BY <1>4 DEF FirstOf, RestOf
<1>6. a \in Seq(Chars) /\ Len(a) = m - 1 /\ \A j \in 1..m - 1 : a[j] = r[j]
  <2> DEFINE k == m - 1
  <2>1. r \in Seq(Chars) /\ k \in 0..Len(r)
    BY <1>1, <1>3
  <2> HIDE DEF k
  <2>2. /\ SubSeq(r, 1, k) \in Seq(Chars) /\ Len(SubSeq(r, 1, k)) = k
        /\ \A j \in 1..k : SubSeq(r, 1, k)[j] = r[j]
    BY ONLY <2>1, FirstOnes
  <2> QED
    BY <1>5, <2>2 DEF k
<1>7. /\ b \in Seq(Chars) /\ Len(b) = Len(r) - m
      /\ \A j \in 1..Len(r) - m : b[j] = r[m + j]
  <2>1. m + 1 \in Int /\ Len(r) \in Int /\ \A j \in m + 1..Len(r) : r[j] \in Chars
    BY <1>1, <1>3, ElementOfSeq
  <2>2. /\ b \in Seq(Chars) /\ Len(b) = IF m + 1 <= Len(r) THEN Len(r) - (m + 1) + 1 ELSE 0
        /\ \A j \in 1..Len(r) - (m + 1) + 1 : b[j] = r[m + 1 + j - 1]
    BY <1>5, <2>1, SubSeqProperties
  <2> HIDE DEF b
  <2>3. Len(b) = Len(r) - m /\ \A j \in 1..Len(r) - m : j \in 1..Len(r) - (m + 1) + 1 /\ m + 1 + j - 1 = m + j
    BY <1>1, <1>3, <2>2
  <2> QED
    BY <2>2, <2>3
<1>8. \A j \in 1..Len(a) : a[j] \notin Ends
  <2> SUFFICES ASSUME NEW j \in 1..m - 1 PROVE r[j] \notin Ends
    BY <1>6
  <2>1. j \in 1..Len(r) /\ ~(m <= j)
    BY <1>1, <1>3
  <2>2. j \notin S
    BY <1>2, <2>1
  <2> QED
    BY <2>1, <2>2 DEF LineEnds, Ends
<1>9. EofAfter(r) <=> d = "FF"
  <2>1. (m - 1) + 1 = m
    BY <1>3
  <2> QED
    BY <1>4, <2>1 DEF EofAfter
<1>10. a = << >> <=> m = 1
  <2>1. a = << >> => Len(a) = 0
    OBVIOUS
  <2>2. a # << >> => Len(a) # 0
    BY <1>6, EmptySeq
  <2> HIDE DEF a
  <2> QED
    BY <1>3, <1>6, <2>1, <2>2
<1> HIDE DEF a, b, S, d
<1>11. r = Append(a, d) \o b
  <2> DEFINE p == Append(a, d)
             t == p \o b
  <2>1. d \in Chars
    BY <1>3 DEF Ends, Chars
  <2>2. /\ p \in Seq(Chars) /\ Len(p) = m /\ p[m] = d /\ \A j \in 1..m - 1 : p[j] = r[j]
    <3>1. /\ p \in Seq(Chars) /\ Len(p) = Len(a) + 1 /\ p[Len(a) + 1] = d
          /\ \A j \in 1..Len(a) : p[j] = a[j]
      BY <1>6, <2>1, AppendProperties
    <3> HIDE DEF p
    <3>2. Len(a) + 1 = m
      BY <1>3, <1>6
    <3> QED
      BY <1>6, <3>1, <3>2
  <2> HIDE DEF p
  <2>3. /\ t \in Seq(Chars) /\ Len(t) = Len(p) + Len(b)
        /\ \A n \in 1..Len(p) + Len(b) : t[n] = IF n <= Len(p) THEN p[n] ELSE b[n - Len(p)]
    BY <1>7, <2>2, ConcatProperties
  <2> HIDE DEF t
  <2>4. Len(t) = Len(r)
    BY <1>1, <1>3, <1>7, <2>2, <2>3
  <2>5. ASSUME NEW n \in 1..Len(r) PROVE t[n] = r[n]
    <3>1. t[n] = IF n <= m THEN p[n] ELSE b[n - m]
      BY <2>2, <2>3, <2>4
    <3>2. CASE n \in 1..m - 1
      BY <1>3, <2>2, <3>1, <3>2
    <3>3. CASE n = m
      BY <1>3, <2>2, <3>1, <3>3 DEF d
    <3>4. CASE n > m
      <4>1. n - m \in 1..Len(r) - m /\ m + (n - m) = n /\ ~(n <= m)
        BY <1>1, <1>3, <3>4
      <4> QED
        BY <1>7, <3>1, <4>1
    <3> QED
      BY <1>3, <3>2, <3>3, <3>4
  <2>6. t = r
    <3>1. t \in Seq(Chars) /\ r \in Seq(Chars) /\ Len(t) = Len(r) /\ \A n \in 1..Len(t) : t[n] = r[n]
      BY <2>3, <2>4, <2>5
    <3> QED
      BY ONLY <3>1, SeqEqual
  <2> QED
    BY <2>6 DEF t, p
<1>12. ASSUME ~(EofAfter(r) /\ a = << >>) PROVE LinesOf(r) = FirstLine(a) \o LinesOf(b)
  <2>1. a = << >> => d = "nl"
    BY <1>3, <1>9, <1>12 DEF Ends
  <2>2. LinesOf(Append(a, d) \o b) = FirstLine(a) \o LinesOf(b)
    BY <1>3, <1>6, <1>7, <1>8, <2>1, LinesJoin
  <2> QED
    BY <1>11, <2>2
<1>13. EofAfter(r) /\ a = << >> => r[1] = "FF"
  BY <1>9, <1>10 DEF d
<1> QED
  BY <1>3, <1>4, <1>6, <1>7, <1>12, <1>13 DEF a, b

\* What is tried of a text: of its first line, and then of the rest.
LEMMA ReadIs ==
  ASSUME NEW r \in Seq(Chars), NEW out \in Line
  PROVE  /\ Taken(r) \in 0..Len(r) /\ (r # << >> => Taken(r) # 0)
         /\ FirstOf(r) \in Seq(Chars) /\ RestOf(r) \in Seq(Chars)
         /\ EofAfter(r) /\ FirstOf(r) = << >> => Asks(out, LinesOf(r)) = out
         /\ ~(EofAfter(r) /\ FirstOf(r) = << >>) =>
              Asks(out, LinesOf(r))
                = IF HasQuit(CommandsOf(FirstOf(r))) THEN AddLine(out, CommandsOf(FirstOf(r)))
                  ELSE Asks(AddLine(out, CommandsOf(FirstOf(r))), LinesOf(RestOf(r)))
<1> DEFINE a == FirstOf(r)
           b == RestOf(r)
           t == Taken(r)
<1>0. Len(r) \in Nat /\ (r # << >> => Len(r) # 0)
  BY EmptySeq
<1>1. /\ t \in 0..Len(r) /\ (r # << >> => t # 0)
      /\ a \in Seq(Chars) /\ b \in Seq(Chars)
      /\ EofAfter(r) /\ a = << >> => LinesOf(r) = << >>
      /\ ~(EofAfter(r) /\ a = << >>) => LinesOf(r) = FirstLine(a) \o LinesOf(b)
  <2>1. CASE LineEnds(r) = {}
    <3>1. /\ a = r /\ t = Len(r) /\ b = << >> /\ LinesOf(r) = FirstLine(r) \o LinesOf(b)
      BY <2>1, ReadLast
    <3> HIDE DEF a, b, t
    <3>2. r = << >> => LinesOf(r) = << >>
      BY LinesNone
    <3> QED
      BY <1>0, <3>1, <3>2
  <2>2. CASE LineEnds(r) # {}
    <3>1. /\ t \in 1..Len(r) /\ a \in Seq(Chars) /\ b \in Seq(Chars)
          /\ EofAfter(r) /\ a = << >> => r[1] = "FF"
          /\ ~(EofAfter(r) /\ a = << >>) => LinesOf(r) = FirstLine(a) \o LinesOf(b)
      BY <2>2, ReadFirst
    <3> HIDE DEF a, b, t
    <3>2. r[1] = "FF" => LinesOf(r) = << >>
      BY LinesNone
    <3> QED
      BY <1>0, <3>1, <3>2
  <2> QED
    BY <2>1, <2>2
<1> HIDE DEF a, b, t
<1>2. LinesOf(b) \in Seq(Line)
  BY <1>1, UpToType
<1>3. Asks(out, FirstLine(a) \o LinesOf(b))
        = IF HasQuit(CommandsOf(a)) THEN AddLine(out, CommandsOf(a))
          ELSE Asks(AddLine(out, CommandsOf(a)), LinesOf(b))
  BY <1>1, <1>2, AsksFirst
<1>4. Asks(out, << >>) = out
  <2>1. << >> \in Seq(Line)
    OBVIOUS
  <2> QED
    BY <2>1, AsksIs
<1> QED
  BY <1>1, <1>3, <1>4 DEF a, b, t

-----------------------------------------------------------------------------
(* The input, as long as no child has moved the offset: it is read from    *)
(* start to end, once.                                                     *)

\* Nothing has been read, or the buffer holds what is left.
InPlace ==
  /\ text \in Texts /\ pos \in 1..End /\ offset \in {1, End}
  /\ offset # End => pos = End

\* Where the shell goes on reading, and what it has still to read.
At == IF offset = End THEN pos ELSE 1
Unread == SubSeq(text, At, Len(text))

\* What is behind a place of a sequence.
LEMMA SuffixOf ==
  ASSUME NEW A, NEW s \in Seq(A), NEW k \in 1..Len(s) + 1
  PROVE  /\ SubSeq(s, k, Len(s)) \in Seq(A) /\ Len(SubSeq(s, k, Len(s))) = Len(s) + 1 - k
         /\ \A j \in 1..Len(s) + 1 - k : SubSeq(s, k, Len(s))[j] = s[k + j - 1]
<1> DEFINE n == Len(s)
           u == SubSeq(s, k, n)
<1>1. n \in Nat /\ k \in Int /\ \A j \in k..n : s[j] \in A
  BY ElementOfSeq
<1>2. /\ u \in Seq(A) /\ Len(u) = IF k <= n THEN n - k + 1 ELSE 0
      /\ \A j \in 1..n - k + 1 : u[j] = s[k + j - 1]
  BY <1>1, SubSeqProperties
<1> HIDE DEF u, n
<1>3. n + 1 - k = n - k + 1 /\ Len(u) = n + 1 - k
  BY <1>1, <1>2 DEF n
<1> QED
  BY <1>2, <1>3 DEF u, n

\* What is behind a place of that.
LEMMA SuffixOfSuffix ==
  ASSUME NEW A, NEW s \in Seq(A), NEW k \in 1..Len(s) + 1, NEW r, r = SubSeq(s, k, Len(s)),
         NEW j \in 0..Len(r)
  PROVE  /\ k + j \in 1..Len(s) + 1 /\ SubSeq(r, j + 1, Len(r)) = SubSeq(s, k + j, Len(s))
<1> DEFINE v == SubSeq(r, j + 1, Len(r))
           w == SubSeq(s, k + j, Len(s))
<1>1. Len(s) \in Nat
  OBVIOUS
<1>2. /\ r \in Seq(A) /\ Len(r) = Len(s) + 1 - k
      /\ \A n \in 1..Len(s) + 1 - k : r[n] = s[k + n - 1]
  BY SuffixOf
<1>3. k + j \in 1..Len(s) + 1 /\ j + 1 \in 1..Len(r) + 1
  BY <1>1, <1>2
<1>4. /\ v \in Seq(A) /\ Len(v) = Len(r) + 1 - (j + 1)
      /\ \A n \in 1..Len(r) + 1 - (j + 1) : v[n] = r[j + 1 + n - 1]
  <2> DEFINE i1 == j + 1
  <2>1. r \in Seq(A) /\ i1 \in 1..Len(r) + 1
    BY <1>2, <1>3
  <2> HIDE DEF i1
  <2>2. /\ SubSeq(r, i1, Len(r)) \in Seq(A) /\ Len(SubSeq(r, i1, Len(r))) = Len(r) + 1 - i1
        /\ \A n \in 1..Len(r) + 1 - i1 : SubSeq(r, i1, Len(r))[n] = r[i1 + n - 1]
    BY ONLY <2>1, SuffixOf
  <2> QED
    BY <2>2 DEF i1
<1>5. /\ w \in Seq(A) /\ Len(w) = Len(s) + 1 - (k + j)
      /\ \A n \in 1..Len(s) + 1 - (k + j) : w[n] = s[k + j + n - 1]
  <2> DEFINE i1 == k + j
  <2>1. s \in Seq(A) /\ i1 \in 1..Len(s) + 1
    BY <1>3
  <2> HIDE DEF i1
  <2>2. /\ SubSeq(s, i1, Len(s)) \in Seq(A) /\ Len(SubSeq(s, i1, Len(s))) = Len(s) + 1 - i1
        /\ \A n \in 1..Len(s) + 1 - i1 : SubSeq(s, i1, Len(s))[n] = s[i1 + n - 1]
    BY ONLY <2>1, SuffixOf
  <2> QED
    BY <2>2 DEF i1
<1> HIDE DEF v, w
<1>6. ASSUME NEW n \in 1..Len(v) PROVE v[n] = w[n]
  <2>1. n \in 1..Len(s) + 1 - (k + j) /\ n \in 1..Len(r) + 1 - (j + 1)
    BY <1>1, <1>2, <1>4
  <2>2. j + 1 + n - 1 \in 1..Len(s) + 1 - k /\ k + (j + 1 + n - 1) - 1 = k + j + n - 1
    BY <1>1, <1>2, <2>1
  <2> QED
    BY <1>2, <1>4, <1>5, <2>1, <2>2
<1>7. v = w
  <2>1. v \in Seq(A) /\ w \in Seq(A) /\ Len(v) = Len(w) /\ \A n \in 1..Len(v) : v[n] = w[n]
    BY <1>1, <1>2, <1>4, <1>5, <1>6
  <2> QED
    BY ONLY <2>1, SeqEqual
<1> QED
  BY <1>3, <1>7 DEF v, w

\* What is unread is a string, and goes up to the end of the text.
LEMMA UnreadType ==
  ASSUME InPlace
  PROVE  /\ text \in Seq(Chars) /\ Len(text) \in Nat /\ End = Len(text) + 1 /\ At \in 1..Len(text) + 1
         /\ Unread \in Seq(Chars) /\ Len(Unread) = Len(text) + 1 - At
<1>1. text \in Seq(Chars) /\ Len(text) \in Nat /\ End = Len(text) + 1
  <2>1. text \in Seq(Chars)
    BY ShellAssumption DEF InPlace
  <2> QED
    BY <2>1 DEF End
<1>2. At \in 1..Len(text) + 1
  BY <1>1 DEF InPlace, At
<1>3. Unread \in Seq(Chars) /\ Len(Unread) = Len(text) + 1 - At
  BY <1>1, <1>2, SuffixOf DEF Unread
<1> QED
  BY <1>1, <1>2, <1>3

\* getStringFromFile returns the first of the lines to come, and goes to where
\* the others begin.
LEMMA GetsFirst ==
  ASSUME InPlace
  PROVE  /\ GetStringFromFile.str = FirstOf(Unread)
         /\ GetStringFromFile.eof <=> EofAfter(Unread)
         /\ GetStringFromFile.offset = End
         /\ GetStringFromFile.pos \in 1..End
         /\ SubSeq(text, GetStringFromFile.pos, Len(text)) = RestOf(Unread)
<1> DEFINE r == Unread
           t == Taken(r)
           rest == SubSeq(text, pos, End - 1) \o SubSeq(text, offset, End - 1)
<1>1. /\ text \in Seq(Chars) /\ Len(text) \in Nat /\ End = Len(text) + 1 /\ At \in 1..Len(text) + 1
      /\ r \in Seq(Chars) /\ Len(r) = Len(text) + 1 - At /\ End - 1 = Len(text)
  <2>1. /\ text \in Seq(Chars) /\ Len(text) \in Nat /\ End = Len(text) + 1 /\ At \in 1..Len(text) + 1
        /\ r \in Seq(Chars) /\ Len(r) = Len(text) + 1 - At
    BY UnreadType
  <2> QED
    BY <2>1
<1>2. rest = r
  <2>1. SubSeq(text, End, Len(text)) = << >>
    BY <1>1, SubSeqEmpty
  <2>2. CASE offset = End
    <3>1. r = SubSeq(text, pos, Len(text))
      BY <2>2 DEF Unread, At
    <3>2. r \o << >> = r
      BY <1>1, ConcatEmptySeq
    <3>3. rest = r \o << >>
      BY <1>1, <2>1, <2>2, <3>1
    <3> QED
      BY <3>2, <3>3
  <2>3. CASE offset # End
    <3>1. r = SubSeq(text, 1, Len(text)) /\ pos = End /\ offset = 1
      BY <2>3 DEF Unread, At, InPlace
    <3>2. << >> \o r = r
      BY <1>1, ConcatEmptySeq
    <3>3. rest = << >> \o r
      BY <1>1, <2>1, <3>1
    <3> QED
      BY <3>2, <3>3
  <2> QED
    BY <2>2, <2>3
<1>3. t \in 0..Len(r) /\ (r # << >> => t # 0)
  <2>1. << >> \in Line
    BY DEF Line
  <2> QED
    BY <1>1, <2>1, ReadIs
<1>4. At + t \in 1..Len(text) + 1 /\ RestOf(r) = SubSeq(text, At + t, Len(text))
  <2>1. text \in Seq(Chars) /\ At \in 1..Len(text) + 1 /\ r = SubSeq(text, At, Len(text))
        /\ t \in 0..Len(r)
    BY <1>1, <1>3 DEF Unread
  <2> HIDE DEF r, t
  <2>2. At + t \in 1..Len(text) + 1 /\ SubSeq(r, t + 1, Len(r)) = SubSeq(text, At + t, Len(text))
    BY ONLY <2>1, SuffixOfSuffix
  <2> QED
    BY <2>2 DEF RestOf, r, t
<1> DEFINE in == GetStringFromFile
<1>5. /\ in.str = FirstOf(rest) /\ (in.eof <=> EofAfter(rest))
      /\ in.pos = IF Taken(rest) <= End - pos THEN pos + Taken(rest)
                  ELSE offset + Taken(rest) - (End - pos)
      /\ in.offset = IF Taken(rest) <= End - pos THEN offset ELSE End
  <2> HIDE DEF rest
  <2>1. GetStringFromFile =
          [str |-> FirstOf(rest), eof |-> EofAfter(rest),
           pos |-> IF Taken(rest) <= End - pos THEN pos + Taken(rest)
                   ELSE offset + Taken(rest) - (End - pos),
           offset |-> IF Taken(rest) <= End - pos THEN offset ELSE End]
    BY Zenon DEF GetStringFromFile, FirstOf, EofAfter, Taken, LineLen, LineEnds, rest
  <2> HIDE DEF in
  <2> QED
    BY <2>1 DEF in
<1>6. in.pos = At + t /\ in.offset = End
  <2> HIDE DEF r, t, rest, in
  <2>1. /\ in.pos = IF t <= End - pos THEN pos + t ELSE offset + t - (End - pos)
        /\ in.offset = IF t <= End - pos THEN offset ELSE End
    BY <1>2, <1>5 DEF t
  <2>2. pos \in 1..End /\ (offset = End \/ (offset = 1 /\ pos = End /\ End # 1))
    BY DEF InPlace
  <2>3. CASE offset = End
    <3>1. At = pos
      BY <2>3 DEF At
    <3> QED
      BY <1>1, <1>3, <2>1, <2>2, <2>3, <3>1
  <2>4. CASE offset = 1 /\ pos = End /\ End # 1
    <3>1. At = 1
      BY <2>4 DEF At
    <3>2. r # << >> /\ t # 0 /\ t \in Nat
      <4>1. Len(r) # 0 /\ t \in Nat
        BY <1>1, <1>3, <2>4, <3>1
      <4>2. r # << >>
        BY <4>1
      <4> QED
        BY <1>3, <4>1, <4>2
    <3>3. ~(t <= End - pos) /\ End - pos = 0 /\ 1 + t - 0 = 1 + t
      BY <1>1, <2>4, <3>2
    <3> QED
      BY <2>1, <2>4, <3>1, <3>3
  <2> QED
    BY <2>2, <2>3, <2>4
<1> QED
  BY <1>1, <1>2, <1>4, <1>5, <1>6

-----------------------------------------------------------------------------
(* The shell tries what the text asks for.                                 *)

\* The commands in hand and then the lines to come, unless one of the commands
\* is quit or the shell has met one in this line.
ToCome == IF keep_running /\ ~HasQuit(cmds)
          THEN Asks(AddLine(attempts, cmds), LinesOf(Unread))
          ELSE AddLine(attempts, cmds)

InOrder ==
  /\ InPlace
  /\ attempts \in Line /\ cmds \in Line
  /\ pc \in {"prompt", "run", "foreground", "wait", "done"}
  /\ pc = "wait" => cmds = << >>
  /\ pc = "prompt" => keep_running /\ Wanted[text] = Asks(attempts, LinesOf(Unread))
  /\ pc \in {"run", "foreground", "wait"} => Wanted[text] = ToCome
  /\ pc = "done" => Wanted[text] = attempts

\* The inductive invariant: it says nothing once a child has moved the offset.
RInv == text \in Texts /\ (~rewound => InOrder)

\* Goes, said with IsPrefix.
LEMMA GoesPrefix ==
  ASSUME NEW v \in Line, NEW w \in Line, Goes(v, w)
  PROVE  IsPrefix(v, w)
<1> DEFINE n == Len(v)
           x == SubSeq(w, 1, n)
<1>1. v \in Seq(Args) /\ w \in Seq(Args) /\ n \in 0..Len(w) /\ \A j \in 1..n : w[j] = v[j]
  BY DEF Line, Goes
<1>2. x \in Seq(Args) /\ Len(x) = n /\ \A j \in 1..n : x[j] = w[j]
  <2>1. w \in Seq(Args) /\ n \in 0..Len(w)
    BY <1>1
  <2> HIDE DEF n
  <2> QED
    BY ONLY <2>1, FirstOnes
<1> HIDE DEF x
<1>3. x = v
  <2>1. x \in Seq(Args) /\ v \in Seq(Args) /\ Len(x) = Len(v) /\ \A j \in 1..Len(x) : x[j] = v[j]
    BY <1>1, <1>2
  <2> QED
    BY ONLY <2>1, SeqEqual
<1>4. SubSeq(v, 1, Len(v)) = v /\ Len(v) <= Len(w)
  BY <1>1, SubSeqFull
<1> QED
  BY <1>3, <1>4 DEF IsPrefix, x

\* What is to come begins with what has been tried.
LEMMA ToComeGoes ==
  ASSUME InOrder
  PROVE  Wanted[text] \in Line /\ Goes(attempts, Wanted[text])
<1> DEFINE w == Wanted[text]
           ls == LinesOf(Unread)
           a == AddLine(attempts, cmds)
<1>1. attempts \in Line /\ cmds \in Line /\ cmds \in Seq(Args) /\ Unread \in Seq(Chars)
  BY UnreadType DEF InOrder, Line
<1>2. ls \in Seq(Line)
  BY <1>1, UpToType
<1>3. a \in Line /\ Goes(attempts, a)
  BY <1>1, AddLineType
<1> HIDE DEF ls, a
<1>4. \A b \in Line : Asks(b, ls) \in Line /\ Goes(b, Asks(b, ls))
  BY <1>2, AsksIs
<1>5. \A x, y, z \in Line : Goes(x, y) /\ Goes(y, z) => Goes(x, z)
  <2> SUFFICES ASSUME NEW x \in Line, NEW y \in Line, NEW z \in Line, Goes(x, y), Goes(y, z)
               PROVE  Goes(x, z)
    OBVIOUS
  <2>1. Len(x) \in Nat /\ Len(y) \in Nat /\ Len(z) \in Nat
    BY DEF Line
  <2> QED
    BY <2>1 DEF Goes
<1>6. Goes(attempts, attempts)
  <2>1. Len(attempts) \in Nat
    BY <1>1 DEF Line
  <2> QED
    BY <2>1 DEF Goes
<1>7. w = attempts \/ w = a \/ w = Asks(attempts, ls) \/ w = Asks(a, ls)
  BY DEF InOrder, ToCome, a, ls
<1> HIDE DEF w
<1>8. w \in Line /\ Goes(attempts, w)
  BY <1>1, <1>3, <1>4, <1>5, <1>6, <1>7
<1> QED
  BY <1>8 DEF w

\* The next command, and the others of the line.
LEMMA NextCommand ==
  ASSUME NEW out \in Line, NEW line \in Line, line # << >>
  PROVE  /\ Head(line) \in Args /\ Tail(line) \in Line
         /\ AddLine(out, line) = AddLine(AddCommand(out, Head(line)), Tail(line))
         /\ HasQuit(line) <=> (IsQuit(Head(line)) \/ HasQuit(Tail(line)))
<1>1. line \in Seq(Args)
  BY DEF Line
<1>2. /\ Head(line) \in Args /\ Tail(line) \in Seq(Args) /\ Len(Tail(line)) = Len(line) - 1
      /\ \A j \in 1..Len(line) - 1 : Tail(line)[j] = line[j + 1]
      /\ Head(line) = line[1] /\ Len(line) \in Nat \ {0}
  BY <1>1, HeadTailProperties, EmptySeq
<1>3. AddLine(out, line) = AddLine(AddCommand(out, Head(line)), Tail(line))
  BY <1>1, AddLineIs
<1> DEFINE h == Head(line)
           t == Tail(line)
<1>4. HasQuit(line) <=> IsQuit(h) \/ HasQuit(t)
  <2> HIDE DEF h, t
  <2>0. Len(t) = Len(line) - 1 /\ (\A j \in 1..Len(line) - 1 : t[j] = line[j + 1]) /\ h = line[1]
    BY <1>2 DEF h, t
  <2>1. ASSUME NEW k \in 1..Len(line), IsQuit(line[k]) PROVE IsQuit(h) \/ HasQuit(t)
    <3>1. k = 1 \/ (k - 1 \in 1..Len(t) /\ (k - 1) + 1 = k)
      BY <1>2, <2>0
    <3>2. CASE k = 1
      BY <2>0, <2>1, <3>2
    <3>3. CASE k - 1 \in 1..Len(t) /\ (k - 1) + 1 = k
      <4>1. t[k - 1] = line[k]
        BY <2>0, <3>3
      <4> QED
        BY <2>1, <3>3, <4>1 DEF HasQuit
    <3> QED
      BY <3>1, <3>2, <3>3
  <2>2. ASSUME NEW k \in 1..Len(t), IsQuit(t[k]) PROVE HasQuit(line)
    <3>1. k + 1 \in 1..Len(line) /\ t[k] = line[k + 1]
      BY <1>2, <2>0
    <3> QED
      BY <2>2, <3>1 DEF HasQuit
  <2>3. IsQuit(h) => HasQuit(line)
    <3>1. 1 \in 1..Len(line)
      BY <1>2
    <3> QED
      BY <2>0, <3>1 DEF HasQuit
  <2>4. HasQuit(line) => IsQuit(h) \/ HasQuit(t)
    BY <2>1 DEF HasQuit
  <2>5. HasQuit(t) => HasQuit(line)
    BY <2>2 DEF HasQuit
  <2> QED
    BY <2>3, <2>4, <2>5
<1>5. Tail(line) \in Line
  BY <1>2 DEF Line
<1> QED
  BY <1>2, <1>3, <1>4, <1>5

\* At the start the whole text is unread.
LEMMA AfterInit == ASSUME Init PROVE RInv
<1>1. text \in Texts /\ text \in Seq(Chars) /\ Len(text) \in Nat /\ End = Len(text) + 1
  <2>1. text \in Texts /\ text \in Seq(Chars)
    BY ShellAssumption DEF Init
  <2> QED
    BY <2>1 DEF End
<1>2. pos = End /\ offset = 1 /\ pc = "prompt" /\ keep_running = TRUE /\ cmds = << >> /\ attempts = << >>
  BY DEF Init
<1>3. InPlace
  BY <1>1, <1>2 DEF InPlace
<1>4. At = 1
  BY <1>1, <1>2 DEF At
<1>5. Unread = text
  BY <1>1, <1>4, SubSeqFull DEF Unread
<1>6. Wanted[text] = Asks(attempts, LinesOf(Unread))
  BY <1>1, <1>2, <1>5 DEF Wanted, Asks, AddLines
<1>7. << >> \in Line
  BY DEF Line
<1> QED
  BY <1>1, <1>2, <1>3, <1>6, <1>7 DEF RInv, InOrder

\* Steps that leave the input alone.
LEMMA StaysInPlace ==
  ASSUME InOrder, UNCHANGED <<text, pos, offset>>
  PROVE  InPlace' /\ Unread' = Unread
BY DEF InOrder, InPlace, Unread, At, End

\* A line read is in hand, and what is unread begins behind it.
LEMMA AfterReadLine == ASSUME InOrder, ReadLine PROVE InOrder'
<1> DEFINE in == GetStringFromFile
           r == Unread
           x == CommandsOf(FirstOf(r))
<1>1. pc = "prompt" /\ pos' = in.pos /\ offset' = in.offset
  BY DEF ReadLine
<1>2. text' = text /\ keep_running' = keep_running /\ attempts' = attempts
  BY DEF ReadLine
<1>3. /\ in.str = FirstOf(r) /\ (in.eof <=> EofAfter(r)) /\ in.offset = End
      /\ in.pos \in 1..End /\ SubSeq(text, in.pos, Len(text)) = RestOf(r)
  BY GetsFirst DEF InOrder
<1>4. InPlace' /\ Unread' = RestOf(r)
  <2>1. pos' \in 1..End /\ offset' = End /\ End' = End /\ text \in Texts
    BY <1>1, <1>2, <1>3 DEF End, InOrder, InPlace
  <2>2. At' = pos'
    BY <2>1 DEF At
  <2> QED
    BY <1>1, <1>2, <1>3, <2>1, <2>2 DEF InPlace, Unread
<1>5. attempts \in Line /\ keep_running /\ Wanted[text] = Asks(attempts, LinesOf(r)) /\ r \in Seq(Chars)
  BY <1>1, UnreadType DEF InOrder
<1>6. Wanted' = Wanted
  BY DEF Wanted
<1>7. CASE in.eof /\ in.str = << >>
  <2>1. pc' = "done" /\ cmds' = cmds
    BY <1>7 DEF ReadLine
  <2>2. Asks(attempts, LinesOf(r)) = attempts
    BY <1>3, <1>5, <1>7, ReadIs
  <2> QED
    BY <1>2, <1>4, <1>5, <1>6, <2>1, <2>2 DEF InOrder
<1>8. CASE ~(in.eof /\ in.str = << >>)
  <2>1. /\ pc' = "run"
        /\ cmds' = [n \in 1..Len(GetCommands(in.str)) |-> SplitCommandAndArgs(GetCommands(in.str)[n])]
    BY <1>8 DEF ReadLine
  <2>2. /\ FirstOf(r) \in Seq(Chars)
        /\ Asks(attempts, LinesOf(r))
             = IF HasQuit(x) THEN AddLine(attempts, x)
               ELSE Asks(AddLine(attempts, x), LinesOf(RestOf(r)))
    BY <1>3, <1>5, <1>8, ReadIs
  <2>3. cmds' = x /\ x \in Line
    BY <1>3, <2>1, <2>2, CommandsType
  <2> HIDE DEF x
  <2>4. ToCome' = IF keep_running' /\ ~HasQuit(cmds') THEN Asks(AddLine(attempts', cmds'), LinesOf(Unread'))
                  ELSE AddLine(attempts', cmds')
    BY DEF ToCome
  <2>5. Wanted'[text'] = ToCome'
    BY <1>2, <1>4, <1>5, <1>6, <2>2, <2>3, <2>4 DEF x
  <2> QED
    BY <1>2, <1>4, <1>5, <2>1, <2>3, <2>5 DEF InOrder
<1> QED
  BY <1>7, <1>8

\* A command without words or quit leaves what is to come as it is.
LEMMA AfterNoChild == ASSUME InOrder, NoChild PROVE InOrder'
<1> DEFINE h == Head(cmds)
<1>1. /\ pc = "run" /\ cmds # << >> /\ (h = << >> \/ IsQuit(h)) /\ cmds' = Tail(cmds) /\ pc' = pc
      /\ UNCHANGED <<text, pos, offset>> /\ attempts' = attempts
      /\ keep_running' = (keep_running /\ h = << >>)
  BY DEF NoChild
<1>2. InPlace' /\ Unread' = Unread
  BY <1>1, StaysInPlace
<1>3. attempts \in Line /\ cmds \in Line /\ Wanted[text] = ToCome
  BY <1>1 DEF InOrder
<1>4. /\ Tail(cmds) \in Line
      /\ AddLine(attempts, cmds) = AddLine(AddCommand(attempts, h), Tail(cmds))
      /\ HasQuit(cmds) <=> (IsQuit(h) \/ HasQuit(Tail(cmds)))
  BY <1>1, <1>3, NextCommand
<1>5. AddCommand(attempts, h) = attempts
  BY <1>1 DEF AddCommand
<1>6. IsQuit(h) <=> h # << >>
  BY <1>1 DEF IsQuit
<1>7. keep_running' /\ ~HasQuit(cmds') <=> keep_running /\ ~HasQuit(cmds)
  <2> HIDE DEF h
  <2> QED
    BY <1>1, <1>4, <1>6
<1>8. AddLine(attempts', cmds') = AddLine(attempts, cmds)
  BY <1>1, <1>4, <1>5
<1>9. ToCome' = ToCome
  <2>1. ToCome' = IF keep_running' /\ ~HasQuit(cmds') THEN Asks(AddLine(attempts', cmds'), LinesOf(Unread'))
                  ELSE AddLine(attempts', cmds')
    BY DEF ToCome
  <2> QED
    BY <1>2, <1>7, <1>8, <2>1 DEF ToCome
<1>10. Wanted'[text'] = Wanted[text]
  BY <1>1 DEF Wanted
<1> QED
  BY <1>1, <1>2, <1>3, <1>4, <1>9, <1>10 DEF InOrder

\* A command tried is no longer to come.
LEMMA AfterFork == ASSUME InOrder, Fork, ~rewound PROVE InOrder'
<1> DEFINE h == Head(cmds)
<1>1. /\ pc = "run" /\ cmds # << >> /\ h # << >> /\ ~IsQuit(h) /\ cmds' = Tail(cmds)
      /\ pc' \in {"run", "foreground"}
      /\ UNCHANGED <<text, pos, offset>> /\ keep_running' = keep_running
      /\ attempts' = Append(attempts, h)
  BY DEF Fork
<1>2. InPlace' /\ Unread' = Unread
  BY <1>1, StaysInPlace
<1>3. attempts \in Line /\ cmds \in Line /\ Wanted[text] = ToCome
  BY <1>1 DEF InOrder
<1>4. /\ h \in Args /\ Tail(cmds) \in Line
      /\ AddLine(attempts, cmds) = AddLine(AddCommand(attempts, h), Tail(cmds))
      /\ HasQuit(cmds) <=> (IsQuit(h) \/ HasQuit(Tail(cmds)))
  BY <1>1, <1>3, NextCommand
<1>5. AddCommand(attempts, h) = attempts'
  BY <1>1 DEF AddCommand
<1>6. attempts' \in Line
  BY <1>3, <1>4, <1>5, AddCommandType
<1>7. HasQuit(cmds') <=> HasQuit(cmds)
  BY <1>1, <1>4
<1>8. AddLine(attempts', cmds') = AddLine(attempts, cmds)
  BY <1>1, <1>4, <1>5
<1>9. ToCome' = ToCome
  <2>1. ToCome' = IF keep_running' /\ ~HasQuit(cmds') THEN Asks(AddLine(attempts', cmds'), LinesOf(Unread'))
                  ELSE AddLine(attempts', cmds')
    BY DEF ToCome
  <2> QED
    BY <1>1, <1>2, <1>7, <1>8, <2>1 DEF ToCome
<1>10. Wanted'[text'] = Wanted[text]
  BY <1>1 DEF Wanted
<1> QED
  BY <1>1, <1>2, <1>3, <1>4, <1>6, <1>9, <1>10 DEF InOrder

\* The other steps of the shell: they wait, or end the line.
LEMMA AfterWaits ==
  ASSUME InOrder, WaitForeground \/ EndOfCommands \/ WaitChild
  PROVE  InOrder'
<1>1. /\ UNCHANGED <<text, pos, offset>> /\ keep_running' = keep_running /\ cmds' = cmds
      /\ attempts' = attempts
  BY DEF WaitForeground, EndOfCommands, WaitChild
<1>2. /\ pc \in {"run", "foreground", "wait"} /\ pc' \in {"run", "wait"}
      /\ pc' = "wait" => cmds = << >>
  BY DEF WaitForeground, EndOfCommands, WaitChild, InOrder
<1>3. InPlace' /\ Unread' = Unread
  BY <1>1, StaysInPlace
<1>4. ToCome' = ToCome
  BY <1>1, <1>3 DEF ToCome
<1>5. Wanted'[text'] = Wanted[text]
  BY <1>1 DEF Wanted
<1> QED
  BY <1>1, <1>2, <1>3, <1>4, <1>5 DEF InOrder

\* At the end of a line nothing is in hand.
LEMMA AfterEndOfLine == ASSUME InOrder, EndOfLine PROVE InOrder'
<1>1. /\ UNCHANGED <<text, pos, offset>> /\ keep_running' = keep_running /\ cmds' = cmds
      /\ attempts' = attempts /\ pc = "wait" /\ pc' = IF keep_running THEN "prompt" ELSE "done"
  BY DEF EndOfLine
<1>2. InPlace' /\ Unread' = Unread
  BY <1>1, StaysInPlace
<1>3. attempts \in Line /\ cmds = << >> /\ cmds \in Line /\ Wanted[text] = ToCome
  BY <1>1 DEF InOrder
<1>4. ~HasQuit(cmds)
  BY <1>3 DEF HasQuit
<1>5. AddLine(attempts, cmds) = attempts
  <2>1. cmds \in Seq(Args)
    BY <1>3 DEF Line
  <2> QED
    BY <1>3, <2>1, AddLineIs
<1>6. Wanted'[text'] = Wanted[text]
  BY <1>1 DEF Wanted
<1>7. CASE keep_running
  <2>1. Wanted[text] = Asks(attempts, LinesOf(Unread))
    BY <1>3, <1>4, <1>5, <1>7 DEF ToCome
  <2> QED
    BY <1>1, <1>2, <1>3, <1>6, <1>7, <2>1 DEF InOrder
<1>8. CASE ~keep_running
  <2>1. Wanted[text] = attempts
    BY <1>3, <1>5, <1>8 DEF ToCome
  <2> QED
    BY <1>1, <1>2, <1>3, <1>6, <1>8, <2>1 DEF InOrder
<1> QED
  BY <1>7, <1>8

\* Steps that change nothing but the children.
LEMMA AfterOthers ==
  ASSUME InOrder, UNCHANGED <<text, pos, offset, pc, keep_running, cmds, attempts>>
  PROVE  InOrder'
BY DEF InOrder, InPlace, ToCome, Unread, At, End, Wanted

\* The invariant holds in every reachable state.
THEOREM InOrderAlways == Spec => []RInv
<1>1. Init => RInv
  BY AfterInit
<1>2. RInv /\ [Next]_vars => RInv'
  <2> SUFFICES ASSUME RInv, [Next]_vars PROVE RInv'
    OBVIOUS
  <2>1. text' = text
    BY DEF Next, Shell, Child, ReadLine, NoChild, Fork, WaitForeground, EndOfCommands, WaitChild,
           EndOfLine, Exec, ExecFails, Exit, vars
  <2>2. ~rewound' => ~rewound
    BY DEF Next, Shell, Child, ReadLine, NoChild, Fork, WaitForeground, EndOfCommands, WaitChild,
           EndOfLine, Exec, ExecFails, Exit, vars
  <2> SUFFICES ASSUME ~rewound' PROVE InOrder'
    BY <2>1 DEF RInv
  <2>3. InOrder /\ ~rewound
    BY <2>2 DEF RInv
  <2>4. CASE ReadLine
    BY <2>3, <2>4, AfterReadLine
  <2>5. CASE NoChild
    BY <2>3, <2>5, AfterNoChild
  <2>6. CASE Fork
    BY <2>3, <2>6, AfterFork
  <2>7. CASE WaitForeground \/ EndOfCommands \/ WaitChild
    BY <2>3, <2>7, AfterWaits
  <2>8. CASE EndOfLine
    BY <2>3, <2>8, AfterEndOfLine
  <2>9. ASSUME NEW n, Child(n) PROVE InOrder'
    <3>1. UNCHANGED <<text, pos, offset, pc, keep_running, cmds, attempts>>
      BY <2>9 DEF Child, Exec, ExecFails, Exit
    <3> QED
      BY <2>3, <3>1, AfterOthers
  <2>10. CASE UNCHANGED vars
    <3>1. UNCHANGED <<text, pos, offset, pc, keep_running, cmds, attempts>>
      BY <2>10 DEF vars
    <3> QED
      BY <2>3, <3>1, AfterOthers
  <2> QED
    BY <2>4, <2>5, <2>6, <2>7, <2>8, <2>9, <2>10 DEF Next, Shell
<1> QED
  BY <1>1, <1>2, PTL DEF Spec

\* Whatever the input is, as long as no child moves the offset back the shell
\* tries the commands of the text in their order, each of them once, and it
\* does not end before the last.
THEOREM RunsAsWrittenHolds == Spec => []RunsAsWritten
<1>1. RInv => RunsAsWritten
  <2> SUFFICES ASSUME InOrder PROVE IsPrefix(attempts, Wanted[text]) /\ (pc = "done" => attempts = Wanted[text])
    BY DEF RInv, RunsAsWritten
  <2>1. attempts \in Line /\ Wanted[text] \in Line /\ Goes(attempts, Wanted[text])
    BY ToComeGoes DEF InOrder
  <2>2. IsPrefix(attempts, Wanted[text])
    BY ONLY <2>1, GoesPrefix
  <2> QED
    BY <2>2 DEF InOrder
<1> QED
  BY <1>1, InOrderAlways, PTL

===============================================================================
