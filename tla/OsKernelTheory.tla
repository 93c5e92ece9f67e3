---------------------------- MODULE OsKernelTheory ----------------------------
(***************************************************************************)
(* Facts about what the kernel's operators are built from and about the    *)
(* handlers' operators themselves, for every kernel they may be applied to.*)
(*                                                                         *)
(* 1. Loops, extrema of sets of numbers and the list operations of         *)
(*    os_list.c.  The C code's loops are modelled by functions defined by  *)
(*    recursion on the number of iterations made; the first lemmas say     *)
(*    that such functions exist and how to show that every iteration keeps *)
(*    what holds before it.                                                *)
(* 2. Types: every operator takes a kernel to a kernel.                    *)
(* 3. Containers: every operator keeps each task on the lists its state    *)
(*    calls for and on no other, and the deadlines in order.               *)
(***************************************************************************)
EXTENDS OsTime, SequenceTheorems, FiniteSetTheorems, WellFoundedInduction, TLAPS

\* Induction, stated for a set so that the provers can instantiate it.
LEMMA NatSetInduction ==
    ASSUME NEW T, 0 \in T, \A n \in Nat : n \in T => n + 1 \in T
    PROVE  Nat \subseteq T
<1> SUFFICES ASSUME Nat \ T # {} PROVE FALSE
  OBVIOUS
<1> DEFINE R == OpToRel(<, Nat)
<1>1. PICK x \in Nat \ T : \A y \in Nat \ T : <<y, x>> \notin R
  <2>1. IsWellFoundedOn(R, Nat)
    BY NatLessThanWellFounded
  <2> QED
    BY <2>1, WFMin, Nat \ T \subseteq Nat
<1>2. x # 0
  BY <1>1
<1>3. x - 1 \in Nat /\ (x - 1) + 1 = x
  BY <1>2
<1>4. <<x - 1, x>> \in R
  BY <1>3 DEF OpToRel
<1>5. x - 1 \in T
  BY <1>1, <1>3, <1>4
<1> QED
  BY <1>1, <1>3, <1>5

\* The states of an iteration of F from x, for ever and in a loop of N steps.
Iterates(g, S, x, F) ==
    g \in [Nat -> S] /\ g[0] = x /\ \A n \in Nat : g[n + 1] = F[n][g[n]]
Loops(f, N, S, x, F) ==
    f \in [0 .. N -> S] /\ f[0] = x /\ \A n \in 0 .. N - 1 : f[n + 1] = F[n][f[n]]

\* A step function on a set has an iteration from every element of the set.
LEMMA IterationExists ==
    ASSUME NEW S, NEW x \in S, NEW F \in [Nat -> [S -> S]]
    PROVE  \E g : Iterates(g, S, x, F)
<1> DEFINE Starts(g, n) == /\ g \in [0 .. n -> S] /\ g[0] = x
                           /\ \A i \in Nat : i < n => g[i + 1] = F[i][g[i]]
           T == {n \in Nat : \E g \in [0 .. n -> S] : Starts(g, n)}
<1>1. 0 \in T
  <2> DEFINE g == [i \in 0 .. 0 |-> x]
  <2>1. g \in [0 .. 0 -> S] /\ g[0] = x
    OBVIOUS
  <2>2. \A i \in Nat : ~(i < 0)
    OBVIOUS
  <2> HIDE DEF g
  <2>3. Starts(g, 0)
    BY <2>1, <2>2
  <2> QED
    BY <2>1, <2>3
<1>2. \A n \in Nat : n \in T => n + 1 \in T
  <2> SUFFICES ASSUME NEW n \in Nat, n \in T PROVE n + 1 \in T
    OBVIOUS
  <2>1. PICK g \in [0 .. n -> S] : Starts(g, n)
    OBVIOUS
  <2> DEFINE h == [i \in 0 .. n + 1 |-> IF i <= n THEN g[i] ELSE F[n][g[n]]]
  <2>2. g[n] \in S /\ F[n][g[n]] \in S
    BY <2>1
  <2>3. h \in [0 .. n + 1 -> S]
    BY <2>2
  <2>4. h[0] = x
    BY <2>1
  <2>5. ASSUME NEW i \in Nat, i < n + 1 PROVE h[i + 1] = F[i][h[i]]
    <3>1. i \in 0 .. n + 1 /\ i + 1 \in 0 .. n + 1 /\ i <= n /\ h[i] = g[i]
      BY <2>5
    <3>2. CASE i < n
      <4>1. i + 1 <= n /\ h[i + 1] = g[i + 1]
        BY <3>1, <3>2
      <4> QED
        BY <2>1, <3>1, <3>2, <4>1
    <3>3. CASE i = n
      <4>1. ~(i + 1 <= n) /\ h[i + 1] = F[n][g[n]]
        BY <3>1, <3>3
      <4> QED
        BY <3>1, <3>3, <4>1
    <3> QED
      BY <2>5, <3>2, <3>3
  <2> HIDE DEF h
  <2>6. Starts(h, n + 1)
    BY <2>3, <2>4, <2>5
  <2> HIDE DEF Starts
  <2> QED
    BY <2>3, <2>6
<1>3. Nat \subseteq T
  <2> HIDE DEF T
  <2> QED
    BY <1>1, <1>2, NatSetInduction
<1> DEFINE Prefix(n) == CHOOSE g : Starts(g, n)
           whole == [n \in Nat |-> Prefix(n)[n]]
<1>4. \A n \in Nat : Starts(Prefix(n), n)
  BY <1>3
<1>5. ASSUME NEW n \in Nat PROVE Prefix(n + 1)[n] = Prefix(n)[n]
  <2> HIDE DEF Prefix, T, whole
  <2> DEFINE g == Prefix(n + 1)
             h == Prefix(n)
             U == {i \in Nat : i <= n => g[i] = h[i]}
  <2>1. Starts(g, n + 1) /\ Starts(h, n)
    BY <1>4
  <2> HIDE DEF g, h
  <2>2. 0 \in U
    BY <2>1
  <2>3. ASSUME NEW i \in Nat, i \in U PROVE i + 1 \in U
    <3> SUFFICES ASSUME i + 1 <= n PROVE g[i + 1] = h[i + 1]
      OBVIOUS
    <3>1. i < n + 1 /\ i < n /\ g[i] = h[i]
      BY <2>3
    <3>2. g[i + 1] = F[i][g[i]] /\ h[i + 1] = F[i][h[i]]
      BY <2>1, <3>1
    <3> QED
      BY <3>1, <3>2
  <2> HIDE DEF U
  <2>4. n \in U
    BY <2>2, <2>3, NatSetInduction
  <2> QED
    BY <2>4 DEF g, h, U
<1>6. whole \in [Nat -> S]
  <2> HIDE DEF Prefix
  <2> QED
    BY <1>4
<1>7. whole[0] = x
  <2> HIDE DEF Prefix
  <2> QED
    BY <1>4
<1>8. ASSUME NEW n \in Nat PROVE whole[n + 1] = F[n][whole[n]]
  <2> HIDE DEF Prefix
  <2>1. Starts(Prefix(n + 1), n + 1)
    BY <1>4
  <2>2. Prefix(n + 1)[n + 1] = F[n][Prefix(n + 1)[n]]
    BY <2>1
  <2>3. whole[n] = Prefix(n)[n] /\ whole[n + 1] = Prefix(n + 1)[n + 1]
    OBVIOUS
  <2> HIDE DEF whole
  <2> QED
    BY <1>5, <2>2, <2>3
<1> HIDE DEF whole
<1> QED
  BY <1>6, <1>7, <1>8 DEF Iterates

\* Induction over the iterations of a loop that makes N of them.
LEMMA LoopInduction ==
    ASSUME NEW N \in Nat, NEW T, 0 \in T,
           \A n \in 0 .. N - 1 : n \in T => n + 1 \in T
    PROVE  \A n \in 0 .. N : n \in T
<1> DEFINE U == {n \in Nat : n <= N => n \in T}
<1>1. 0 \in U
  OBVIOUS
<1>2. ASSUME NEW n \in Nat, n \in U PROVE n + 1 \in U
  <2> SUFFICES ASSUME n + 1 <= N PROVE n + 1 \in T
    OBVIOUS
  <2>1. n \in 0 .. N - 1 /\ n \in T
    BY <1>2
  <2> QED
    BY <2>1
<1> HIDE DEF U
<1>3. Nat \subseteq U
  BY <1>1, <1>2, NatSetInduction
<1> QED
  BY <1>3 DEF U

\* A loop of N iterations over the states S, with body F: its states exist as
\* the function defined by recursion on the number of iterations made.
LEMMA LoopExists ==
    ASSUME NEW S, NEW x \in S, NEW N \in Nat,
           NEW F \in [0 .. N - 1 -> [S -> S]]
    PROVE  \E f : Loops(f, N, S, x, F)
<1> DEFINE E == [n \in Nat |-> IF n \in 0 .. N - 1 THEN F[n] ELSE [y \in S |-> y]]
<1>1. E \in [Nat -> [S -> S]]
  OBVIOUS
<1>2. \A n \in 0 .. N - 1 : E[n] = F[n]
  OBVIOUS
<1> HIDE DEF E
<1>3. PICK g : Iterates(g, S, x, E)
  BY <1>1, IterationExists
<1> DEFINE f == [n \in 0 .. N |-> g[n]]
<1>4. f \in [0 .. N -> S] /\ f[0] = x
  BY <1>3 DEF Iterates
<1>5. ASSUME NEW n \in 0 .. N - 1 PROVE f[n + 1] = F[n][f[n]]
  <2>1. n \in 0 .. N /\ n + 1 \in 0 .. N /\ n \in Nat
    OBVIOUS
  <2>2. f[n + 1] = g[n + 1] /\ f[n] = g[n]
    BY <2>1
  <2>3. g[n + 1] = F[n][g[n]]
    BY <1>2, <1>3, <2>1 DEF Iterates
  <2> HIDE DEF f
  <2> QED
    BY <2>2, <2>3
<1> HIDE DEF f
<1> QED
  BY <1>4, <1>5 DEF Loops
-------------------------------------------------------------------------------
\* A non-empty set of natural numbers has a minimum.
LEMMA MinimumOfNaturals ==
    ASSUME NEW S, S \subseteq Nat, S # {}
    PROVE  Min(S) \in S /\ \A y \in S : Min(S) <= y
<1>1. \E x \in S : \A y \in S : x <= y
  <2>1. PICK x \in S : \A y \in S : <<y, x>> \notin OpToRel(<, Nat)
    BY NatLessThanWellFounded, WFMin
  <2>2. ASSUME NEW y \in S PROVE x <= y
    <3>1. x \in Nat /\ y \in Nat
      OBVIOUS
    <3>2. ~(y < x)
      BY <2>1, <3>1 DEF OpToRel
    <3> QED
      BY <3>1, <3>2
  <2> QED
    BY <2>2
<1> QED
  BY <1>1 DEF Min

\* A bounded non-empty set of natural numbers has a maximum.
LEMMA MaximumOfRange ==
    ASSUME NEW N \in Nat, NEW S, S \subseteq 0 .. N, S # {}
    PROVE  Max(S) \in S /\ \A y \in S : Max(S) >= y
<1> DEFINE R == {n \in Nat : \A y \in S : n >= y}
<1>1. R \subseteq Nat /\ N \in R
  OBVIOUS
<1> DEFINE m == Min(R)
<1> HIDE DEF R
<1>2. m \in R /\ \A y \in R : m <= y
  BY <1>1, MinimumOfNaturals
<1> HIDE DEF m
<1>3. m \in Nat /\ \A y \in S : m >= y
  BY <1>1, <1>2 DEF R
<1>4. m \in S
  <2> SUFFICES ASSUME m \notin S PROVE FALSE
    OBVIOUS
  <2>1. PICK z \in S : TRUE
    OBVIOUS
  <2>2. \A y \in S : y \in Nat /\ m # y /\ m > y
    BY <1>3
  <2>3. m - 1 \in Nat /\ \A y \in S : m - 1 >= y
    BY <1>3, <2>1, <2>2
  <2>4. m - 1 \in R
    BY <2>3 DEF R
  <2> QED
    BY <1>2, <1>3, <2>4
<1> QED
  BY <1>3, <1>4 DEF Max

\* Inserting in a list gives a list one longer.
LEMMA InsertBeforeFirstType ==
    ASSUME NEW E, NEW list \in Seq(E), NEW t \in E,
           NEW S, S \subseteq 1 .. Len(list)
    PROVE  InsertBeforeFirst(list, t, S) \in Seq(E)
<1> DEFINE i == Min(S \cup {Len(list) + 1})
           front == SubSeq(list, 1, i - 1)
           back == SubSeq(list, i, Len(list))
<1>1. Len(list) \in Nat
  OBVIOUS
<1>2. i \in 1 .. Len(list) + 1
  <2> DEFINE n == Len(list)
             W == S \cup {n + 1}
  <2>1. n \in Nat /\ S \subseteq 1 .. n
    BY <1>1
  <2> HIDE DEF n
  <2>2. W \subseteq 1 .. n + 1 /\ W # {}
    BY <2>1
  <2> HIDE DEF W
  <2>3. W \subseteq Nat
    BY <2>1, <2>2
  <2>4. Min(W) \in W
    BY <2>2, <2>3, MinimumOfNaturals
  <2> QED
    BY <2>2, <2>4 DEF W, n
<1>3. InsertBeforeFirst(list, t, S) = front \o <<t>> \o back
  BY DEF InsertBeforeFirst, InsertAt
<1> HIDE DEF i
<1>4. front \in Seq(E) /\ back \in Seq(E)
  BY <1>1, <1>2
<1> HIDE DEF front, back
<1> QED
  BY <1>3, <1>4

\* Removing from a list gives a list of the same elements.
LEMMA ListRemoveType ==
    ASSUME NEW E, NEW list \in Seq(E), NEW t
    PROVE  ListRemove(list, t) \in Seq(E)
<1>1. CASE t \in ToSet(list)
  <2> DEFINE i == CHOOSE i \in 1 .. Len(list) : list[i] = t
             front == SubSeq(list, 1, i - 1)
             back == SubSeq(list, i + 1, Len(list))
  <2>1. i \in 1 .. Len(list) /\ Len(list) \in Nat
    BY <1>1 DEF ToSet
  <2>2. ListRemove(list, t) = front \o back
    BY <1>1 DEF ListRemove, RemoveAt
  <2> HIDE DEF i
  <2>3. front \in Seq(E) /\ back \in Seq(E)
    BY <2>1
  <2> HIDE DEF front, back
  <2> QED
    BY <2>2, <2>3
<1>2. CASE t \notin ToSet(list)
  BY <1>2 DEF ListRemove
<1> QED
  BY <1>1, <1>2
-------------------------------------------------------------------------------
(* What is on a list, and in which order. *)

\* What is on a list, by position.
LEMMA OnList ==
    ASSUME NEW E, NEW list \in Seq(E)
    PROVE  /\ ToSet(list) = {list[i] : i \in 1 .. Len(list)}
           /\ ToSet(list) \subseteq E
           /\ IsInjective(list) <=> \A i, j \in 1 .. Len(list) : list[i] = list[j] => i = j
           /\ ToSet(list) = {} <=> list = <<>>
  BY DEF ToSet, IsInjective

\* The concatenation of two lists, by position.
LEMMA ConcatElements ==
    ASSUME NEW E, NEW a \in Seq(E), NEW b \in Seq(E)
    PROVE  /\ a \o b \in Seq(E)
           /\ Len(a \o b) = Len(a) + Len(b)
           /\ \A j \in 1 .. Len(a) : (a \o b)[j] = a[j]
           /\ \A j \in 1 .. Len(b) : (a \o b)[Len(a) + j] = b[j]
  OBVIOUS

\* A list without its element at position i.
LEMMA RemoveAtElements ==
    ASSUME NEW E, NEW list \in Seq(E), NEW i \in 1 .. Len(list)
    PROVE  /\ RemoveAt(list, i) \in Seq(E)
           /\ Len(RemoveAt(list, i)) = Len(list) - 1
           /\ \A j \in 1 .. Len(list) - 1 :
                 RemoveAt(list, i)[j] = IF j < i THEN list[j] ELSE list[j + 1]
<1> DEFINE front == SubSeq(list, 1, i - 1)
           back == SubSeq(list, i + 1, Len(list))
<1>1. /\ front \in Seq(E) /\ Len(front) = i - 1
      /\ \A j \in 1 .. i - 1 : front[j] = list[j]
  OBVIOUS
<1>2. /\ back \in Seq(E) /\ Len(back) = Len(list) - i
      /\ \A j \in 1 .. Len(list) - i : back[j] = list[i + j]
  OBVIOUS
<1>3. RemoveAt(list, i) = front \o back
  BY DEF RemoveAt
<1> HIDE DEF front, back
<1>4. /\ front \o back \in Seq(E) /\ Len(front \o back) = Len(list) - 1
      /\ \A j \in 1 .. i - 1 : (front \o back)[j] = front[j]
      /\ \A j \in 1 .. Len(list) - i : (front \o back)[(i - 1) + j] = back[j]
  <2>1. /\ front \o back \in Seq(E)
        /\ Len(front \o back) = Len(front) + Len(back)
        /\ \A j \in 1 .. Len(front) : (front \o back)[j] = front[j]
        /\ \A j \in 1 .. Len(back) : (front \o back)[Len(front) + j] = back[j]
    <3>1. front \in Seq(E) /\ back \in Seq(E)
      BY <1>1, <1>2
    <3>2. QED
      BY <3>1, ConcatElements
  <2>2. QED
    BY <1>1, <1>2, <2>1
<1>5. ASSUME NEW j \in 1 .. Len(list) - 1
      PROVE  (front \o back)[j] = IF j < i THEN list[j] ELSE list[j + 1]
  <2>1. CASE j < i
    <3>1. j \in 1 .. i - 1
      BY <2>1
    <3>2. QED
      BY <1>1, <1>4, <2>1, <3>1
  <2>2. CASE ~(j < i)
    <3>1. /\ j - i + 1 \in 1 .. Len(list) - i /\ i + (j - i + 1) = j + 1
          /\ (i - 1) + (j - i + 1) = j
      BY <2>2
    <3>2. (front \o back)[j] = back[j - i + 1] /\ back[j - i + 1] = list[i + (j - i + 1)]
      BY <1>2, <1>4, <2>2, <3>1
    <3>3. QED
      BY <2>2, <3>1, <3>2
  <2>3. QED
    BY <2>1, <2>2
<1>6. QED
  BY <1>3, <1>4, <1>5

\* A list with t at position i.
LEMMA InsertAtElements ==
    ASSUME NEW E, NEW list \in Seq(E), NEW t \in E, NEW i \in 1 .. Len(list) + 1
    PROVE  /\ InsertAt(list, i, t) \in Seq(E)
           /\ Len(InsertAt(list, i, t)) = Len(list) + 1
           /\ \A j \in 1 .. Len(list) + 1 :
                 InsertAt(list, i, t)[j] =
                     IF j < i THEN list[j] ELSE IF j = i THEN t ELSE list[j - 1]
<1> DEFINE front == SubSeq(list, 1, i - 1)
           back == SubSeq(list, i, Len(list))
           middle == front \o <<t>>
<1>1. /\ front \in Seq(E) /\ Len(front) = i - 1
      /\ \A j \in 1 .. i - 1 : front[j] = list[j]
  OBVIOUS
<1>2. /\ back \in Seq(E) /\ Len(back) = Len(list) - i + 1
      /\ \A j \in 1 .. Len(list) - i + 1 : back[j] = list[i + j - 1]
  OBVIOUS
<1>3. InsertAt(list, i, t) = middle \o back
  BY DEF InsertAt
<1> HIDE DEF front, back
<1>4. /\ middle \in Seq(E) /\ Len(middle) = i
      /\ \A j \in 1 .. i - 1 : middle[j] = front[j]
      /\ middle[i] = t
  BY <1>1
<1> HIDE DEF middle
<1>5. /\ middle \o back \in Seq(E) /\ Len(middle \o back) = Len(list) + 1
      /\ \A j \in 1 .. i : (middle \o back)[j] = middle[j]
      /\ \A j \in 1 .. Len(list) - i + 1 : (middle \o back)[i + j] = back[j]
  BY <1>2, <1>4, ConcatElements
<1>6. ASSUME NEW j \in 1 .. Len(list) + 1
      PROVE  (middle \o back)[j] = IF j < i THEN list[j] ELSE IF j = i THEN t ELSE list[j - 1]
  <2>1. CASE j < i
    <3>1. j \in 1 .. i /\ j \in 1 .. i - 1
      BY <2>1
    <3>2. QED
      BY <1>1, <1>4, <1>5, <2>1, <3>1
  <2>2. CASE j = i
    <3>1. j \in 1 .. i
      BY <2>2
    <3>2. QED
      BY <1>4, <1>5, <2>2, <3>1
  <2>3. CASE ~(j < i) /\ j # i
    <3>1. /\ j - i \in 1 .. Len(list) - i + 1 /\ i + (j - i) - 1 = j - 1
          /\ i + (j - i) = j
      BY <2>3
    <3>2. (middle \o back)[j] = back[j - i] /\ back[j - i] = list[i + (j - i) - 1]
      BY <1>2, <1>5, <2>3, <3>1
    <3>3. QED
      BY <2>3, <3>1, <3>2
  <2>4. QED
    BY <2>1, <2>2, <2>3
<1>7. QED
  BY <1>3, <1>5, <1>6

(* Lists by what is on them: each element once, and the sublists. *)

\* The list has exactly the tasks of a set on it, each of them once.
Exact(list, S) == /\ list \in Seq(Tasks)
                  /\ \A t \in Tasks : t \in S <=> \E i \in 1 .. Len(list) : list[i] = t
                  /\ \A i, j \in 1 .. Len(list) : list[i] = list[j] => i = j

\* Sorted by a rank of the tasks.
Ranked(list, f) == \A i, j \in 1 .. Len(list) : i < j => f[list[i]] <= f[list[j]]

\* os_ListRemove on a list that does not hold a task twice.
LEMMA RemoveExact ==
    ASSUME NEW list, NEW S, Exact(list, S), NEW t \in Tasks
    PROVE  /\ Exact(ListRemove(list, t), S \ {t})
           /\ \A f \in [Tasks -> Int] : Ranked(list, f) => Ranked(ListRemove(list, t), f)
<1>1. list \in Seq(Tasks)
  BY DEF Exact
<1>2. CASE t \notin ToSet(list)
  <2>1. ListRemove(list, t) = list
    BY <1>2 DEF ListRemove
  <2>2. \A i \in 1 .. Len(list) : list[i] # t
    BY <1>1, <1>2, OnList
  <2>3. QED
    BY <2>1, <2>2 DEF Exact
<1>3. CASE t \in ToSet(list)
  <2> DEFINE n == CHOOSE i \in 1 .. Len(list) : list[i] = t
             rest == RemoveAt(list, n)
  <2>1. n \in 1 .. Len(list) /\ list[n] = t
    BY <1>1, <1>3, OnList
  <2>2. ListRemove(list, t) = rest
    BY <1>3 DEF ListRemove
  <2> HIDE DEF n
  <2>3. /\ rest \in Seq(Tasks)
        /\ Len(rest) = Len(list) - 1
        /\ \A j \in 1 .. Len(list) - 1 : rest[j] = IF j < n THEN list[j] ELSE list[j + 1]
    BY <1>1, <2>1, RemoveAtElements
  <2> HIDE DEF rest
  <2> DEFINE At(j) == IF j < n THEN j ELSE j + 1
  <2>4. \A j \in 1 .. Len(rest) : At(j) \in 1 .. Len(list) /\ At(j) # n /\ rest[j] = list[At(j)]
    BY <2>1, <2>3
  <2>5. \A i, j \in 1 .. Len(rest) : i < j <=> At(i) < At(j)
    BY <2>1, <2>3
  <2>6. \A i \in 1 .. Len(list) : i # n => \E j \in 1 .. Len(rest) : At(j) = i
    <3> SUFFICES ASSUME NEW i \in 1 .. Len(list), i # n
                 PROVE  \E j \in 1 .. Len(rest) : At(j) = i
      OBVIOUS
    <3>1. CASE i < n
      BY <2>1, <2>3, <3>1
    <3>2. CASE i > n
      <4>1. i - 1 \in 1 .. Len(rest) /\ At(i - 1) = i
        BY <2>1, <2>3, <3>2
      <4>2. QED
        BY <4>1
    <3>3. QED
      BY <2>1, <3>1, <3>2
  <2> HIDE DEF At
  <2>7. \A i, j \in 1 .. Len(rest) : rest[i] = rest[j] => i = j
    <3> SUFFICES ASSUME NEW i \in 1 .. Len(rest), NEW j \in 1 .. Len(rest), rest[i] = rest[j]
                 PROVE  i = j
      OBVIOUS
    <3>1. At(i) = At(j) /\ At(i) \in Int /\ At(j) \in Int
      BY <2>4 DEF Exact
    <3>2. ~(i < j) /\ ~(j < i)
      BY <2>5, <3>1
    <3>3. QED
      BY <1>1, <2>3, <3>2
  <2>8. \A u \in Tasks : u \in S \ {t} <=> \E j \in 1 .. Len(rest) : rest[j] = u
    <3>1. ASSUME NEW u \in Tasks, u \in S, u # t PROVE \E j \in 1 .. Len(rest) : rest[j] = u
      <4>1. PICK i \in 1 .. Len(list) : list[i] = u
        BY <3>1 DEF Exact
      <4>2. PICK j \in 1 .. Len(rest) : At(j) = i
        BY <2>1, <2>6, <3>1, <4>1
      <4>3. QED
        BY <2>4, <4>1, <4>2
    <3>2. ASSUME NEW j \in 1 .. Len(rest) PROVE rest[j] \in S /\ rest[j] # t
      <4>1. At(j) \in 1 .. Len(list) /\ At(j) # n /\ rest[j] = list[At(j)]
        BY <2>4
      <4>2. list[At(j)] # t
        BY <2>1, <4>1 DEF Exact
      <4>3. list[At(j)] \in S
        BY <1>1, <4>1 DEF Exact
      <4>4. QED
        BY <4>1, <4>2, <4>3
    <3>3. QED
      BY <3>1, <3>2
  <2>9. ASSUME NEW f \in [Tasks -> Int], Ranked(list, f) PROVE Ranked(rest, f)
    BY <2>4, <2>5, <2>9 DEF Ranked
  <2>10. QED
    BY <2>2, <2>3, <2>7, <2>8, <2>9 DEF Exact
<1>4. QED
  BY <1>2, <1>3

\* What Exact says in the terms of the community modules.
LEMMA ExactList ==
    ASSUME NEW list, NEW S, S \subseteq Tasks
    PROVE  Exact(list, S) <=> list \in Seq(Tasks) /\ IsInjective(list) /\ ToSet(list) = S
<1>1. ASSUME list \in Seq(Tasks)
      PROVE  /\ IsInjective(list) <=> \A i, j \in 1 .. Len(list) : list[i] = list[j] => i = j
             /\ ToSet(list) = {list[i] : i \in 1 .. Len(list)}
             /\ \A i \in 1 .. Len(list) : list[i] \in Tasks
  BY <1>1, OnList
<1>2. ASSUME list \in Seq(Tasks)
      PROVE  ToSet(list) = S <=> \A t \in Tasks : t \in S <=> \E i \in 1 .. Len(list) : list[i] = t
  <2>1. ToSet(list) \subseteq Tasks
    BY <1>1, <1>2
  <2>2. \A t \in Tasks : t \in ToSet(list) <=> \E i \in 1 .. Len(list) : list[i] = t
    BY <1>1, <1>2
  <2>3. QED
    BY <2>1, <2>2
<1>3. QED
  BY <1>1, <1>2 DEF Exact

\* A list of no task is empty.
LEMMA EmptyExact ==
    /\ Exact(<<>>, {})
    /\ \A list, S : Exact(list, S) => (list = <<>> <=> S \cap Tasks = {})
<1>1. Exact(<<>>, {})
  BY DEF Exact
<1>2. ASSUME NEW list, NEW S, Exact(list, S) PROVE list = <<>> <=> S \cap Tasks = {}
  <2>1. list \in Seq(Tasks) /\ \A i \in 1 .. Len(list) : list[i] \in Tasks
    BY <1>2 DEF Exact
  <2>2. list # <<>> => list[1] \in Tasks /\ 1 \in 1 .. Len(list)
    BY <2>1
  <2>3. QED
    BY <1>2, <2>1, <2>2 DEF Exact
<1>3. QED
  BY <1>1, <1>2

\* os_ListPushBack of a task that is not on the list.
LEMMA AppendExact ==
    ASSUME NEW list, NEW S, Exact(list, S), NEW t \in Tasks, t \notin S
    PROVE  Exact(Append(list, t), S \cup {t})
<1> DEFINE longer == Append(list, t)
           n == Len(list)
<1>1. list \in Seq(Tasks) /\ n \in Nat
  BY DEF Exact
<1>2. /\ longer \in Seq(Tasks) /\ Len(longer) = n + 1 /\ longer[n + 1] = t
      /\ \A i \in 1 .. n : longer[i] = list[i]
  BY <1>1
<1>3. \A i \in 1 .. n : list[i] # t /\ list[i] \in Tasks
  BY <1>1 DEF Exact
<1> HIDE DEF longer
<1>4. 1 .. n + 1 = (1 .. n) \cup {n + 1}
  BY <1>1
<1>5. \A u \in Tasks : u \in S \cup {t} <=> \E i \in 1 .. Len(longer) : longer[i] = u
  <2>1. \A u \in Tasks : u \in S <=> \E i \in 1 .. n : list[i] = u
    BY DEF Exact
  <2> HIDE DEF n
  <2>2. QED
    BY <1>2, <1>4, <2>1
<1>6. \A i, j \in 1 .. Len(longer) : longer[i] = longer[j] => i = j
  <2>1. \A i, j \in 1 .. n : list[i] = list[j] => i = j
    BY DEF Exact
  <2> HIDE DEF n
  <2>2. QED
    BY <1>2, <1>3, <1>4, <2>1
<1>7. QED
  BY <1>2, <1>5, <1>6 DEF Exact

\* os_ListPopFront.
LEMMA PopExact ==
    ASSUME NEW list, NEW S, Exact(list, S), list # <<>>
    PROVE  /\ Head(list) \in S /\ Head(list) \in Tasks
           /\ Exact(Tail(list), S \ {Head(list)})
           /\ Len(Tail(list)) = Len(list) - 1
           /\ \A f \in [Tasks -> Int] : Ranked(list, f) =>
                 /\ Ranked(Tail(list), f)
                 /\ \A t \in Tasks : t \in S => f[Head(list)] <= f[t]
<1> DEFINE rest == Tail(list)
           t == Head(list)
           n == Len(list)
<1>1. list \in Seq(Tasks) /\ n \in Nat /\ n >= 1 /\ t = list[1] /\ 1 \in 1 .. n
  BY DEF Exact
<1>2. /\ rest \in Seq(Tasks) /\ Len(rest) = n - 1
      /\ \A i \in 1 .. n - 1 : rest[i] = list[i + 1]
  BY <1>1
<1>3. /\ \A i \in 1 .. n : list[i] \in Tasks
      /\ \A i, j \in 1 .. n : list[i] = list[j] => i = j
      /\ \A u \in Tasks : u \in S <=> \E i \in 1 .. n : list[i] = u
  BY <1>1 DEF Exact
<1>4. t \in S /\ t \in Tasks
  BY <1>1, <1>3
<1> HIDE DEF rest, n
<1>5. /\ \A i \in 1 .. n - 1 : i + 1 \in 1 .. n /\ i + 1 # 1
      /\ \A i \in 1 .. n : i # 1 => i - 1 \in 1 .. n - 1 /\ (i - 1) + 1 = i
  BY <1>1
<1>6. \A i, j \in 1 .. Len(rest) : rest[i] = rest[j] => i = j
  <2> SUFFICES ASSUME NEW i \in 1 .. n - 1, NEW j \in 1 .. n - 1, rest[i] = rest[j] PROVE i = j
    BY <1>2
  <2>1. i + 1 = j + 1
    BY <1>2, <1>3, <1>5
  <2>2. QED
    BY <2>1
<1>7. \A u \in Tasks : u \in S \ {t} <=> \E i \in 1 .. Len(rest) : rest[i] = u
  <2>1. ASSUME NEW u \in Tasks, u \in S, u # t PROVE \E i \in 1 .. n - 1 : rest[i] = u
    <3>1. PICK i \in 1 .. n : list[i] = u
      BY <1>3, <2>1
    <3>2. i # 1
      BY <1>1, <2>1, <3>1
    <3>3. i - 1 \in 1 .. n - 1 /\ rest[i - 1] = u
      BY <1>2, <1>5, <3>1, <3>2
    <3>4. QED
      BY <3>3
  <2>2. ASSUME NEW i \in 1 .. n - 1 PROVE rest[i] \in S /\ rest[i] # t
    <3>1. i + 1 \in 1 .. n /\ i + 1 # 1 /\ rest[i] = list[i + 1]
      BY <1>2, <1>5
    <3>2. list[i + 1] # list[1] /\ list[i + 1] \in S
      BY <1>1, <1>3, <3>1
    <3>3. QED
      BY <1>1, <3>1, <3>2
  <2>3. QED
    BY <1>2, <2>1, <2>2
<1>8. ASSUME NEW f \in [Tasks -> Int], Ranked(list, f)
      PROVE  Ranked(rest, f) /\ \A u \in Tasks : u \in S => f[t] <= f[u]
  <2>1. Ranked(rest, f)
    <3> SUFFICES ASSUME NEW i \in 1 .. n - 1, NEW j \in 1 .. n - 1, i < j
                 PROVE  f[rest[i]] <= f[rest[j]]
      BY <1>2 DEF Ranked
    <3>1. i + 1 \in 1 .. n /\ j + 1 \in 1 .. n /\ i + 1 < j + 1
      BY <1>5
    <3>2. f[list[i + 1]] <= f[list[j + 1]]
      BY <1>8, <3>1 DEF Ranked, n
    <3>3. QED
      BY <1>2, <3>2
  <2>2. ASSUME NEW u \in Tasks, u \in S PROVE f[t] <= f[u]
    <3>1. PICK i \in 1 .. n : list[i] = u
      BY <1>3, <2>2
    <3>2. CASE i = 1
      <4>1. t = u /\ f[t] \in Int
        BY <1>1, <1>4, <3>1, <3>2
      <4>2. QED
        BY <4>1
    <3>3. CASE i # 1
      <4>1. 1 < i
        BY <3>3
      <4>2. QED
        BY <1>1, <1>8, <3>1, <4>1 DEF Ranked, n
    <3>4. QED
      BY <3>2, <3>3
  <2>3. QED
    BY <2>1, <2>2
<1>9. Exact(rest, S \ {t})
  BY <1>2, <1>6, <1>7 DEF Exact
<1>10. QED
  BY <1>2, <1>4, <1>8, <1>9 DEF rest, n

\* The insertion loops, of a task that is not on the list.
LEMMA InsertExact ==
    ASSUME NEW list, NEW S, Exact(list, S), NEW t \in Tasks, t \notin S,
           NEW P, P \subseteq 1 .. Len(list)
    PROVE  LET longer == InsertBeforeFirst(list, t, P) IN
           /\ Exact(longer, S \cup {t})
           /\ \A f \in [Tasks -> Int] :
                 Ranked(list, f) /\ P = {i \in 1 .. Len(list) : f[t] < f[list[i]]}
                 => Ranked(longer, f)
<1> DEFINE n == Len(list)
           Q == P \cup {n + 1}
           m == Min(Q)
           longer == InsertAt(list, m, t)
<1>1. list \in Seq(Tasks) /\ n \in Nat /\ P \subseteq 1 .. n
  BY DEF Exact
<1>2. /\ \A i \in 1 .. n : list[i] \in Tasks
      /\ \A i, j \in 1 .. n : list[i] = list[j] => i = j
      /\ \A u \in Tasks : u \in S <=> \E i \in 1 .. n : list[i] = u
  BY <1>1 DEF Exact
<1>3. m \in Q /\ \A y \in Q : m <= y
  <2> HIDE DEF n
  <2>1. Q \subseteq Nat /\ Q # {}
    BY <1>1
  <2> HIDE DEF Q
  <2>2. QED
    BY <2>1, MinimumOfNaturals
<1> HIDE DEF m
<1>4. m \in 1 .. n + 1
  BY <1>1, <1>3
<1>5. /\ longer \in Seq(Tasks) /\ Len(longer) = n + 1
      /\ \A j \in 1 .. n + 1 :
            longer[j] = IF j < m THEN list[j] ELSE IF j = m THEN t ELSE list[j - 1]
  BY <1>1, <1>4, InsertAtElements
<1> HIDE DEF longer, n
<1> DEFINE From(j) == IF j < m THEN j ELSE j - 1
           To(i) == IF i < m THEN i ELSE i + 1
<1>6. \A j \in 1 .. n + 1 : j # m => From(j) \in 1 .. n /\ longer[j] = list[From(j)]
  BY <1>1, <1>4, <1>5
<1>7. \A i \in 1 .. n : To(i) \in 1 .. n + 1 /\ To(i) # m /\ From(To(i)) = i
  BY <1>1, <1>4
<1>8. \A i, j \in 1 .. n + 1 : i # m /\ j # m => (i < j <=> From(i) < From(j))
  BY <1>1, <1>4
<1>9. longer[m] = t
  BY <1>4, <1>5
<1> HIDE DEF From, To
<1>10. \A i, j \in 1 .. Len(longer) : longer[i] = longer[j] => i = j
  <2> SUFFICES ASSUME NEW i \in 1 .. n + 1, NEW j \in 1 .. n + 1, longer[i] = longer[j] PROVE i = j
    BY <1>5
  <2>1. \A x \in 1 .. n + 1 : x # m => longer[x] # t
    BY <1>2, <1>6
  <2>2. CASE i = m \/ j = m
    BY <1>9, <2>1, <2>2
  <2>3. CASE i # m /\ j # m
    <3>1. From(i) = From(j) /\ From(i) \in 1 .. n
      BY <1>2, <1>6, <2>3
    <3>2. ~(i < j) /\ ~(j < i)
      BY <1>1, <1>8, <2>3, <3>1
    <3>3. QED
      BY <1>1, <3>2
  <2>4. QED
    BY <2>2, <2>3
<1>11. \A u \in Tasks : u \in S \cup {t} <=> \E i \in 1 .. Len(longer) : longer[i] = u
  <2>1. ASSUME NEW u \in Tasks, u \in S PROVE \E j \in 1 .. n + 1 : longer[j] = u
    <3>1. PICK i \in 1 .. n : list[i] = u
      BY <1>2, <2>1
    <3>2. To(i) \in 1 .. n + 1 /\ longer[To(i)] = u
      BY <1>6, <1>7, <3>1
    <3>3. QED
      BY <3>2
  <2>2. ASSUME NEW j \in 1 .. n + 1 PROVE longer[j] \in S \cup {t}
    <3>1. CASE j = m
      BY <1>9, <3>1
    <3>2. CASE j # m
      BY <1>2, <1>6, <3>2
    <3>3. QED
      BY <3>1, <3>2
  <2>3. QED
    BY <1>4, <1>5, <1>9, <2>1, <2>2
<1>12. ASSUME NEW f \in [Tasks -> Int], Ranked(list, f), P = {i \in 1 .. n : f[t] < f[list[i]]}
       PROVE  Ranked(longer, f)
  <2> SUFFICES ASSUME NEW i \in 1 .. n + 1, NEW j \in 1 .. n + 1, i < j
               PROVE  f[longer[i]] <= f[longer[j]]
    BY <1>5 DEF Ranked
  <2>1. \A x, y \in 1 .. n : x < y => f[list[x]] <= f[list[y]]
    BY <1>12 DEF Ranked, n
  <2>2. f[t] \in Int /\ \A x \in 1 .. n : f[list[x]] \in Int
    BY <1>2
  <2>3. \A x \in 1 .. n : x < m => f[list[x]] <= f[t]
    BY <1>1, <1>3, <1>4, <1>12, <2>2
  <2>4. \A x \in 1 .. n : x >= m => f[t] <= f[list[x]]
    <3> SUFFICES ASSUME NEW x \in 1 .. n, x >= m PROVE f[t] <= f[list[x]]
      OBVIOUS
    <3>1. m \in P
      BY <1>1, <1>3, <1>4
    <3>2. f[t] < f[list[m]] /\ m \in 1 .. n
      BY <1>12, <3>1
    <3>3. f[list[m]] <= f[list[x]]
      BY <1>1, <2>1, <2>2, <3>2
    <3>4. QED
      BY <2>2, <3>2, <3>3
  <2>5. CASE i = m
    <3>1. j # m /\ From(j) \in 1 .. n /\ From(j) >= m
      BY <1>1, <1>4, <1>6, <2>5 DEF From
    <3>2. QED
      BY <1>6, <1>9, <2>4, <2>5, <3>1
  <2>6. CASE j = m
    <3>1. i # m /\ From(i) \in 1 .. n /\ From(i) < m
      BY <1>1, <1>4, <1>6, <2>6 DEF From
    <3>2. QED
      BY <1>6, <1>9, <2>3, <2>6, <3>1
  <2>7. CASE i # m /\ j # m
    <3>1. From(i) \in 1 .. n /\ From(j) \in 1 .. n /\ From(i) < From(j)
      BY <1>6, <1>8, <2>7
    <3>2. QED
      BY <1>6, <2>1, <2>7, <3>1
  <2>8. QED
    BY <2>5, <2>6, <2>7
<1>13. Exact(longer, S \cup {t})
  BY <1>5, <1>10, <1>11 DEF Exact
<1>14. InsertBeforeFirst(list, t, P) = longer
  BY DEF InsertBeforeFirst, longer, m, n
<1>15. QED
  BY <1>12, <1>13, <1>14 DEF n
-------------------------------------------------------------------------------
(* Types.  Every operation of the kernel keeps the kernel record well typed and
   its ready bitmap exact, for every configuration.  One lemma per operator, in
   the order of the modules; loops by LoopInduction. *)

\* A kernel record of the right type whose bitmap tells which queues are filled;
\* os_ReadyPopHighest relies on the bitmap when it takes the head of a queue.
GoodKernel == {k \in Kernel : k.bitmap = {p \in Priorities : k.ready[p] # <<>>}}

\* The two values os_CommitSwitch writes into slice_remaining are slices.
LEMMA SliceRange == 0 \in 0 .. TimeSlice /\ TimeSlice \in 0 .. TimeSlice
  BY OsKernelAssumption

\* os_ReadyEnqueue sets the bit of the queue it fills.
LEMMA ReadyEnqueueGood ==
    ASSUME NEW k \in GoodKernel, NEW t \in Tasks
    PROVE  ReadyEnqueue(k, t) \in GoodKernel
<1> DEFINE p == k.effective[t]
           queue == Append(k.ready[p], t)
<1>1. k \in Kernel /\ p \in Priorities /\ k.ready[p] \in Seq(Tasks)
  BY DEF Kernel, GoodKernel
<1> HIDE DEF p
<1>2. queue \in Seq(Tasks) /\ queue # <<>>
  BY <1>1, AppendProperties
<1> HIDE DEF queue
<1> DEFINE r == [k EXCEPT !.ready[p] = queue, !.bitmap = @ \cup {p}]
<1>3. r \in Kernel
  BY <1>1, <1>2 DEF Kernel
<1>4. r.bitmap = {x \in Priorities : r.ready[x] # <<>>}
  BY <1>1, <1>2 DEF Kernel, GoodKernel
<1>5. r \in GoodKernel
  BY <1>3, <1>4 DEF GoodKernel
<1>6. ReadyEnqueue(k, t) \in {k, r}
  BY DEF ReadyEnqueue, queue, p
<1> QED
  BY <1>5, <1>6

\* os_ReadyPopHighest finds a task behind the highest set bit, and clears the
\* bit when it empties the queue.
LEMMA SwitchToHighestGood ==
    ASSUME NEW k \in GoodKernel
    PROVE  SwitchToHighest(k) \in GoodKernel
<1>1. CASE k.bitmap = {}
  <2> DEFINE r == [k EXCEPT !.current = NoTask, !.slice = 0]
  <2>1. r \in Kernel
    BY SliceRange DEF Kernel, GoodKernel
  <2>2. r.bitmap = {x \in Priorities : r.ready[x] # <<>>}
    BY DEF Kernel, GoodKernel
  <2> QED
    BY <1>1, <2>1, <2>2 DEF SwitchToHighest, GoodKernel
<1>2. CASE k.bitmap # {}
  <2> DEFINE p == Max(k.bitmap)
             next == Head(k.ready[p])
             rest == Tail(k.ready[p])
             bits == IF rest = <<>> THEN k.bitmap \ {p} ELSE k.bitmap
             r == [k EXCEPT !.ready[p] = rest, !.bitmap = bits, !.state[next] = "RUNNING",
                            !.current = next, !.slice = TimeSlice]
  <2>1. p \in k.bitmap
    <3>1. k.bitmap \subseteq 0 .. PriorityCount - 1 /\ PriorityCount - 1 \in Nat
      BY OsKernelAssumption DEF GoodKernel, Kernel, Priorities
    <3> QED
      BY <1>2, <3>1, MaximumOfRange
  <2> HIDE DEF p
  <2>2. p \in Priorities /\ k.ready[p] \in Seq(Tasks) /\ k.ready[p] # <<>>
    BY <2>1 DEF GoodKernel, Kernel
  <2>3. next \in Tasks /\ rest \in Seq(Tasks)
    BY <2>2
  <2> HIDE DEF next, rest
  <2>4. r \in Kernel
    BY <2>2, <2>3, SliceRange DEF Kernel, GoodKernel, TaskStates
  <2>5. r.bitmap = {x \in Priorities : r.ready[x] # <<>>}
    BY <2>2, <2>3 DEF Kernel, GoodKernel
  <2>6. SwitchToHighest(k) = r
    BY <1>2 DEF SwitchToHighest, p, next, rest
  <2> HIDE DEF r
  <2> QED
    BY <2>4, <2>5, <2>6 DEF GoodKernel
<1> QED
  BY <1>1, <1>2

\* The current task goes back to its queue before the next one is taken.
LEMMA RequeueThenSwitchGood ==
    ASSUME NEW k \in GoodKernel, CurrentRuns(k)
    PROVE  SwitchToHighest(RequeueCurrent(k)) \in GoodKernel
<1> DEFINE demoted == [k EXCEPT !.state[k.current] = "READY"]
<1>1. k.current \in Tasks
  BY DEF CurrentRuns, GoodKernel, Kernel
<1>2. demoted \in GoodKernel
  BY <1>1 DEF GoodKernel, Kernel, TaskStates
<1> HIDE DEF demoted
<1>3. RequeueCurrent(k) \in GoodKernel
  BY <1>1, <1>2, ReadyEnqueueGood DEF RequeueCurrent, demoted
<1> QED
  BY <1>3, SwitchToHighestGood

\* A scheduling decision keeps the kernel well formed.
LEMMA SchedScheduleGood ==
    ASSUME NEW k \in GoodKernel, NEW rotate
    PROVE  SchedSchedule(k, rotate) \in GoodKernel
  BY SwitchToHighestGood, RequeueThenSwitchGood, Zenon DEF SchedSchedule

\* So does a yield.
LEMMA SchedYieldCurrentGood ==
    ASSUME NEW k \in GoodKernel, CurrentRuns(k)
    PROVE  SchedYieldCurrent(k) \in GoodKernel
  BY RequeueThenSwitchGood DEF SchedYieldCurrent

\* So does the switch away from a task that has just blocked.
LEMMA SchedCurrentBlockedGood ==
    ASSUME NEW k \in GoodKernel
    PROVE  SchedCurrentBlocked(k) \in GoodKernel
  BY SwitchToHighestGood DEF SchedCurrentBlocked

\* Tick arithmetic stays within the width of the counter.
LEMMA TickRange == 0 \in Ticks /\ \A n \in Int : n % TickModulus \in Ticks
  BY OsKernelAssumption DEF Ticks

\* Unlinking a delay node leaves two lists of tasks.
LEMMA TimeDelayListRemoveGood ==
    ASSUME NEW k \in GoodKernel, NEW t \in Tasks
    PROVE  TimeDelayListRemove(k, t) \in GoodKernel
<1> DEFINE first == ListRemove(k.delayed, t)
           second == ListRemove(k.overflow, t)
           r == [k EXCEPT !.delayed = first, !.overflow = second, !.wake[t] = 0]
<1>1. first \in Seq(Tasks) /\ second \in Seq(Tasks)
  BY ListRemoveType DEF GoodKernel, Kernel
<1>2. TimeDelayListRemove(k, t) = r
  BY DEF TimeDelayListRemove
<1> HIDE DEF first, second
<1>3. r \in GoodKernel
  BY <1>1, TickRange DEF GoodKernel, Kernel
<1> QED
  BY <1>2, <1>3

\* Inserting a delay node leaves two lists of tasks, whichever is chosen.
LEMMA TimeDelayListInsertGood ==
    ASSUME NEW k \in GoodKernel, NEW t \in Tasks, NEW target \in Ticks
    PROVE  TimeDelayListInsert(k, t, target) \in GoodKernel
<1> DEFINE u == TimeDelayListRemove(k, t)
           Later(list) == {i \in 1 .. Len(list) : target < u.wake[list[i]]}
           first == InsertBeforeFirst(u.delayed, t, Later(u.delayed))
           second == InsertBeforeFirst(u.overflow, t, Later(u.overflow))
           a == [u EXCEPT !.wake[t] = target, !.delayed = first]
           b == [u EXCEPT !.wake[t] = target, !.overflow = second]
<1>1. u \in GoodKernel
  BY TimeDelayListRemoveGood
<1> HIDE DEF u
<1>2. first \in Seq(Tasks) /\ second \in Seq(Tasks)
  BY <1>1, InsertBeforeFirstType DEF GoodKernel, Kernel
<1>3. TimeDelayListInsert(k, t, target) \in {a, b}
  BY DEF TimeDelayListInsert, u
<1> HIDE DEF first, second
<1>4. a \in GoodKernel /\ b \in GoodKernel
  BY <1>1, <1>2 DEF GoodKernel, Kernel
<1> QED
  BY <1>3, <1>4

\* Inserting in a wait list leaves lists of tasks.
LEMMA WaitInsertByPriorityGood ==
    ASSUME NEW k \in GoodKernel, NEW l, NEW t \in Tasks
    PROVE  WaitInsertByPriority(k, l, t) \in GoodKernel
<1> DEFINE list == k.waiters[l]
           Lower == {i \in 1 .. Len(list) : k.effective[t] > k.effective[list[i]]}
           longer == InsertBeforeFirst(list, t, Lower)
           r == [k EXCEPT !.waiters[l] = longer]
<1>1. l \in WaitLists => list \in Seq(Tasks)
  BY DEF GoodKernel, Kernel
<1> HIDE DEF list
<1>2. l \in WaitLists => longer \in Seq(Tasks)
  BY <1>1, InsertBeforeFirstType
<1>3. WaitInsertByPriority(k, l, t) = r
  BY DEF WaitInsertByPriority, list
<1> HIDE DEF longer
<1>4. r \in GoodKernel
  BY <1>2 DEF GoodKernel, Kernel
<1> QED
  BY <1>3, <1>4

\* Outside the wait lists (OS_WAIT_NONE) there is nothing to remove from.
LEMMA WaitRemoveGood ==
    ASSUME NEW k \in GoodKernel, NEW l, NEW t \in Tasks
    PROVE  WaitRemove(k, l, t) \in GoodKernel
<1> DEFINE shorter == ListRemove(k.waiters[l], t)
           r == [k EXCEPT !.waiters[l] = shorter]
<1>1. WaitRemove(k, l, t) = r
  BY DEF WaitRemove
<1>2. l \in WaitLists => shorter \in Seq(Tasks)
  BY ListRemoveType DEF GoodKernel, Kernel
<1> HIDE DEF shorter
<1>3. r \in GoodKernel
  BY <1>2 DEF GoodKernel, Kernel
<1> QED
  BY <1>1, <1>3

\* os_ReadyRemove clears the bit of a queue exactly when it is left empty.
LEMMA ReadyRemoveGood ==
    ASSUME NEW k \in GoodKernel, NEW t \in Tasks
    PROVE  ReadyRemove(k, t) \in GoodKernel
<1> DEFINE p == k.effective[t]
           rest == ListRemove(k.ready[p], t)
           bits == IF rest = <<>> THEN k.bitmap \ {p} ELSE k.bitmap
           r == [k EXCEPT !.ready[p] = rest, !.bitmap = bits]
<1>1. p \in Priorities /\ k.ready[p] \in Seq(Tasks)
  BY DEF GoodKernel, Kernel
<1> HIDE DEF p
<1>2. rest \in Seq(Tasks)
  BY <1>1, ListRemoveType
<1>3. ListRemove(<<>>, t) = <<>>
  BY DEF ListRemove, ToSet
<1>4. k.ready[p] = <<>> => rest = <<>>
  BY <1>3
<1>5. ReadyRemove(k, t) = r
  BY DEF ReadyRemove, p
<1> HIDE DEF rest
<1>6. r \in Kernel /\ r.bitmap = {x \in Priorities : r.ready[x] # <<>>}
  BY <1>1, <1>2, <1>4 DEF GoodKernel, Kernel
<1> QED
  BY <1>5, <1>6 DEF GoodKernel

\* Moving a task to another priority keeps lists and bitmap in step, whatever
\* number the caller passes: priorities out of range are refused.
LEMMA TaskSetEffectivePriorityGood ==
    ASSUME NEW k \in GoodKernel, NEW t \in Tasks, NEW priority \in Int
    PROVE  TaskSetEffectivePriority(k, t, priority) \in GoodKernel
<1> DEFINE Set(u) == [u EXCEPT !.effective[t] = priority]
           l == k.waitOn[t]
           allowed == priority > IdlePriority /\ priority < PriorityCount
<1>1. allowed => priority \in Priorities
  BY OsKernelAssumption DEF Priorities, IdlePriority
<1>2. ASSUME NEW u \in GoodKernel, allowed PROVE Set(u) \in GoodKernel
  BY <1>1, <1>2 DEF GoodKernel, Kernel
<1>3. ASSUME allowed PROVE ReadyEnqueue(Set(ReadyRemove(k, t)), t) \in GoodKernel
  BY <1>2, <1>3, ReadyRemoveGood, ReadyEnqueueGood
<1>4. ASSUME allowed
      PROVE  WaitInsertByPriority(Set(WaitRemove(k, l, t)), l, t) \in GoodKernel
  BY <1>2, <1>4, WaitRemoveGood, WaitInsertByPriorityGood
<1>5. priority <= IdlePriority \/ priority >= PriorityCount \/ allowed
  BY OsKernelAssumption DEF IdlePriority
<1>6. TaskSetEffectivePriority(k, t, priority) \in
         {k} \cup IF allowed THEN {ReadyEnqueue(Set(ReadyRemove(k, t)), t),
                                   WaitInsertByPriority(Set(WaitRemove(k, l, t)), l, t), Set(k)}
                           ELSE {}
  BY <1>5, Zenon DEF TaskSetEffectivePriority
<1>7. CASE allowed
  <2> HIDE DEF Set, allowed
  <2> QED
    BY <1>2, <1>3, <1>4, <1>6, <1>7, Zenon
<1>8. CASE ~allowed
  BY <1>6, <1>8, Zenon
<1> QED
  BY <1>7, <1>8

\* Writing a status changes nothing else.
LEMMA SetResultGood ==
    ASSUME NEW k \in GoodKernel, NEW t \in Tasks, NEW status \in Statuses
    PROVE  SetResult(k, t, status) \in GoodKernel
  BY DEF SetResult, GoodKernel, Kernel

\* Blocking the current task, with or without a deadline, keeps the kernel well
\* formed.
LEMMA WaitBlockCurrentGood ==
    ASSUME NEW k \in GoodKernel, NEW l \in WaitLists, NEW timeout \in Ticks
    PROVE  WaitBlockCurrent(k, l, timeout) \in GoodKernel
<1> SUFFICES ASSUME CurrentRuns(k) PROVE WaitBlockCurrent(k, l, timeout) \in GoodKernel
  BY DEF WaitBlockCurrent
<1> DEFINE t == k.current
           marked == [k EXCEPT !.waitOn[t] = l, !.result[t] = "BAD_STATE",
                               !.state[t] = "BLOCKED_OBJECT"]
           blocked == WaitInsertByPriority(marked, l, t)
           deadline == (k.tick + Clamp(timeout)) % TickModulus
<1>1. t \in Tasks
  BY DEF CurrentRuns, GoodKernel, Kernel
<1>2. marked \in GoodKernel
  BY <1>1 DEF GoodKernel, Kernel, TaskStates, Statuses
<1>3. blocked \in GoodKernel
  <2> HIDE DEF marked, t
  <2> QED
    BY <1>1, <1>2, WaitInsertByPriorityGood
<1>4. deadline \in Ticks
  <2>1. k.tick + Clamp(timeout) \in Int
    BY OsKernelAssumption DEF GoodKernel, Kernel, Ticks, Clamp, MaxDelay
  <2> QED
    BY <2>1, TickRange
<1> HIDE DEF blocked, deadline
<1>5. TimeDelayListInsert(blocked, t, deadline) \in GoodKernel
  BY <1>1, <1>3, <1>4, TimeDelayListInsertGood
<1>6. WaitBlockCurrent(k, l, timeout) \in
         {SchedCurrentBlocked(blocked), SchedCurrentBlocked(TimeDelayListInsert(blocked, t, deadline))}
  BY DEF WaitBlockCurrent, blocked, deadline
<1> QED
  BY <1>3, <1>5, <1>6, SchedCurrentBlockedGood

\* The head of a wait list is a task, or nobody.
LEMMA WaitHeadType ==
    ASSUME NEW k \in GoodKernel, NEW l \in WaitLists
    PROVE  WaitHead(k, l) \in Tasks \cup {NoTask}
<1>1. k.waiters[l] \in Seq(Tasks)
  BY DEF GoodKernel, Kernel
<1> QED
  BY <1>1 DEF WaitHead

\* Taking the head off a wait list leaves a list of tasks.
LEMMA WaitPopGood ==
    ASSUME NEW k \in GoodKernel, NEW l \in WaitLists
    PROVE  WaitPop(k, l) \in GoodKernel
<1> DEFINE rest == Tail(k.waiters[l])
           r == [k EXCEPT !.waiters[l] = rest]
<1>1. k.waiters[l] # <<>> => rest \in Seq(Tasks)
  BY DEF GoodKernel, Kernel
<1>2. WaitPop(k, l) = IF k.waiters[l] = <<>> THEN k ELSE r
  BY DEF WaitPop
<1> HIDE DEF rest
<1>3. k.waiters[l] # <<>> => r \in GoodKernel
  BY <1>1 DEF GoodKernel, Kernel
<1> QED
  BY <1>2, <1>3

\* Ending a wait keeps the kernel well formed.
LEMMA WaitMakeReadyGood ==
    ASSUME NEW k \in GoodKernel, NEW t \in Tasks, NEW status \in Statuses
    PROVE  WaitMakeReady(k, t, status) \in GoodKernel
<1> DEFINE u == TimeDelayListRemove(k, t)
           r == [u EXCEPT !.waitOn[t] = NoWait, !.result[t] = status, !.state[t] = "READY"]
<1>1. u \in GoodKernel
  BY TimeDelayListRemoveGood
<1>2. WaitMakeReady(k, t, status) \in {k, ReadyEnqueue(r, t)}
  BY DEF WaitMakeReady
<1> HIDE DEF u
<1>3. r \in GoodKernel
  BY <1>1 DEF GoodKernel, Kernel, TaskStates
<1> HIDE DEF r
<1> QED
  BY <1>2, <1>3, ReadyEnqueueGood

\* So does the preemption that follows, taken or deferred.
LEMMA WaitMaybePreemptGood ==
    ASSUME NEW k \in GoodKernel, NEW woken
    PROVE  WaitMaybePreempt(k, woken) \in GoodKernel
<1>1. [k EXCEPT !.pending = TRUE] \in GoodKernel
  BY DEF GoodKernel, Kernel
<1> QED
  BY <1>1, SchedScheduleGood DEF WaitMaybePreempt

\* Entering a critical section only counts.
LEMMA EnterCriticalGood ==
    ASSUME NEW k \in GoodKernel
    PROVE  EnterCritical(k) \in GoodKernel
<1> DEFINE deeper == k.nesting + 1
<1>1. deeper \in Nat
  BY DEF GoodKernel, Kernel
<1>2. EnterCritical(k) = [k EXCEPT !.nesting = deeper]
  BY DEF EnterCritical
<1> HIDE DEF deeper
<1>3. [k EXCEPT !.nesting = deeper] \in GoodKernel
  BY <1>1 DEF GoodKernel, Kernel
<1> QED
  BY <1>2, <1>3

\* Leaving one never counts below zero.
LEMMA ExitCriticalGood ==
    ASSUME NEW k \in GoodKernel
    PROVE  ExitCritical(k) \in GoodKernel
<1>1. [k EXCEPT !.nesting = 0, !.pending = FALSE] \in GoodKernel
  BY DEF GoodKernel, Kernel
<1>2. ASSUME k.nesting # 0 PROVE [k EXCEPT !.nesting = @ - 1] \in GoodKernel
  <2> DEFINE outer == k.nesting - 1
  <2>1. outer \in Nat
    BY <1>2 DEF GoodKernel, Kernel
  <2> HIDE DEF outer
  <2>2. [k EXCEPT !.nesting = outer] \in GoodKernel
    BY <2>1 DEF GoodKernel, Kernel
  <2> QED
    BY <2>2 DEF outer
<1> QED
  BY <1>1, <1>2, SchedScheduleGood DEF ExitCritical
-------------------------------------------------------------------------------
(* os_mutex.c *)

\* The priorities a computation of the inheritance assigns.
Wishes == [Tasks -> Priorities]

\* A raised priority is one of those of the owner and its waiters.
LEMMA RaiseOwnerType ==
    ASSUME NEW k \in GoodKernel, NEW m \in Mutexes, NEW desired \in Wishes
    PROVE  RaiseOwner(k, m, desired) \in Wishes
<1> DEFINE o == k.owner[m]
           S == {desired[o]} \cup {desired[w] : w \in ToSet(k.waiters[MutexWaiters(m)])}
           top == Max(S)
<1>1. o \in Tasks \cup {NoTask}
  BY DEF GoodKernel, Kernel
<1>2. ASSUME o # NoTask PROVE top \in Priorities
  <2>1. MutexWaiters(m) \in WaitLists
    BY DEF WaitLists
  <2>2. k.waiters[MutexWaiters(m)] \in Seq(Tasks)
    BY <2>1 DEF GoodKernel, Kernel
  <2>3. ToSet(k.waiters[MutexWaiters(m)]) \subseteq Tasks
    BY <2>2 DEF ToSet
  <2> HIDE DEF o
  <2>4. S \subseteq Priorities /\ S # {}
    BY <1>1, <1>2, <2>3 DEF Wishes
  <2> HIDE DEF S
  <2>5. PriorityCount - 1 \in Nat /\ S \subseteq 0 .. PriorityCount - 1
    BY <2>4, OsKernelAssumption DEF Priorities
  <2>6. Max(S) \in S
    BY <2>4, <2>5, MaximumOfRange
  <2> QED
    BY <2>4, <2>6
<1>3. RaiseOwner(k, m, desired) = IF o = NoTask THEN desired ELSE [desired EXCEPT ![o] = top]
  BY DEF RaiseOwner
<1> HIDE DEF top, o
<1> QED
  BY <1>1, <1>2, <1>3 DEF Wishes

\* A pass over the mutex pool, mutex by mutex.
LEMMA InheritPassLoop ==
    ASSUME NEW k \in GoodKernel, NEW desired \in Wishes
    PROVE  \E after \in [0 .. MutexCount -> Wishes] :
              /\ after[0] = desired
              /\ \A m \in Mutexes : after[m + 1] = RaiseOwner(k, m, after[m])
              /\ InheritPass(k, desired) = after[MutexCount]
<1> DEFINE F == [m \in 0 .. MutexCount - 1 |-> [d \in Wishes |-> RaiseOwner(k, m, d)]]
           Rec(g) == g = [m \in 0 .. MutexCount |->
                             IF m = 0 THEN desired ELSE RaiseOwner(k, m - 1, g[m - 1])]
           after == CHOOSE g : Rec(g)
<1>1. MutexCount \in Nat /\ 0 .. MutexCount - 1 = Mutexes
  BY OsKernelAssumption DEF Mutexes
<1>2. F \in [0 .. MutexCount - 1 -> [Wishes -> Wishes]]
  BY <1>1, RaiseOwnerType
<1>3. \E g : Rec(g)
  <2>1. \A m \in 0 .. MutexCount - 1, d \in Wishes : F[m][d] = RaiseOwner(k, m, d)
    OBVIOUS
  <2> HIDE DEF F
  <2>2. PICK g : Loops(g, MutexCount, Wishes, desired, F)
    BY <1>1, <1>2, LoopExists
  <2>3. \A m \in 0 .. MutexCount : g[m] = IF m = 0 THEN desired ELSE RaiseOwner(k, m - 1, g[m - 1])
    <3> SUFFICES ASSUME NEW m \in 0 .. MutexCount, m # 0
                 PROVE  g[m] = RaiseOwner(k, m - 1, g[m - 1])
      BY <2>2 DEF Loops
    <3>1. m - 1 \in 0 .. MutexCount - 1 /\ m - 1 \in 0 .. MutexCount /\ (m - 1) + 1 = m
      BY <1>1
    <3> QED
      BY <2>1, <2>2, <3>1 DEF Loops
  <2>4. g = [m \in 0 .. MutexCount |-> g[m]]
    BY <2>2 DEF Loops
  <2> QED
    BY <2>3, <2>4
<1>4. Rec(after)
  BY <1>3
<1>5. InheritPass(k, desired) = after[MutexCount]
  BY DEF InheritPass
<1> HIDE DEF after
<1>6. \A m \in Mutexes : m \in 0 .. MutexCount /\ m + 1 \in 0 .. MutexCount
                        /\ (m + 1) - 1 = m /\ m + 1 # 0
  BY <1>1
<1>7. after[0] = desired /\ \A m \in Mutexes : after[m + 1] = RaiseOwner(k, m, after[m])
  BY <1>1, <1>4, <1>6
<1> DEFINE T == {m \in 0 .. MutexCount : after[m] \in Wishes}
<1>8. 0 \in T
  BY <1>1, <1>7
<1>9. ASSUME NEW m \in 0 .. MutexCount - 1, m \in T PROVE m + 1 \in T
  BY <1>1, <1>6, <1>7, <1>9, RaiseOwnerType
<1>10. \A m \in 0 .. MutexCount : m \in T
  <2> HIDE DEF T
  <2> QED
    BY <1>1, <1>8, <1>9, LoopInduction
<1>11. after \in [0 .. MutexCount -> Wishes]
  BY <1>4, <1>10
<1> HIDE DEF Rec
<1> QED
  BY <1>5, <1>7, <1>11

\* A pass over the mutex pool yields priorities.
LEMMA InheritPassType ==
    ASSUME NEW k \in GoodKernel, NEW desired \in Wishes
    PROVE  InheritPass(k, desired) \in Wishes
<1>1. MutexCount \in 0 .. MutexCount
  BY OsKernelAssumption
<1> QED
  BY <1>1, InheritPassLoop

\* The OS_MAX_TASKS passes.
LEMMA DesiredPriorityLoop ==
    ASSUME NEW k \in GoodKernel
    PROVE  \E after \in [0 .. MaxTasks -> Wishes] :
              /\ after[0] = BasePriority
              /\ \A n \in 0 .. MaxTasks - 1 : after[n + 1] = InheritPass(k, after[n])
              /\ DesiredPriority(k) = after[MaxTasks]
<1> DEFINE F == [n \in 0 .. MaxTasks - 1 |-> [d \in Wishes |-> InheritPass(k, d)]]
           Rec(g) == g = [n \in 0 .. MaxTasks |->
                             IF n = 0 THEN BasePriority ELSE InheritPass(k, g[n - 1])]
           after == CHOOSE g : Rec(g)
<1>1. MaxTasks \in Nat /\ BasePriority \in Wishes
  BY OsKernelAssumption DEF Wishes
<1>2. F \in [0 .. MaxTasks - 1 -> [Wishes -> Wishes]]
  BY InheritPassType
<1>3. \E g : Rec(g)
  <2>1. \A n \in 0 .. MaxTasks - 1, d \in Wishes : F[n][d] = InheritPass(k, d)
    OBVIOUS
  <2> HIDE DEF F
  <2>2. PICK g : Loops(g, MaxTasks, Wishes, BasePriority, F)
    BY <1>1, <1>2, LoopExists
  <2>3. \A n \in 0 .. MaxTasks : g[n] = IF n = 0 THEN BasePriority ELSE InheritPass(k, g[n - 1])
    <3> SUFFICES ASSUME NEW n \in 0 .. MaxTasks, n # 0
                 PROVE  g[n] = InheritPass(k, g[n - 1])
      BY <2>2 DEF Loops
    <3>1. n - 1 \in 0 .. MaxTasks - 1 /\ n - 1 \in 0 .. MaxTasks /\ (n - 1) + 1 = n
      BY <1>1
    <3> QED
      BY <2>1, <2>2, <3>1 DEF Loops
  <2>4. g = [n \in 0 .. MaxTasks |-> g[n]]
    BY <2>2 DEF Loops
  <2> QED
    BY <2>3, <2>4
<1>4. Rec(after)
  BY <1>3
<1>5. DesiredPriority(k) = after[MaxTasks]
  BY DEF DesiredPriority
<1> HIDE DEF after
<1>6. \A n \in 0 .. MaxTasks - 1 : n \in 0 .. MaxTasks /\ n + 1 \in 0 .. MaxTasks
                                  /\ (n + 1) - 1 = n /\ n + 1 # 0
  BY <1>1
<1>7. /\ after[0] = BasePriority
      /\ \A n \in 0 .. MaxTasks - 1 : after[n + 1] = InheritPass(k, after[n])
  BY <1>1, <1>4, <1>6
<1> DEFINE T == {n \in 0 .. MaxTasks : after[n] \in Wishes}
<1>8. 0 \in T
  BY <1>1, <1>7
<1>9. ASSUME NEW n \in 0 .. MaxTasks - 1, n \in T PROVE n + 1 \in T
  BY <1>6, <1>7, <1>9, InheritPassType
<1>10. \A n \in 0 .. MaxTasks : n \in T
  <2> HIDE DEF T
  <2> QED
    BY <1>1, <1>8, <1>9, LoopInduction
<1>11. after \in [0 .. MaxTasks -> Wishes]
  BY <1>4, <1>10
<1> HIDE DEF Rec
<1> QED
  BY <1>5, <1>7, <1>11

\* The computed priorities are priorities.
LEMMA DesiredPriorityType ==
    ASSUME NEW k \in GoodKernel
    PROVE  DesiredPriority(k) \in Wishes
<1>1. MaxTasks \in 0 .. MaxTasks
  BY OsKernelAssumption
<1> QED
  BY <1>1, DesiredPriorityLoop

\* The loop of os_MutexWaitersChanged over the tasks.
LEMMA MutexWaitersChangedLoop ==
    ASSUME NEW k \in GoodKernel
    PROVE  \E after \in [0 .. TaskCount -> GoodKernel], desired \in Wishes :
              /\ desired = DesiredPriority(k)
              /\ after[0] = k
              /\ \A t \in Tasks : after[t + 1] = TaskSetEffectivePriority(after[t], t, desired[t])
              /\ MutexWaitersChanged(k) = after[TaskCount]
<1> DEFINE desired == DesiredPriority(k)
           Body(u, t) == TaskSetEffectivePriority(u, t, desired[t])
           F == [t \in 0 .. TaskCount - 1 |-> [u \in GoodKernel |-> Body(u, t)]]
           Rec(g) == g = [n \in 0 .. TaskCount |->
                             IF n = 0 THEN k
                             ELSE TaskSetEffectivePriority(g[n - 1], n - 1, desired[n - 1])]
           after == CHOOSE g : Rec(g)
<1>1. TaskCount \in Nat /\ 0 .. TaskCount - 1 = Tasks
  BY OsKernelAssumption DEF Tasks
<1>2. ASSUME NEW u \in GoodKernel, NEW t \in Tasks PROVE Body(u, t) \in GoodKernel
  <2>1. desired[t] \in Priorities
    BY DesiredPriorityType DEF Wishes
  <2>2. desired[t] \in Int
    BY <2>1, OsKernelAssumption DEF Priorities
  <2> HIDE DEF desired
  <2> QED
    BY <2>2, TaskSetEffectivePriorityGood
<1>3. /\ MutexWaitersChanged(k) = after[TaskCount]
      /\ desired \in Wishes /\ desired = DesiredPriority(k)
  BY DesiredPriorityType DEF MutexWaitersChanged
<1> HIDE DEF desired
<1>4. F \in [0 .. TaskCount - 1 -> [GoodKernel -> GoodKernel]]
  BY <1>1, <1>2
<1>5. PICK g : Loops(g, TaskCount, GoodKernel, k, F)
  <2> HIDE DEF F
  <2> QED
    BY <1>1, <1>4, LoopExists
<1>6. \A t \in Tasks : t \in 0 .. TaskCount /\ t + 1 \in 0 .. TaskCount
                      /\ (t + 1) - 1 = t /\ t + 1 # 0
  BY <1>1
<1>7. \A t \in Tasks : g[t + 1] = Body(g[t], t)
  <2>1. \A t \in 0 .. TaskCount - 1, u \in GoodKernel : F[t][u] = Body(u, t)
    OBVIOUS
  <2> HIDE DEF F, Body
  <2> QED
    BY <1>1, <1>5, <1>6, <2>1 DEF Loops
<1>8. Rec(g)
  <2>1. \A n \in 0 .. TaskCount : g[n] = IF n = 0 THEN k ELSE Body(g[n - 1], n - 1)
    <3> SUFFICES ASSUME NEW n \in 0 .. TaskCount, n # 0
                 PROVE  g[n] = Body(g[n - 1], n - 1)
      BY <1>5 DEF Loops
    <3>1. n - 1 \in Tasks /\ (n - 1) + 1 = n
      BY <1>1
    <3> HIDE DEF Body
    <3> QED
      BY <1>7, <3>1
  <2>2. g = [n \in 0 .. TaskCount |-> g[n]]
    BY <1>5 DEF Loops
  <2> QED
    BY <2>1, <2>2
<1>9. Rec(after)
  BY <1>8
<1> HIDE DEF after
<1>10. after[0] = k /\ \A t \in Tasks : after[t + 1] = Body(after[t], t)
  BY <1>1, <1>6, <1>9
<1> DEFINE T == {n \in 0 .. TaskCount : after[n] \in GoodKernel}
<1>11. 0 \in T
  BY <1>1, <1>10
<1>12. ASSUME NEW n \in 0 .. TaskCount - 1, n \in T PROVE n + 1 \in T
  <2> HIDE DEF Body
  <2> QED
    BY <1>1, <1>2, <1>6, <1>10, <1>12
<1>13. \A n \in 0 .. TaskCount : n \in T
  <2> HIDE DEF T
  <2> QED
    BY <1>1, <1>11, <1>12, LoopInduction
<1>14. after \in [0 .. TaskCount -> GoodKernel]
  BY <1>9, <1>13
<1> HIDE DEF Rec
<1> QED
  BY <1>3, <1>10, <1>14

\* Recomputing the inherited priorities keeps the kernel well formed.
LEMMA MutexWaitersChangedGood ==
    ASSUME NEW k \in GoodKernel
    PROVE  MutexWaitersChanged(k) \in GoodKernel
<1>1. TaskCount \in 0 .. TaskCount
  BY OsKernelAssumption
<1> QED
  BY <1>1, MutexWaitersChangedLoop

\* Handing one mutex of a task to its first waiter does too.
LEMMA HandOverGood ==
    ASSUME NEW k \in GoodKernel, NEW m \in Mutexes, NEW t
    PROVE  HandOver(k, m, t) \in GoodKernel
<1> DEFINE l == MutexWaiters(m)
           w == WaitHead(k, l)
           popped == WaitPop(k, l)
           given == [popped EXCEPT !.owner[m] = w]
<1>1. l \in WaitLists
  BY DEF WaitLists
<1>2. w \in Tasks \cup {NoTask} /\ popped \in GoodKernel
  BY <1>1, WaitHeadType, WaitPopGood
<1>3. HandOver(k, m, t) \in {k, given} \cup IF w = NoTask THEN {} ELSE {WaitMakeReady(given, w, "OK")}
  BY DEF HandOver
<1> HIDE DEF w, popped
<1>4. given \in GoodKernel
  BY <1>2 DEF GoodKernel, Kernel
<1>5. w # NoTask => WaitMakeReady(given, w, "OK") \in GoodKernel
  <2> HIDE DEF given
  <2> QED
    BY <1>2, <1>4, WaitMakeReadyGood DEF Statuses
<1> QED
  BY <1>3, <1>4, <1>5

\* The loop of os_MutexReleaseTask over the mutexes.
LEMMA MutexReleaseTaskLoop ==
    ASSUME NEW k \in GoodKernel, NEW t
    PROVE  \E after \in [0 .. MutexCount -> GoodKernel] :
              /\ after[0] = k
              /\ \A m \in Mutexes : after[m + 1] = HandOver(after[m], m, t)
              /\ MutexReleaseTask(k, t) = IF \E m \in Mutexes : k.owner[m] = t
                                         THEN MutexWaitersChanged(after[MutexCount]) ELSE k
<1> DEFINE F == [m \in 0 .. MutexCount - 1 |-> [u \in GoodKernel |-> HandOver(u, m, t)]]
           Rec(g) == g = [m \in 0 .. MutexCount |->
                             IF m = 0 THEN k ELSE HandOver(g[m - 1], m - 1, t)]
           after == CHOOSE g : Rec(g)
<1>1. MutexCount \in Nat /\ 0 .. MutexCount - 1 = Mutexes
  BY OsKernelAssumption DEF Mutexes
<1>2. F \in [0 .. MutexCount - 1 -> [GoodKernel -> GoodKernel]]
  BY <1>1, HandOverGood
<1>3. PICK g : Loops(g, MutexCount, GoodKernel, k, F)
  <2> HIDE DEF F
  <2> QED
    BY <1>1, <1>2, LoopExists
<1>4. \A m \in Mutexes : m \in 0 .. MutexCount /\ m + 1 \in 0 .. MutexCount
                        /\ (m + 1) - 1 = m /\ m + 1 # 0
  BY <1>1
<1>5. \A m \in Mutexes : g[m + 1] = HandOver(g[m], m, t)
  <2>1. \A m \in 0 .. MutexCount - 1, u \in GoodKernel : F[m][u] = HandOver(u, m, t)
    OBVIOUS
  <2> HIDE DEF F
  <2> QED
    BY <1>1, <1>3, <1>4, <2>1 DEF Loops
<1>6. Rec(g)
  <2>1. \A m \in 0 .. MutexCount : g[m] = IF m = 0 THEN k ELSE HandOver(g[m - 1], m - 1, t)
    <3> SUFFICES ASSUME NEW m \in 0 .. MutexCount, m # 0
                 PROVE  g[m] = HandOver(g[m - 1], m - 1, t)
      BY <1>3 DEF Loops
    <3>1. m - 1 \in Mutexes /\ (m - 1) + 1 = m
      BY <1>1
    <3> QED
      BY <1>5, <3>1
  <2>2. g = [m \in 0 .. MutexCount |-> g[m]]
    BY <1>3 DEF Loops
  <2> QED
    BY <2>1, <2>2
<1>7. Rec(after)
  BY <1>6
<1>8. MutexReleaseTask(k, t) = IF \E m \in Mutexes : k.owner[m] = t
                              THEN MutexWaitersChanged(after[MutexCount]) ELSE k
  BY Zenon DEF MutexReleaseTask
<1> HIDE DEF after
<1>9. after[0] = k /\ \A m \in Mutexes : after[m + 1] = HandOver(after[m], m, t)
  BY <1>1, <1>4, <1>7
<1> DEFINE T == {m \in 0 .. MutexCount : after[m] \in GoodKernel}
<1>10. 0 \in T
  BY <1>1, <1>9
<1>11. ASSUME NEW m \in 0 .. MutexCount - 1, m \in T PROVE m + 1 \in T
  BY <1>1, <1>4, <1>9, <1>11, HandOverGood
<1>12. \A m \in 0 .. MutexCount : m \in T
  <2> HIDE DEF T
  <2> QED
    BY <1>1, <1>10, <1>11, LoopInduction
<1>13. after \in [0 .. MutexCount -> GoodKernel]
  BY <1>7, <1>12
<1> HIDE DEF Rec
<1> QED
  BY <1>8, <1>9, <1>13

\* And so does handing over all of them.
LEMMA MutexReleaseTaskGood ==
    ASSUME NEW k \in GoodKernel, NEW t
    PROVE  MutexReleaseTask(k, t) \in GoodKernel
<1>1. PICK after \in [0 .. MutexCount -> GoodKernel] :
         MutexReleaseTask(k, t) \in {k, MutexWaitersChanged(after[MutexCount])}
  BY MutexReleaseTaskLoop
<1>2. MutexCount \in 0 .. MutexCount
  BY OsKernelAssumption
<1> QED
  BY <1>1, <1>2, MutexWaitersChangedGood
-------------------------------------------------------------------------------
(* os_time.c *)

\* The tick counter wraps inside its width; the exchange swaps two lists.
LEMMA AdvanceTickGood ==
    ASSUME NEW k \in GoodKernel
    PROVE  AdvanceTick(k) \in GoodKernel
<1> DEFINE now == (k.tick + 1) % TickModulus
<1>1. now \in Ticks
  <2>1. k.tick + 1 \in Int
    BY OsKernelAssumption DEF GoodKernel, Kernel, Ticks
  <2> QED
    BY <2>1, TickRange
<1> DEFINE swapped == [k EXCEPT !.tick = 0, !.delayed = k.overflow, !.overflow = k.delayed]
           advanced == [k EXCEPT !.tick = now]
<1>2. AdvanceTick(k) \in {swapped, advanced}
  BY DEF AdvanceTick
<1> HIDE DEF now
<1>3. swapped \in GoodKernel
  BY TickRange DEF GoodKernel, Kernel
<1>4. advanced \in GoodKernel
  BY <1>1 DEF GoodKernel, Kernel
<1> QED
  BY <1>2, <1>3, <1>4

\* Waking a task whose delay node was popped keeps the kernel well formed.
LEMMA WakeGood ==
    ASSUME NEW k \in GoodKernel, NEW t \in Tasks
    PROVE  Wake(k, t) \in GoodKernel
<1> DEFINE l == k.waitOn[t]
           ended == [k EXCEPT !.state[t] = "READY"]
           timedOut == WaitMakeReady(WaitRemove(k, l, t), t, "TIMEOUT")
<1>1. Wake(k, t) \in {ReadyEnqueue(ended, t), timedOut, MutexWaitersChanged(timedOut), k}
  BY DEF Wake
<1> HIDE DEF l
<1>2. ReadyEnqueue(ended, t) \in GoodKernel
  <2>1. ended \in GoodKernel
    BY DEF GoodKernel, Kernel, TaskStates
  <2> HIDE DEF ended
  <2> QED
    BY <2>1, ReadyEnqueueGood
<1>3. timedOut \in GoodKernel
  BY WaitRemoveGood, WaitMakeReadyGood DEF Statuses
<1>4. MutexWaitersChanged(timedOut) \in GoodKernel
  BY <1>3, MutexWaitersChangedGood
<1> QED
  BY <1>1, <1>2, <1>3, <1>4

\* So does an iteration of the tick's loop, on a delay list that is not empty.
LEMMA WakeHeadGood ==
    ASSUME NEW k \in GoodKernel, k.delayed # <<>>
    PROVE  WakeHead(k) \in GoodKernel
<1> DEFINE t == Head(k.delayed)
           rest == Tail(k.delayed)
           popped == [k EXCEPT !.delayed = rest, !.wake[t] = 0]
<1>1. t \in Tasks /\ rest \in Seq(Tasks)
  BY DEF GoodKernel, Kernel
<1>2. WakeHead(k) = Wake(popped, t)
  BY DEF WakeHead, PopDelayed
<1> HIDE DEF t, rest
<1>3. popped \in GoodKernel
  BY <1>1, TickRange DEF GoodKernel, Kernel
<1> QED
  BY <1>1, <1>2, <1>3, WakeGood

\* What the loop over the due tasks computes.
Wakings == [k : GoodKernel, wokeHigher : BOOLEAN]

\* The loop over the due tasks: a kernel and a flag after each iteration.
LEMMA WakeDueLoop ==
    ASSUME NEW k \in GoodKernel
    PROVE  \E after \in [0 .. TaskCount -> Wakings] :
              /\ after[0].k = k
              /\ \A n \in Tasks :
                    LET u == after[n].k
                        v == after[n + 1].k
                        t == Head(u.delayed)
                    IN /\ v = IF HeadIsDue(u) THEN WakeHead(u) ELSE u
                       /\ after[n + 1].wokeHigher =
                             (after[n].wokeHigher \/ (HeadIsDue(u) /\ OutranksCurrent(v, t)))
              /\ WakeDue(k) = after[TaskCount]
<1> DEFINE first == [k |-> k, wokeHigher |-> FALSE]
           Body(b) == IF HeadIsDue(b.k)
                      THEN [k |-> WakeHead(b.k),
                            wokeHigher |-> b.wokeHigher \/ OutranksCurrent(WakeHead(b.k), Head(b.k.delayed))]
                      ELSE b
           F == [n \in 0 .. TaskCount - 1 |-> [b \in Wakings |-> Body(b)]]
           Rec(g) == g = [n \in 0 .. TaskCount |-> IF n = 0 THEN first ELSE Body(g[n - 1])]
           after == CHOOSE g : Rec(g)
<1>1. TaskCount \in Nat /\ 0 .. TaskCount - 1 = Tasks /\ first \in Wakings
  BY OsKernelAssumption DEF Wakings, Tasks
<1>2. ASSUME NEW b \in Wakings PROVE Body(b) \in Wakings
  <2>1. CASE HeadIsDue(b.k)
    <3>1. b.k \in GoodKernel /\ b.k.delayed # <<>>
      BY <2>1 DEF Wakings, HeadIsDue
    <3>2. WakeHead(b.k) \in GoodKernel
      BY <3>1, WakeHeadGood
    <3>3. (b.wokeHigher \/ OutranksCurrent(WakeHead(b.k), Head(b.k.delayed))) \in BOOLEAN
      OBVIOUS
    <3> QED
      BY <2>1, <3>2, <3>3 DEF Wakings
  <2>2. CASE ~HeadIsDue(b.k)
    BY <2>2
  <2> QED
    BY <2>1, <2>2
<1>3. WakeDue(k) = after[TaskCount]
  BY DEF WakeDue
<1>4. F \in [0 .. TaskCount - 1 -> [Wakings -> Wakings]]
  BY <1>2
<1>5. /\ first.k = k
      /\ \A b : Body(b).k = IF HeadIsDue(b.k) THEN WakeHead(b.k) ELSE b.k
  OBVIOUS
<1>16. \A b \in Wakings :
         Body(b).wokeHigher = (b.wokeHigher \/ (HeadIsDue(b.k) /\ OutranksCurrent(Body(b).k, Head(b.k.delayed))))
  BY Zenon DEF Wakings
<1> HIDE DEF Body, first
<1>6. PICK g : Loops(g, TaskCount, Wakings, first, F)
  <2> HIDE DEF F
  <2> QED
    BY <1>1, <1>4, LoopExists
<1>7. \A n \in Tasks : n \in 0 .. TaskCount /\ n + 1 \in 0 .. TaskCount
                      /\ (n + 1) - 1 = n /\ n + 1 # 0
  BY <1>1
<1>8. \A n \in Tasks : g[n + 1] = Body(g[n])
  <2>1. \A n \in 0 .. TaskCount - 1, b \in Wakings : F[n][b] = Body(b)
    OBVIOUS
  <2> HIDE DEF F
  <2> QED
    BY <1>1, <1>6, <1>7, <2>1 DEF Loops
<1>9. Rec(g)
  <2>1. \A n \in 0 .. TaskCount : g[n] = IF n = 0 THEN first ELSE Body(g[n - 1])
    <3> SUFFICES ASSUME NEW n \in 0 .. TaskCount, n # 0 PROVE g[n] = Body(g[n - 1])
      BY <1>6 DEF Loops
    <3>1. n - 1 \in Tasks /\ (n - 1) + 1 = n
      BY <1>1
    <3> QED
      BY <1>8, <3>1
  <2>2. g = [n \in 0 .. TaskCount |-> g[n]]
    BY <1>6 DEF Loops
  <2> QED
    BY <2>1, <2>2
<1>10. Rec(after)
  BY <1>9
<1> HIDE DEF after
<1>11. after[0] = first /\ \A n \in Tasks : after[n + 1] = Body(after[n])
  BY <1>1, <1>7, <1>10
<1> DEFINE T == {n \in 0 .. TaskCount : after[n] \in Wakings}
<1>12. 0 \in T
  BY <1>1, <1>11
<1>13. ASSUME NEW n \in 0 .. TaskCount - 1, n \in T PROVE n + 1 \in T
  BY <1>1, <1>2, <1>7, <1>11, <1>13
<1>14. \A n \in 0 .. TaskCount : n \in T
  <2> HIDE DEF T
  <2> QED
    BY <1>1, <1>12, <1>13, LoopInduction
<1>15. after \in [0 .. TaskCount -> Wakings]
  BY <1>10, <1>14
<1> HIDE DEF Rec
<1> QED
  <2>1. \A n \in Tasks : n \in 0 .. TaskCount
    BY <1>7
  <2>2. \A n \in Tasks : after[n] \in Wakings
    BY <1>15, <2>1
  <2> QED
    BY <1>3, <1>5, <1>11, <1>15, <1>16, <2>2

\* The loop over the due tasks yields a well-formed kernel and a flag.
LEMMA WakeDueType ==
    ASSUME NEW k \in GoodKernel
    PROVE  WakeDue(k) \in Wakings
<1>1. TaskCount \in 0 .. TaskCount
  BY OsKernelAssumption
<1> QED
  BY <1>1, WakeDueLoop

\* A tick never takes a slice below zero.
LEMMA UseSliceGood ==
    ASSUME NEW k \in GoodKernel
    PROVE  UseSlice(k) \in GoodKernel
<1> DEFINE less == k.slice - 1
<1>1. k.slice > 0 => less \in 0 .. TimeSlice
  BY OsKernelAssumption DEF GoodKernel, Kernel
<1>2. UseSlice(k) = IF k.current # NoTask /\ k.slice > 0 THEN [k EXCEPT !.slice = less] ELSE k
  BY DEF UseSlice
<1> HIDE DEF less
<1>3. k.slice > 0 => [k EXCEPT !.slice = less] \in GoodKernel
  BY <1>1 DEF GoodKernel, Kernel
<1> QED
  BY <1>2, <1>3

\* The decision at the end of a tick keeps the kernel well formed.
LEMMA TickSwitchGood ==
    ASSUME NEW k \in GoodKernel, NEW wokeHigher
    PROVE  TickSwitch(k, wokeHigher) \in GoodKernel
<1> DEFINE rotated == SchedSchedule(k, TRUE)
<1>1. rotated \in GoodKernel /\ SchedSchedule(k, FALSE) \in GoodKernel
  BY SchedScheduleGood
<1>2. TickSwitch(k, wokeHigher) \in {SchedSchedule(k, FALSE), k, rotated, [rotated EXCEPT !.slice = TimeSlice]}
  BY Zenon DEF TickSwitch
<1> HIDE DEF rotated
<1>3. [rotated EXCEPT !.slice = TimeSlice] \in GoodKernel
  BY <1>1, SliceRange DEF GoodKernel, Kernel
<1> QED
  BY <1>1, <1>2, <1>3

\* os_TimeTick as a whole keeps the kernel well formed.
LEMMA TimeTickGood ==
    ASSUME NEW k \in GoodKernel
    PROVE  TimeTick(k) \in GoodKernel
<1>1. WakeDue(AdvanceTick(k)).k \in GoodKernel
  BY AdvanceTickGood, WakeDueType DEF Wakings
<1> QED
  BY <1>1, UseSliceGood, TickSwitchGood DEF TimeTick
-------------------------------------------------------------------------------
(* Containers.  Every operation of the kernel keeps the ready queues, the wait
   lists and the delay lists in step with the tasks' states.  Between two calls
   of a handler a task may be on the move: it has left one list and is not on the
   next one yet.  `loose' is the set of such tasks. *)

\* Higher effective priorities rank first.
Rank(k) == [t \in Tasks |-> -k.effective[t]]

ReadyExact(k, loose) ==
    \A p \in Priorities :
        Exact(k.ready[p], {t \in Tasks \ loose : k.state[t] = "READY" /\ k.effective[t] = p})

WaitersExact(k, loose) ==
    \A l \in WaitLists :
        /\ Exact(k.waiters[l], {t \in Tasks \ loose : k.waitOn[t] = l})
        /\ Ranked(k.waiters[l], Rank(k))

DelaysExact(k) ==
    /\ Exact(k.delayed, ToSet(k.delayed)) /\ Exact(k.overflow, ToSet(k.overflow))
    /\ ToSet(k.delayed) \cap ToSet(k.overflow) = {}

StatesAgree(k, loose) ==
    \A t \in Tasks \ loose :
        /\ k.waitOn[t] # NoWait <=> k.state[t] = "BLOCKED_OBJECT"
        /\ DelayLinked(k, t) => k.state[t] \in {"BLOCKED_DELAY", "BLOCKED_OBJECT"}
        /\ k.state[t] = "BLOCKED_DELAY" => DelayLinked(k, t)

OneRuns(k) == \A t \in Tasks : k.state[t] = "RUNNING" => k.current = t

Consistent(k, loose) ==
    /\ k \in GoodKernel
    /\ ReadyExact(k, loose) /\ WaitersExact(k, loose)
    /\ DelaysExact(k) /\ StatesAgree(k, loose) /\ OneRuns(k)

\* Between handlers nobody is loose, and the current task runs.
Sound(k) == Consistent(k, {}) /\ (k.current # NoTask => k.state[k.current] = "RUNNING")

\* What moving tasks between ready queues, and within wait lists, leaves alone.
SameTasks(k, r) ==
    /\ r.started = k.started /\ r.state = k.state /\ r.current = k.current
    /\ r.tick = k.tick /\ r.delayed = k.delayed /\ r.overflow = k.overflow /\ r.wake = k.wake
    /\ r.waitOn = k.waitOn /\ r.result = k.result /\ r.owner = k.owner

\* What a scheduling decision leaves alone.
OnlySchedules(k, r) ==
    /\ r.started = k.started
    /\ \A t \in Tasks : r.state[t] = k.state[t] \/ {k.state[t], r.state[t]} \subseteq {"READY", "RUNNING"}
    /\ r.tick = k.tick /\ r.delayed = k.delayed /\ r.overflow = k.overflow /\ r.wake = k.wake
    /\ r.waitOn = k.waitOn /\ r.result = k.result /\ r.owner = k.owner

\* What a handler does to a task that did not ask for it: it starts no wait and gives
\* none a deadline; a wait ends with OK, or with TIMEOUT if it had a deadline; and
\* the status of a call whose wait is over stays.
Calm(k, r, u) ==
    \/ /\ k.state[u] = "BLOCKED_OBJECT" /\ r.state[u] = "BLOCKED_OBJECT"
       /\ r.result[u] = k.result[u] /\ (DelayLinked(r, u) => DelayLinked(k, u))
    \/ /\ k.state[u] = "BLOCKED_OBJECT" /\ r.state[u] # "BLOCKED_OBJECT"
       /\ r.result[u] = "OK" \/ (r.result[u] = "TIMEOUT" /\ DelayLinked(k, u))
    \/ /\ k.state[u] # "BLOCKED_OBJECT" /\ r.state[u] # "BLOCKED_OBJECT"
       /\ r.result[u] = k.result[u]

\* One step after the other.
LEMMA CalmFollows ==
    ASSUME NEW k, NEW j, NEW r, NEW u, Calm(k, j, u), Calm(j, r, u)
    PROVE  Calm(k, r, u)
  BY DEF Calm

\* Queues and the processor are no matter of waits.
LEMMA SchedulingIsCalm ==
    ASSUME NEW k, NEW r, SameTasks(k, r) \/ OnlySchedules(k, r), NEW u \in Tasks
    PROVE  Calm(k, r, u)
<1>1. /\ r.delayed = k.delayed /\ r.overflow = k.overflow /\ r.result = k.result
      /\ r.state[u] = k.state[u] \/ {k.state[u], r.state[u]} \subseteq {"READY", "RUNNING"}
  BY DEF SameTasks, OnlySchedules
<1>2. QED
  BY <1>1 DEF Calm, DelayLinked

\* The type of the fields these proofs use.
LEMMA FieldTypes ==
    ASSUME NEW k \in GoodKernel
    PROVE  /\ k.state \in [Tasks -> TaskStates] /\ k.effective \in [Tasks -> Priorities]
           /\ k.ready \in [Priorities -> Seq(Tasks)] /\ k.bitmap \subseteq Priorities
           /\ k.waitOn \in [Tasks -> WaitLists \cup {NoWait}]
           /\ k.waiters \in [WaitLists -> Seq(Tasks)]
           /\ k.delayed \in Seq(Tasks) /\ k.overflow \in Seq(Tasks)
           /\ k.wake \in [Tasks -> Ticks] /\ k.tick \in Ticks
           /\ k.current \in Tasks \cup {NoTask}
           /\ k.owner \in [Mutexes -> Tasks \cup {NoTask}]
           /\ k.result \in [Tasks -> Statuses]
           /\ Rank(k) \in [Tasks -> Int] /\ NoTask \notin Tasks
           /\ Priorities \subseteq Int /\ NoWait \notin WaitLists
<1>1. Priorities \subseteq Int /\ NoTask \notin Tasks
  BY OsKernelAssumption DEF Priorities, Tasks, NoTask
<1>2. NoWait \notin WaitLists
  BY DEF NoWait, WaitLists, SemWaiters, SendWaiters, ReceiveWaiters, MutexWaiters
<1>3. k \in Kernel
  BY DEF GoodKernel
<1>4. Rank(k) \in [Tasks -> Int]
  <2>1. \A t \in Tasks : k.effective[t] \in Int
    BY <1>1, <1>3 DEF Kernel
  <2>2. \A t \in Tasks : -k.effective[t] \in Int
    BY <2>1
  <2>3. QED
    BY <2>2 DEF Rank
<1>5. QED
  BY <1>1, <1>2, <1>3, <1>4 DEF Kernel

\* Which tasks the schedule node links: those READY or waiting, if not loose.
LEMMA WhoIsLinked ==
    ASSUME NEW k, NEW S, Consistent(k, S), NEW t \in Tasks
    PROVE  ScheduleLinked(k, t) <=> t \notin S /\ (k.state[t] = "READY" \/ k.waitOn[t] # NoWait)
<1>1. k \in GoodKernel
  BY DEF Consistent
<1>2. \A p \in Priorities : t \in ToSet(k.ready[p]) <=>
          t \notin S /\ k.state[t] = "READY" /\ k.effective[t] = p
  <2> SUFFICES ASSUME NEW p \in Priorities
               PROVE t \in ToSet(k.ready[p]) <=>
                       t \notin S /\ k.state[t] = "READY" /\ k.effective[t] = p
    OBVIOUS
  <2> DEFINE Q == {u \in Tasks \ S : k.state[u] = "READY" /\ k.effective[u] = p}
  <2>1. Exact(k.ready[p], Q) /\ Q \subseteq Tasks
    BY DEF Consistent, ReadyExact
  <2>2. ToSet(k.ready[p]) = Q
    <3> HIDE DEF Q
    <3> QED
      BY <2>1, ExactList
  <2> QED
    BY <2>2
<1>3. \A l \in WaitLists : t \in ToSet(k.waiters[l]) <=> t \notin S /\ k.waitOn[t] = l
  <2> SUFFICES ASSUME NEW l \in WaitLists
               PROVE t \in ToSet(k.waiters[l]) <=> t \notin S /\ k.waitOn[t] = l
    OBVIOUS
  <2> DEFINE Q == {u \in Tasks \ S : k.waitOn[u] = l}
  <2>1. Exact(k.waiters[l], Q) /\ Q \subseteq Tasks
    BY DEF Consistent, WaitersExact
  <2>2. ToSet(k.waiters[l]) = Q
    <3> HIDE DEF Q
    <3> QED
      BY <2>1, ExactList
  <2> QED
    BY <2>2
<1>4. k.effective[t] \in Priorities /\ k.waitOn[t] \in WaitLists \cup {NoWait} /\ NoWait \notin WaitLists
  BY <1>1, FieldTypes
<1>5. QED
  BY <1>2, <1>3, <1>4 DEF ScheduleLinked

\* os_ReadyEnqueue of a loose task that is READY, and neither waits nor sleeps.
LEMMA ReadyEnqueueExact ==
    ASSUME NEW k, NEW S, Consistent(k, S), NEW t \in Tasks, t \in S,
           k.state[t] = "READY", k.waitOn[t] = NoWait, ~DelayLinked(k, t)
    PROVE  LET r == ReadyEnqueue(k, t) IN
           Consistent(r, S \ {t}) /\ SameTasks(k, r) /\ r.effective = k.effective
<1> DEFINE r == ReadyEnqueue(k, t)
           p == k.effective[t]
           queue == Append(k.ready[p], t)
<1>1. k \in GoodKernel /\ k \in Kernel
  BY DEF Consistent, GoodKernel
<1>2. /\ p \in Priorities /\ k.ready \in [Priorities -> Seq(Tasks)]
      /\ k.waitOn \in [Tasks -> WaitLists \cup {NoWait}] /\ NoWait \notin WaitLists
  BY <1>1, FieldTypes
<1>3. ~ScheduleLinked(k, t)
  BY WhoIsLinked
<1>4. r = [k EXCEPT !.ready[p] = queue, !.bitmap = k.bitmap \cup {p}]
  BY <1>1, <1>3 DEF ReadyEnqueue, Kernel
<1> HIDE DEF queue
<1>5. /\ r.ready = [k.ready EXCEPT ![p] = queue] /\ r.waiters = k.waiters
      /\ r.effective = k.effective /\ SameTasks(k, r)
  BY <1>1, <1>4 DEF Kernel, SameTasks
<1>6. r \in GoodKernel
  BY <1>1, ReadyEnqueueGood
<1> HIDE DEF r
<1>7. ReadyExact(r, S \ {t})
  <2> SUFFICES ASSUME NEW x \in Priorities
               PROVE  Exact(r.ready[x], {u \in Tasks \ (S \ {t}) : r.state[u] = "READY" /\ r.effective[u] = x})
    BY DEF ReadyExact
  <2> DEFINE Old == {u \in Tasks \ S : k.state[u] = "READY" /\ k.effective[u] = x}
             New == {u \in Tasks \ (S \ {t}) : k.state[u] = "READY" /\ k.effective[u] = x}
  <2>1. Exact(k.ready[x], Old) /\ t \notin Old
    BY DEF Consistent, ReadyExact
  <2>2. New = IF x = p THEN Old \cup {t} ELSE Old
    OBVIOUS
  <2>3. r.ready[x] = IF x = p THEN queue ELSE k.ready[x]
    BY <1>2, <1>5
  <2>4. {u \in Tasks \ (S \ {t}) : r.state[u] = "READY" /\ r.effective[u] = x} = New
    BY <1>5 DEF SameTasks
  <2> HIDE DEF Old, New
  <2>5. Exact(r.ready[x], New)
    BY <2>1, <2>2, <2>3, AppendExact DEF queue
  <2>6. QED
    BY <2>4, <2>5
<1>8. WaitersExact(r, S \ {t})
  <2>1. Rank(r) = Rank(k)
    BY <1>5 DEF Rank
  <2>2. \A l \in WaitLists : {u \in Tasks \ (S \ {t}) : r.waitOn[u] = l} = {u \in Tasks \ S : k.waitOn[u] = l}
    BY <1>2, <1>5 DEF SameTasks
  <2>3. QED
    BY <1>5, <2>1, <2>2 DEF Consistent, WaitersExact
<1>9. DelaysExact(r) /\ OneRuns(r)
  BY <1>5 DEF Consistent, DelaysExact, OneRuns, SameTasks
<1>10. StatesAgree(r, S \ {t})
  BY <1>5 DEF Consistent, StatesAgree, SameTasks, DelayLinked
<1>11. QED
  BY <1>5, <1>6, <1>7, <1>8, <1>9, <1>10 DEF Consistent, r

\* The rank of a task that is not on a list does not matter to its order.
LEMMA RankedAgree ==
    ASSUME NEW list, NEW S, Exact(list, S), NEW f, NEW g,
           \A t \in Tasks : t \in S => f[t] = g[t], Ranked(list, f)
    PROVE  Ranked(list, g)
<1>1. \A i \in 1 .. Len(list) : list[i] \in Tasks /\ list[i] \in S
  BY DEF Exact
<1>2. QED
  BY <1>1 DEF Ranked

\* The priority of a task on neither a ready queue nor a wait list.
LEMMA SetEffectiveExact ==
    ASSUME NEW k, NEW S, Consistent(k, S), NEW t \in Tasks, NEW x \in Priorities,
           ~ScheduleLinked(k, t)
    PROVE  LET r == [k EXCEPT !.effective[t] = x] IN Consistent(r, S) /\ SameTasks(k, r)
<1> DEFINE r == [k EXCEPT !.effective[t] = x]
<1>1. k \in GoodKernel /\ k \in Kernel
  BY DEF Consistent, GoodKernel
<1>2. /\ k.effective \in [Tasks -> Priorities] /\ NoWait \notin WaitLists
  BY <1>1, FieldTypes
<1>3. t \in S \/ (k.state[t] # "READY" /\ k.waitOn[t] = NoWait)
  BY WhoIsLinked
<1>4. /\ r.effective = [k.effective EXCEPT ![t] = x] /\ r.ready = k.ready
      /\ r.waiters = k.waiters /\ SameTasks(k, r)
  BY <1>1 DEF Kernel, SameTasks
<1>5. r \in GoodKernel
  BY <1>1 DEF GoodKernel, Kernel
<1> HIDE DEF r
<1>6. ReadyExact(r, S)
  <2>1. \A p \in Priorities : {u \in Tasks \ S : r.state[u] = "READY" /\ r.effective[u] = p}
                             = {u \in Tasks \ S : k.state[u] = "READY" /\ k.effective[u] = p}
    BY <1>2, <1>3, <1>4 DEF SameTasks
  <2>2. QED
    BY <1>4, <2>1 DEF Consistent, ReadyExact
<1>7. WaitersExact(r, S)
  <2> SUFFICES ASSUME NEW l \in WaitLists
               PROVE  /\ Exact(r.waiters[l], {u \in Tasks \ S : r.waitOn[u] = l})
                      /\ Ranked(r.waiters[l], Rank(r))
    BY DEF WaitersExact
  <2> DEFINE Q == {u \in Tasks \ S : k.waitOn[u] = l}
  <2>1. Exact(k.waiters[l], Q) /\ Ranked(k.waiters[l], Rank(k))
    BY DEF Consistent, WaitersExact
  <2>2. t \notin Q
    BY <1>2, <1>3
  <2>3. \A u \in Tasks : u \in Q => Rank(k)[u] = Rank(r)[u]
    BY <1>2, <1>4, <2>2 DEF Rank
  <2> HIDE DEF Q
  <2>4. Ranked(k.waiters[l], Rank(r))
    BY <2>1, <2>3, RankedAgree
  <2>5. QED
    BY <1>4, <2>1, <2>4 DEF Q, SameTasks
<1>8. DelaysExact(r) /\ OneRuns(r) /\ StatesAgree(r, S)
  BY <1>4 DEF Consistent, DelaysExact, OneRuns, StatesAgree, SameTasks, DelayLinked
<1>9. QED
  BY <1>4, <1>5, <1>6, <1>7, <1>8 DEF Consistent, r

\* os_ReadyRemove: a READY task becomes loose.
LEMMA ReadyRemoveExact ==
    ASSUME NEW k, NEW S, Consistent(k, S), NEW t \in Tasks, t \notin S, k.state[t] = "READY"
    PROVE  LET r == ReadyRemove(k, t) IN
           Consistent(r, S \cup {t}) /\ SameTasks(k, r) /\ r.effective = k.effective
<1> DEFINE r == ReadyRemove(k, t)
           p == k.effective[t]
           rest == ListRemove(k.ready[p], t)
           bits == IF rest = <<>> THEN k.bitmap \ {p} ELSE k.bitmap
<1>1. k \in GoodKernel /\ k \in Kernel
  BY DEF Consistent, GoodKernel
<1>2. /\ p \in Priorities /\ k.ready \in [Priorities -> Seq(Tasks)]
      /\ NoWait \notin WaitLists
  BY <1>1, FieldTypes
<1>3. k.waitOn[t] = NoWait
  BY DEF Consistent, StatesAgree
<1>4. r = [k EXCEPT !.ready[p] = rest, !.bitmap = bits]
  BY <1>1 DEF ReadyRemove, Kernel
<1> HIDE DEF rest, bits
<1>5. /\ r.ready = [k.ready EXCEPT ![p] = rest] /\ r.waiters = k.waiters
      /\ r.effective = k.effective /\ SameTasks(k, r)
  BY <1>1, <1>4 DEF Kernel, SameTasks
<1>6. r \in GoodKernel
  BY <1>1, ReadyRemoveGood
<1> HIDE DEF r
<1>7. ReadyExact(r, S \cup {t})
  <2> SUFFICES ASSUME NEW x \in Priorities
               PROVE  Exact(r.ready[x], {u \in Tasks \ (S \cup {t}) : r.state[u] = "READY" /\ r.effective[u] = x})
    BY DEF ReadyExact
  <2> DEFINE Old == {u \in Tasks \ S : k.state[u] = "READY" /\ k.effective[u] = x}
             New == {u \in Tasks \ (S \cup {t}) : k.state[u] = "READY" /\ k.effective[u] = x}
  <2>1. Exact(k.ready[x], Old)
    BY DEF Consistent, ReadyExact
  <2>2. New = IF x = p THEN Old \ {t} ELSE Old
    OBVIOUS
  <2>3. r.ready[x] = IF x = p THEN rest ELSE k.ready[x]
    BY <1>2, <1>5
  <2>4. {u \in Tasks \ (S \cup {t}) : r.state[u] = "READY" /\ r.effective[u] = x} = New
    BY <1>5 DEF SameTasks
  <2> HIDE DEF Old, New
  <2>5. Exact(r.ready[x], New)
    BY <2>1, <2>2, <2>3, RemoveExact DEF rest
  <2>6. QED
    BY <2>4, <2>5
<1>8. WaitersExact(r, S \cup {t})
  <2>1. Rank(r) = Rank(k)
    BY <1>5 DEF Rank
  <2>2. \A l \in WaitLists : {u \in Tasks \ (S \cup {t}) : r.waitOn[u] = l} = {u \in Tasks \ S : k.waitOn[u] = l}
    BY <1>2, <1>3, <1>5 DEF SameTasks
  <2>3. QED
    BY <1>5, <2>1, <2>2 DEF Consistent, WaitersExact
<1>9. DelaysExact(r) /\ OneRuns(r) /\ StatesAgree(r, S \cup {t})
  BY <1>5 DEF Consistent, DelaysExact, OneRuns, StatesAgree, SameTasks, DelayLinked
<1>10. QED
  BY <1>5, <1>6, <1>7, <1>8, <1>9 DEF Consistent, r

\* Unlinking a waiting task from its wait list makes it loose.
LEMMA WaitRemoveExact ==
    ASSUME NEW k, NEW S, Consistent(k, S), NEW t \in Tasks, t \notin S,
           k.waitOn[t] \in WaitLists
    PROVE  LET r == WaitRemove(k, k.waitOn[t], t) IN
           Consistent(r, S \cup {t}) /\ SameTasks(k, r) /\ r.effective = k.effective
<1> DEFINE l == k.waitOn[t]
           r == WaitRemove(k, l, t)
           rest == ListRemove(k.waiters[l], t)
<1>1. k \in GoodKernel /\ k \in Kernel
  BY DEF Consistent, GoodKernel
<1>2. /\ k.waiters \in [WaitLists -> Seq(Tasks)] /\ NoWait \notin WaitLists
      /\ Rank(k) \in [Tasks -> Int]
  BY <1>1, FieldTypes
<1>3. k.state[t] = "BLOCKED_OBJECT"
  BY <1>2 DEF Consistent, StatesAgree
<1>4. r = [k EXCEPT !.waiters[l] = rest]
  BY <1>1 DEF WaitRemove, Kernel
<1> HIDE DEF rest
<1>5. /\ r.waiters = [k.waiters EXCEPT ![l] = rest] /\ r.ready = k.ready
      /\ r.effective = k.effective /\ SameTasks(k, r)
  BY <1>1, <1>4 DEF Kernel, SameTasks
<1>6. r \in GoodKernel
  BY <1>1, WaitRemoveGood
<1> HIDE DEF r
<1>7. WaitersExact(r, S \cup {t})
  <2> SUFFICES ASSUME NEW x \in WaitLists
               PROVE  /\ Exact(r.waiters[x], {u \in Tasks \ (S \cup {t}) : r.waitOn[u] = x})
                      /\ Ranked(r.waiters[x], Rank(r))
    BY DEF WaitersExact
  <2> DEFINE Old == {u \in Tasks \ S : k.waitOn[u] = x}
             New == {u \in Tasks \ (S \cup {t}) : k.waitOn[u] = x}
  <2>1. Exact(k.waiters[x], Old) /\ Ranked(k.waiters[x], Rank(k))
    BY DEF Consistent, WaitersExact
  <2>2. New = IF x = l THEN Old \ {t} ELSE Old
    OBVIOUS
  <2>3. r.waiters[x] = IF x = l THEN rest ELSE k.waiters[x]
    BY <1>2, <1>5
  <2>4. {u \in Tasks \ (S \cup {t}) : r.waitOn[u] = x} = New /\ Rank(r) = Rank(k)
    BY <1>5 DEF SameTasks, Rank
  <2> HIDE DEF Old, New
  <2>5. CASE x = l
    <3>1. Exact(rest, Old \ {t}) /\ Ranked(rest, Rank(k))
      BY <1>2, <2>1, <2>5, RemoveExact DEF rest
    <3>2. QED
      BY <2>2, <2>3, <2>4, <2>5, <3>1
  <2>6. CASE x # l
    BY <2>1, <2>2, <2>3, <2>4, <2>6
  <2>7. QED
    BY <2>5, <2>6
<1>8. ReadyExact(r, S \cup {t})
  <2>1. \A p \in Priorities : {u \in Tasks \ (S \cup {t}) : r.state[u] = "READY" /\ r.effective[u] = p}
                             = {u \in Tasks \ S : k.state[u] = "READY" /\ k.effective[u] = p}
    BY <1>3, <1>5 DEF SameTasks
  <2>2. QED
    BY <1>5, <2>1 DEF Consistent, ReadyExact
<1>9. DelaysExact(r) /\ OneRuns(r) /\ StatesAgree(r, S \cup {t})
  BY <1>5 DEF Consistent, DelaysExact, OneRuns, StatesAgree, SameTasks, DelayLinked
<1>10. QED
  BY <1>5, <1>6, <1>7, <1>8, <1>9 DEF Consistent, r

\* os_WaitInsertByPriority of a loose task that waits for the list's object.
LEMMA WaitInsertExact ==
    ASSUME NEW k, NEW S, Consistent(k, S), NEW t \in Tasks, t \in S,
           k.waitOn[t] \in WaitLists, k.state[t] = "BLOCKED_OBJECT"
    PROVE  LET r == WaitInsertByPriority(k, k.waitOn[t], t) IN
           Consistent(r, S \ {t}) /\ SameTasks(k, r) /\ r.effective = k.effective
<1> DEFINE l == k.waitOn[t]
           r == WaitInsertByPriority(k, l, t)
           list == k.waiters[l]
           Lower == {i \in 1 .. Len(list) : k.effective[t] > k.effective[list[i]]}
           longer == InsertBeforeFirst(list, t, Lower)
<1>1. k \in GoodKernel /\ k \in Kernel
  BY DEF Consistent, GoodKernel
<1>2. /\ k.waiters \in [WaitLists -> Seq(Tasks)] /\ NoWait \notin WaitLists
      /\ Rank(k) \in [Tasks -> Int] /\ \A u \in Tasks : k.effective[u] \in Int
  BY <1>1, FieldTypes
<1>3. r = [k EXCEPT !.waiters[l] = longer]
  BY <1>1 DEF WaitInsertByPriority, Kernel
<1>4. Lower \subseteq 1 .. Len(list) /\ Lower = {i \in 1 .. Len(list) : Rank(k)[t] < Rank(k)[list[i]]}
  <2>1. \A i \in 1 .. Len(list) : list[i] \in Tasks
    BY <1>2
  <2>2. \A u \in Tasks : (k.effective[t] > k.effective[u]) <=> (Rank(k)[t] < Rank(k)[u])
    BY <1>2 DEF Rank
  <2>3. QED
    BY <2>1, <2>2
<1> HIDE DEF longer, Lower
<1>5. /\ r.waiters = [k.waiters EXCEPT ![l] = longer] /\ r.ready = k.ready
      /\ r.effective = k.effective /\ SameTasks(k, r)
  BY <1>1, <1>3 DEF Kernel, SameTasks
<1>6. r \in GoodKernel
  BY <1>1, WaitInsertByPriorityGood
<1> HIDE DEF r
<1>7. WaitersExact(r, S \ {t})
  <2> SUFFICES ASSUME NEW x \in WaitLists
               PROVE  /\ Exact(r.waiters[x], {u \in Tasks \ (S \ {t}) : r.waitOn[u] = x})
                      /\ Ranked(r.waiters[x], Rank(r))
    BY DEF WaitersExact
  <2> DEFINE Old == {u \in Tasks \ S : k.waitOn[u] = x}
             New == {u \in Tasks \ (S \ {t}) : k.waitOn[u] = x}
  <2>1. Exact(k.waiters[x], Old) /\ Ranked(k.waiters[x], Rank(k)) /\ t \notin Old
    BY DEF Consistent, WaitersExact
  <2>2. New = IF x = l THEN Old \cup {t} ELSE Old
    OBVIOUS
  <2>3. r.waiters[x] = IF x = l THEN longer ELSE k.waiters[x]
    BY <1>2, <1>5
  <2>4. {u \in Tasks \ (S \ {t}) : r.waitOn[u] = x} = New /\ Rank(r) = Rank(k)
    BY <1>5 DEF SameTasks, Rank
  <2> HIDE DEF Old, New
  <2>5. CASE x = l
    <3>1. Exact(list, Old) /\ Ranked(list, Rank(k))
      BY <2>1, <2>5
    <3> HIDE DEF list
    <3>2. Exact(longer, Old \cup {t}) /\ Ranked(longer, Rank(k))
      BY <1>2, <1>4, <2>1, <3>1, InsertExact DEF longer
    <3>3. QED
      BY <2>2, <2>3, <2>4, <2>5, <3>2
  <2>6. CASE x # l
    BY <2>1, <2>2, <2>3, <2>4, <2>6
  <2>7. QED
    BY <2>5, <2>6
<1>8. ReadyExact(r, S \ {t})
  <2>1. \A p \in Priorities : {u \in Tasks \ (S \ {t}) : r.state[u] = "READY" /\ r.effective[u] = p}
                             = {u \in Tasks \ S : k.state[u] = "READY" /\ k.effective[u] = p}
    BY <1>5 DEF SameTasks
  <2>2. QED
    BY <1>5, <2>1 DEF Consistent, ReadyExact
<1>9. DelaysExact(r) /\ OneRuns(r) /\ StatesAgree(r, S \ {t})
  BY <1>2, <1>5 DEF Consistent, DelaysExact, OneRuns, StatesAgree, SameTasks, DelayLinked
<1>10. QED
  BY <1>5, <1>6, <1>7, <1>8, <1>9 DEF Consistent, r

\* os_TaskSetEffectivePriority moves the task to where its new priority puts it.
LEMMA TaskSetEffectivePriorityExact ==
    ASSUME NEW k, NEW S, Consistent(k, S), NEW t \in Tasks, NEW x \in Priorities
    PROVE  LET r == TaskSetEffectivePriority(k, t, x) IN Consistent(r, S) /\ SameTasks(k, r)
<1> DEFINE r == TaskSetEffectivePriority(k, t, x)
           l == k.waitOn[t]
           taken == ReadyRemove(k, t)
           unlinked == WaitRemove(k, l, t)
           moved == [taken EXCEPT !.effective[t] = x]
           changed == [unlinked EXCEPT !.effective[t] = x]
<1>1. k \in GoodKernel
  BY DEF Consistent
<1>2. /\ k.waitOn[t] \in WaitLists \cup {NoWait} /\ NoWait \notin WaitLists
  BY <1>1, FieldTypes
<1>3. SameTasks(k, k)
  BY DEF SameTasks
<1>4. CASE k.state[t] = "READY" /\ ScheduleLinked(k, t) /\ r = ReadyEnqueue(moved, t)
  <2>1. t \notin S /\ k.waitOn[t] = NoWait /\ ~DelayLinked(k, t)
    BY <1>4, WhoIsLinked DEF Consistent, StatesAgree
  <2>2. Consistent(taken, S \cup {t}) /\ SameTasks(k, taken)
    BY <1>4, <2>1, ReadyRemoveExact
  <2> HIDE DEF taken
  <2>3. ~ScheduleLinked(taken, t)
    BY <2>2, WhoIsLinked
  <2>4. Consistent(moved, S \cup {t}) /\ SameTasks(taken, moved)
    BY <2>2, <2>3, SetEffectiveExact
  <2> HIDE DEF moved
  <2>5. moved.state[t] = "READY" /\ moved.waitOn[t] = NoWait /\ ~DelayLinked(moved, t)
    BY <1>4, <2>1, <2>2, <2>4 DEF SameTasks, DelayLinked
  <2>6. Consistent(r, (S \cup {t}) \ {t}) /\ SameTasks(moved, r)
    BY <1>4, <2>4, <2>5, ReadyEnqueueExact
  <2>7. (S \cup {t}) \ {t} = S
    BY <2>1
  <2>8. QED
    BY <2>2, <2>4, <2>6, <2>7 DEF SameTasks
<1>5. CASE k.state[t] = "BLOCKED_OBJECT" /\ ScheduleLinked(k, t) /\ r = WaitInsertByPriority(changed, l, t)
  <2>1. t \notin S /\ l \in WaitLists
    BY <1>2, <1>5, WhoIsLinked
  <2>2. Consistent(unlinked, S \cup {t}) /\ SameTasks(k, unlinked)
    BY <1>5, <2>1, WaitRemoveExact
  <2> HIDE DEF unlinked
  <2>3. ~ScheduleLinked(unlinked, t)
    BY <2>2, WhoIsLinked
  <2>4. Consistent(changed, S \cup {t}) /\ SameTasks(unlinked, changed)
    BY <2>2, <2>3, SetEffectiveExact
  <2> HIDE DEF changed
  <2>5. changed.state[t] = "BLOCKED_OBJECT" /\ changed.waitOn[t] = l
    BY <1>5, <2>1, <2>2, <2>4 DEF SameTasks
  <2>6. Consistent(r, (S \cup {t}) \ {t}) /\ SameTasks(changed, r)
    BY <1>5, <2>1, <2>4, <2>5, WaitInsertExact
  <2>7. (S \cup {t}) \ {t} = S
    BY <2>1
  <2>8. QED
    BY <2>2, <2>4, <2>6, <2>7 DEF SameTasks
<1>6. CASE ~ScheduleLinked(k, t) /\ r = [k EXCEPT !.effective[t] = x]
  BY <1>6, SetEffectiveExact
<1>7. k.state[t] # "READY" /\ k.state[t] # "BLOCKED_OBJECT" => ~ScheduleLinked(k, t)
  BY <1>2, WhoIsLinked DEF Consistent, StatesAgree
<1>8. \/ r = k
      \/ k.state[t] = "READY" /\ ScheduleLinked(k, t) /\ r = ReadyEnqueue(moved, t)
      \/ k.state[t] = "BLOCKED_OBJECT" /\ ScheduleLinked(k, t) /\ r = WaitInsertByPriority(changed, l, t)
      \/ k.state[t] # "READY" /\ ~ScheduleLinked(k, t) /\ r = [k EXCEPT !.effective[t] = x]
  BY <1>7, Zenon DEF TaskSetEffectivePriority
<1> HIDE DEF r, moved, changed
<1>9. QED
  BY <1>3, <1>4, <1>5, <1>6, <1>8 DEF r

\* os_MutexWaitersChanged, whatever priorities it computes.
LEMMA MutexWaitersChangedExact ==
    ASSUME NEW k, NEW S, Consistent(k, S)
    PROVE  LET r == MutexWaitersChanged(k) IN Consistent(r, S) /\ SameTasks(k, r)
<1>1. k \in GoodKernel
  BY DEF Consistent
<1>2. PICK after \in [0 .. TaskCount -> GoodKernel], desired \in Wishes :
         /\ after[0] = k
         /\ \A t \in Tasks : after[t + 1] = TaskSetEffectivePriority(after[t], t, desired[t])
         /\ MutexWaitersChanged(k) = after[TaskCount]
  BY <1>1, MutexWaitersChangedLoop
<1>3. TaskCount \in Nat /\ 0 .. TaskCount - 1 = Tasks
  BY OsKernelAssumption DEF Tasks
<1> DEFINE T == {n \in 0 .. TaskCount : Consistent(after[n], S) /\ SameTasks(k, after[n])}
<1>4. 0 \in T
  BY <1>2, <1>3 DEF SameTasks
<1>5. ASSUME NEW n \in 0 .. TaskCount - 1, n \in T PROVE n + 1 \in T
  <2>1. n + 1 \in 0 .. TaskCount /\ n \in Tasks /\ desired[n] \in Priorities
    BY <1>3 DEF Wishes
  <2>2. Consistent(after[n + 1], S) /\ SameTasks(after[n], after[n + 1])
    BY <1>2, <1>5, <2>1, TaskSetEffectivePriorityExact
  <2>3. SameTasks(k, after[n + 1])
    BY <1>5, <2>2 DEF SameTasks
  <2>4. QED
    BY <2>1, <2>2, <2>3
<1> HIDE DEF T
<1>6. TaskCount \in T
  BY <1>3, <1>4, <1>5, LoopInduction
<1>7. QED
  BY <1>2, <1>6 DEF T
-------------------------------------------------------------------------------
(* The switch. *)

\* os_CommitSwitch takes the new task off its ready queue.
LEMMA SwitchToHighestSound ==
    ASSUME NEW k, Consistent(k, {}), \A t \in Tasks : k.state[t] # "RUNNING"
    PROVE  LET r == SwitchToHighest(k) IN
           Sound(r) /\ OnlySchedules(k, r) /\ r.effective = k.effective
<1> DEFINE r == SwitchToHighest(k)
<1>1. k \in GoodKernel /\ k \in Kernel
  BY DEF Consistent, GoodKernel
<1>2. r \in GoodKernel
  BY <1>1, SwitchToHighestGood
<1>3. CASE k.bitmap = {}
  <2>1. r = [k EXCEPT !.current = NoTask, !.slice = 0]
    BY <1>3 DEF SwitchToHighest
  <2>2. /\ r.state = k.state /\ r.effective = k.effective /\ r.ready = k.ready
        /\ r.waiters = k.waiters /\ r.current = NoTask /\ OnlySchedules(k, r)
    BY <1>1, <2>1 DEF Kernel, OnlySchedules
  <2> HIDE DEF r
  <2>3. ReadyExact(r, {}) /\ WaitersExact(r, {}) /\ DelaysExact(r) /\ StatesAgree(r, {}) /\ OneRuns(r)
    BY <2>2 DEF Consistent, ReadyExact, WaitersExact, DelaysExact, StatesAgree, OneRuns,
                OnlySchedules, Rank, DelayLinked
  <2>4. QED
    BY <1>2, <2>2, <2>3 DEF Sound, Consistent, r
<1>4. CASE k.bitmap # {}
  <2> DEFINE p == Max(k.bitmap)
             next == Head(k.ready[p])
             rest == Tail(k.ready[p])
             bits == IF rest = <<>> THEN k.bitmap \ {p} ELSE k.bitmap
  <2>1. p \in k.bitmap
    <3>1. k.bitmap \subseteq 0 .. PriorityCount - 1 /\ PriorityCount - 1 \in Nat
      BY <1>1, OsKernelAssumption DEF Kernel, Priorities
    <3>2. QED
      BY <1>4, <3>1, MaximumOfRange
  <2> HIDE DEF p
  <2>2. p \in Priorities /\ k.ready[p] # <<>>
    BY <1>1, <2>1 DEF GoodKernel, Kernel
  <2>3. r = [k EXCEPT !.ready[p] = rest, !.bitmap = bits, !.state[next] = "RUNNING",
                      !.current = next, !.slice = TimeSlice]
    BY <1>4 DEF SwitchToHighest, p
  <2> DEFINE Q == {t \in Tasks \ {} : k.state[t] = "READY" /\ k.effective[t] = p}
  <2>4. Exact(k.ready[p], Q)
    BY <2>2 DEF Consistent, ReadyExact
  <2>5. next \in Q /\ next \in Tasks /\ Exact(rest, Q \ {next})
    <3> HIDE DEF Q
    <3> QED
      BY <2>2, <2>4, PopExact
  <2> HIDE DEF rest, bits, next
  <2>6. /\ r.state = [k.state EXCEPT ![next] = "RUNNING"] /\ r.effective = k.effective
        /\ r.ready = [k.ready EXCEPT ![p] = rest] /\ r.waiters = k.waiters /\ r.current = next
        /\ r.started = k.started
        /\ r.tick = k.tick /\ r.delayed = k.delayed /\ r.overflow = k.overflow /\ r.wake = k.wake
        /\ r.waitOn = k.waitOn /\ r.result = k.result /\ r.owner = k.owner
    BY <1>1, <2>3 DEF Kernel
  <2>7. k.state[next] = "READY" /\ k.effective[next] = p
    BY <2>5
  <2>8. /\ k.state \in [Tasks -> TaskStates] /\ k.ready \in [Priorities -> Seq(Tasks)]
        /\ NoWait \notin WaitLists
    BY <1>1, FieldTypes
  <2>9. OnlySchedules(k, r)
    BY <2>6, <2>7, <2>8 DEF OnlySchedules
  <2> HIDE DEF r
  <2>10. ReadyExact(r, {})
    <3> SUFFICES ASSUME NEW x \in Priorities
                 PROVE  Exact(r.ready[x], {t \in Tasks \ {} : r.state[t] = "READY" /\ r.effective[t] = x})
      BY DEF ReadyExact
    <3> DEFINE New == {t \in Tasks \ {} : r.state[t] = "READY" /\ r.effective[t] = x}
               Old == {t \in Tasks \ {} : k.state[t] = "READY" /\ k.effective[t] = x}
    <3>1. New = IF x = p THEN Q \ {next} ELSE Old
      BY <2>5, <2>6, <2>7, <2>8
    <3>2. r.ready[x] = IF x = p THEN rest ELSE k.ready[x]
      BY <2>2, <2>6, <2>8
    <3>3. Exact(k.ready[x], Old)
      BY DEF Consistent, ReadyExact
    <3> HIDE DEF Old, New, Q
    <3>4. Exact(r.ready[x], New)
      BY <2>5, <3>1, <3>2, <3>3
    <3>5. QED
      BY <3>4 DEF New
  <2>11. WaitersExact(r, {}) /\ DelaysExact(r)
    BY <2>6 DEF Consistent, WaitersExact, DelaysExact, Rank
  <2>12. StatesAgree(r, {}) /\ OneRuns(r)
    BY <2>5, <2>6, <2>7, <2>8 DEF Consistent, StatesAgree, OneRuns, DelayLinked
  <2>13. r.current # NoTask => r.state[r.current] = "RUNNING"
    BY <2>5, <2>6, <2>8
  <2>14. QED
    BY <1>2, <2>6, <2>9, <2>10, <2>11, <2>12, <2>13 DEF Sound, Consistent, r
<1>5. QED
  BY <1>3, <1>4

\* The current task goes back to its queue.
LEMMA RequeueCurrentExact ==
    ASSUME NEW k, Consistent(k, {}), CurrentRuns(k)
    PROVE  LET q == RequeueCurrent(k) IN
           /\ Consistent(q, {}) /\ OnlySchedules(k, q) /\ q.effective = k.effective
           /\ \A u \in Tasks : q.state[u] # "RUNNING"
<1> DEFINE t == k.current
           demoted == [k EXCEPT !.state[t] = "READY"]
           queued == RequeueCurrent(k)
<1>1. k \in GoodKernel /\ k \in Kernel /\ t \in Tasks /\ k.state[t] = "RUNNING"
  BY DEF Consistent, GoodKernel, CurrentRuns, Kernel
<1>2. k.state \in [Tasks -> TaskStates]
  BY <1>1, FieldTypes
<1>3. k.waitOn[t] = NoWait /\ ~DelayLinked(k, t)
  BY <1>1 DEF Consistent, StatesAgree
<1>4. demoted \in GoodKernel
  BY <1>1 DEF GoodKernel, Kernel, TaskStates
<1>5. /\ demoted.state = [k.state EXCEPT ![t] = "READY"] /\ demoted.effective = k.effective
      /\ demoted.ready = k.ready /\ demoted.waiters = k.waiters /\ demoted.current = k.current
      /\ demoted.started = k.started
      /\ demoted.tick = k.tick /\ demoted.delayed = k.delayed /\ demoted.overflow = k.overflow
      /\ demoted.wake = k.wake
      /\ demoted.waitOn = k.waitOn /\ demoted.result = k.result /\ demoted.owner = k.owner
  BY <1>1 DEF Kernel
<1>6. queued = ReadyEnqueue(demoted, t)
  BY DEF RequeueCurrent
<1> HIDE DEF demoted, queued
<1>7. Consistent(demoted, {t})
  <2>1. ReadyExact(demoted, {t})
    <3>1. \A p \in Priorities :
            {u \in Tasks \ {t} : demoted.state[u] = "READY" /\ demoted.effective[u] = p}
              = {u \in Tasks \ {} : k.state[u] = "READY" /\ k.effective[u] = p}
      BY <1>1, <1>2, <1>5
    <3>2. QED
      BY <1>5, <3>1 DEF Consistent, ReadyExact
  <2>2. WaitersExact(demoted, {t})
    <3>1. \A l \in WaitLists : {u \in Tasks \ {t} : demoted.waitOn[u] = l}
                              = {u \in Tasks \ {} : k.waitOn[u] = l}
      BY <1>1, <1>3, <1>5, FieldTypes
    <3>2. Rank(demoted) = Rank(k)
      BY <1>5 DEF Rank
    <3>3. QED
      BY <1>5, <3>1, <3>2 DEF Consistent, WaitersExact
  <2>3. DelaysExact(demoted) /\ StatesAgree(demoted, {t}) /\ OneRuns(demoted)
    BY <1>1, <1>2, <1>5 DEF Consistent, DelaysExact, StatesAgree, OneRuns, DelayLinked
  <2>4. QED
    BY <1>4, <2>1, <2>2, <2>3 DEF Consistent
<1>8. /\ Consistent(queued, {}) /\ SameTasks(demoted, queued) /\ queued.effective = k.effective
  <2>1. demoted.state[t] = "READY" /\ demoted.waitOn[t] = NoWait /\ ~DelayLinked(demoted, t)
    BY <1>1, <1>2, <1>3, <1>5 DEF DelayLinked
  <2>2. {t} \ {t} = {}
    OBVIOUS
  <2>3. QED
    BY <1>1, <1>5, <1>6, <1>7, <2>1, <2>2, ReadyEnqueueExact
<1>9. \A u \in Tasks : queued.state[u] # "RUNNING"
  BY <1>1, <1>2, <1>5, <1>8 DEF SameTasks, Consistent, OneRuns
<1>10. OnlySchedules(k, queued)
  BY <1>1, <1>2, <1>5, <1>8 DEF OnlySchedules, SameTasks
<1>11. QED
  BY <1>8, <1>9, <1>10 DEF queued

\* ... before the next one is taken.
LEMMA RequeueThenSwitchSound ==
    ASSUME NEW k, Consistent(k, {}), CurrentRuns(k)
    PROVE  LET r == SwitchToHighest(RequeueCurrent(k)) IN
           Sound(r) /\ OnlySchedules(k, r) /\ r.effective = k.effective
<1> DEFINE q == RequeueCurrent(k)
           r == SwitchToHighest(q)
<1>1. /\ Consistent(q, {}) /\ OnlySchedules(k, q) /\ q.effective = k.effective
      /\ \A u \in Tasks : q.state[u] # "RUNNING"
  BY RequeueCurrentExact
<1> HIDE DEF q
<1>2. Sound(r) /\ OnlySchedules(q, r) /\ r.effective = q.effective
  BY <1>1, SwitchToHighestSound
<1> HIDE DEF r
<1>3. OnlySchedules(k, r)
  BY <1>1, <1>2 DEF OnlySchedules
<1>4. QED
  BY <1>1, <1>2, <1>3 DEF r, q

\* A task that is not RUNNING although it is current: no task is.
LEMMA NobodyRuns ==
    ASSUME NEW k, Consistent(k, {}), ~CurrentRuns(k)
    PROVE  \A t \in Tasks : k.state[t] # "RUNNING"
  BY FieldTypes DEF CurrentRuns, Consistent, OneRuns

\* os_SchedSchedule.
LEMMA SchedScheduleSound ==
    ASSUME NEW k, Sound(k), NEW rotate
    PROVE  LET r == SchedSchedule(k, rotate) IN
           Sound(r) /\ OnlySchedules(k, r) /\ r.effective = k.effective
<1> DEFINE r == SchedSchedule(k, rotate)
<1>1. \/ r = k
      \/ ~CurrentRuns(k) /\ r = SwitchToHighest(k)
      \/ CurrentRuns(k) /\ r = SwitchToHighest(RequeueCurrent(k))
  BY Zenon DEF SchedSchedule
<1>2. Consistent(k, {}) /\ OnlySchedules(k, k)
  BY DEF Sound, OnlySchedules
<1> HIDE DEF r
<1>3. QED
  BY <1>1, <1>2, NobodyRuns, SwitchToHighestSound, RequeueThenSwitchSound DEF r

\* os_SchedYieldCurrent.
LEMMA SchedYieldCurrentSound ==
    ASSUME NEW k, Sound(k)
    PROVE  LET r == SchedYieldCurrent(k) IN
           Sound(r) /\ OnlySchedules(k, r) /\ r.effective = k.effective
<1>1. Consistent(k, {}) /\ OnlySchedules(k, k)
  BY DEF Sound, OnlySchedules
<1>2. QED
  BY <1>1, RequeueThenSwitchSound DEF SchedYieldCurrent

\* The switch away from a task that has just blocked or ended.
LEMMA SchedCurrentBlockedSound ==
    ASSUME NEW k, Consistent(k, {})
    PROVE  LET r == SchedCurrentBlocked(k) IN
           Sound(r) /\ OnlySchedules(k, r) /\ r.effective = k.effective
<1>1. OnlySchedules(k, k) /\ (k.current = NoTask \/ CurrentRuns(k) => Sound(k))
  BY DEF Sound, OnlySchedules, CurrentRuns
<1>2. QED
  BY <1>1, NobodyRuns, SwitchToHighestSound DEF SchedCurrentBlocked
-------------------------------------------------------------------------------
(* Tasks on the move. *)

\* A task on no ready queue and no wait list may count as loose.
LEMMA Loosen ==
    ASSUME NEW k, NEW S, Consistent(k, S), NEW t \in Tasks, ~ScheduleLinked(k, t)
    PROVE  Consistent(k, S \cup {t})
<1>1. t \in S \/ (k.state[t] # "READY" /\ k.waitOn[t] = NoWait)
  BY WhoIsLinked
<1>2. ReadyExact(k, S \cup {t})
  <2>1. \A p \in Priorities : {u \in Tasks \ (S \cup {t}) : k.state[u] = "READY" /\ k.effective[u] = p}
                             = {u \in Tasks \ S : k.state[u] = "READY" /\ k.effective[u] = p}
    BY <1>1
  <2>2. QED
    BY <2>1 DEF Consistent, ReadyExact
<1>3. WaitersExact(k, S \cup {t})
  <2>1. \A l \in WaitLists : {u \in Tasks \ (S \cup {t}) : k.waitOn[u] = l}
                            = {u \in Tasks \ S : k.waitOn[u] = l}
    BY <1>1, FieldTypes DEF Consistent
  <2>2. QED
    BY <2>1 DEF Consistent, WaitersExact
<1>4. QED
  BY <1>2, <1>3 DEF Consistent, StatesAgree

\* A loose task is settled when its state calls for no ready queue and no wait list.
LEMMA Settle ==
    ASSUME NEW k, NEW S, Consistent(k, S), NEW t \in Tasks, t \in S,
           k.waitOn[t] = NoWait,
           \/ k.state[t] = "BLOCKED_DELAY" /\ DelayLinked(k, t)
           \/ k.state[t] \in {"RUNNING", "TERMINATED"} /\ ~DelayLinked(k, t)
    PROVE  Consistent(k, S \ {t})
<1>1. ReadyExact(k, S \ {t})
  <2>1. \A p \in Priorities : {u \in Tasks \ (S \ {t}) : k.state[u] = "READY" /\ k.effective[u] = p}
                             = {u \in Tasks \ S : k.state[u] = "READY" /\ k.effective[u] = p}
    OBVIOUS
  <2>2. QED
    BY <2>1 DEF Consistent, ReadyExact
<1>2. WaitersExact(k, S \ {t})
  <2>1. \A l \in WaitLists : {u \in Tasks \ (S \ {t}) : k.waitOn[u] = l}
                            = {u \in Tasks \ S : k.waitOn[u] = l}
    BY FieldTypes DEF Consistent
  <2>2. QED
    BY <2>1 DEF Consistent, WaitersExact
<1>3. QED
  BY <1>1, <1>2 DEF Consistent, StatesAgree

\* The lists say nothing about the state of a loose task.
LEMMA LooseChange ==
    ASSUME NEW k, NEW S, Consistent(k, S), NEW t \in Tasks, t \in S,
           NEW r \in GoodKernel,
           r.ready = k.ready, r.waiters = k.waiters, r.effective = k.effective,
           r.delayed = k.delayed, r.overflow = k.overflow, r.current = k.current,
           \A u \in Tasks : u # t => r.state[u] = k.state[u] /\ r.waitOn[u] = k.waitOn[u],
           r.state[t] # "RUNNING"
    PROVE  Consistent(r, S)
<1>1. ReadyExact(r, S)
  <2>1. \A p \in Priorities : {u \in Tasks \ S : r.state[u] = "READY" /\ r.effective[u] = p}
                             = {u \in Tasks \ S : k.state[u] = "READY" /\ k.effective[u] = p}
    OBVIOUS
  <2>2. QED
    BY <2>1 DEF Consistent, ReadyExact
<1>2. WaitersExact(r, S)
  <2>1. \A l \in WaitLists : {u \in Tasks \ S : r.waitOn[u] = l} = {u \in Tasks \ S : k.waitOn[u] = l}
    OBVIOUS
  <2>2. Rank(r) = Rank(k)
    BY DEF Rank
  <2>3. QED
    BY <2>1, <2>2 DEF Consistent, WaitersExact
<1>3. DelaysExact(r) /\ StatesAgree(r, S) /\ OneRuns(r)
  BY DEF Consistent, DelaysExact, StatesAgree, OneRuns, DelayLinked
<1>4. QED
  BY <1>1, <1>2, <1>3 DEF Consistent
-------------------------------------------------------------------------------
(* The delay lists. *)

\* Tick arithmetic is exact inside half the range of the counter.
LEMMA TickArithmetic ==
    /\ \A a, b \in Ticks : (a - b) % TickModulus = IF a >= b THEN a - b ELSE a - b + TickModulus
    /\ \A a, d \in Ticks : (a + d) % TickModulus =
          IF a + d < TickModulus THEN a + d ELSE a + d - TickModulus
    /\ MaxDelay \in Nat /\ 2 * MaxDelay + 2 = TickModulus
<1> DEFINE M == TickModulus
<1>1. M \in Nat /\ M > 3 /\ M % 2 = 0
  BY OsKernelAssumption
<1>2. Ticks = 0 .. M - 1
  BY DEF Ticks
<1>3. MaxDelay = M \div 2 - 1
  BY DEF MaxDelay
<1> HIDE DEF M
<1>4. \A n \in 0 .. M - 1 : n % M = n
  BY <1>1
<1>5. \A n \in M .. 2 * M - 1 : n % M = n - M
  BY <1>1
<1>6. \A n \in -M .. -1 : n % M = n + M
  BY <1>1
<1>7. MaxDelay \in Nat /\ 2 * MaxDelay + 2 = M
  BY <1>1, <1>3
<1>8. ASSUME NEW a \in Ticks, NEW b \in Ticks
      PROVE  (a - b) % M = IF a >= b THEN a - b ELSE a - b + M
  BY <1>1, <1>2, <1>4, <1>6
<1>9. ASSUME NEW a \in Ticks, NEW d \in Ticks
      PROVE  (a + d) % M = IF a + d < M THEN a + d ELSE a + d - M
  BY <1>1, <1>2, <1>4, <1>5
<1>10. QED
  BY <1>7, <1>8, <1>9 DEF M

\* The deadlines of the delay lists: sorted, none before `first' in the list of
\* the current period, and none so far ahead that its sign would be lost.
Deadlines(k, first) ==
    /\ Ranked(k.delayed, k.wake) /\ Ranked(k.overflow, k.wake)
    /\ \A t \in ToSet(k.delayed) : k.wake[t] >= first
    /\ \A t \in ToSet(k.overflow) : k.wake[t] < k.tick
    /\ \A t \in ToSet(k.delayed) \cup ToSet(k.overflow) :
          (k.wake[t] - k.tick) % TickModulus <= MaxDelay

\* What a change of the delay lists leaves alone.
OnlyDelays(k, r) ==
    /\ r.started = k.started /\ r.state = k.state /\ r.current = k.current /\ r.tick = k.tick
    /\ r.effective = k.effective /\ r.ready = k.ready /\ r.waiters = k.waiters
    /\ r.waitOn = k.waitOn /\ r.result = k.result /\ r.owner = k.owner

\* The delay lists of a consistent kernel, as sets.
LEMMA DelayLists ==
    ASSUME NEW k, DelaysExact(k)
    PROVE  /\ ToSet(k.delayed) \subseteq Tasks /\ ToSet(k.overflow) \subseteq Tasks
           /\ k.delayed \in Seq(Tasks) /\ k.overflow \in Seq(Tasks)
  BY OnList DEF DelaysExact, Exact

\* Consistency speaks of the delay lists only through DelayLinked.
LEMMA DelayChange ==
    ASSUME NEW k, NEW S, Consistent(k, S), NEW r \in GoodKernel, OnlyDelays(k, r),
           DelaysExact(r), NEW t \in Tasks,
           \A u \in Tasks : u # t => (DelayLinked(r, u) <=> DelayLinked(k, u)),
           \/ t \in S
           \/ k.state[t] = "BLOCKED_OBJECT"
           \/ ~DelayLinked(r, t) /\ k.state[t] # "BLOCKED_DELAY"
    PROVE  Consistent(r, S)
<1>1. ReadyExact(r, S) /\ WaitersExact(r, S) /\ OneRuns(r)
  BY DEF Consistent, OnlyDelays, ReadyExact, WaitersExact, OneRuns, Rank
<1>2. StatesAgree(r, S)
  BY DEF Consistent, StatesAgree, OnlyDelays
<1>3. QED
  BY <1>1, <1>2 DEF Consistent

\* os_TimeDelayListRemove.
LEMMA TimeDelayListRemoveExact ==
    ASSUME NEW k, NEW S, Consistent(k, S), NEW t \in Tasks,
           t \in S \/ k.state[t] # "BLOCKED_DELAY"
    PROVE  LET r == TimeDelayListRemove(k, t) IN
           /\ Consistent(r, S) /\ OnlyDelays(k, r) /\ ~DelayLinked(r, t)
           /\ r.wake = [k.wake EXCEPT ![t] = 0]
           /\ ToSet(r.delayed) = ToSet(k.delayed) \ {t}
           /\ ToSet(r.overflow) = ToSet(k.overflow) \ {t}
           /\ \A first \in Int : Deadlines(k, first) => Deadlines(r, first)
<1> DEFINE r == TimeDelayListRemove(k, t)
           A == ToSet(k.delayed)
           B == ToSet(k.overflow)
           a == ListRemove(k.delayed, t)
           b == ListRemove(k.overflow, t)
<1>1. k \in GoodKernel /\ k \in Kernel /\ k.wake \in [Tasks -> Ticks] /\ Ticks \subseteq Int
  BY OsKernelAssumption, FieldTypes DEF Consistent, GoodKernel, Ticks
<1>2. r \in GoodKernel
  BY <1>1, TimeDelayListRemoveGood
<1>3. /\ r.delayed = a /\ r.overflow = b /\ r.wake = [k.wake EXCEPT ![t] = 0]
      /\ OnlyDelays(k, r)
  BY <1>1 DEF TimeDelayListRemove, Kernel, OnlyDelays
<1>4. Exact(k.delayed, A) /\ Exact(k.overflow, B) /\ A \cap B = {} /\ A \subseteq Tasks /\ B \subseteq Tasks
  BY DelayLists DEF Consistent, DelaysExact
<1> HIDE DEF r, a, b, A, B
<1>5. Exact(a, A \ {t}) /\ Exact(b, B \ {t})
  BY <1>4, RemoveExact DEF a, b
<1>6. ToSet(a) = A \ {t} /\ ToSet(b) = B \ {t}
  <2>1. A \ {t} \subseteq Tasks /\ B \ {t} \subseteq Tasks
    BY <1>4
  <2>2. QED
    BY <1>5, <2>1, ExactList
<1>7. DelaysExact(r) /\ ~DelayLinked(r, t)
  BY <1>3, <1>4, <1>5, <1>6 DEF DelaysExact, DelayLinked
<1>8. Consistent(r, S)
  <2>1. \A u \in Tasks : u # t => (DelayLinked(r, u) <=> DelayLinked(k, u))
    BY <1>3, <1>6 DEF DelayLinked, A, B
  <2>2. QED
    BY <1>2, <1>3, <1>7, <2>1, DelayChange
<1>9. ASSUME NEW first \in Int, Deadlines(k, first) PROVE Deadlines(r, first)
  <2>1. k.wake \in [Tasks -> Int]
    BY <1>1
  <2>2. Ranked(k.delayed, k.wake) /\ Ranked(k.overflow, k.wake)
    BY <1>9 DEF Deadlines
  <2>3. Ranked(a, k.wake) /\ Ranked(b, k.wake)
    BY <1>4, <2>1, <2>2, RemoveExact DEF a, b
  <2>4. \A u \in Tasks : u # t => k.wake[u] = r.wake[u]
    BY <1>1, <1>3
  <2>5. Ranked(a, r.wake) /\ Ranked(b, r.wake)
    <3>1. \A u \in Tasks : u \in A \ {t} \/ u \in B \ {t} => k.wake[u] = r.wake[u]
      BY <2>4
    <3>2. QED
      BY <1>5, <2>3, <3>1, RankedAgree
  <2>6. \A u \in A \ {t} : k.wake[u] >= first
    BY <1>9 DEF Deadlines, A
  <2>7. \A u \in B \ {t} : k.wake[u] < k.tick
    BY <1>9 DEF Deadlines, B
  <2>8. \A u \in (A \ {t}) \cup (B \ {t}) : (k.wake[u] - k.tick) % TickModulus <= MaxDelay
    BY <1>9 DEF Deadlines, A, B
  <2>9. \A u \in (A \ {t}) \cup (B \ {t}) : k.wake[u] = r.wake[u]
    BY <1>4, <2>4
  <2>10. QED
    BY <1>3, <1>6, <2>5, <2>6, <2>7, <2>8, <2>9 DEF Deadlines, OnlyDelays
<1>10. QED
  BY <1>3, <1>6, <1>7, <1>8, <1>9 DEF r, A, B

\* A deadline a positive time ahead lands in the list of its period.
LEMMA TimeDelayListInsertExact ==
    ASSUME NEW k, NEW S, Consistent(k, S), NEW t \in Tasks,
           t \in S \/ k.state[t] = "BLOCKED_OBJECT", NEW target \in Ticks
    PROVE  LET r == TimeDelayListInsert(k, t, target) IN
           /\ Consistent(r, S) /\ OnlyDelays(k, r) /\ DelayLinked(r, t)
           /\ r.wake = [k.wake EXCEPT ![t] = target]
           /\ \A u \in Tasks : u # t => (DelayLinked(r, u) <=> DelayLinked(k, u))
           /\ \A d \in 1 .. MaxDelay :
                 target = (k.tick + d) % TickModulus /\ Deadlines(k, k.tick + 1)
                 => Deadlines(r, k.tick + 1)
<1> DEFINE r == TimeDelayListInsert(k, t, target)
           v == TimeDelayListRemove(k, t)
           Later(list) == {i \in 1 .. Len(list) : target < v.wake[list[i]]}
           a == InsertBeforeFirst(v.delayed, t, Later(v.delayed))
           b == InsertBeforeFirst(v.overflow, t, Later(v.overflow))
           A == ToSet(v.delayed)
           B == ToSet(v.overflow)
<1>1. /\ Consistent(v, S) /\ OnlyDelays(k, v) /\ ~DelayLinked(v, t)
      /\ v.wake = [k.wake EXCEPT ![t] = 0]
      /\ A = ToSet(k.delayed) \ {t} /\ B = ToSet(k.overflow) \ {t}
      /\ \A first \in Int : Deadlines(k, first) => Deadlines(v, first)
  BY TimeDelayListRemoveExact
<1>2. /\ v \in GoodKernel /\ v \in Kernel /\ k.wake \in [Tasks -> Ticks]
      /\ v.wake \in [Tasks -> Ticks] /\ Ticks \subseteq Int /\ k.tick \in Ticks
  <2>1. k \in GoodKernel /\ v \in GoodKernel /\ v \in Kernel
    BY <1>1 DEF Consistent, GoodKernel
  <2>2. Ticks \subseteq Int
    BY OsKernelAssumption DEF Ticks
  <2> HIDE DEF v
  <2>3. QED
    BY <2>1, <2>2, FieldTypes
<1>3. r = IF target < k.tick THEN [v EXCEPT !.wake[t] = target, !.overflow = b]
                            ELSE [v EXCEPT !.wake[t] = target, !.delayed = a]
  BY <1>2 DEF TimeDelayListInsert, Kernel
<1>4. r \in GoodKernel
  BY TimeDelayListInsertGood DEF Consistent
<1>5. /\ Exact(v.delayed, A) /\ Exact(v.overflow, B) /\ A \cap B = {}
      /\ A \subseteq Tasks /\ B \subseteq Tasks /\ t \notin A /\ t \notin B
  BY <1>1, DelayLists DEF Consistent, DelaysExact, DelayLinked
<1> HIDE DEF a, b, r, v, A, B
<1>6. /\ r.delayed = IF target < k.tick THEN v.delayed ELSE a
      /\ r.overflow = IF target < k.tick THEN b ELSE v.overflow
      /\ r.wake = [v.wake EXCEPT ![t] = target] /\ OnlyDelays(v, r)
  BY <1>2, <1>3 DEF Kernel, OnlyDelays
<1>7. r.wake = [k.wake EXCEPT ![t] = target] /\ OnlyDelays(k, r)
  BY <1>1, <1>2, <1>6 DEF OnlyDelays
<1>8. Exact(a, A \cup {t}) /\ Exact(b, B \cup {t})
  BY <1>5, InsertExact DEF a, b
<1>9. ToSet(a) = A \cup {t} /\ ToSet(b) = B \cup {t}
  <2>1. A \cup {t} \subseteq Tasks /\ B \cup {t} \subseteq Tasks
    BY <1>5
  <2>2. QED
    BY <1>8, <2>1, ExactList
<1>10. DelaysExact(r) /\ DelayLinked(r, t)
  BY <1>5, <1>6, <1>8, <1>9 DEF DelaysExact, DelayLinked, A, B
<1>11. Consistent(r, S)
  <2>1. \A u \in Tasks : u # t => (DelayLinked(r, u) <=> DelayLinked(v, u))
    BY <1>6, <1>9 DEF DelayLinked, A, B
  <2>2. t \in S \/ v.state[t] = "BLOCKED_OBJECT"
    BY <1>1 DEF OnlyDelays
  <2>3. QED
    BY <1>1, <1>4, <1>6, <1>10, <2>1, <2>2, DelayChange
<1>12. \A u \in Tasks : u # t => (DelayLinked(r, u) <=> DelayLinked(k, u))
  <2>1. \A u \in Tasks : u # t => (DelayLinked(r, u) <=> DelayLinked(v, u))
    BY <1>6, <1>9 DEF DelayLinked, A, B
  <2>2. \A u \in Tasks : u # t => (DelayLinked(v, u) <=> DelayLinked(k, u))
    BY <1>1 DEF DelayLinked, A, B
  <2>3. QED
    BY <2>1, <2>2
<1>13. ASSUME NEW d \in 1 .. MaxDelay, target = (k.tick + d) % TickModulus, Deadlines(k, k.tick + 1)
       PROVE  Deadlines(r, k.tick + 1)
  <2>1. /\ Deadlines(v, k.tick + 1) /\ v.tick = k.tick /\ r.tick = k.tick
    <3>1. k.tick + 1 \in Int
      <4>1. k.tick \in Int
        BY <1>2
      <4>2. QED
        BY <4>1
    <3>2. Deadlines(v, k.tick + 1)
      BY <1>1, <1>13, <3>1
    <3>3. QED
      BY <1>1, <1>7, <3>2 DEF OnlyDelays
  <2>2. v.wake \in [Tasks -> Int] /\ v.wake[t] = 0
    BY <1>1, <1>2
  <2>3. Ranked(v.delayed, v.wake) /\ Ranked(v.overflow, v.wake)
    BY <2>1 DEF Deadlines
  <2>4. Ranked(a, r.wake) /\ Ranked(b, r.wake)
    <3>1. r.wake \in [Tasks -> Int] /\ r.wake[t] = target
      BY <1>2, <1>6
    <3>2. Ranked(v.delayed, r.wake) /\ Ranked(v.overflow, r.wake)
      <4>1. \A u \in Tasks : u \in A \/ u \in B => v.wake[u] = r.wake[u]
        BY <1>2, <1>5, <1>6
      <4>2. QED
        BY <1>5, <2>3, <4>1, RankedAgree
    <3>3. /\ Later(v.delayed) = {i \in 1 .. Len(v.delayed) : r.wake[t] < r.wake[v.delayed[i]]}
          /\ Later(v.overflow) = {i \in 1 .. Len(v.overflow) : r.wake[t] < r.wake[v.overflow[i]]}
      <4>1. /\ \A i \in 1 .. Len(v.delayed) : v.delayed[i] \in Tasks /\ v.delayed[i] # t
            /\ \A i \in 1 .. Len(v.overflow) : v.overflow[i] \in Tasks /\ v.overflow[i] # t
        BY <1>5 DEF Exact
      <4>2. \A u \in Tasks : u # t => v.wake[u] = r.wake[u]
        BY <1>2, <1>6
      <4>3. QED
        BY <3>1, <4>1, <4>2
    <3>4. Ranked(a, r.wake)
      BY <1>5, <3>1, <3>2, <3>3, InsertExact DEF a
    <3>5. Ranked(b, r.wake)
      BY <1>5, <3>1, <3>2, <3>3, InsertExact DEF b
    <3>6. QED
      BY <3>4, <3>5
  <2>5. Ranked(v.delayed, r.wake) /\ Ranked(v.overflow, r.wake)
    <3>1. \A u \in Tasks : u \in A \/ u \in B => v.wake[u] = r.wake[u]
      BY <1>2, <1>5, <1>6
    <3>2. QED
      BY <1>5, <2>3, <3>1, RankedAgree
  <2>6. /\ \A u \in A : r.wake[u] >= k.tick + 1 /\ (r.wake[u] - k.tick) % TickModulus <= MaxDelay
        /\ \A u \in B : r.wake[u] < k.tick /\ (r.wake[u] - k.tick) % TickModulus <= MaxDelay
    <3>1. \A u \in A \cup B : v.wake[u] = r.wake[u]
      BY <1>2, <1>5, <1>6
    <3>2. QED
      BY <2>1, <3>1 DEF Deadlines, A, B
  <2>7. /\ (target - k.tick) % TickModulus <= MaxDelay
        /\ target >= k.tick => target >= k.tick + 1
    <3>1. d \in Ticks /\ Ticks = 0 .. TickModulus - 1 /\ TickModulus \in Nat
      BY TickArithmetic, OsKernelAssumption DEF Ticks
    <3>2. target = IF k.tick + d < TickModulus THEN k.tick + d ELSE k.tick + d - TickModulus
      <4>1. k.tick \in Ticks
        BY <1>2
      <4>2. (k.tick + d) % TickModulus = IF k.tick + d < TickModulus THEN k.tick + d
                                                                   ELSE k.tick + d - TickModulus
        BY <3>1, <4>1, TickArithmetic
      <4>3. QED
        BY <1>13, <4>2
    <3>3. (target - k.tick) % TickModulus =
             IF target >= k.tick THEN target - k.tick ELSE target - k.tick + TickModulus
      BY <1>2, TickArithmetic
    <3>4. target \in Int /\ k.tick \in 0 .. TickModulus - 1 /\ d \in 1 .. MaxDelay
          /\ MaxDelay \in Nat /\ 2 * MaxDelay + 2 = TickModulus
      BY <1>2, <3>1, TickArithmetic
    <3> DEFINE ahead == (target - k.tick) % TickModulus
    <3>5. ahead = IF target >= k.tick THEN target - k.tick ELSE target - k.tick + TickModulus
      BY <3>3
    <3> HIDE DEF ahead
    <3>6. CASE k.tick + d < TickModulus
      <4>1. target = k.tick + d
        BY <3>2, <3>6
      <4>2. target >= k.tick + 1 /\ ahead = d
        BY <3>4, <3>5, <4>1
      <4>3. QED
        BY <3>4, <4>2 DEF ahead
    <3>7. CASE k.tick + d >= TickModulus
      <4>1. target = k.tick + d - TickModulus
        BY <3>1, <3>2, <3>4, <3>7
      <4>2. target < k.tick /\ ahead = d
        BY <3>1, <3>4, <3>5, <4>1
      <4>3. QED
        BY <3>4, <4>2 DEF ahead
    <3>8. QED
      BY <3>1, <3>4, <3>6, <3>7
  <2>8. r.wake[t] = target
    BY <1>2, <1>6
  <2>9. CASE target < k.tick
    <3>1. ToSet(r.delayed) = A /\ ToSet(r.overflow) = B \cup {t}
      BY <1>6, <1>9, <2>9 DEF A
    <3>2. Ranked(r.delayed, r.wake) /\ Ranked(r.overflow, r.wake)
      BY <1>6, <2>4, <2>5, <2>9
    <3>3. QED
      BY <2>1, <2>6, <2>7, <2>8, <2>9, <3>1, <3>2 DEF Deadlines
  <2>10. CASE ~(target < k.tick)
    <3>1. ToSet(r.delayed) = A \cup {t} /\ ToSet(r.overflow) = B
      BY <1>6, <1>9, <2>10 DEF B
    <3>2. Ranked(r.delayed, r.wake) /\ Ranked(r.overflow, r.wake)
      BY <1>6, <2>4, <2>5, <2>10
    <3>3. target >= k.tick + 1
      <4>1. target \in Int /\ k.tick \in Int
        BY <1>2
      <4>2. QED
        BY <2>7, <2>10, <4>1
    <3>4. QED
      BY <2>1, <2>6, <2>7, <2>8, <3>1, <3>2, <3>3 DEF Deadlines
  <2>11. QED
    BY <2>9, <2>10
<1>14. QED
  BY <1>7, <1>10, <1>11, <1>13, <1>12 DEF r
-------------------------------------------------------------------------------
(* Blocking and waking. *)

\* What a waker does to the task and to nothing else.
Readied(k, r, t, status) ==
    /\ r.state = [k.state EXCEPT ![t] = "READY"] /\ r.waitOn = [k.waitOn EXCEPT ![t] = NoWait]
    /\ r.result = [k.result EXCEPT ![t] = status] /\ r.wake = [k.wake EXCEPT ![t] = 0]
    /\ ToSet(r.delayed) = ToSet(k.delayed) \ {t} /\ ToSet(r.overflow) = ToSet(k.overflow) \ {t}
    /\ r.started = k.started /\ r.current = k.current /\ r.tick = k.tick /\ r.owner = k.owner
    /\ r.effective = k.effective

\* Which is calm when the wait was granted, or had a deadline.
LEMMA ReadiedIsCalm ==
    ASSUME NEW k, k \in GoodKernel, NEW r, NEW t \in Tasks, NEW status, Readied(k, r, t, status),
           k.state[t] = "BLOCKED_OBJECT",
           status = "OK" \/ (status = "TIMEOUT" /\ DelayLinked(k, t)), NEW u \in Tasks
    PROVE  Calm(k, r, u)
<1>1. k.state \in [Tasks -> TaskStates] /\ k.result \in [Tasks -> Statuses]
  BY FieldTypes
<1>2. CASE u = t
  BY <1>1, <1>2 DEF Readied, Calm
<1>3. CASE u # t
  BY <1>1, <1>3 DEF Readied, Calm, DelayLinked
<1>4. QED
  BY <1>2, <1>3

\* os_WaitMakeReady of a waiter that has left its wait list.
LEMMA WaitMakeReadyExact ==
    ASSUME NEW k, NEW S, Consistent(k, S), NEW t \in Tasks, t \in S,
           k.state[t] = "BLOCKED_OBJECT", NEW status \in Statuses
    PROVE  LET r == WaitMakeReady(k, t, status) IN
           /\ Consistent(r, S \ {t}) /\ Readied(k, r, t, status)
           /\ \A first \in Int : Deadlines(k, first) => Deadlines(r, first)
<1> DEFINE r == WaitMakeReady(k, t, status)
           u == TimeDelayListRemove(k, t)
           v == [u EXCEPT !.waitOn[t] = NoWait, !.result[t] = status, !.state[t] = "READY"]
<1>1. /\ Consistent(u, S) /\ OnlyDelays(k, u) /\ ~DelayLinked(u, t)
      /\ u.wake = [k.wake EXCEPT ![t] = 0]
      /\ ToSet(u.delayed) = ToSet(k.delayed) \ {t} /\ ToSet(u.overflow) = ToSet(k.overflow) \ {t}
      /\ \A first \in Int : Deadlines(k, first) => Deadlines(u, first)
  BY TimeDelayListRemoveExact
<1>2. ~ScheduleLinked(k, t)
  BY WhoIsLinked
<1>3. r = ReadyEnqueue(v, t)
  BY <1>2 DEF WaitMakeReady
<1> HIDE DEF u
<1>4. u \in GoodKernel /\ u \in Kernel
  BY <1>1 DEF Consistent, GoodKernel
<1>5. v \in GoodKernel
  BY <1>4 DEF GoodKernel, Kernel, TaskStates
<1>6. /\ v.state = [u.state EXCEPT ![t] = "READY"] /\ v.waitOn = [u.waitOn EXCEPT ![t] = NoWait]
      /\ v.result = [u.result EXCEPT ![t] = status] /\ v.wake = u.wake
      /\ v.ready = u.ready /\ v.waiters = u.waiters /\ v.effective = u.effective
      /\ v.delayed = u.delayed /\ v.overflow = u.overflow /\ v.current = u.current
      /\ v.started = u.started /\ v.tick = u.tick /\ v.owner = u.owner
  BY <1>4 DEF Kernel
<1>7. u.state \in [Tasks -> TaskStates] /\ u.waitOn \in [Tasks -> WaitLists \cup {NoWait}]
  BY <1>4, FieldTypes
<1> HIDE DEF v, r
<1>8. Consistent(v, S)
  <2>1. \A x \in Tasks : x # t => v.state[x] = u.state[x] /\ v.waitOn[x] = u.waitOn[x]
    BY <1>6, <1>7
  <2>2. v.state[t] # "RUNNING"
    BY <1>6, <1>7
  <2>3. QED
    BY ZenonT(60), <1>1, <1>5, <1>6, <2>1, <2>2, LooseChange
<1>9. v.state[t] = "READY" /\ v.waitOn[t] = NoWait /\ ~DelayLinked(v, t)
  BY <1>1, <1>6, <1>7 DEF DelayLinked
<1>10. Consistent(r, S \ {t}) /\ SameTasks(v, r) /\ r.effective = v.effective
  BY <1>3, <1>8, <1>9, ReadyEnqueueExact
<1>11. Readied(k, r, t, status)
  BY <1>1, <1>6, <1>10 DEF SameTasks, OnlyDelays, Readied
<1>12. \A first \in Int : Deadlines(k, first) => Deadlines(r, first)
  BY <1>1, <1>6, <1>10 DEF SameTasks, Deadlines
<1>13. QED
  BY <1>10, <1>11, <1>12 DEF r

\* os_WaitPop: the first waiter becomes loose.
LEMMA WaitPopExact ==
    ASSUME NEW k, Consistent(k, {}), NEW l \in WaitLists
    PROVE  LET r == WaitPop(k, l)
               w == WaitHead(k, l)
           IN /\ SameTasks(k, r) /\ r.effective = k.effective
              /\ w = NoTask => r = k /\ k.waiters[l] = <<>> /\ \A u \in Tasks : k.waitOn[u] # l
              /\ w # NoTask => /\ w \in Tasks /\ k.waitOn[w] = l /\ k.state[w] = "BLOCKED_OBJECT"
                               /\ k.waiters[l] # <<>> /\ Consistent(r, {w})
<1> DEFINE r == WaitPop(k, l)
           w == WaitHead(k, l)
           rest == Tail(k.waiters[l])
           Q == {u \in Tasks \ {} : k.waitOn[u] = l}
<1>1. k \in GoodKernel /\ k \in Kernel
  BY DEF Consistent, GoodKernel
<1>2. /\ k.waiters \in [WaitLists -> Seq(Tasks)] /\ NoWait \notin WaitLists
      /\ Rank(k) \in [Tasks -> Int] /\ NoTask \notin Tasks
  BY <1>1, FieldTypes
<1>3. Exact(k.waiters[l], Q) /\ Ranked(k.waiters[l], Rank(k))
  BY DEF Consistent, WaitersExact
<1>4. CASE k.waiters[l] = <<>>
  <2>1. Q = {}
    <3>1. Q \cap Tasks = Q
      OBVIOUS
    <3> HIDE DEF Q
    <3>2. QED
      BY <1>3, <1>4, <3>1, EmptyExact
  <2>2. QED
    BY <1>4, <2>1 DEF WaitHead, WaitPop, SameTasks
<1>5. CASE k.waiters[l] # <<>>
  <2>1. w = Head(k.waiters[l]) /\ r = [k EXCEPT !.waiters[l] = rest]
    BY <1>1, <1>5 DEF WaitHead, WaitPop, Kernel
  <2>2. w \in Q /\ w \in Tasks /\ Exact(rest, Q \ {w}) /\ Ranked(rest, Rank(k))
    <3> HIDE DEF Q, w
    <3>1. QED
      BY <1>2, <1>3, <1>5, <2>1, PopExact
  <2> HIDE DEF rest, w
  <2>3. k.waitOn[w] = l /\ k.state[w] = "BLOCKED_OBJECT"
    BY <1>2, <2>2 DEF Consistent, StatesAgree
  <2>4. /\ r.waiters = [k.waiters EXCEPT ![l] = rest] /\ r.ready = k.ready
        /\ r.effective = k.effective /\ SameTasks(k, r)
    BY <1>1, <2>1 DEF Kernel, SameTasks
  <2>5. r \in GoodKernel
    BY <1>1, WaitPopGood
  <2> HIDE DEF r
  <2>6. WaitersExact(r, {w})
    <3> SUFFICES ASSUME NEW x \in WaitLists
                 PROVE  /\ Exact(r.waiters[x], {u \in Tasks \ {w} : r.waitOn[u] = x})
                        /\ Ranked(r.waiters[x], Rank(r))
      BY DEF WaitersExact
    <3>1. Rank(r) = Rank(k) /\ r.waitOn = k.waitOn
      BY <2>4 DEF Rank, SameTasks
    <3>2. CASE x = l
      <4>1. {u \in Tasks \ {w} : r.waitOn[u] = x} = Q \ {w} /\ r.waiters[x] = rest
        BY <1>2, <2>4, <3>1, <3>2
      <4>2. QED
        BY <2>2, <3>1, <4>1
    <3>3. CASE x # l
      <4>1. {u \in Tasks \ {w} : r.waitOn[u] = x} = {u \in Tasks \ {} : k.waitOn[u] = x}
        BY <2>3, <3>1, <3>3
      <4>2. r.waiters[x] = k.waiters[x]
        BY <1>2, <2>4, <3>3
      <4>3. QED
        BY <3>1, <4>1, <4>2 DEF Consistent, WaitersExact
    <3>4. QED
      BY <3>2, <3>3
  <2>7. ReadyExact(r, {w})
    <3>1. \A p \in Priorities : {u \in Tasks \ {w} : r.state[u] = "READY" /\ r.effective[u] = p}
                               = {u \in Tasks \ {} : k.state[u] = "READY" /\ k.effective[u] = p}
      BY <2>3, <2>4 DEF SameTasks
    <3>2. QED
      BY <2>4, <3>1 DEF Consistent, ReadyExact
  <2>8. DelaysExact(r) /\ OneRuns(r) /\ StatesAgree(r, {w})
    BY <2>4 DEF Consistent, DelaysExact, OneRuns, StatesAgree, SameTasks, DelayLinked
  <2>9. Consistent(r, {w})
    BY <2>5, <2>6, <2>7, <2>8 DEF Consistent
  <2>10. QED
    BY <1>2, <1>5, <2>2, <2>3, <2>4, <2>9 DEF w, r
<1>6. QED
  BY <1>4, <1>5

\* The fields a consistent kernel may change freely.
LEMMA FreeChange ==
    ASSUME NEW k, NEW S, Consistent(k, S), NEW r \in GoodKernel,
           r.ready = k.ready, r.waiters = k.waiters, r.effective = k.effective,
           r.delayed = k.delayed, r.overflow = k.overflow, r.current = k.current,
           r.state = k.state, r.waitOn = k.waitOn
    PROVE  Consistent(r, S) /\ (Sound(k) => Sound(r))
<1>1. ReadyExact(r, S) /\ WaitersExact(r, S) /\ DelaysExact(r) /\ StatesAgree(r, S) /\ OneRuns(r)
  BY DEF Consistent, ReadyExact, WaitersExact, DelaysExact, StatesAgree, OneRuns, Rank, DelayLinked
<1>2. Sound(k) => Sound(r)
  BY DEF Sound, Consistent, ReadyExact, WaitersExact, DelaysExact, StatesAgree, OneRuns, Rank, DelayLinked
<1>3. QED
  BY <1>1, <1>2 DEF Consistent

\* What a task's own call to block does to it and to the others.
Blocks(k, r, t, l) ==
    /\ r.waitOn = [k.waitOn EXCEPT ![t] = l] /\ r.result = [k.result EXCEPT ![t] = "BAD_STATE"]
    /\ r.state[t] = "BLOCKED_OBJECT"
    /\ \A u \in Tasks : u # t =>
          r.state[u] = k.state[u] \/ {k.state[u], r.state[u]} \subseteq {"READY", "RUNNING"}
    /\ r.started = k.started /\ r.tick = k.tick /\ r.owner = k.owner

\* A finite timeout ends within half the range of the tick counter.
LEMMA ClampRange ==
    ASSUME NEW ticks \in Ticks, ticks # 0
    PROVE  Clamp(ticks) \in 1 .. MaxDelay
<1>1. ticks \in Nat /\ TickModulus > 3 /\ TickModulus \in Nat
  BY OsKernelAssumption DEF Ticks
<1>2. MaxDelay \in Nat /\ 2 * MaxDelay + 2 = TickModulus
  BY TickArithmetic
<1>3. QED
  BY <1>1, <1>2 DEF Clamp

\* A handler that ends in the switch away from a task that no longer runs.
SwitchedAway(r) ==
    \E x : Consistent(x, {}) /\ x.current # NoTask /\ ~CurrentRuns(x) /\ r = SchedCurrentBlocked(x)

\* os_WaitBlockCurrent.
LEMMA WaitBlockCurrentSound ==
    ASSUME NEW k, Sound(k), CurrentRuns(k), NEW l \in WaitLists,
           NEW timeout \in Ticks, timeout # 0
    PROVE  LET r == WaitBlockCurrent(k, l, timeout) IN
           /\ Sound(r) /\ Blocks(k, r, k.current, l) /\ r.effective = k.effective
           /\ Deadlines(k, k.tick + 1) => Deadlines(r, k.tick + 1)
           /\ SwitchedAway(r)
           /\ \A u \in Tasks : u # k.current \/ timeout = WaitForever =>
                 (DelayLinked(r, u) <=> DelayLinked(k, u))
<1> DEFINE t == k.current
           r == WaitBlockCurrent(k, l, timeout)
           marked == [k EXCEPT !.waitOn[t] = l, !.result[t] = "BAD_STATE",
                               !.state[t] = "BLOCKED_OBJECT"]
           blocked == WaitInsertByPriority(marked, l, t)
           d == Clamp(timeout)
           timed == TimeDelayListInsert(blocked, t, (k.tick + d) % TickModulus)
<1>1. Consistent(k, {}) /\ k \in GoodKernel /\ k \in Kernel
  BY DEF Sound, Consistent, GoodKernel
<1>2. t \in Tasks /\ k.state[t] = "RUNNING"
  BY <1>1, FieldTypes DEF CurrentRuns
<1>3. /\ k.state \in [Tasks -> TaskStates] /\ k.waitOn \in [Tasks -> WaitLists \cup {NoWait}]
      /\ NoWait \notin WaitLists /\ k.result \in [Tasks -> Statuses] /\ k.tick \in Ticks
  BY <1>1, FieldTypes
<1>4. k.waitOn[t] = NoWait /\ ~DelayLinked(k, t)
  BY <1>1, <1>2 DEF Consistent, StatesAgree
<1>5. ~ScheduleLinked(k, t)
  BY <1>1, <1>2, <1>4, WhoIsLinked
<1>6. Consistent(k, {t})
  <2>1. {} \cup {t} = {t}
    OBVIOUS
  <2>2. QED
    BY <1>1, <1>2, <1>5, <2>1, Loosen
<1>7. marked \in GoodKernel
  BY <1>1, <1>2 DEF GoodKernel, Kernel, TaskStates, Statuses
<1>8. /\ marked.state = [k.state EXCEPT ![t] = "BLOCKED_OBJECT"]
      /\ marked.waitOn = [k.waitOn EXCEPT ![t] = l]
      /\ marked.result = [k.result EXCEPT ![t] = "BAD_STATE"] /\ marked.wake = k.wake
      /\ marked.ready = k.ready /\ marked.waiters = k.waiters /\ marked.effective = k.effective
      /\ marked.delayed = k.delayed /\ marked.overflow = k.overflow /\ marked.current = k.current
      /\ marked.started = k.started /\ marked.tick = k.tick /\ marked.owner = k.owner
  BY <1>1 DEF Kernel
<1>9. \/ timeout = WaitForever /\ r = SchedCurrentBlocked(blocked)
      \/ r = SchedCurrentBlocked(timed)
  BY DEF WaitBlockCurrent
<1>10. d \in 1 .. MaxDelay /\ (k.tick + d) % TickModulus \in Ticks
  <2>1. d \in 1 .. MaxDelay
    BY ClampRange
  <2> HIDE DEF d
  <2>2. k.tick + d \in Int
    <3>1. k.tick \in Int /\ d \in Int
      BY <1>3, <2>1, OsKernelAssumption DEF Ticks
    <3>2. QED
      BY <3>1
  <2>3. QED
    BY <2>1, <2>2, TickRange
<1> HIDE DEF marked, d, r, t
<1>11. Consistent(marked, {t}) /\ marked.waitOn[t] = l /\ marked.state[t] = "BLOCKED_OBJECT"
  <2>1. marked.waitOn[t] = l /\ marked.state[t] = "BLOCKED_OBJECT"
    BY <1>2, <1>3, <1>8
  <2>2. \A u \in Tasks : u # t => marked.state[u] = k.state[u] /\ marked.waitOn[u] = k.waitOn[u]
    BY <1>3, <1>8
  <2>3. marked.state[t] # "RUNNING" /\ t \in {t}
    BY <2>1
  <2>4. Consistent(marked, {t})
    <3> DEFINE loose == {t}
    <3>1. t \in loose /\ Consistent(k, loose)
      BY <1>6
    <3> HIDE DEF loose
    <3>2. /\ marked.ready = k.ready /\ marked.waiters = k.waiters
          /\ marked.effective = k.effective /\ marked.current = k.current
          /\ marked.delayed = k.delayed /\ marked.overflow = k.overflow
          /\ t \in Tasks
      BY <1>2, <1>8
    <3>4. Consistent(marked, loose)
      BY <1>7, <2>2, <2>3, <3>1, <3>2, LooseChange
    <3>3. QED
      BY <3>4 DEF loose
  <2>5. QED
    BY <2>1, <2>4
<1>12. Consistent(blocked, {}) /\ SameTasks(marked, blocked) /\ blocked.effective = k.effective
  <2>1. {t} \ {t} = {} /\ t \in {t} /\ marked.waitOn[t] \in WaitLists
    BY <1>11
  <2>2. blocked = WaitInsertByPriority(marked, marked.waitOn[t], t)
    BY <1>11
  <2> HIDE DEF blocked
  <2>3. /\ Consistent(blocked, {t} \ {t}) /\ SameTasks(marked, blocked)
        /\ blocked.effective = marked.effective
    BY <1>2, <1>11, <2>1, <2>2, WaitInsertExact
  <2>4. QED
    BY <1>8, <2>1, <2>3
<1> HIDE DEF blocked
<1>13. blocked.state[t] = "BLOCKED_OBJECT" /\ blocked.tick = k.tick
  BY <1>8, <1>11, <1>12 DEF SameTasks
<1>14. /\ Consistent(timed, {}) /\ OnlyDelays(blocked, timed)
       /\ \A u \in Tasks : u # t => (DelayLinked(timed, u) <=> DelayLinked(blocked, u))
       /\ Deadlines(blocked, k.tick + 1) => Deadlines(timed, k.tick + 1)
  <2> DEFINE target == (k.tick + d) % TickModulus
  <2>3. timed = TimeDelayListInsert(blocked, t, target) /\ target \in Ticks
    BY <1>10
  <2> HIDE DEF target, timed
  <2>1. /\ Consistent(timed, {}) /\ OnlyDelays(blocked, timed)
        /\ \A u \in Tasks : u # t => (DelayLinked(timed, u) <=> DelayLinked(blocked, u))
        /\ \A e \in 1 .. MaxDelay :
              target = (blocked.tick + e) % TickModulus /\ Deadlines(blocked, blocked.tick + 1)
              => Deadlines(timed, blocked.tick + 1)
    BY <1>2, <1>12, <1>13, <2>3, TimeDelayListInsertExact
  <2>2. target = (blocked.tick + d) % TickModulus
    BY <1>13 DEF target
  <2>4. QED
    BY <1>10, <1>13, <2>1, <2>2
<1> HIDE DEF timed
<1>15. Deadlines(k, k.tick + 1) => Deadlines(blocked, k.tick + 1)
  BY <1>8, <1>12 DEF SameTasks, Deadlines
<1>16. PICK last \in {blocked, timed} :
           r = SchedCurrentBlocked(last) /\ (timeout = WaitForever => last = blocked)
  <2>1. timeout = WaitForever => r = SchedCurrentBlocked(blocked)
    BY DEF WaitBlockCurrent, r, blocked, marked, t
  <2>2. QED
    BY <1>9, <2>1
<1>17. /\ Consistent(last, {})
       /\ Deadlines(k, k.tick + 1) => Deadlines(last, k.tick + 1)
       /\ last.state = marked.state /\ last.waitOn = marked.waitOn /\ last.result = marked.result
       /\ last.started = k.started /\ last.tick = k.tick /\ last.owner = k.owner
       /\ last.effective = k.effective
  BY <1>8, <1>12, <1>14, <1>15 DEF SameTasks, OnlyDelays
<1>18. Sound(r) /\ OnlySchedules(last, r) /\ r.effective = k.effective
  BY <1>16, <1>17, SchedCurrentBlockedSound
<1>19. Deadlines(k, k.tick + 1) => Deadlines(r, k.tick + 1)
  BY <1>17, <1>18 DEF OnlySchedules, Deadlines
<1>20. Blocks(k, r, t, l)
  <2>1. /\ r.waitOn = [k.waitOn EXCEPT ![t] = l] /\ r.result = [k.result EXCEPT ![t] = "BAD_STATE"]
        /\ r.started = k.started /\ r.tick = k.tick /\ r.owner = k.owner
    BY <1>8, <1>17, <1>18 DEF OnlySchedules
  <2>2. r.state[t] = "BLOCKED_OBJECT"
    BY <1>2, <1>11, <1>17, <1>18 DEF OnlySchedules
  <2>3. \A u \in Tasks : u # t =>
          r.state[u] = k.state[u] \/ {k.state[u], r.state[u]} \subseteq {"READY", "RUNNING"}
    BY <1>3, <1>8, <1>17, <1>18 DEF OnlySchedules
  <2>4. QED
    BY <2>1, <2>2, <2>3 DEF Blocks
<1>21. SwitchedAway(r)
  <2>1. last.current = t
    BY <1>8, <1>12, <1>14 DEF SameTasks, OnlyDelays, t
  <2>2. last.state[t] = "BLOCKED_OBJECT"
    BY <1>11, <1>17
  <2>3. last.current # NoTask /\ ~CurrentRuns(last)
    BY <1>2, <2>1, <2>2, FieldTypes, <1>1 DEF CurrentRuns
  <2>4. QED
    BY <1>16, <1>17, <2>3 DEF SwitchedAway
<1>22. ASSUME NEW u \in Tasks, u # t \/ timeout = WaitForever
       PROVE  DelayLinked(r, u) <=> DelayLinked(k, u)
  <2>1. DelayLinked(blocked, u) <=> DelayLinked(k, u)
    BY <1>8, <1>12 DEF SameTasks, DelayLinked
  <2>2. DelayLinked(last, u) <=> DelayLinked(blocked, u)
    BY <1>14, <1>16, <1>22
  <2>3. DelayLinked(r, u) <=> DelayLinked(last, u)
    BY <1>18 DEF OnlySchedules, DelayLinked
  <2>4. QED
    BY <2>1, <2>2, <2>3
<1>23. QED
  BY <1>18, <1>19, <1>20, <1>21, <1>22 DEF r, t

\* os_WaitMaybePreempt, the switch taken or deferred.
LEMMA WaitMaybePreemptSound ==
    ASSUME NEW k, Sound(k), NEW woken
    PROVE  LET r == WaitMaybePreempt(k, woken) IN
           Sound(r) /\ OnlySchedules(k, r) /\ r.effective = k.effective
<1> DEFINE deferred == [k EXCEPT !.pending = TRUE]
<1>1. Consistent(k, {}) /\ k \in GoodKernel /\ k \in Kernel
  BY DEF Sound, Consistent, GoodKernel
<1>2. deferred \in GoodKernel
  BY <1>1 DEF GoodKernel, Kernel
<1>3. /\ deferred.ready = k.ready /\ deferred.waiters = k.waiters /\ deferred.effective = k.effective
      /\ deferred.delayed = k.delayed /\ deferred.overflow = k.overflow
      /\ deferred.current = k.current /\ deferred.state = k.state /\ deferred.waitOn = k.waitOn
      /\ OnlySchedules(k, deferred) /\ OnlySchedules(k, k)
  BY <1>1 DEF Kernel, OnlySchedules
<1>4. WaitMaybePreempt(k, woken) \in {k, deferred, SchedSchedule(k, FALSE)}
  BY Zenon DEF WaitMaybePreempt
<1> HIDE DEF deferred
<1>5. Sound(deferred)
  BY <1>1, <1>2, <1>3, FreeChange
<1>6. QED
  BY <1>3, <1>4, <1>5, SchedScheduleSound

\* os_EnterCritical and os_ExitCritical, which may take a deferred switch.
LEMMA CriticalSound ==
    ASSUME NEW k, Sound(k)
    PROVE  /\ Sound(EnterCritical(k)) /\ SameTasks(k, EnterCritical(k))
           /\ EnterCritical(k).effective = k.effective /\ EnterCritical(k).waiters = k.waiters
           /\ Sound(ExitCritical(k)) /\ OnlySchedules(k, ExitCritical(k))
           /\ ExitCritical(k).effective = k.effective
<1>1. Consistent(k, {}) /\ k \in GoodKernel /\ k \in Kernel
  BY DEF Sound, Consistent, GoodKernel
<1>2. ASSUME NEW n \in Nat, NEW b \in BOOLEAN
      PROVE  LET r == [k EXCEPT !.nesting = n, !.pending = b] IN
             Sound(r) /\ SameTasks(k, r) /\ r.effective = k.effective /\ r.waiters = k.waiters
  <2> DEFINE r == [k EXCEPT !.nesting = n, !.pending = b]
  <2>1. r \in GoodKernel
    BY <1>1 DEF GoodKernel, Kernel
  <2>2. /\ r.ready = k.ready /\ r.waiters = k.waiters /\ r.effective = k.effective
        /\ r.delayed = k.delayed /\ r.overflow = k.overflow
        /\ r.current = k.current /\ r.state = k.state /\ r.waitOn = k.waitOn /\ SameTasks(k, r)
    BY <1>1 DEF Kernel, SameTasks
  <2> HIDE DEF r
  <2>3. Sound(r)
    BY <1>1, <2>1, <2>2, FreeChange
  <2>4. QED
    BY <2>2, <2>3 DEF r
<1>3. k.nesting \in Nat /\ k.pending \in BOOLEAN /\ k.nesting + 1 \in Nat
  BY <1>1 DEF Kernel
<1>4. EnterCritical(k) = [k EXCEPT !.nesting = k.nesting + 1, !.pending = k.pending]
  BY <1>1 DEF EnterCritical, Kernel
<1>5. /\ Sound(EnterCritical(k)) /\ SameTasks(k, EnterCritical(k))
      /\ EnterCritical(k).effective = k.effective /\ EnterCritical(k).waiters = k.waiters
  BY <1>2, <1>3, <1>4
<1> DEFINE open == [k EXCEPT !.nesting = 0, !.pending = FALSE]
           outer == [k EXCEPT !.nesting = k.nesting - 1, !.pending = k.pending]
<1>6. ExitCritical(k) \in {k, SchedSchedule(open, FALSE)} \cup IF k.nesting = 0 THEN {} ELSE {outer}
  BY <1>1 DEF ExitCritical, Kernel
<1>7. Sound(open) /\ SameTasks(k, open) /\ open.effective = k.effective
  BY <1>2
<1>8. k.nesting # 0 => Sound(outer) /\ SameTasks(k, outer) /\ outer.effective = k.effective
  <2>1. k.nesting # 0 => k.nesting - 1 \in Nat
    BY <1>3
  <2>2. QED
    BY <1>2, <1>3, <2>1
<1> HIDE DEF open, outer
<1>9. /\ Sound(SchedSchedule(open, FALSE)) /\ OnlySchedules(open, SchedSchedule(open, FALSE))
      /\ SchedSchedule(open, FALSE).effective = k.effective
  BY <1>7, SchedScheduleSound
<1>10. /\ OnlySchedules(k, SchedSchedule(open, FALSE)) /\ OnlySchedules(k, k)
       /\ k.nesting # 0 => OnlySchedules(k, outer)
  BY <1>7, <1>8, <1>9 DEF SameTasks, OnlySchedules
<1>11. QED
  BY <1>5, <1>6, <1>8, <1>9, <1>10
-------------------------------------------------------------------------------
(* os_mutex.c: what a handler does to the waiting tasks *)

\* A task that a handler leaves where it was, up to a scheduling decision.
Kept(k, r, u) ==
    /\ r.waitOn[u] = k.waitOn[u]
    /\ r.state[u] = k.state[u] \/ {k.state[u], r.state[u]} \subseteq {"READY", "RUNNING"}

\* A waiting task that a handler makes ready, with what its call returns.
Ended(k, r, u, l, status) ==
    /\ k.state[u] = "BLOCKED_OBJECT" /\ k.waitOn[u] = l
    /\ r.state[u] \in {"READY", "RUNNING"} /\ r.waitOn[u] = NoWait /\ r.result[u] = status

\* An iteration of os_MutexReleaseTask.
LEMMA HandOverSound ==
    ASSUME NEW k, Consistent(k, {}), NEW m \in Mutexes, NEW t \in Tasks
    PROVE  LET r == HandOver(k, m, t)
               l == MutexWaiters(m)
               w == WaitHead(k, l)
           IN /\ Consistent(r, {})
              /\ k.owner[m] # t => r = k
              /\ k.owner[m] = t => r.owner = [k.owner EXCEPT ![m] = w]
              /\ k.owner[m] = t /\ w = NoTask => SameTasks([k EXCEPT !.owner[m] = w], r)
              /\ w = NoTask => \A u \in Tasks : k.waitOn[u] # l
              /\ k.owner[m] = t /\ w # NoTask => /\ w \in Tasks /\ k.waitOn[w] = l
                               /\ k.state[w] = "BLOCKED_OBJECT"
                               /\ Readied([k EXCEPT !.owner[m] = w], r, w, "OK")
              /\ \A first \in Int : Deadlines(k, first) => Deadlines(r, first)
<1> DEFINE r == HandOver(k, m, t)
           l == MutexWaiters(m)
           w == WaitHead(k, l)
           popped == WaitPop(k, l)
           given == [popped EXCEPT !.owner[m] = w]
           mine == [k EXCEPT !.owner[m] = w]
<1>1. k \in GoodKernel /\ k \in Kernel /\ l \in WaitLists
  BY DEF Consistent, GoodKernel, WaitLists
<1>2. w \in Tasks \cup {NoTask} /\ NoTask \notin Tasks /\ popped \in GoodKernel
  BY <1>1, FieldTypes, WaitHeadType, WaitPopGood
<1>3. /\ SameTasks(k, popped) /\ popped.effective = k.effective
      /\ w = NoTask => popped = k /\ \A u \in Tasks : k.waitOn[u] # l
      /\ w # NoTask => /\ w \in Tasks /\ k.waitOn[w] = l /\ k.state[w] = "BLOCKED_OBJECT"
                       /\ Consistent(popped, {w})
  BY <1>1, WaitPopExact
<1>4. r = IF k.owner[m] # t THEN k ELSE IF w = NoTask THEN given ELSE WaitMakeReady(given, w, "OK")
  BY DEF HandOver
<1>5. given \in GoodKernel
  BY <1>2 DEF GoodKernel, Kernel
<1>6. /\ given.ready = popped.ready /\ given.waiters = popped.waiters
      /\ given.effective = popped.effective /\ given.delayed = popped.delayed
      /\ given.overflow = popped.overflow /\ given.current = popped.current
      /\ given.state = popped.state /\ given.waitOn = popped.waitOn
      /\ given.started = popped.started /\ given.tick = popped.tick /\ given.wake = popped.wake
      /\ given.result = popped.result /\ given.owner = [popped.owner EXCEPT ![m] = w]
  BY <1>2 DEF GoodKernel, Kernel
<1>7. /\ mine.started = k.started /\ mine.state = k.state /\ mine.current = k.current
      /\ mine.tick = k.tick /\ mine.delayed = k.delayed /\ mine.overflow = k.overflow
      /\ mine.wake = k.wake /\ mine.waitOn = k.waitOn /\ mine.result = k.result
      /\ mine.owner = [k.owner EXCEPT ![m] = w] /\ mine.effective = k.effective
  BY <1>1 DEF Kernel
<1> HIDE DEF popped, given, mine, w, r, l
<1>8. SameTasks(mine, given) /\ given.effective = k.effective
  BY <1>3, <1>6, <1>7 DEF SameTasks
<1>9. \A first \in Int : Deadlines(k, first) => Deadlines(given, first)
  BY <1>7, <1>8 DEF SameTasks, Deadlines
<1>10. CASE k.owner[m] # t
  BY <1>3, <1>4, <1>10 DEF r, l, w
<1>11. CASE k.owner[m] = t /\ w = NoTask
  <2>1. Consistent(popped, {})
    BY <1>3, <1>11
  <2>2. Consistent(given, {})
    BY <1>5, <1>6, <2>1, FreeChange
  <2>3. r = given
    BY <1>4, <1>11
  <2>4. r.owner = [k.owner EXCEPT ![m] = w] /\ SameTasks(mine, r)
    BY <1>7, <1>8, <2>3 DEF SameTasks
  <2>5. \A first \in Int : Deadlines(k, first) => Deadlines(r, first)
    BY <1>9, <2>3
  <2>6. QED
    BY <1>3, <1>11, <2>2, <2>3, <2>4, <2>5 DEF r, l, w, mine
<1>12. CASE k.owner[m] = t /\ w # NoTask
  <2>1. /\ w \in Tasks /\ k.waitOn[w] = l /\ k.state[w] = "BLOCKED_OBJECT"
        /\ Consistent(popped, {w})
    BY <1>3, <1>12
  <2>2. Consistent(given, {w})
    BY <1>5, <1>6, <2>1, FreeChange
  <2>3. r = WaitMakeReady(given, w, "OK") /\ given.state[w] = "BLOCKED_OBJECT" /\ "OK" \in Statuses
    BY <1>4, <1>12, <1>7, <1>8, <2>1 DEF Statuses, SameTasks
  <2> DEFINE loose == {w}
  <2>4. w \in loose /\ loose \ {w} = {} /\ Consistent(given, loose)
    BY <2>2
  <2> HIDE DEF loose
  <2>5. /\ Consistent(r, loose \ {w}) /\ Readied(given, r, w, "OK")
        /\ \A first \in Int : Deadlines(given, first) => Deadlines(r, first)
    BY <2>1, <2>3, <2>4, WaitMakeReadyExact
  <2>6. Readied(mine, r, w, "OK") /\ r.owner = [k.owner EXCEPT ![m] = w]
    BY <1>7, <1>8, <2>5 DEF SameTasks, Readied
  <2>7. QED
    BY <1>3, <1>9, <1>12, <2>1, <2>4, <2>5, <2>6 DEF r, l, w, mine
<1>13. QED
  BY <1>10, <1>11, <1>12

\* A mutex that passes from a task that gives it up to its first waiter.
PassedOn(k, r, m) ==
    \/ r.owner[m] = NoTask /\ \A u \in Tasks : r.waitOn[u] # MutexWaiters(m)
    \/ r.owner[m] \in Tasks /\ Ended(k, r, r.owner[m], MutexWaiters(m), "OK")

\* What giving up the mutexes of t numbered below n does.
Released(k, r, t, n) ==
    /\ r.started = k.started /\ r.current = k.current /\ r.tick = k.tick
    /\ r.owner \in [Mutexes -> Tasks \cup {NoTask}]
    /\ \A m \in Mutexes : m < n /\ k.owner[m] = t => PassedOn(k, r, m)
    /\ \A m \in Mutexes : m >= n \/ k.owner[m] # t => r.owner[m] = k.owner[m]
    /\ \A u \in Tasks :
          \/ r.waitOn[u] = k.waitOn[u] /\ r.state[u] = k.state[u]
          \/ \E m \in Mutexes : /\ m < n /\ k.owner[m] = t /\ r.owner[m] = u
                                /\ Ended(k, r, u, MutexWaiters(m), "OK")
    /\ \A u \in Tasks : Calm(k, r, u)

\* One more mutex.
LEMMA ReleasedStep ==
    ASSUME NEW k, k \in GoodKernel, NEW j, Consistent(j, {}), NEW t \in Tasks, NEW n \in Mutexes,
           Released(k, j, t, n), k.state[t] = "RUNNING"
    PROVE  Released(k, HandOver(j, n, t), t, n + 1)
<1> DEFINE r == HandOver(j, n, t)
           l == MutexWaiters(n)
           w == WaitHead(j, l)
           mine == [j EXCEPT !.owner[n] = w]
<1>1. /\ Consistent(r, {})
      /\ j.owner[n] # t => r = j
      /\ j.owner[n] = t => r.owner = [j.owner EXCEPT ![n] = w]
      /\ j.owner[n] = t /\ w = NoTask => SameTasks(mine, r)
      /\ w = NoTask => \A u \in Tasks : j.waitOn[u] # l
      /\ j.owner[n] = t /\ w # NoTask => /\ w \in Tasks /\ j.waitOn[w] = l
                       /\ j.state[w] = "BLOCKED_OBJECT"
                       /\ Readied(mine, r, w, "OK")
  BY HandOverSound
<1>2. /\ j \in Kernel /\ NoTask \notin Tasks /\ \A m \in Mutexes : m \in Int
      /\ j.waitOn \in [Tasks -> WaitLists \cup {NoWait}] /\ NoWait \notin WaitLists
      /\ j.state \in [Tasks -> TaskStates] /\ j.result \in [Tasks -> Statuses]
      /\ n \in Int
      /\ \A m \in Mutexes : MutexWaiters(m) \in WaitLists
  <2>1. j \in GoodKernel /\ j \in Kernel
    BY DEF Consistent, GoodKernel
  <2>2. n \in Int /\ \A m \in Mutexes : m \in Int
    BY DEF Mutexes
  <2>3. \A m \in Mutexes : MutexWaiters(m) \in WaitLists
    BY DEF WaitLists
  <2>4. QED
    BY <2>1, <2>2, <2>3, FieldTypes
<1>3. ASSUME j.owner[n] = t, NEW u \in Tasks PROVE Calm(k, r, u)
  <2>1. /\ mine.state = j.state /\ mine.result = j.result
        /\ mine.delayed = j.delayed /\ mine.overflow = j.overflow
    BY <1>2 DEF Kernel
  <2>2. Calm(j, mine, u)
    BY <2>1 DEF Calm, DelayLinked
  <2>3. w \in Tasks \cup {NoTask} /\ j \in GoodKernel
    BY <1>1, <1>3 DEF Consistent
  <2>4. mine \in GoodKernel
    BY <2>3 DEF GoodKernel, Kernel
  <2> HIDE DEF mine, r, w, l
  <2>5. CASE w = NoTask
    <3>1. Calm(mine, r, u)
      BY <1>1, <1>3, <2>5, SchedulingIsCalm
    <3>2. QED
      BY <2>2, <3>1, CalmFollows DEF Released
  <2>6. CASE w # NoTask
    <3>1. mine.state[w] = "BLOCKED_OBJECT" /\ Readied(mine, r, w, "OK") /\ w \in Tasks
      BY <1>1, <1>3, <2>1, <2>6
    <3>2. Calm(mine, r, u)
      BY <2>4, <3>1, ReadiedIsCalm
    <3>3. QED
      BY <2>2, <3>2, CalmFollows DEF Released
  <2>7. QED
    BY <2>5, <2>6
<1>4. j.owner[n] = k.owner[n]
  BY <1>2 DEF Released
<1>5. CASE k.owner[n] # t
  <2>1. r = j
    BY <1>1, <1>4, <1>5
  <2>2. \A m \in Mutexes : m # n => (m < n + 1 <=> m < n) /\ (m >= n + 1 <=> m >= n)
    <3>1. n \in Int /\ \A m \in Mutexes : m \in Int
      BY <1>2
    <3>2. \A i, o \in Int : i # o => (i < o + 1 <=> i < o) /\ (i >= o + 1 <=> i >= o)
      OBVIOUS
    <3>3. QED
      BY <3>1, <3>2
  <2>3. \A m \in Mutexes : k.owner[m] = t => (m < n + 1 <=> m < n) /\ (m >= n + 1 <=> m >= n)
    BY <1>5, <2>2
  <2> HIDE DEF r
  <2>4. QED
    BY <2>1, <2>3 DEF Released, r
<1>6. CASE k.owner[n] = t
  <2>1. /\ mine.started = j.started /\ mine.current = j.current /\ mine.tick = j.tick
        /\ mine.state = j.state /\ mine.waitOn = j.waitOn /\ mine.result = j.result
    BY <1>2 DEF Kernel
  <2>2. r.owner = [j.owner EXCEPT ![n] = w] /\ w \in Tasks \cup {NoTask}
    BY <1>1, <1>4, <1>6
  <2>3. /\ r.started = j.started /\ r.current = j.current /\ r.tick = j.tick
        /\ r.owner \in [Mutexes -> Tasks \cup {NoTask}] /\ r.owner[n] = w
        /\ \A m \in Mutexes : m # n => r.owner[m] = j.owner[m]
    <3>1. r.started = j.started /\ r.current = j.current /\ r.tick = j.tick
      BY <1>1, <1>4, <1>6, <2>1, <2>2 DEF SameTasks, Readied
    <3>2. QED
      BY <2>2, <3>1 DEF Released
  <2>4. \A u \in Tasks : u # w =>
          r.waitOn[u] = j.waitOn[u] /\ r.state[u] = j.state[u] /\ r.result[u] = j.result[u]
    BY <1>1, <1>2, <1>4, <1>6, <2>1, <2>2 DEF SameTasks, Readied
  <2>5. w # NoTask => /\ w \in Tasks /\ j.waitOn[w] = l /\ j.state[w] = "BLOCKED_OBJECT"
                      /\ r.state[w] = "READY" /\ r.waitOn[w] = NoWait /\ r.result[w] = "OK"
    BY <1>1, <1>2, <1>4, <1>6, <2>1, <2>2 DEF Readied
  <2>6. w # NoTask => Ended(k, r, w, l, "OK")
    <3>1. w # NoTask => j.waitOn[w] # NoWait
      BY <1>2, <2>5
    <3>2. w # NoTask => k.waitOn[w] = l /\ k.state[w] = "BLOCKED_OBJECT"
      BY <2>5, <3>1 DEF Released, Ended
    <3>3. QED
      BY <2>5, <3>2 DEF Ended
  <2>7. w = NoTask => \A u \in Tasks : r.waitOn[u] # l
    BY <1>1, <1>2, <2>4
  <2> HIDE DEF r, w, mine
  <2>8. PassedOn(k, r, n)
    BY <2>2, <2>3, <2>6, <2>7 DEF PassedOn
  <2>9. \A u \in Tasks, m \in Mutexes : j.owner[m] = u /\ Ended(k, j, u, MutexWaiters(m), "OK") =>
             u # w /\ Ended(k, r, u, MutexWaiters(m), "OK")
    <3>1. \A u \in Tasks, m \in Mutexes : Ended(k, j, u, MutexWaiters(m), "OK") => u # w
      BY <1>2, <2>5 DEF Ended
    <3>2. QED
      BY <2>4, <3>1 DEF Ended
  <2>10. ASSUME NEW m \in Mutexes, m < n, k.owner[m] = t PROVE PassedOn(k, r, m)
    <3>1. PassedOn(k, j, m) /\ r.owner[m] = j.owner[m]
      <4>1. m # n
        BY <1>2, <2>10
      <4>2. PassedOn(k, j, m)
        BY <2>10 DEF Released
      <4>3. QED
        BY <2>3, <4>1, <4>2
    <3>2. CASE j.owner[m] = NoTask /\ \A u \in Tasks : j.waitOn[u] # MutexWaiters(m)
      <4>1. \A u \in Tasks : r.waitOn[u] # MutexWaiters(m)
        BY <1>2, <2>2, <2>4, <2>5, <3>2
      <4>2. QED
        BY <3>1, <3>2, <4>1 DEF PassedOn
    <3>3. CASE j.owner[m] \in Tasks /\ Ended(k, j, j.owner[m], MutexWaiters(m), "OK")
      BY <2>9, <3>1, <3>3 DEF PassedOn
    <3>4. QED
      BY <3>1, <3>2, <3>3 DEF PassedOn
  <2>11. \A m \in Mutexes : m < n + 1 /\ k.owner[m] = t => PassedOn(k, r, m)
    <3>1. \A m \in Mutexes : m < n + 1 => m < n \/ m = n
      BY <1>2
    <3>2. QED
      BY <2>8, <2>10, <3>1
  <2>12. \A m \in Mutexes : m >= n + 1 \/ k.owner[m] # t => r.owner[m] = k.owner[m]
    <3>1. \A m \in Mutexes : m >= n + 1 => m >= n /\ m # n
      BY <1>2
    <3>2. QED
      BY <1>6, <2>3, <3>1 DEF Released
  <2>13. ASSUME NEW u \in Tasks
         PROVE  \/ r.waitOn[u] = k.waitOn[u] /\ r.state[u] = k.state[u]
                \/ \E m \in Mutexes : /\ m < n + 1 /\ k.owner[m] = t /\ r.owner[m] = u
                                      /\ Ended(k, r, u, MutexWaiters(m), "OK")
    <3>1. CASE u = w
      <4>1. n < n + 1 /\ w # NoTask
        BY <1>2, <3>1
      <4>2. QED
        BY <1>6, <2>3, <2>6, <3>1, <4>1
    <3>2. CASE u # w /\ j.waitOn[u] = k.waitOn[u] /\ j.state[u] = k.state[u]
      BY <2>4, <3>2
    <3>3. ASSUME NEW m \in Mutexes, m < n /\ k.owner[m] = t /\ j.owner[m] = u,
                 Ended(k, j, u, MutexWaiters(m), "OK")
          PROVE  \E x \in Mutexes : /\ x < n + 1 /\ k.owner[x] = t /\ r.owner[x] = u
                                    /\ Ended(k, r, u, MutexWaiters(x), "OK")
      <4>1. m < n + 1 /\ m # n
        BY <1>2, <3>3
      <4>2. r.owner[m] = u /\ Ended(k, r, u, MutexWaiters(m), "OK")
        BY <2>3, <2>9, <3>3, <4>1
      <4>3. QED
        BY <3>3, <4>1, <4>2
    <3>4. QED
      BY <3>1, <3>2, <3>3 DEF Released
  <2>14. r.started = k.started /\ r.current = k.current /\ r.tick = k.tick
    BY <2>3 DEF Released
  <2>15. QED
    BY <1>4, <1>6, <1>3, <2>3, <2>11, <2>12, <2>13, <2>14 DEF Released, r
<1>7. QED
  BY <1>5, <1>6

\* os_MutexReleaseTask: all the mutexes of the running task are passed on.
LEMMA MutexReleaseTaskSound ==
    ASSUME NEW k, Consistent(k, {}), NEW t \in Tasks, k.state[t] = "RUNNING"
    PROVE  LET r == MutexReleaseTask(k, t) IN
           /\ Consistent(r, {}) /\ Released(k, r, t, MutexCount)
           /\ \A first \in Int : Deadlines(k, first) => Deadlines(r, first)
<1>1. k \in GoodKernel /\ k.owner \in [Mutexes -> Tasks \cup {NoTask}]
  BY FieldTypes DEF Consistent
<1>2. PICK after \in [0 .. MutexCount -> GoodKernel] :
         /\ after[0] = k
         /\ \A m \in Mutexes : after[m + 1] = HandOver(after[m], m, t)
         /\ MutexReleaseTask(k, t) = IF \E m \in Mutexes : k.owner[m] = t
                                     THEN MutexWaitersChanged(after[MutexCount]) ELSE k
  BY <1>1, MutexReleaseTaskLoop
<1>3. MutexCount \in Nat /\ 0 .. MutexCount - 1 = Mutexes
  BY OsKernelAssumption DEF Mutexes
<1> DEFINE Done(r, n) == /\ Consistent(r, {}) /\ Released(k, r, t, n)
                         /\ \A first \in Int : Deadlines(k, first) => Deadlines(r, first)
           T == {n \in 0 .. MutexCount : Done(after[n], n)}
<1>4. Done(k, 0)
  <2>1. \A m \in Mutexes : ~(m < 0)
    BY DEF Mutexes
  <2>2. QED
    BY <1>1, <2>1 DEF Released, Calm
<1>5. 0 \in T
  BY <1>2, <1>3, <1>4
<1>6. ASSUME NEW n \in 0 .. MutexCount - 1, n \in T PROVE n + 1 \in T
  <2>1. n + 1 \in 0 .. MutexCount /\ n \in Mutexes /\ Done(after[n], n)
    BY <1>3, <1>6
  <2>2. Released(k, HandOver(after[n], n, t), t, n + 1)
    BY <1>1, <2>1, ReleasedStep
  <2>3. /\ Consistent(HandOver(after[n], n, t), {})
        /\ \A first \in Int : Deadlines(after[n], first) => Deadlines(HandOver(after[n], n, t), first)
    BY <2>1, HandOverSound
  <2>4. after[n + 1] = HandOver(after[n], n, t)
    BY <1>2, <2>1
  <2>5. QED
    BY <2>1, <2>2, <2>3, <2>4
<1> HIDE DEF T
<1>7. MutexCount \in T
  BY <1>3, <1>5, <1>6, LoopInduction
<1> DEFINE last == after[MutexCount]
<1>8. Done(last, MutexCount)
  BY <1>7 DEF T
<1>9. CASE ~\E m \in Mutexes : k.owner[m] = t
  <2>1. MutexReleaseTask(k, t) = k
    BY <1>2, <1>9
  <2>2. Released(k, k, t, MutexCount)
    BY <1>1, <1>9 DEF Released, Calm
  <2>3. QED
    BY <2>1, <2>2
<1>10. CASE \E m \in Mutexes : k.owner[m] = t
  <2> DEFINE r == MutexWaitersChanged(last)
  <2>1. MutexReleaseTask(k, t) = r
    BY <1>2, <1>10
  <2> HIDE DEF last
  <2>2. Consistent(r, {}) /\ SameTasks(last, r)
    BY <1>8, MutexWaitersChangedExact
  <2> HIDE DEF r
  <2>3. Released(k, r, t, MutexCount)
    <3>1. \A u \in Tasks : Calm(k, r, u)
      BY <1>8, <2>2, SchedulingIsCalm, CalmFollows DEF Released
    <3>2. QED
      BY <1>8, <2>2, <3>1 DEF SameTasks, Released, PassedOn, Ended
  <2>4. \A first \in Int : Deadlines(k, first) => Deadlines(r, first)
    BY <1>8, <2>2 DEF SameTasks, Deadlines
  <2>5. QED
    BY <2>1, <2>2, <2>3, <2>4
<1>11. QED
  BY <1>9, <1>10
-------------------------------------------------------------------------------
(* os_time.c: the tick *)

\* The numbers the tick arithmetic is about.
LEMMA TicksAreNumbers ==
    /\ Ticks \subseteq Int /\ TickModulus \in Nat /\ TickModulus > 3 /\ MaxDelay \in Nat
    /\ 2 * MaxDelay + 2 = TickModulus
    /\ \A a \in Ticks : a \in Int /\ a >= 0 /\ a < TickModulus
  BY TickArithmetic, OsKernelAssumption DEF Ticks

\* What advancing the tick counter does to the deadlines: those of this period
\* move one tick closer, and at the wrap those of the next become this one's.
LEMMA AdvanceTickSound ==
    ASSUME NEW k, Sound(k), Deadlines(k, k.tick + 1)
    PROVE  LET r == AdvanceTick(k) IN
           /\ Sound(r) /\ Deadlines(r, r.tick)
           /\ r.tick = (k.tick + 1) % TickModulus /\ r.tick # k.tick
           /\ r.started = k.started /\ r.state = k.state /\ r.current = k.current
           /\ r.wake = k.wake /\ r.waitOn = k.waitOn /\ r.result = k.result /\ r.owner = k.owner
           /\ \A u \in Tasks : DelayLinked(r, u) <=> DelayLinked(k, u)
<1> DEFINE r == AdvanceTick(k)
           now == (k.tick + 1) % TickModulus
           A == ToSet(k.delayed)
           B == ToSet(k.overflow)
<1>1. Consistent(k, {}) /\ k \in GoodKernel /\ k \in Kernel
  BY DEF Sound, Consistent, GoodKernel
<1>2. k.tick \in Ticks /\ k.wake \in [Tasks -> Ticks]
  BY <1>1, FieldTypes
<1>3. now = IF k.tick = TickModulus - 1 THEN 0 ELSE k.tick + 1
  <2>1. 1 \in Ticks /\ k.tick \in Int /\ k.tick >= 0 /\ k.tick < TickModulus /\ TickModulus \in Int
    BY <1>2, OsKernelAssumption DEF Ticks
  <2>2. now = IF k.tick + 1 < TickModulus THEN k.tick + 1 ELSE k.tick + 1 - TickModulus
    BY <1>2, <2>1, TickArithmetic
  <2> HIDE DEF now
  <2>3. QED
    BY <2>1, <2>2
<1> HIDE DEF now
<1>4. /\ r.tick = now
      /\ r.delayed = IF now = 0 THEN k.overflow ELSE k.delayed
      /\ r.overflow = IF now = 0 THEN k.delayed ELSE k.overflow
      /\ r.started = k.started /\ r.state = k.state /\ r.current = k.current
      /\ r.wake = k.wake /\ r.waitOn = k.waitOn /\ r.result = k.result /\ r.owner = k.owner
      /\ r.ready = k.ready /\ r.waiters = k.waiters /\ r.effective = k.effective
  BY <1>1 DEF AdvanceTick, Kernel, now
<1>5. r \in GoodKernel
  BY <1>1, AdvanceTickGood
<1> HIDE DEF r
<1>6. \A u \in Tasks : DelayLinked(r, u) <=> DelayLinked(k, u)
  BY <1>4 DEF DelayLinked
<1>7. Sound(r)
  <2>1. ReadyExact(r, {}) /\ WaitersExact(r, {}) /\ OneRuns(r)
    BY <1>1, <1>4 DEF Consistent, ReadyExact, WaitersExact, OneRuns, Rank
  <2>2. DelaysExact(r)
    BY <1>1, <1>4 DEF Consistent, DelaysExact
  <2>3. StatesAgree(r, {})
    BY <1>1, <1>4, <1>6 DEF Consistent, StatesAgree
  <2>4. QED
    BY <1>4, <1>5, <2>1, <2>2, <2>3 DEF Sound, Consistent
<1>8. /\ A \subseteq Tasks /\ B \subseteq Tasks
      /\ Ranked(k.delayed, k.wake) /\ Ranked(k.overflow, k.wake)
      /\ \A t \in A : k.wake[t] >= k.tick + 1
      /\ \A t \in B : k.wake[t] < k.tick
      /\ \A t \in A \cup B : (k.wake[t] - k.tick) % TickModulus <= MaxDelay
  BY <1>1, DelayLists DEF Consistent, Deadlines
<1>9. Ranked(r.delayed, r.wake) /\ Ranked(r.overflow, r.wake)
  BY <1>4, <1>8
<1>10. ToSet(r.delayed) = (IF now = 0 THEN B ELSE A) /\ ToSet(r.overflow) = IF now = 0 THEN A ELSE B
  BY <1>4
<1> HIDE DEF A, B
<1>11. now = 0 => A = {}
  <2> SUFFICES ASSUME now = 0, NEW t \in A PROVE FALSE
    OBVIOUS
  <2>1. k.tick = TickModulus - 1
    <3>1. k.tick \in Int /\ k.tick >= 0
      BY <1>2, TicksAreNumbers
    <3>2. k.tick + 1 # 0
      BY <3>1
    <3>3. QED
      BY <1>3, <3>2
  <2>2. k.wake[t] \in Ticks /\ k.wake[t] >= k.tick + 1
    BY <1>2, <1>8
  <2>3. k.tick \in Int /\ TickModulus \in Int
    <3>1. k.tick \in Ticks
      BY <1>2
    <3>2. k.tick \in Int
      BY <3>1, TicksAreNumbers
    <3>3. QED
      BY <3>2, OsKernelAssumption
  <2>4. k.wake[t] \in Int /\ k.wake[t] < TickModulus
    BY <2>2, TicksAreNumbers
  <2>5. QED
    BY <2>1, <2>2, <2>3, <2>4
<1>12. ASSUME NEW t \in A \cup B, now # 0 \/ t \in B
       PROVE  /\ t \in A => k.wake[t] >= now
              /\ t \in B => IF now = 0 THEN k.wake[t] >= 0 ELSE k.wake[t] < now
              /\ (k.wake[t] - now) % TickModulus <= MaxDelay
  <2> DEFINE w == k.wake[t]
             tick == k.tick
             M == TickModulus
  <2>1. /\ w \in Int /\ w >= 0 /\ w < M /\ tick \in Int /\ tick >= 0 /\ tick < M /\ M \in Int
        /\ w \in Ticks /\ tick \in Ticks /\ M > 3 /\ MaxDelay \in Int /\ 2 * MaxDelay + 2 = M
    <3>1. w \in Ticks /\ tick \in Ticks
      BY <1>2, <1>8
    <3> HIDE DEF w, tick
    <3>2. QED
      BY <3>1, TicksAreNumbers
  <2>2. now = (IF tick = M - 1 THEN 0 ELSE tick + 1) /\ now \in Ticks
    <3>1. now \in Ticks
      BY <1>4, <1>5, FieldTypes
    <3>2. QED
      BY <1>3, <3>1
  <2>3. (w - now) % M = IF w >= now THEN w - now ELSE w - now + M
    BY <2>1, <2>2, TickArithmetic
  <2>4. (w - tick) % M = (IF w >= tick THEN w - tick ELSE w - tick + M) /\ (w - tick) % M <= MaxDelay
    BY <1>8, <2>1, TickArithmetic
  <2>5. (t \in A => w >= tick + 1) /\ (t \in B => w < tick)
    BY <1>8
  <2> HIDE DEF w, tick, M
  <2>6. CASE t \in A /\ now # 0
    <3>1. now = tick + 1 /\ w >= now /\ t \notin B
      BY <2>1, <2>2, <2>5, <2>6
    <3>2. (w - now) % M = w - now /\ w - tick <= MaxDelay
      BY <2>1, <2>2, <2>3, <2>4, <3>1
    <3>3. QED
      BY <2>1, <3>1, <3>2 DEF w, tick, M
  <2>7. CASE t \in B /\ now # 0
    <3>1. now = tick + 1 /\ w < now /\ w < tick /\ ~(w >= now) /\ ~(w >= tick) /\ t \notin A
      BY <2>1, <2>2, <2>5, <2>7
    <3>2. (w - now) % M = w - now + M /\ w - tick + M <= MaxDelay
      BY <2>3, <2>4, <3>1
    <3>3. w - now + M <= MaxDelay
      BY <2>1, <3>1, <3>2
    <3>4. QED
      BY <2>7, <3>1, <3>2, <3>3 DEF w, tick, M
  <2>8. CASE t \in B /\ now = 0
    <3>1. tick = M - 1 /\ w < tick /\ w >= now /\ ~(w >= tick) /\ t \notin A
      BY <2>1, <2>2, <2>5, <2>8
    <3>2. (w - now) % M = w /\ w - tick + M <= MaxDelay
      BY <2>1, <2>3, <2>4, <2>8, <3>1
    <3>3. w <= MaxDelay
      BY <2>1, <3>1, <3>2
    <3>4. QED
      BY <2>1, <2>8, <3>1, <3>2, <3>3 DEF w, tick, M
  <2>9. QED
    BY <1>12, <2>6, <2>7, <2>8
<1>13. Deadlines(r, r.tick)
  <2>1. \A t \in ToSet(r.delayed) : r.wake[t] >= r.tick
    <3>1. CASE now = 0
      BY <1>4, <1>10, <1>12, <3>1
    <3>2. CASE now # 0
      BY <1>4, <1>10, <1>12, <3>2
    <3>3. QED
      BY <3>1, <3>2
  <2>2. \A t \in ToSet(r.overflow) : r.wake[t] < r.tick
    BY <1>4, <1>10, <1>11, <1>12
  <2>3. \A t \in ToSet(r.delayed) \cup ToSet(r.overflow) : (r.wake[t] - r.tick) % TickModulus <= MaxDelay
    BY <1>4, <1>10, <1>11, <1>12
  <2>4. QED
    BY <1>9, <2>1, <2>2, <2>3 DEF Deadlines
<1>14. r.tick # k.tick
  BY <1>2, <1>3, <1>4, TicksAreNumbers
<1>15. QED
  BY <1>4, <1>6, <1>7, <1>13, <1>14 DEF r, now

\* After the advance the head of the list is due exactly when its deadline is
\* the current tick; when it is not, every deadline lies ahead again.
LEMMA WhatIsDue ==
    ASSUME NEW k, Consistent(k, {}), Deadlines(k, k.tick)
    PROVE  /\ HeadIsDue(k) => k.wake[Head(k.delayed)] = k.tick
           /\ ~HeadIsDue(k) => Deadlines(k, k.tick + 1)
<1> DEFINE t == Head(k.delayed)
           w == k.wake[t]
           M == TickModulus
           tick == k.tick
<1>1. k \in GoodKernel /\ k.tick \in Ticks /\ k.wake \in [Tasks -> Ticks]
  BY FieldTypes DEF Consistent
<1>2. CASE k.delayed = <<>>
  <2>1. ToSet(k.delayed) = {}
    BY <1>2 DEF ToSet
  <2>2. QED
    BY <1>2, <2>1 DEF Deadlines, HeadIsDue
<1>3. CASE k.delayed # <<>>
  <2> DEFINE A == ToSet(k.delayed)
  <2>1. Exact(k.delayed, A) /\ Ranked(k.delayed, k.wake) /\ A \subseteq Tasks
    BY DelayLists DEF Consistent, DelaysExact, Deadlines
  <2>2. k.wake \in [Tasks -> Int]
    BY <1>1, TicksAreNumbers
  <2> HIDE DEF A
  <2>3. t \in A /\ t \in Tasks /\ \A u \in Tasks : u \in A => k.wake[t] <= k.wake[u]
    BY <1>3, <2>1, <2>2, PopExact
  <2>4. w >= tick /\ (w - tick) % M <= MaxDelay
    BY <2>3 DEF Deadlines, A
  <2>5. /\ w \in Int /\ w >= 0 /\ w < M /\ tick \in Int /\ tick >= 0 /\ tick < M /\ M \in Int
        /\ w \in Ticks /\ tick \in Ticks /\ M > 3 /\ MaxDelay \in Int /\ 2 * MaxDelay + 2 = M
    <3>1. w \in Ticks /\ tick \in Ticks
      BY <1>1, <2>3
    <3> HIDE DEF w, tick
    <3>2. QED
      BY <3>1, TicksAreNumbers
  <2>6. HeadIsDue(k) <=> (tick - w) % M <= MaxDelay
    BY <1>3 DEF HeadIsDue, TickReached
  <2>7. /\ (w - tick) % M = IF w >= tick THEN w - tick ELSE w - tick + M
        /\ (tick - w) % M = IF tick >= w THEN tick - w ELSE tick - w + M
    BY <2>5, TickArithmetic
  <2> HIDE DEF w, tick, M
  <2>8. HeadIsDue(k) <=> w = tick
    <3>1. CASE w = tick
      <4>1. (tick - w) % M = 0
        BY <2>5, <2>7, <3>1
      <4>2. QED
        BY <2>5, <2>6, <3>1, <4>1
    <3>2. CASE w > tick
      <4>1. ~(tick >= w) /\ w - tick <= MaxDelay
        BY <2>4, <2>5, <2>7, <3>2
      <4>2. (tick - w) % M = tick - w + M
        BY <2>7, <4>1
      <4>3. ~((tick - w) % M <= MaxDelay)
        BY <2>5, <4>1, <4>2
      <4>4. QED
        BY <2>5, <2>6, <3>2, <4>3
    <3>3. QED
      BY <2>4, <2>5, <3>1, <3>2
  <2>9. ASSUME ~HeadIsDue(k), NEW u \in ToSet(k.delayed) PROVE k.wake[u] >= k.tick + 1
    <3>1. w >= tick + 1
      BY <2>4, <2>5, <2>8, <2>9
    <3>2. u \in Tasks /\ w <= k.wake[u] /\ k.wake[u] \in Int
      BY <2>1, <2>2, <2>3, <2>9 DEF A, w
    <3>3. tick + 1 <= k.wake[u]
      BY <2>5, <3>1, <3>2
    <3>4. QED
      BY <3>2, <3>3, <2>5 DEF tick
  <2>10. QED
    BY <2>8, <2>9 DEF Deadlines, w, tick
<1>4. QED
  BY <1>2, <1>3
-------------------------------------------------------------------------------
(* os_time.c: waking the head of the list *)

\* os_ListPopFront takes the task with the earliest deadline off its list.
LEMMA PopDelayedExact ==
    ASSUME NEW k, Consistent(k, {}), k.delayed # <<>>
    PROVE  LET t == Head(k.delayed)
               r == PopDelayed(k)
           IN /\ t \in Tasks /\ t \in ToSet(k.delayed) /\ OnlyDelays(k, r)
              /\ r.wake = [k.wake EXCEPT ![t] = 0]
              /\ ToSet(r.delayed) = ToSet(k.delayed) \ {t} /\ ~DelayLinked(r, t)
              /\ \A u \in Tasks : u # t => (DelayLinked(r, u) <=> DelayLinked(k, u))
              /\ k.state[t] = "BLOCKED_OBJECT" => Consistent(r, {})
              /\ k.state[t] = "BLOCKED_DELAY" => Consistent(r, {t})
              /\ k.state[t] \in {"BLOCKED_DELAY", "BLOCKED_OBJECT"}
              /\ \A first \in Int : Deadlines(k, first) => Deadlines(r, first)
<1> DEFINE t == Head(k.delayed)
           r == PopDelayed(k)
           A == ToSet(k.delayed)
           B == ToSet(k.overflow)
           rest == Tail(k.delayed)
<1>1. k \in GoodKernel /\ k \in Kernel
  BY DEF Consistent, GoodKernel
<1>2. /\ k.wake \in [Tasks -> Ticks] /\ k.wake \in [Tasks -> Int] /\ k.waitOn \in [Tasks -> WaitLists \cup {NoWait}]
      /\ NoWait \notin WaitLists
  BY <1>1, FieldTypes, TicksAreNumbers
<1>3. /\ Exact(k.delayed, A) /\ Exact(k.overflow, B) /\ A \cap B = {}
      /\ A \subseteq Tasks /\ B \subseteq Tasks
  BY DelayLists DEF Consistent, DelaysExact
<1> HIDE DEF A, B
<1>4. /\ t \in A /\ t \in Tasks /\ Exact(rest, A \ {t})
      /\ Ranked(k.delayed, k.wake) => Ranked(rest, k.wake)
  BY <1>2, <1>3, PopExact
<1> HIDE DEF rest, t
<1>5. r = [k EXCEPT !.delayed = rest, !.wake[t] = 0]
  BY DEF PopDelayed, rest, t
<1>6. /\ r.delayed = rest /\ r.overflow = k.overflow /\ r.wake = [k.wake EXCEPT ![t] = 0]
      /\ OnlyDelays(k, r)
  BY <1>1, <1>5 DEF Kernel, OnlyDelays
<1>7. r \in GoodKernel
  <2>1. rest \in Seq(Tasks)
    BY <1>4 DEF Exact
  <2>2. QED
    <3>1. [k EXCEPT !.delayed = rest, !.wake[t] = 0] \in GoodKernel
      BY <1>1, <1>4, <2>1, TickRange DEF GoodKernel, Kernel
    <3>2. QED
      BY <1>5, <3>1
<1> HIDE DEF r
<1>8. ToSet(r.delayed) = A \ {t} /\ ToSet(r.overflow) = B /\ t \notin B
  <2>1. A \ {t} \subseteq Tasks
    BY <1>3
  <2>2. ToSet(rest) = A \ {t}
    BY <1>4, <2>1, ExactList
  <2>3. QED
    BY <1>3, <1>4, <1>6, <2>2 DEF B
<1>9. DelaysExact(r)
  <2>1. (A \ {t}) \cap B = {}
    BY <1>3
  <2>2. QED
    BY <1>3, <1>4, <1>6, <1>8, <2>1 DEF DelaysExact
<1>10. ~DelayLinked(r, t) /\ \A u \in Tasks : u # t => (DelayLinked(r, u) <=> DelayLinked(k, u))
  BY <1>8 DEF DelayLinked, A, B
<1>11. DelayLinked(k, t)
  BY <1>4 DEF DelayLinked, A
<1>12. k.state[t] \in {"BLOCKED_DELAY", "BLOCKED_OBJECT"}
  BY <1>4, <1>11 DEF Consistent, StatesAgree
<1>13. k.state[t] = "BLOCKED_OBJECT" => Consistent(r, {})
  BY <1>4, <1>6, <1>7, <1>9, <1>10, DelayChange
<1>14. ASSUME k.state[t] = "BLOCKED_DELAY" PROVE Consistent(r, {t})
  <2>1. ~ScheduleLinked(k, t)
    <3>1. k.waitOn[t] = NoWait
      BY <1>4, <1>14 DEF Consistent, StatesAgree
    <3>2. QED
      BY <1>4, <1>14, <3>1, WhoIsLinked
  <2> DEFINE loose == {} \cup {t}
  <2>2. loose = {t} /\ t \in loose
    OBVIOUS
  <2>3. Consistent(k, loose)
    BY <1>4, <2>1, Loosen
  <2> HIDE DEF loose
  <2>4. Consistent(r, loose)
    BY <1>4, <1>6, <1>7, <1>9, <1>10, <2>2, <2>3, DelayChange
  <2>5. QED
    BY <2>2, <2>4
<1>15. ASSUME NEW first \in Int, Deadlines(k, first) PROVE Deadlines(r, first)
  <2>1. \A u \in Tasks : u \in A \ {t} => k.wake[u] = r.wake[u]
    BY <1>2, <1>6
  <2>2. \A u \in Tasks : u \in B => k.wake[u] = r.wake[u]
    BY <1>2, <1>6, <1>8
  <2>3. /\ Ranked(k.delayed, k.wake) /\ Ranked(k.overflow, k.wake)
        /\ \A u \in A : k.wake[u] >= first
        /\ \A u \in B : k.wake[u] < k.tick
        /\ \A u \in A \cup B : (k.wake[u] - k.tick) % TickModulus <= MaxDelay
    BY <1>15 DEF Deadlines, A, B
  <2> DEFINE C == A \ {t}
  <2>4. Ranked(r.delayed, r.wake)
    <3>1. Exact(rest, C) /\ Ranked(rest, k.wake) /\ \A u \in Tasks : u \in C => k.wake[u] = r.wake[u]
      BY <1>4, <2>1, <2>3
    <3> HIDE DEF C
    <3>2. Ranked(rest, r.wake)
      BY <3>1, RankedAgree
    <3>3. QED
      BY <1>6, <3>2
  <2>5. Ranked(r.overflow, r.wake)
    <3>1. Exact(k.overflow, B) /\ Ranked(k.overflow, k.wake)
      BY <1>3, <2>3
    <3>2. Ranked(k.overflow, r.wake)
      BY <2>2, <3>1, RankedAgree
    <3>3. QED
      BY <1>6, <3>2
  <2>6. r.tick = k.tick
    BY <1>6 DEF OnlyDelays
  <2>7. \A u \in A \ {t} : u \in Tasks /\ u \in A
    BY <1>3
  <2>8. \A u \in B : u \in Tasks
    BY <1>3
  <2>9. \A u \in A \ {t} : r.wake[u] >= first /\ (r.wake[u] - r.tick) % TickModulus <= MaxDelay
    <3>1. \A u \in A \ {t} : r.wake[u] = k.wake[u]
      BY <2>1, <2>7
    <3>2. QED
      BY <2>3, <2>6, <3>1
  <2>10. \A u \in B : r.wake[u] < r.tick /\ (r.wake[u] - r.tick) % TickModulus <= MaxDelay
    <3>1. \A u \in B : r.wake[u] = k.wake[u]
      BY <2>2, <2>8
    <3>2. QED
      BY <2>3, <2>6, <3>1
  <2>11. QED
    BY <1>8, <2>4, <2>5, <2>9, <2>10 DEF Deadlines
<1>16. QED
  BY <1>4, <1>6, <1>8, <1>10, <1>12, <1>13, <1>14, <1>15 DEF A, t, r

\* What an iteration of os_TimeTick's loop does to the task it wakes.
WokenAt(k, r, t) ==
    /\ r.started = k.started /\ r.current = k.current /\ r.tick = k.tick /\ r.owner = k.owner
    /\ r.wake = [k.wake EXCEPT ![t] = 0]
    /\ ToSet(r.delayed) = ToSet(k.delayed) \ {t}
    /\ \A u \in Tasks : u # t => (DelayLinked(r, u) <=> DelayLinked(k, u))
    /\ r.state = [k.state EXCEPT ![t] = "READY"]
    /\ \/ k.state[t] = "BLOCKED_DELAY" /\ r.waitOn = k.waitOn /\ r.result = k.result
       \/ /\ k.state[t] = "BLOCKED_OBJECT"
          /\ r.waitOn = [k.waitOn EXCEPT ![t] = NoWait]
          /\ r.result = [k.result EXCEPT ![t] = "TIMEOUT"]

\* What it does to the priorities: nothing, unless the wait was for a mutex.
Reprices(k, r, t) ==
    \/ r.effective = k.effective /\ \A m \in Mutexes : k.waitOn[t] # MutexWaiters(m)
    \/ \E j : /\ Consistent(j, {}) /\ j.effective = k.effective /\ j.owner = k.owner
             /\ r = MutexWaitersChanged(j)

\* An iteration of the loop of os_TimeTick.
LEMMA WakeHeadSound ==
    ASSUME NEW k, Consistent(k, {}), k.delayed # <<>>
    PROVE  LET t == Head(k.delayed)
               r == WakeHead(k)
           IN /\ t \in Tasks /\ t \in ToSet(k.delayed)
              /\ Consistent(r, {}) /\ WokenAt(k, r, t)
              /\ \A first \in Int : Deadlines(k, first) => Deadlines(r, first)
              /\ Reprices(k, r, t)
<1> DEFINE t == Head(k.delayed)
           v == PopDelayed(k)
           r == WakeHead(k)
<1>1. /\ t \in Tasks /\ t \in ToSet(k.delayed) /\ OnlyDelays(k, v)
      /\ v.wake = [k.wake EXCEPT ![t] = 0]
      /\ ToSet(v.delayed) = ToSet(k.delayed) \ {t} /\ ~DelayLinked(v, t)
      /\ \A u \in Tasks : u # t => (DelayLinked(v, u) <=> DelayLinked(k, u))
      /\ k.state[t] = "BLOCKED_OBJECT" => Consistent(v, {})
      /\ k.state[t] = "BLOCKED_DELAY" => Consistent(v, {t})
      /\ k.state[t] \in {"BLOCKED_DELAY", "BLOCKED_OBJECT"}
      /\ \A first \in Int : Deadlines(k, first) => Deadlines(v, first)
  BY PopDelayedExact
<1>2. r = Wake(v, t)
  BY DEF WakeHead
<1>3. /\ k.waitOn \in [Tasks -> WaitLists \cup {NoWait}] /\ NoWait \notin WaitLists
      /\ k.wake \in [Tasks -> Ticks]
  BY FieldTypes DEF Consistent
<1>4. k.waitOn[t] # NoWait <=> k.state[t] = "BLOCKED_OBJECT"
  BY <1>1 DEF Consistent, StatesAgree
<1> HIDE DEF t, v, r
<1> DEFINE loose == {t}
<1>5. loose \ {t} = {} /\ {} \cup {t} = loose /\ t \in loose
  OBVIOUS
<1>6. CASE k.state[t] = "BLOCKED_DELAY"
  <2> DEFINE ended == [v EXCEPT !.state[t] = "READY"]
  <2>1. Consistent(v, loose) /\ v \in GoodKernel /\ v \in Kernel /\ v.state[t] = "BLOCKED_DELAY"
    BY <1>1, <1>6 DEF Consistent, GoodKernel, OnlyDelays
  <2>2. r = ReadyEnqueue(ended, t)
    BY <1>2, <2>1 DEF Wake
  <2>3. ended \in GoodKernel
    BY <1>1, <2>1 DEF GoodKernel, Kernel, TaskStates
  <2>4. /\ ended.ready = v.ready /\ ended.waiters = v.waiters /\ ended.effective = v.effective
        /\ ended.delayed = v.delayed /\ ended.overflow = v.overflow /\ ended.current = v.current
        /\ ended.state = [v.state EXCEPT ![t] = "READY"] /\ ended.waitOn = v.waitOn
        /\ ended.result = v.result /\ ended.wake = v.wake /\ ended.tick = v.tick
        /\ ended.started = v.started /\ ended.owner = v.owner
    BY <2>1 DEF Kernel
  <2>5. v.state \in [Tasks -> TaskStates]
    BY <2>1 DEF Kernel
  <2> HIDE DEF ended, loose
  <2>6. Consistent(ended, loose)
    <3>1. \A u \in Tasks : u # t => ended.state[u] = v.state[u] /\ ended.waitOn[u] = v.waitOn[u]
      BY <2>4, <2>5
    <3>2. ended.state[t] # "RUNNING"
      BY <1>1, <2>4, <2>5
    <3>3. QED
      BY <1>1, <1>5, <2>1, <2>3, <2>4, <3>1, <3>2, LooseChange
  <2>7. ended.state[t] = "READY" /\ ended.waitOn[t] = NoWait /\ ~DelayLinked(ended, t)
    BY <1>1, <1>4, <1>6, <2>4, <2>5 DEF DelayLinked, OnlyDelays
  <2>8. Consistent(r, loose \ {t}) /\ SameTasks(ended, r) /\ r.effective = ended.effective
    BY <1>1, <1>5, <2>2, <2>6, <2>7, ReadyEnqueueExact
  <2>9. WokenAt(k, r, t)
    <3>1. \A u \in Tasks : u # t => (DelayLinked(r, u) <=> DelayLinked(k, u))
      BY <1>1, <2>4, <2>8 DEF SameTasks, DelayLinked
    <3>2. QED
      BY <1>1, <1>6, <2>4, <2>8, <3>1 DEF SameTasks, OnlyDelays, WokenAt
  <2>10. \A first \in Int : Deadlines(k, first) => Deadlines(r, first)
    <3>1. \A first \in Int : Deadlines(v, first) => Deadlines(r, first)
      BY <2>4, <2>8 DEF SameTasks, Deadlines
    <3>2. QED
      BY <1>1, <3>1
  <2>11. Reprices(k, r, t)
    <3>1. r.effective = k.effective
      BY <1>1, <2>4, <2>8 DEF OnlyDelays
    <3>2. k.waitOn[t] = NoWait /\ \A m \in Mutexes : MutexWaiters(m) \in WaitLists
      BY <1>4, <1>6 DEF WaitLists
    <3>3. QED
      BY <1>3, <3>1, <3>2 DEF Reprices
  <2>12. QED
    BY <1>1, <1>5, <2>8, <2>9, <2>10, <2>11 DEF t, r
<1>7. CASE k.state[t] = "BLOCKED_OBJECT"
  <2> DEFINE l == k.waitOn[t]
             unlinked == WaitRemove(v, l, t)
             timedOut == WaitMakeReady(unlinked, t, "TIMEOUT")
  <2>1. Consistent(v, {}) /\ v.state[t] = "BLOCKED_OBJECT" /\ v.waitOn[t] = l /\ l \in WaitLists
    BY <1>1, <1>3, <1>4, <1>7 DEF OnlyDelays
  <2>2. r \in {timedOut, MutexWaitersChanged(timedOut)}
    BY <1>2, <2>1 DEF Wake
  <2>3. Consistent(unlinked, loose) /\ SameTasks(v, unlinked) /\ unlinked.effective = v.effective
    <3>1. unlinked = WaitRemove(v, v.waitOn[t], t) /\ v.waitOn[t] \in WaitLists
      BY <2>1
    <3> DEFINE none == {}
    <3>2. t \notin none /\ Consistent(v, none) /\ none \cup {t} = loose
      BY <2>1
    <3> HIDE DEF unlinked, l, loose, none
    <3>3. /\ Consistent(unlinked, none \cup {t}) /\ SameTasks(v, unlinked)
          /\ unlinked.effective = v.effective
      BY <1>1, <3>1, <3>2, WaitRemoveExact
    <3>4. QED
      BY <3>2, <3>3
  <2> HIDE DEF loose, unlinked, l
  <2>4. unlinked.state[t] = "BLOCKED_OBJECT" /\ "TIMEOUT" \in Statuses
    BY <2>1, <2>3 DEF SameTasks, Statuses
  <2>5. /\ Consistent(timedOut, loose \ {t}) /\ Readied(unlinked, timedOut, t, "TIMEOUT")
        /\ \A first \in Int : Deadlines(unlinked, first) => Deadlines(timedOut, first)
    BY <1>1, <1>5, <2>3, <2>4, WaitMakeReadyExact
  <2> HIDE DEF timedOut
  <2>6. Consistent(timedOut, {}) /\ WokenAt(k, timedOut, t)
    <3>1. Readied(v, timedOut, t, "TIMEOUT")
      BY <2>3, <2>5 DEF SameTasks, Readied
    <3>2. timedOut.wake = [k.wake EXCEPT ![t] = 0]
      BY <1>1, <1>3, <3>1 DEF Readied
    <3>3. ToSet(timedOut.delayed) = ToSet(k.delayed) \ {t}
      BY <1>1, <3>1 DEF Readied
    <3>4. \A u \in Tasks : u # t => (DelayLinked(timedOut, u) <=> DelayLinked(v, u))
      BY <3>1 DEF Readied, DelayLinked
    <3>5. \A u \in Tasks : u # t => (DelayLinked(timedOut, u) <=> DelayLinked(k, u))
      BY <1>1, <3>4
    <3>6. QED
      BY <1>1, <1>5, <1>7, <2>5, <3>1, <3>2, <3>3, <3>5 DEF OnlyDelays, Readied, WokenAt
  <2>7. \A first \in Int : Deadlines(k, first) => Deadlines(timedOut, first)
    <3>1. \A first \in Int : Deadlines(v, first) => Deadlines(unlinked, first)
      BY <2>3 DEF SameTasks, Deadlines
    <3>2. QED
      BY <1>1, <2>5, <3>1
  <2>8. Consistent(MutexWaitersChanged(timedOut), {}) /\ SameTasks(timedOut, MutexWaitersChanged(timedOut))
    BY <2>6, MutexWaitersChangedExact
  <2>9. Consistent(r, {}) /\ SameTasks(timedOut, r)
    BY <2>2, <2>6, <2>8 DEF SameTasks
  <2>10. WokenAt(k, r, t)
    BY <2>6, <2>9 DEF SameTasks, WokenAt, DelayLinked
  <2>11. \A first \in Int : Deadlines(k, first) => Deadlines(r, first)
    BY <2>7, <2>9 DEF SameTasks, Deadlines
  <2>12. Reprices(k, r, t)
    <3>1. timedOut.effective = k.effective /\ timedOut.owner = k.owner
      BY <1>1, <2>3, <2>5 DEF OnlyDelays, SameTasks, Readied
    <3>2. r = IF l \in {MutexWaiters(m) : m \in Mutexes}
              THEN MutexWaitersChanged(timedOut) ELSE timedOut
      BY <1>2, <2>1 DEF Wake, timedOut, unlinked
    <3>3. CASE l \in {MutexWaiters(m) : m \in Mutexes}
      BY <2>6, <3>1, <3>2, <3>3 DEF Reprices
    <3>4. CASE l \notin {MutexWaiters(m) : m \in Mutexes}
      BY <3>1, <3>2, <3>4 DEF Reprices, l
    <3>5. QED
      BY <3>3, <3>4
  <2>13. QED
    BY <1>1, <2>9, <2>10, <2>11, <2>12 DEF t, r
<1>8. QED
  BY <1>1, <1>6, <1>7
-------------------------------------------------------------------------------
(* os_time.c: the loop over the due tasks, and the switch *)

\* A task whose delay or wait ends at its deadline, which the tick has reached.
TimedOut(k, r, u) ==
    /\ DelayLinked(k, u) /\ r.tick = k.wake[u] /\ r.state[u] \in {"READY", "RUNNING"}
    /\ \/ k.state[u] = "BLOCKED_DELAY" /\ r.waitOn[u] = k.waitOn[u]
       \/ k.state[u] = "BLOCKED_OBJECT" /\ r.waitOn[u] = NoWait /\ r.result[u] = "TIMEOUT"

\* What the loop over the due tasks does.
WokenDue(k, r) ==
    /\ r.started = k.started /\ r.current = k.current /\ r.tick = k.tick /\ r.owner = k.owner
    /\ \A u \in Tasks : \/ r.state[u] = k.state[u] /\ r.waitOn[u] = k.waitOn[u]
                        \/ TimedOut(k, r, u)
    /\ \A u \in ToSet(r.delayed) : /\ u \in ToSet(k.delayed) /\ r.wake[u] = k.wake[u]
                                   /\ r.state[u] = k.state[u] /\ r.waitOn[u] = k.waitOn[u]
    /\ \A u \in Tasks : Calm(k, r, u)

\* One more task.
LEMMA WokenDueStep ==
    ASSUME NEW k, NEW j, Consistent(j, {}), Deadlines(j, j.tick), HeadIsDue(j), WokenDue(k, j)
    PROVE  WokenDue(k, WakeHead(j))
<1> DEFINE t == Head(j.delayed)
           r == WakeHead(j)
<1>1. j.delayed # <<>> /\ j.wake[t] = j.tick
  BY WhatIsDue DEF HeadIsDue
<1>2. /\ t \in Tasks /\ t \in ToSet(j.delayed) /\ WokenAt(j, r, t)
  BY <1>1, WakeHeadSound
<1>3. /\ j.state \in [Tasks -> TaskStates] /\ j.waitOn \in [Tasks -> WaitLists \cup {NoWait}]
      /\ j.result \in [Tasks -> Statuses] /\ j.wake \in [Tasks -> Ticks]
      /\ ToSet(j.delayed) \subseteq Tasks
  BY FieldTypes, DelayLists DEF Consistent
<1> HIDE DEF t, r
<1>4. \A u \in Tasks : u # t => r.state[u] = j.state[u] /\ r.waitOn[u] = j.waitOn[u]
                                /\ r.result[u] = j.result[u] /\ r.wake[u] = j.wake[u]
  BY <1>2, <1>3 DEF WokenAt
<1>5. r.tick = k.tick /\ j.tick = k.tick
  BY <1>2 DEF WokenAt, WokenDue
<1>6. TimedOut(k, r, t)
  <2>1. /\ t \in ToSet(k.delayed) /\ k.wake[t] = k.tick /\ j.state[t] = k.state[t]
        /\ j.waitOn[t] = k.waitOn[t]
    BY <1>1, <1>2, <1>5 DEF WokenDue
  <2>2. r.state[t] = "READY"
    BY <1>2, <1>3 DEF WokenAt
  <2>3. \/ j.state[t] = "BLOCKED_DELAY" /\ r.waitOn[t] = j.waitOn[t]
        \/ j.state[t] = "BLOCKED_OBJECT" /\ r.waitOn[t] = NoWait /\ r.result[t] = "TIMEOUT"
    BY <1>2, <1>3 DEF WokenAt
  <2>4. QED
    BY <1>5, <2>1, <2>2, <2>3 DEF TimedOut, DelayLinked
<1>7. ASSUME NEW u \in Tasks
      PROVE  \/ r.state[u] = k.state[u] /\ r.waitOn[u] = k.waitOn[u]
             \/ TimedOut(k, r, u)
  <2>1. CASE u = t
    BY <1>6, <2>1
  <2>2. CASE u # t
    BY <1>4, <1>5, <2>2 DEF WokenDue, TimedOut
  <2>3. QED
    BY <2>1, <2>2
<1>8. ToSet(r.delayed) = ToSet(j.delayed) \ {t}
  BY <1>2 DEF WokenAt
<1>9. ASSUME NEW u \in ToSet(r.delayed)
      PROVE  /\ u \in ToSet(k.delayed) /\ r.wake[u] = k.wake[u]
             /\ r.state[u] = k.state[u] /\ r.waitOn[u] = k.waitOn[u]
  <2>1. u \in ToSet(j.delayed) /\ u # t /\ u \in Tasks
    BY <1>3, <1>8
  <2>2. QED
    BY <1>4, <2>1 DEF WokenDue
<1>10. /\ r.started = k.started /\ r.current = k.current /\ r.owner = k.owner
  BY <1>2 DEF WokenAt, WokenDue
<1>11. ASSUME NEW u \in Tasks PROVE Calm(k, r, u)
  <2>1. CASE u = t
    <3>1. DelayLinked(j, t)
      BY <1>2 DEF DelayLinked
    <3>2. r.state[t] = "READY"
      BY <1>2, <1>3 DEF WokenAt
    <3>3. \/ j.state[t] = "BLOCKED_DELAY" /\ r.result[t] = j.result[t]
          \/ j.state[t] = "BLOCKED_OBJECT" /\ r.result[t] = "TIMEOUT"
      BY <1>2, <1>3 DEF WokenAt
    <3>4. Calm(j, r, u)
      BY <2>1, <3>1, <3>2, <3>3 DEF Calm
    <3>5. Calm(k, j, u)
      BY DEF WokenDue
    <3>6. QED
      BY <3>4, <3>5, CalmFollows
  <2>2. CASE u # t
    <3>1. DelayLinked(r, u) <=> DelayLinked(j, u)
      BY <1>2, <2>2 DEF WokenAt
    <3>2. Calm(j, r, u)
      BY <1>4, <2>2, <3>1 DEF Calm
    <3>3. Calm(k, j, u)
      BY DEF WokenDue
    <3>4. QED
      BY <3>2, <3>3, CalmFollows
  <2>3. QED
    BY <2>1, <2>2
<1>12. QED
  BY <1>5, <1>7, <1>9, <1>10, <1>11 DEF WokenDue, r

\* Nobody is due after TaskCount iterations: each one takes a task off the list.
LEMMA WakeDueSound ==
    ASSUME NEW k, Sound(k), Deadlines(k, k.tick)
    PROVE  LET r == WakeDue(k).k IN
           Sound(r) /\ Deadlines(r, r.tick + 1) /\ WokenDue(k, r)
<1>1. Consistent(k, {}) /\ k \in GoodKernel
  BY DEF Sound, Consistent
<1>2. PICK after \in [0 .. TaskCount -> Wakings] :
         /\ after[0].k = k
         /\ \A n \in Tasks : LET u == after[n].k IN
               after[n + 1].k = IF HeadIsDue(u) THEN WakeHead(u) ELSE u
         /\ WakeDue(k) = after[TaskCount]
  BY <1>1, WakeDueLoop
<1>3. TaskCount \in Nat /\ 0 .. TaskCount - 1 = Tasks
  BY OsKernelAssumption DEF Tasks
<1> DEFINE Few(j, n) == ~HeadIsDue(j) \/ Cardinality(ToSet(j.delayed)) <= TaskCount - n
           Done(j, n) == /\ Consistent(j, {}) /\ Deadlines(j, j.tick) /\ WokenDue(k, j)
                         /\ Few(j, n)
           T == {n \in 0 .. TaskCount : Done(after[n].k, n)}
<1>4. IsFiniteSet(Tasks) /\ Cardinality(Tasks) = TaskCount
  BY <1>3, FS_Interval
<1>5. \A j : Consistent(j, {}) =>
         IsFiniteSet(ToSet(j.delayed)) /\ Cardinality(ToSet(j.delayed)) <= TaskCount
  <2> SUFFICES ASSUME NEW j, Consistent(j, {})
               PROVE  IsFiniteSet(ToSet(j.delayed)) /\ Cardinality(ToSet(j.delayed)) <= TaskCount
    OBVIOUS
  <2>1. ToSet(j.delayed) \subseteq Tasks
    BY DelayLists DEF Consistent
  <2>2. QED
    BY <1>4, <2>1, FS_Subset
<1>6. Done(k, 0)
  <2>1. WokenDue(k, k)
    BY DEF WokenDue, Calm
  <2>2. TaskCount - 0 = TaskCount
    BY <1>3
  <2>3. QED
    BY <1>1, <1>5, <2>1, <2>2
<1>7. 0 \in T
  BY <1>2, <1>3, <1>6
<1>8. ASSUME NEW n \in 0 .. TaskCount - 1, n \in T PROVE n + 1 \in T
  <2> DEFINE j == after[n].k
             r == after[n + 1].k
  <2>1. n + 1 \in 0 .. TaskCount /\ n \in Tasks
    BY <1>3
  <2>2. Done(j, n)
    BY <1>8
  <2>3. r = IF HeadIsDue(j) THEN WakeHead(j) ELSE j
    BY <1>2, <2>1
  <2> HIDE DEF j, r
  <2>4. ASSUME ~HeadIsDue(j) PROVE Done(r, n + 1)
    BY <2>2, <2>3, <2>4
  <2>5. ASSUME HeadIsDue(j) PROVE Done(r, n + 1)
    <3> DEFINE t == Head(j.delayed)
               D == ToSet(j.delayed)
    <3>1. r = WakeHead(j) /\ j.delayed # <<>>
      BY <2>3, <2>5 DEF HeadIsDue
    <3>2. /\ t \in D /\ Consistent(r, {}) /\ WokenAt(j, r, t)
          /\ \A first \in Int : Deadlines(j, first) => Deadlines(r, first)
      BY <2>2, <3>1, WakeHeadSound
    <3>3. WokenDue(k, r)
      BY <2>2, <2>5, <3>1, WokenDueStep
    <3>4. j.tick \in Int /\ r.tick = j.tick
      <4>1. j.tick \in Ticks
        BY <2>2, FieldTypes DEF Consistent
      <4>2. QED
        BY <3>2, <4>1, TicksAreNumbers DEF WokenAt
    <3>5. Deadlines(r, r.tick)
      BY <2>2, <3>2, <3>4
    <3>6. ToSet(r.delayed) = D \ {t}
      BY <3>2 DEF WokenAt
    <3>7. IsFiniteSet(D) /\ Cardinality(D) <= TaskCount - n
      BY <1>5, <2>2, <2>5
    <3> HIDE DEF D, t
    <3>8. Cardinality(ToSet(r.delayed)) = Cardinality(D) - 1 /\ Cardinality(D) \in Nat
      BY <3>2, <3>6, <3>7, FS_RemoveElement, FS_CardinalityType
    <3>9. Cardinality(ToSet(r.delayed)) <= TaskCount - (n + 1)
      <4> DEFINE c == Cardinality(D)
      <4>1. c - 1 <= TaskCount - (n + 1)
        <5>1. c \in Nat /\ c <= TaskCount - n
          BY <3>7, <3>8
        <5> HIDE DEF c
        <5>2. QED
          BY <1>3, <5>1
      <4>2. QED
        BY <3>8, <4>1
    <3>10. QED
      BY <3>2, <3>3, <3>5, <3>9
  <2>6. QED
    BY <2>1, <2>4, <2>5 DEF r
<1> HIDE DEF T
<1>9. TaskCount \in T
  BY <1>3, <1>7, <1>8, LoopInduction
<1> DEFINE r == after[TaskCount].k
<1>10. Done(r, TaskCount) /\ WakeDue(k).k = r
  BY <1>2, <1>9 DEF T
<1> HIDE DEF r
<1>11. ~HeadIsDue(r)
  <2> SUFFICES ASSUME HeadIsDue(r) PROVE FALSE
    OBVIOUS
  <2> DEFINE D == ToSet(r.delayed)
  <2>1. IsFiniteSet(D) /\ Cardinality(D) <= TaskCount - TaskCount
    BY <1>5, <1>10
  <2>2. D # {}
    <3>1. r.delayed # <<>> /\ DelaysExact(r)
      BY <1>10 DEF HeadIsDue, Consistent
    <3>2. QED
      BY <3>1, DelayLists, OnList
  <2> HIDE DEF D
  <2>3. Cardinality(D) \in Nat /\ Cardinality(D) # 0
    BY <2>1, <2>2, FS_EmptySet, FS_CardinalityType
  <2>4. QED
    <3> DEFINE c == Cardinality(D)
    <3>1. c \in Nat /\ c # 0 /\ c <= TaskCount - TaskCount
      BY <2>1, <2>3
    <3> HIDE DEF c
    <3>2. QED
      BY <1>3, <3>1
<1>12. Deadlines(r, r.tick + 1)
  BY <1>10, <1>11, WhatIsDue
<1>13. r.current # NoTask => r.state[r.current] = "RUNNING"
  <2> SUFFICES ASSUME r.current # NoTask PROVE r.state[r.current] = "RUNNING"
    OBVIOUS
  <2>1. r.current = k.current /\ k.state[k.current] = "RUNNING" /\ k.current \in Tasks
    BY <1>1, <1>10, FieldTypes DEF WokenDue, Sound
  <2>2. QED
    BY <1>10, <2>1 DEF WokenDue, TimedOut
<1>14. QED
  BY <1>10, <1>12, <1>13 DEF Sound

\* The slice is no part of what the containers rest on.
LEMMA UseSliceSound ==
    ASSUME NEW k, Sound(k)
    PROVE  LET r == UseSlice(k) IN Sound(r) /\ SameTasks(k, r)
<1> DEFINE r == UseSlice(k)
<1>1. Consistent(k, {}) /\ k \in GoodKernel /\ k \in Kernel
  BY DEF Sound, Consistent, GoodKernel
<1>2. r \in GoodKernel
  BY <1>1, UseSliceGood
<1>3. /\ r.ready = k.ready /\ r.waiters = k.waiters /\ r.effective = k.effective
      /\ r.delayed = k.delayed /\ r.overflow = k.overflow /\ r.current = k.current
      /\ r.state = k.state /\ r.waitOn = k.waitOn /\ SameTasks(k, r)
  BY <1>1 DEF UseSlice, Kernel, SameTasks
<1> HIDE DEF r
<1>4. Sound(r)
  BY <1>1, <1>2, <1>3, FreeChange
<1>5. QED
  BY <1>3, <1>4 DEF r

\* The decision at the end of a tick.
LEMMA TickSwitchSound ==
    ASSUME NEW k, Sound(k), NEW wokeHigher
    PROVE  LET r == TickSwitch(k, wokeHigher) IN Sound(r) /\ OnlySchedules(k, r)
<1> DEFINE rotated == SchedSchedule(k, TRUE)
           renewed == [rotated EXCEPT !.slice = TimeSlice]
           r == TickSwitch(k, wokeHigher)
<1>1. /\ Sound(rotated) /\ OnlySchedules(k, rotated)
      /\ Sound(SchedSchedule(k, FALSE)) /\ OnlySchedules(k, SchedSchedule(k, FALSE))
  BY SchedScheduleSound
<1>2. r \in {SchedSchedule(k, FALSE), k, rotated, renewed}
  BY Zenon DEF TickSwitch
<1> HIDE DEF rotated
<1>3. Consistent(rotated, {}) /\ rotated \in GoodKernel /\ rotated \in Kernel
  BY <1>1 DEF Sound, Consistent, GoodKernel
<1>4. renewed \in GoodKernel
  BY <1>3, SliceRange DEF GoodKernel, Kernel
<1>5. /\ renewed.ready = rotated.ready /\ renewed.waiters = rotated.waiters
      /\ renewed.effective = rotated.effective
      /\ renewed.delayed = rotated.delayed /\ renewed.overflow = rotated.overflow
      /\ renewed.current = rotated.current /\ renewed.state = rotated.state
      /\ renewed.waitOn = rotated.waitOn /\ SameTasks(rotated, renewed)
  BY <1>3 DEF Kernel, SameTasks
<1> HIDE DEF renewed, r
<1>6. Sound(renewed)
  BY <1>1, <1>3, <1>4, <1>5, FreeChange
<1>7. OnlySchedules(k, renewed) /\ OnlySchedules(k, k)
  BY <1>1, <1>5 DEF SameTasks, OnlySchedules
<1>8. QED
  BY <1>1, <1>2, <1>6, <1>7 DEF r

\* os_TimeTick.
LEMMA TimeTickSound ==
    ASSUME NEW k, Sound(k), Deadlines(k, k.tick + 1)
    PROVE  LET r == TimeTick(k) IN
           /\ Sound(r) /\ Deadlines(r, r.tick + 1)
           /\ r.started = k.started /\ r.owner = k.owner /\ r.tick # k.tick
           /\ \A u \in Tasks : Kept(k, r, u) \/ TimedOut(k, r, u)
           /\ \A u \in Tasks : Calm(k, r, u)
<1> DEFINE a == AdvanceTick(k)
           b == WakeDue(a).k
           c == UseSlice(b)
           r == TimeTick(k)
<1>1. /\ Sound(a) /\ Deadlines(a, a.tick) /\ a.tick # k.tick
      /\ a.started = k.started /\ a.state = k.state
      /\ a.wake = k.wake /\ a.waitOn = k.waitOn /\ a.owner = k.owner
      /\ a.result = k.result
      /\ \A u \in Tasks : DelayLinked(a, u) <=> DelayLinked(k, u)
  BY AdvanceTickSound
<1> HIDE DEF a
<1>2. Sound(b) /\ Deadlines(b, b.tick + 1) /\ WokenDue(a, b)
  BY <1>1, WakeDueSound
<1>3. r = TickSwitch(c, WakeDue(a).wokeHigher)
  BY DEF TimeTick, a
<1> HIDE DEF b
<1>4. Sound(c) /\ SameTasks(b, c)
  BY <1>2, UseSliceSound
<1> HIDE DEF c, r
<1>5. Sound(r) /\ OnlySchedules(c, r)
  BY <1>3, <1>4, TickSwitchSound
<1>6. Deadlines(r, r.tick + 1)
  BY <1>2, <1>4, <1>5 DEF SameTasks, OnlySchedules, Deadlines
<1>7. r.started = k.started /\ r.owner = k.owner /\ r.tick # k.tick
  BY <1>1, <1>2, <1>4, <1>5 DEF SameTasks, OnlySchedules, WokenDue
<1>8. ASSUME NEW u \in Tasks PROVE Kept(k, r, u) \/ TimedOut(k, r, u)
  <2>1. /\ r.waitOn[u] = b.waitOn[u] /\ r.result[u] = b.result[u] /\ r.tick = b.tick
        /\ r.state[u] = b.state[u] \/ {b.state[u], r.state[u]} \subseteq {"READY", "RUNNING"}
    BY <1>4, <1>5 DEF SameTasks, OnlySchedules
  <2>2. \/ b.state[u] = k.state[u] /\ b.waitOn[u] = k.waitOn[u]
        \/ TimedOut(k, b, u)
    BY <1>1, <1>2 DEF WokenDue, TimedOut
  <2>3. CASE b.state[u] = k.state[u] /\ b.waitOn[u] = k.waitOn[u]
    BY <2>1, <2>3 DEF Kept
  <2>4. CASE TimedOut(k, b, u)
    BY <2>1, <2>4 DEF TimedOut
  <2>5. QED
    BY <2>2, <2>3, <2>4
<1>9. ASSUME NEW u \in Tasks PROVE Calm(k, r, u)
  <2>1. Calm(k, a, u)
    BY <1>1 DEF Calm
  <2>2. Calm(a, b, u)
    BY <1>2 DEF WokenDue
  <2>3. Calm(b, c, u) /\ Calm(c, r, u)
    BY <1>4, <1>5, SchedulingIsCalm
  <2>4. QED
    BY <2>1, <2>2, <2>3, CalmFollows
<1>10. QED
  BY <1>5, <1>6, <1>7, <1>8, <1>9 DEF r
-------------------------------------------------------------------------------
(* Handlers that wake one task, start a delay or end a task *)

\* A task that leaves the processor by its own call.
Leaves(k, r, u) ==
    /\ k.current = u /\ k.state[u] = "RUNNING"
    /\ r.state[u] \in {"BLOCKED_DELAY", "BLOCKED_OBJECT", "TERMINATED"}

\* What a handler can do to the tasks: who starts to wait does so on a list of
\* `joined', and whose wait ends with OK was on a list of `granted'.
Fates(k, r, joined, granted) ==
    \A u \in Tasks :
        \/ Kept(k, r, u)
        \/ TimedOut(k, r, u)
        \/ \E l \in granted : Ended(k, r, u, l, "OK")
        \/ Leaves(k, r, u) /\ r.waitOn[u] \in {k.waitOn[u]} \cup joined

\* A handler that wakes w alone, with its object.
Granted(k, r, w) ==
    /\ r.started = k.started /\ r.tick = k.tick
    /\ Ended(k, r, w, k.waitOn[w], "OK")
    /\ \A u \in Tasks : u # w => Kept(k, r, u)

\* A kernel whose task w was taken off the list of the object it is given.
PoppedFrom(k, v, w) ==
    /\ Consistent(v, {w}) /\ w \in Tasks /\ k.state[w] = "BLOCKED_OBJECT"
    /\ v.started = k.started /\ v.state = k.state /\ v.current = k.current
    /\ v.tick = k.tick /\ v.delayed = k.delayed /\ v.overflow = k.overflow /\ v.wake = k.wake
    /\ v.waitOn = k.waitOn

\* A scheduling decision ends no wait and starts none.
LEMMA SchedulingKeeps ==
    ASSUME NEW k, NEW j, NEW r, OnlySchedules(j, r)
    PROVE  /\ \A u \in Tasks : Kept(j, r, u)
           /\ \A u \in Tasks : Kept(k, j, u) => Kept(k, r, u)
           /\ \A u \in Tasks : \A l, status : Ended(k, j, u, l, status) => Ended(k, r, u, l, status)
           /\ \A w \in Tasks : Granted(k, j, w) => Granted(k, r, w)
           /\ \A first : Deadlines(j, first) => Deadlines(r, first)
<1>1. \A u \in Tasks : Kept(k, j, u) => Kept(k, r, u)
  BY DEF OnlySchedules, Kept
<1>2. \A u \in Tasks : \A l, status : Ended(k, j, u, l, status) => Ended(k, r, u, l, status)
  BY DEF OnlySchedules, Ended
<1>3. \A first : Deadlines(j, first) => Deadlines(r, first)
  BY DEF OnlySchedules, Deadlines
<1>4. \A w \in Tasks : Granted(k, j, w) => Granted(k, r, w)
  BY <1>1, <1>2 DEF Granted, OnlySchedules
<1>5. QED
  BY <1>1, <1>2, <1>3, <1>4 DEF OnlySchedules, Kept

\* Writing the running task's status changes nothing else.
LEMMA SetResultSound ==
    ASSUME NEW k, NEW S, Consistent(k, S), NEW t, NEW status \in Statuses, t \in Tasks
    PROVE  LET r == SetResult(k, t, status) IN
           /\ Consistent(r, S) /\ (Sound(k) => Sound(r))
           /\ r.result = [k.result EXCEPT ![t] = status]
           /\ r.started = k.started /\ r.state = k.state /\ r.current = k.current
           /\ r.tick = k.tick /\ r.delayed = k.delayed /\ r.overflow = k.overflow
           /\ r.wake = k.wake /\ r.waitOn = k.waitOn /\ r.owner = k.owner
           /\ r.effective = k.effective
           /\ \A first : Deadlines(k, first) => Deadlines(r, first)
<1> DEFINE r == SetResult(k, t, status)
<1>1. k \in GoodKernel /\ k \in Kernel
  BY DEF Consistent, GoodKernel
<1>2. r \in GoodKernel
  BY <1>1, SetResultGood
<1>3. /\ r.result = [k.result EXCEPT ![t] = status]
      /\ r.started = k.started /\ r.state = k.state /\ r.current = k.current
      /\ r.tick = k.tick /\ r.delayed = k.delayed /\ r.overflow = k.overflow
      /\ r.wake = k.wake /\ r.waitOn = k.waitOn /\ r.owner = k.owner
      /\ r.effective = k.effective /\ r.ready = k.ready /\ r.waiters = k.waiters
  BY <1>1 DEF SetResult, Kernel
<1> HIDE DEF r
<1>4. Consistent(r, S) /\ (Sound(k) => Sound(r))
  BY <1>2, <1>3, FreeChange
<1>5. \A first : Deadlines(k, first) => Deadlines(r, first)
  BY <1>3 DEF Deadlines
<1>6. QED
  BY <1>3, <1>4, <1>5 DEF r

\* A waiter taken off its list becomes ready with OK.
LEMMA GrantSound ==
    ASSUME NEW k, Sound(k), NEW v, NEW w, PoppedFrom(k, v, w)
    PROVE  LET r == WaitMakeReady(v, w, "OK") IN
           /\ Sound(r) /\ Granted(k, r, w) /\ r.owner = v.owner /\ r.current = k.current
           /\ \A first \in Int : Deadlines(k, first) => Deadlines(r, first)
<1> DEFINE r == WaitMakeReady(v, w, "OK")
           loose == {w}
<1>1. /\ Consistent(v, loose) /\ w \in Tasks /\ w \in loose /\ loose \ {w} = {}
      /\ v.state[w] = "BLOCKED_OBJECT" /\ "OK" \in Statuses
  BY DEF PoppedFrom, Statuses
<1> HIDE DEF loose
<1>2. /\ Consistent(r, loose \ {w}) /\ Readied(v, r, w, "OK")
      /\ \A first \in Int : Deadlines(v, first) => Deadlines(r, first)
  BY <1>1, WaitMakeReadyExact
<1> HIDE DEF r
<1>3. Consistent(k, {}) /\ Consistent(r, {})
  BY <1>1, <1>2 DEF Sound
<1>4. /\ v.state \in [Tasks -> TaskStates] /\ v.waitOn \in [Tasks -> WaitLists \cup {NoWait}]
      /\ v.result \in [Tasks -> Statuses] /\ NoWait \notin WaitLists /\ NoTask \notin Tasks
      /\ k.current \in Tasks \cup {NoTask}
  BY <1>1, <1>3, FieldTypes DEF Consistent
<1>5. Granted(k, r, w)
  <2>1. Ended(k, r, w, k.waitOn[w], "OK")
    BY <1>1, <1>2, <1>4 DEF PoppedFrom, Readied, Ended
  <2>2. \A u \in Tasks : u # w => Kept(k, r, u)
    BY <1>1, <1>2, <1>4 DEF PoppedFrom, Readied, Kept
  <2>3. QED
    BY <1>2, <2>1, <2>2 DEF PoppedFrom, Readied, Granted
<1>6. r.current # NoTask => r.state[r.current] = "RUNNING"
  <2> SUFFICES ASSUME r.current # NoTask PROVE r.state[r.current] = "RUNNING"
    OBVIOUS
  <2>1. r.current = k.current /\ k.state[k.current] = "RUNNING" /\ k.current \in Tasks
    BY <1>2, <1>4 DEF Sound, PoppedFrom, Readied
  <2>2. v.state[k.current] = "RUNNING" /\ k.current # w
    BY <1>1, <2>1 DEF PoppedFrom
  <2>3. QED
    BY <1>2, <1>4, <2>1, <2>2 DEF Readied
<1>7. \A first \in Int : Deadlines(k, first) => Deadlines(r, first)
  <2>1. \A first \in Int : Deadlines(k, first) => Deadlines(v, first)
    BY DEF PoppedFrom, Deadlines
  <2>2. QED
    BY <1>2, <2>1
<1>8. r.owner = v.owner /\ r.current = k.current
  BY <1>2 DEF Readied, PoppedFrom
<1>9. QED
  BY <1>3, <1>5, <1>6, <1>7, <1>8 DEF Sound, r

\* os_WaitPop off the list of the object that is given.
LEMMA PoppedHead ==
    ASSUME NEW k, Consistent(k, {}), NEW l \in WaitLists, WaitHead(k, l) # NoTask
    PROVE  LET w == WaitHead(k, l) IN
           /\ PoppedFrom(k, WaitPop(k, l), w) /\ k.waitOn[w] = l /\ w \in Tasks
           /\ WaitPop(k, l).owner = k.owner
  BY WaitPopExact DEF PoppedFrom, SameTasks

\* The running task starts a delay.
LEMMA DelaySound ==
    ASSUME NEW k, Sound(k), CurrentRuns(k), NEW ticks \in Ticks, ticks # 0
    PROVE  LET t == k.current
               r == SchedCurrentBlocked(
                        TimeDelayListInsert([k EXCEPT !.state[t] = "BLOCKED_DELAY"], t,
                                            (k.tick + Clamp(ticks)) % TickModulus))
           IN /\ Sound(r) /\ Fates(k, r, {}, {}) /\ r.owner = k.owner /\ r.tick = k.tick
              /\ r.started = k.started /\ r.effective = k.effective /\ r.waitOn = k.waitOn
              /\ SwitchedAway(r) /\ \A u \in Tasks : Calm(k, r, u)
              /\ \A u \in Tasks : r.state[u] = "TERMINATED" => k.state[u] = "TERMINATED"
              /\ Deadlines(k, k.tick + 1) => Deadlines(r, k.tick + 1)
<1> DEFINE t == k.current
           d == Clamp(ticks)
           target == (k.tick + d) % TickModulus
           asleep == [k EXCEPT !.state[t] = "BLOCKED_DELAY"]
           timed == TimeDelayListInsert(asleep, t, target)
           r == SchedCurrentBlocked(timed)
           loose == {} \cup {t}
<1>1. Consistent(k, {}) /\ k \in GoodKernel /\ k \in Kernel
  BY DEF Sound, Consistent, GoodKernel
<1>2. t \in Tasks /\ k.state[t] = "RUNNING"
  BY <1>1, FieldTypes DEF CurrentRuns
<1>3. /\ k.state \in [Tasks -> TaskStates] /\ k.waitOn \in [Tasks -> WaitLists \cup {NoWait}]
      /\ NoWait \notin WaitLists /\ k.tick \in Ticks
  BY <1>1, FieldTypes
<1>4. k.waitOn[t] = NoWait
  BY <1>1, <1>2 DEF Consistent, StatesAgree
<1>5. ~ScheduleLinked(k, t)
  BY <1>1, <1>2, <1>4, WhoIsLinked
<1>6. Consistent(k, loose)
  BY <1>1, <1>2, <1>5, Loosen
<1>7. t \in loose /\ loose \ {t} = {}
  OBVIOUS
<1>8. asleep \in GoodKernel
  BY <1>1, <1>2 DEF GoodKernel, Kernel, TaskStates
<1>9. /\ asleep.state = [k.state EXCEPT ![t] = "BLOCKED_DELAY"]
      /\ asleep.waitOn = k.waitOn /\ asleep.result = k.result /\ asleep.wake = k.wake
      /\ asleep.ready = k.ready /\ asleep.waiters = k.waiters /\ asleep.effective = k.effective
      /\ asleep.delayed = k.delayed /\ asleep.overflow = k.overflow /\ asleep.current = k.current
      /\ asleep.started = k.started /\ asleep.tick = k.tick /\ asleep.owner = k.owner
  BY <1>1 DEF Kernel
<1>10. d \in 1 .. MaxDelay /\ target \in Ticks
  <2>1. d \in 1 .. MaxDelay
    BY ClampRange
  <2> HIDE DEF d
  <2>2. k.tick + d \in Int
    <3>1. k.tick \in Int /\ d \in Int
      BY <1>3, <2>1, OsKernelAssumption DEF Ticks
    <3>2. QED
      BY <3>1
  <2>3. QED
    BY <2>1, <2>2, TickRange
<1> HIDE DEF t, d, asleep, timed, r, loose
<1>11. Consistent(asleep, loose) /\ asleep.state[t] = "BLOCKED_DELAY" /\ asleep.waitOn[t] = NoWait
  <2>1. asleep.state[t] = "BLOCKED_DELAY" /\ asleep.waitOn[t] = NoWait
    BY <1>2, <1>3, <1>4, <1>9
  <2>2. \A u \in Tasks : u # t => asleep.state[u] = k.state[u] /\ asleep.waitOn[u] = k.waitOn[u]
    BY <1>3, <1>9
  <2>3. Consistent(asleep, loose)
    BY <1>2, <1>6, <1>7, <1>8, <1>9, <2>1, <2>2, LooseChange
  <2>4. QED
    BY <2>1, <2>3
<1>12. /\ Consistent(timed, loose) /\ OnlyDelays(asleep, timed) /\ DelayLinked(timed, t)
       /\ \A u \in Tasks : u # t => (DelayLinked(timed, u) <=> DelayLinked(asleep, u))
       /\ Deadlines(asleep, k.tick + 1) => Deadlines(timed, k.tick + 1)
  <2>1. asleep.tick = k.tick
    BY <1>9
  <2> HIDE DEF target
  <2>2. target = (asleep.tick + d) % TickModulus
    BY <2>1 DEF target
  <2>3. /\ Consistent(timed, loose) /\ OnlyDelays(asleep, timed) /\ DelayLinked(timed, t)
        /\ \A u \in Tasks : u # t => (DelayLinked(timed, u) <=> DelayLinked(asleep, u))
        /\ \A e \in 1 .. MaxDelay :
              target = (asleep.tick + e) % TickModulus /\ Deadlines(asleep, asleep.tick + 1)
              => Deadlines(timed, asleep.tick + 1)
    BY <1>2, <1>7, <1>10, <1>11, TimeDelayListInsertExact DEF timed
  <2>4. QED
    BY <1>10, <2>1, <2>2, <2>3
<1>13. Consistent(timed, {})
  <2>1. timed.state[t] = "BLOCKED_DELAY" /\ timed.waitOn[t] = NoWait
    BY <1>11, <1>12 DEF OnlyDelays
  <2>2. QED
    BY <1>2, <1>7, <1>12, <2>1, Settle
<1>14. Sound(r) /\ OnlySchedules(timed, r) /\ r.effective = timed.effective
  BY <1>13, SchedCurrentBlockedSound DEF r
<1>15. Deadlines(k, k.tick + 1) => Deadlines(r, k.tick + 1)
  BY <1>9, <1>12, <1>14 DEF OnlySchedules, Deadlines
<1>16. /\ r.owner = k.owner /\ r.tick = k.tick /\ r.waitOn = k.waitOn /\ r.started = k.started
       /\ \A u \in Tasks : \/ r.state[u] = asleep.state[u]
                           \/ {asleep.state[u], r.state[u]} \subseteq {"READY", "RUNNING"}
  BY <1>9, <1>12, <1>14 DEF OnlySchedules, OnlyDelays
<1>17. Fates(k, r, {}, {})
  <2>1. \A u \in Tasks : u # t => Kept(k, r, u)
    BY <1>3, <1>9, <1>16 DEF Kept
  <2>2. Leaves(k, r, t)
    BY <1>2, <1>11, <1>16 DEF Leaves, t
  <2>3. QED
    BY <1>16, <2>1, <2>2 DEF Fates
<1>18. \A u \in Tasks : r.state[u] = "TERMINATED" => k.state[u] = "TERMINATED"
  BY <1>3, <1>9, <1>16
<1>20. r.effective = k.effective
  BY <1>9, <1>12, <1>14 DEF OnlyDelays
<1>21. SwitchedAway(r)
  <2>1. timed.current = t
    BY <1>9, <1>12 DEF OnlyDelays, t
  <2>2. timed.state[t] = "BLOCKED_DELAY"
    BY <1>11, <1>12 DEF OnlyDelays
  <2>3. timed.current # NoTask /\ ~CurrentRuns(timed)
    BY <1>1, <1>2, <2>1, <2>2, FieldTypes DEF CurrentRuns
  <2>4. QED
    BY <1>13, <2>3 DEF SwitchedAway, r
<1>22. ASSUME NEW u \in Tasks PROVE Calm(k, r, u)
  <2>1. /\ timed.state[u] = IF u = t THEN "BLOCKED_DELAY" ELSE k.state[u]
        /\ timed.result[u] = k.result[u]
    BY <1>3, <1>9, <1>11, <1>12 DEF OnlyDelays
  <2>2. u # t => (DelayLinked(timed, u) <=> DelayLinked(k, u))
    BY <1>9, <1>12 DEF DelayLinked
  <2>3. Calm(k, timed, u)
    BY <1>2, <2>1, <2>2 DEF Calm
  <2>4. Calm(timed, r, u)
    BY <1>14, SchedulingIsCalm
  <2>5. QED
    BY <2>3, <2>4, CalmFollows
<1>23. QED
  BY <1>14, <1>15, <1>16, <1>17, <1>18, <1>20, <1>21, <1>22 DEF r, timed, asleep, t, d, target

\* A running task that is declared terminated is linked nowhere: the containers stay exact.
LEMMA RunnerEnds ==
    ASSUME NEW j, Consistent(j, {}), NEW t \in Tasks,
           j.state[t] = "RUNNING", j.waitOn[t] = NoWait, ~DelayLinked(j, t),
           NEW e \in GoodKernel,
           e.ready = j.ready, e.waiters = j.waiters, e.effective = j.effective,
           e.delayed = j.delayed, e.overflow = j.overflow, e.current = j.current,
           e.waitOn = j.waitOn, e.state = [j.state EXCEPT ![t] = "TERMINATED"]
    PROVE  Consistent(e, {})
<1> DEFINE loose == {} \cup {t}
<1>1. j.state \in [Tasks -> TaskStates] /\ j.waitOn \in [Tasks -> WaitLists \cup {NoWait}] /\ NoWait \notin WaitLists
  BY FieldTypes DEF Consistent, GoodKernel
<1>2. t \in loose /\ loose \ {t} = {}
  OBVIOUS
<1>3. Consistent(j, loose)
  <2>1. ~ScheduleLinked(j, t)
    BY <1>1, WhoIsLinked
  <2>2. QED
    BY <2>1, Loosen
<1> HIDE DEF loose
<1>4. \A u \in Tasks : u # t => e.state[u] = j.state[u] /\ e.waitOn[u] = j.waitOn[u]
  BY <1>1
<1>5. e.state[t] = "TERMINATED" /\ e.waitOn[t] = NoWait /\ ~DelayLinked(e, t)
  BY <1>1 DEF DelayLinked
<1>6. e.state[t] # "RUNNING"
  BY <1>5
<1>7. Consistent(e, loose)
  BY <1>2, <1>3, <1>4, <1>6, LooseChange
<1>8. QED
  BY <1>2, <1>5, <1>7, Settle

\* The running task ends: its mutexes are passed on.
LEMMA ExitSound ==
    ASSUME NEW k, Sound(k), CurrentRuns(k), NEW t, t = k.current,
           NEW freed, freed = MutexReleaseTask(k, t),
           NEW r, r = SchedCurrentBlocked([freed EXCEPT !.state[t] = "TERMINATED"])
    PROVE  /\ Sound(r) /\ r.tick = k.tick /\ r.started = k.started /\ SwitchedAway(r)
           /\ r.effective = freed.effective /\ r.waitOn = freed.waitOn /\ r.owner = freed.owner
           /\ \A m \in Mutexes : IF k.owner[m] = t THEN PassedOn(k, r, m)
                                                   ELSE r.owner[m] = k.owner[m]
           /\ \A u \in Tasks :
                 \/ Kept(k, r, u)
                 \/ \E m \in Mutexes : r.owner[m] = u /\ Ended(k, r, u, MutexWaiters(m), "OK")
                 \/ u = t /\ Leaves(k, r, u) /\ r.waitOn[u] = k.waitOn[u]
           /\ Deadlines(k, k.tick + 1) => Deadlines(r, k.tick + 1)
           /\ r.state[t] = "TERMINATED"
           /\ \A u \in Tasks : Calm(k, r, u)
<1> DEFINE ended == [freed EXCEPT !.state[t] = "TERMINATED"]
<1>0. r = SchedCurrentBlocked(ended)
  OBVIOUS
<1>1. Consistent(k, {}) /\ k \in GoodKernel /\ k \in Kernel
  BY DEF Sound, Consistent, GoodKernel
<1>2. t \in Tasks /\ k.state[t] = "RUNNING" /\ NoTask \notin Tasks /\ k.tick \in Ticks
  BY <1>1, FieldTypes DEF CurrentRuns
<1>3. k.waitOn[t] = NoWait
  BY <1>1, <1>2 DEF Consistent, StatesAgree
<1>5. /\ Consistent(freed, {}) /\ Released(k, freed, t, MutexCount)
      /\ \A first \in Int : Deadlines(k, first) => Deadlines(freed, first)
  BY <1>1, <1>2, MutexReleaseTaskSound
<1>6. freed \in GoodKernel /\ freed \in Kernel
  BY <1>5 DEF Consistent, GoodKernel
<1>7. /\ freed.state \in [Tasks -> TaskStates] /\ freed.waitOn \in [Tasks -> WaitLists \cup {NoWait}]
      /\ NoWait \notin WaitLists
  BY <1>6, FieldTypes
<1>8. freed.state[t] = "RUNNING" /\ freed.waitOn[t] = NoWait /\ ~DelayLinked(freed, t)
  <2>1. freed.state[t] = "RUNNING" /\ freed.waitOn[t] = k.waitOn[t]
    BY <1>2, <1>5 DEF Ended, Released
  <2>2. QED
    BY <1>2, <1>3, <1>5, <2>1 DEF Consistent, StatesAgree
<1>9. /\ ended.state = [freed.state EXCEPT ![t] = "TERMINATED"]
      /\ ended.waitOn = freed.waitOn /\ ended.result = freed.result /\ ended.wake = freed.wake
      /\ ended.ready = freed.ready /\ ended.waiters = freed.waiters /\ ended.effective = freed.effective
      /\ ended.delayed = freed.delayed /\ ended.overflow = freed.overflow /\ ended.current = freed.current
      /\ ended.started = freed.started /\ ended.tick = freed.tick /\ ended.owner = freed.owner
  BY <1>6 DEF Kernel
<1>10. ended \in GoodKernel
  BY <1>2, <1>6 DEF GoodKernel, Kernel, TaskStates
<1> HIDE DEF ended
<1>13. Consistent(ended, {}) /\ ended.state[t] = "TERMINATED"
  <2>1. Consistent(ended, {})
    BY <1>2, <1>5, <1>8, <1>9, <1>10, RunnerEnds
  <2>2. QED
    BY <1>2, <1>7, <1>9, <2>1
<1>14. Sound(r) /\ OnlySchedules(ended, r) /\ r.effective = ended.effective
  BY <1>13, <1>0, SchedCurrentBlockedSound
<1>15. /\ r.owner = freed.owner /\ r.tick = k.tick /\ r.waitOn = freed.waitOn /\ r.result = freed.result
       /\ r.started = k.started
       /\ \A u \in Tasks : \/ r.state[u] = ended.state[u]
                           \/ {ended.state[u], r.state[u]} \subseteq {"READY", "RUNNING"}
  BY <1>5, <1>9, <1>14 DEF OnlySchedules, Released
<1>16. \A u \in Tasks : \A l : u # t /\ Ended(k, freed, u, l, "OK") => Ended(k, r, u, l, "OK")
  BY <1>7, <1>9, <1>15 DEF Ended
<1>17. \A u \in Tasks : \A l : Ended(k, freed, u, l, "OK") => u # t
  BY <1>2 DEF Ended
<1>18. ASSUME NEW m \in Mutexes
       PROVE  IF k.owner[m] = t THEN PassedOn(k, r, m) ELSE r.owner[m] = k.owner[m]
  <2>1. m < MutexCount
    BY OsKernelAssumption DEF Mutexes
  <2>2. CASE k.owner[m] = t
    <3>1. PassedOn(k, freed, m)
      BY <1>5, <2>1, <2>2 DEF Released
    <3>2. QED
      BY <1>15, <1>16, <1>17, <2>2, <3>1 DEF PassedOn
  <2>3. CASE k.owner[m] # t
    BY <1>5, <1>15, <2>3 DEF Released
  <2>4. QED
    BY <2>2, <2>3
<1>19. ASSUME NEW u \in Tasks
       PROVE  \/ Kept(k, r, u)
              \/ \E m \in Mutexes : r.owner[m] = u /\ Ended(k, r, u, MutexWaiters(m), "OK")
              \/ u = t /\ Leaves(k, r, u) /\ r.waitOn[u] = k.waitOn[u]
  <2>1. CASE u = t
    <3>1. r.state[u] = "TERMINATED" /\ r.waitOn[u] = k.waitOn[u]
      BY <1>3, <1>8, <1>13, <1>15, <2>1
    <3>2. QED
      BY <1>2, <2>1, <3>1 DEF Leaves
  <2>2. CASE u # t /\ freed.waitOn[u] = k.waitOn[u] /\ freed.state[u] = k.state[u]
    <3>1. ended.state[u] = k.state[u] /\ r.waitOn[u] = k.waitOn[u]
      BY <1>7, <1>9, <1>15, <2>2
    <3>2. QED
      BY <1>15, <3>1 DEF Kept
  <2>3. CASE u # t /\ \E m \in Mutexes : /\ m < MutexCount /\ k.owner[m] = t /\ freed.owner[m] = u
                                        /\ Ended(k, freed, u, MutexWaiters(m), "OK")
    BY <1>15, <1>16, <2>3
  <2>4. QED
    BY <1>5, <2>1, <2>2, <2>3 DEF Released
<1>20. Deadlines(k, k.tick + 1) => Deadlines(r, k.tick + 1)
  <2>1. k.tick + 1 \in Int
    <3>1. k.tick \in Int
      BY <1>2, TicksAreNumbers
    <3>2. QED
      BY <3>1
  <2>2. Deadlines(k, k.tick + 1) => Deadlines(freed, k.tick + 1)
    BY <1>5, <2>1
  <2>3. /\ r.tick = freed.tick /\ r.wake = freed.wake
        /\ r.delayed = freed.delayed /\ r.overflow = freed.overflow
    BY <1>9, <1>14 DEF OnlySchedules
  <2>4. QED
    BY ZenonT(60), <2>2, <2>3 DEF Deadlines
<1>21. SwitchedAway(r)
  <2>1. ended.current = t /\ t \in Tasks
    BY <1>2, <1>5, <1>9 DEF Released
  <2>2. ended.current # NoTask /\ ~CurrentRuns(ended)
    BY <1>2, <1>13, <2>1 DEF CurrentRuns
  <2>3. QED
    BY <1>13, <1>0, <2>2 DEF SwitchedAway
<1>22. r.effective = freed.effective
  BY <1>9, <1>14
<1>23. r.state[t] = "TERMINATED"
  BY <1>2, <1>13, <1>15
<1>24. ASSUME NEW u \in Tasks PROVE Calm(k, r, u)
  <2>1. Calm(k, freed, u)
    BY <1>5 DEF Released
  <2>2. Calm(freed, ended, u)
    <3>1. ended.state[u] = IF u = t THEN "TERMINATED" ELSE freed.state[u]
      BY <1>7, <1>9
    <3>2. QED
      BY <1>8, <1>9, <3>1 DEF Calm, DelayLinked
  <2>3. Calm(ended, r, u)
    BY <1>14, SchedulingIsCalm
  <2>4. QED
    BY <2>1, <2>2, <2>3, CalmFollows
<1>25. QED
  BY <1>14, <1>15, <1>18, <1>19, <1>20, <1>21, <1>22, <1>23, <1>24
===============================================================================
