---------------------------- MODULE ListLinksProofs ----------------------------
(***************************************************************************)
(* No assertion of os_list.c can fail, for any nodes and lists.  What keeps*)
(* them true is local: each node agrees with its two neighbours, with the  *)
(* ends of the list that its caller names, and with the count.             *)
(* That each list is one sequence follows from the same and from where a   *)
(* sequence is extended and cut, so the module refines NodeLists.          *)
(***************************************************************************)
EXTENDS ListLinks, SequenceTheorems, FiniteSetTheorems, WellFoundedInduction, TLAPS

LinkTypes ==
    /\ previous \in [Nodes -> Nodes \cup {Null}] /\ next \in [Nodes -> Nodes \cup {Null}]
    /\ linked \in [Nodes -> BOOLEAN] /\ holder \in [Nodes -> Lists \cup {Null}]
    /\ head \in [Lists -> Nodes \cup {Null}] /\ tail \in [Lists -> Nodes \cup {Null}]
    /\ size \in [Lists -> Nat]

FlagsAgree == \A n \in Nodes : linked[n] <=> holder[n] # Null

\* A neighbour is on the same list and points back.
NeighboursAgree ==
    \A n \in Nodes : holder[n] # Null =>
        /\ previous[n] # Null => holder[previous[n]] = holder[n] /\ next[previous[n]] = n
        /\ next[n] # Null => holder[next[n]] = holder[n] /\ previous[next[n]] = n

\* The node without a predecessor is the head of its list and no other is; and the
\* same at the tail.
EndsAgree ==
    /\ \A n \in Nodes : holder[n] # Null =>
          /\ previous[n] = Null <=> head[holder[n]] = n
          /\ next[n] = Null <=> tail[holder[n]] = n
    /\ \A l \in Lists :
          /\ head[l] # Null => holder[head[l]] = l
          /\ tail[l] # Null => holder[tail[l]] = l
          /\ head[l] = Null <=> tail[l] = Null

Held(l) == {n \in Nodes : holder[n] = l}
Counted == \A l \in Lists : size[l] = Cardinality(Held(l))

LinkInv == LinkTypes /\ FlagsAgree /\ NeighboursAgree /\ EndsAgree /\ Counted

\* A list grows by the node that joins it, and the others keep theirs.
LEMMA OneJoins ==
    ASSUME LinkTypes, FlagsAgree, Counted, NEW l \in Lists, NEW n \in Nodes, ~linked[n],
           holder' = [holder EXCEPT ![n] = l], size' = [size EXCEPT ![l] = @ + 1]
    PROVE  Counted'
<1>1. Held(l)' = Held(l) \cup {n} /\ n \notin Held(l)
  BY ListLinksAssumption DEF Held, LinkTypes, FlagsAgree
<1>2. \A k \in Lists \ {l} : Held(k)' = Held(k)
  BY ListLinksAssumption DEF Held, LinkTypes, FlagsAgree
<1>3. IsFiniteSet(Held(l))
  BY ListLinksAssumption, FS_Subset DEF Held
<1>4. Cardinality(Held(l)') = Cardinality(Held(l)) + 1
  BY <1>1, <1>3, FS_AddElement
<1>5. size'[l] = size[l] + 1 /\ \A k \in Lists \ {l} : size'[k] = size[k]
  BY DEF LinkTypes
<1>6. QED
  BY <1>2, <1>4, <1>5 DEF Counted

\* A list shrinks by the node that leaves it.
LEMMA OneLeaves ==
    ASSUME LinkTypes, Counted, NEW l \in Lists, NEW n \in Nodes, holder[n] = l, Unlinked(l, n)
    PROVE  Counted'
<1>1. Held(l)' = Held(l) \ {n} /\ n \in Held(l)
  BY ListLinksAssumption DEF Held, LinkTypes, Unlinked
<1>2. \A k \in Lists \ {l} : Held(k)' = Held(k)
  BY ListLinksAssumption DEF Held, LinkTypes, Unlinked
<1>3. IsFiniteSet(Held(l))
  BY ListLinksAssumption, FS_Subset DEF Held
<1>4. Cardinality(Held(l)') = Cardinality(Held(l)) - 1
  BY <1>1, <1>3, FS_RemoveElement
<1>5. size'[l] = size[l] - 1 /\ \A k \in Lists \ {l} : size'[k] = size[k]
  BY DEF LinkTypes, Unlinked
<1>6. QED
  BY <1>2, <1>4, <1>5 DEF Counted

\* A list that a node is on is not empty.
LEMMA HeldIsCounted ==
    ASSUME LinkTypes, Counted, NEW n \in Nodes, holder[n] # Null
    PROVE  size[holder[n]] > 0
<1>1. holder[n] \in Lists
  BY DEF LinkTypes
<1>2. IsFiniteSet(Held(holder[n])) /\ n \in Held(holder[n])
  BY ListLinksAssumption, FS_Subset DEF Held
<1>3. Cardinality(Held(holder[n])) \in Nat /\ Cardinality(Held(holder[n])) # 0
  BY <1>2, FS_CardinalityType, FS_EmptySet
<1>4. QED
  BY <1>1, <1>3 DEF Counted

\* os_ListPushBack
LEMMA PushBackKeeps ==
    ASSUME LinkInv, NEW l \in Lists, NEW n \in Nodes, ListPushBack(l, n)
    PROVE  LinkInv'
<1> USE ListLinksAssumption
<1>1. /\ ~linked[n] /\ holder[n] = Null
      /\ tail[l] # Null => tail[l] \in Nodes /\ holder[tail[l]] = l /\ next[tail[l]] = Null /\ tail[l] # n
      /\ head[l] = Null <=> tail[l] = Null
  BY DEF LinkInv, LinkTypes, FlagsAgree, EndsAgree, ListPushBack
<1>2. LinkTypes'
  BY DEF LinkInv, LinkTypes, ListPushBack
<1>3. FlagsAgree'
  BY DEF LinkInv, LinkTypes, FlagsAgree, ListPushBack
<1>4. NeighboursAgree'
  <2>1. CASE tail[l] = Null
    BY <1>1, <2>1 DEF LinkInv, LinkTypes, NeighboursAgree, ListPushBack
  <2>2. CASE tail[l] # Null
    BY <1>1, <2>2 DEF LinkInv, LinkTypes, NeighboursAgree, ListPushBack
  <2>3. QED
    BY <2>1, <2>2
<1>5. EndsAgree'
  <2>1. CASE tail[l] = Null
    BY <1>1, <2>1 DEF LinkInv, LinkTypes, NeighboursAgree, EndsAgree, ListPushBack
  <2>2. CASE tail[l] # Null
    BY <1>1, <2>2 DEF LinkInv, LinkTypes, NeighboursAgree, EndsAgree, ListPushBack
  <2>3. QED
    BY <2>1, <2>2
<1>6. Counted'
  BY <1>1, OneJoins DEF LinkInv, ListPushBack
<1>7. QED
  BY <1>2, <1>3, <1>4, <1>5, <1>6 DEF LinkInv

\* os_ListInsertBefore
LEMMA InsertBeforeKeeps ==
    ASSUME LinkInv, NEW l \in Lists, NEW position \in Nodes, NEW n \in Nodes,
           ListInsertBefore(l, position, n)
    PROVE  LinkInv'
<1> USE ListLinksAssumption
<1>1. /\ ~linked[n] /\ holder[n] = Null /\ holder[position] = l /\ position # n
      /\ previous[position] # Null => /\ previous[position] \in Nodes /\ holder[previous[position]] = l
                                      /\ next[previous[position]] = position /\ previous[position] # n
      /\ previous[position] = Null <=> head[l] = position
  BY DEF LinkInv, LinkTypes, FlagsAgree, NeighboursAgree, EndsAgree, ListInsertBefore
<1>2. LinkTypes'
  BY DEF LinkInv, LinkTypes, ListInsertBefore
<1>3. FlagsAgree'
  BY DEF LinkInv, LinkTypes, FlagsAgree, ListInsertBefore
<1>4. NeighboursAgree'
  <2>1. CASE previous[position] = Null
    BY <1>1, <2>1 DEF LinkInv, LinkTypes, NeighboursAgree, ListInsertBefore
  <2>2. CASE previous[position] # Null
    BY <1>1, <2>2 DEF LinkInv, LinkTypes, NeighboursAgree, ListInsertBefore
  <2>3. QED
    BY <2>1, <2>2
<1>5. EndsAgree'
  <2>1. CASE previous[position] = Null
    BY <1>1, <2>1 DEF LinkInv, LinkTypes, NeighboursAgree, EndsAgree, ListInsertBefore
  <2>2. CASE previous[position] # Null
    BY <1>1, <2>2 DEF LinkInv, LinkTypes, NeighboursAgree, EndsAgree, ListInsertBefore
  <2>3. QED
    BY <2>1, <2>2
<1>6. Counted'
  BY <1>1, OneJoins DEF LinkInv, ListInsertBefore
<1>7. QED
  BY <1>2, <1>3, <1>4, <1>5, <1>6 DEF LinkInv

\* os_ListRemove
LEMMA RemoveKeeps ==
    ASSUME LinkInv, NEW l \in Lists, NEW n \in Nodes, ListRemove(l, n)
    PROVE  LinkInv'
<1> USE ListLinksAssumption
<1>1. /\ holder[n] = l /\ size[l] > 0
      /\ previous[n] # Null => previous[n] \in Nodes /\ holder[previous[n]] = l /\ next[previous[n]] = n
      /\ next[n] # Null => next[n] \in Nodes /\ holder[next[n]] = l /\ previous[next[n]] = n
      /\ previous[n] = Null <=> head[l] = n
      /\ next[n] = Null <=> tail[l] = n
  BY HeldIsCounted DEF LinkInv, LinkTypes, NeighboursAgree, EndsAgree, ListRemove
<1>2. LinkTypes'
  BY <1>1 DEF LinkInv, LinkTypes, ListRemove, Unlinked
<1>3. FlagsAgree'
  BY DEF LinkInv, LinkTypes, FlagsAgree, ListRemove, Unlinked
<1>4. NeighboursAgree'
  BY <1>1 DEF LinkInv, LinkTypes, NeighboursAgree, ListRemove, Unlinked
<1>5. EndsAgree'
  BY <1>1 DEF LinkInv, LinkTypes, NeighboursAgree, EndsAgree, ListRemove, Unlinked
<1>6. Counted'
  BY <1>1, OneLeaves DEF LinkInv, ListRemove
<1>7. QED
  BY <1>2, <1>3, <1>4, <1>5, <1>6 DEF LinkInv

\* os_ListPopFront removes the head.
LEMMA PopFrontRemoves ==
    ASSUME LinkInv, NEW l \in Lists, ListPopFront(l)
    PROVE  head[l] \in Nodes /\ ListRemove(l, head[l])
<1> USE ListLinksAssumption
<1>1. head[l] \in Nodes /\ holder[head[l]] = l /\ linked[head[l]] /\ previous[head[l]] = Null
  BY DEF LinkInv, LinkTypes, FlagsAgree, EndsAgree, ListPopFront
<1>2. next[head[l]] = Null <=> tail[l] = head[l]
  BY <1>1 DEF LinkInv, EndsAgree
<1>3. ListRemove(l, head[l])
  BY <1>1, <1>2 DEF LinkInv, LinkTypes, ListPopFront, ListRemove
<1>4. QED
  BY <1>1, <1>3

\* So it keeps what a removal keeps.
LEMMA PopFrontKeeps ==
    ASSUME LinkInv, NEW l \in Lists, ListPopFront(l)
    PROVE  LinkInv'
  BY PopFrontRemoves, RemoveKeeps

\* Lists begin empty and nodes unlinked.
LEMMA LinkInvInit == ListInit => LinkInv
<1>1. SUFFICES ASSUME ListInit PROVE LinkInv
  OBVIOUS
<1>2. \A l \in Lists : Held(l) = {}
  BY <1>1, ListLinksAssumption DEF ListInit, Held
<1>3. Counted
  BY <1>1, <1>2, FS_EmptySet DEF ListInit, Counted
<1>4. LinkTypes /\ FlagsAgree /\ NeighboursAgree /\ EndsAgree
  BY <1>1, ListLinksAssumption DEF ListInit, LinkTypes, FlagsAgree, NeighboursAgree, EndsAgree
<1>5. QED
  BY <1>3, <1>4 DEF LinkInv

\* One case for each operation.
LEMMA LinkInvStep == LinkInv /\ [ListNext]_linkVars => LinkInv'
<1>1. SUFFICES ASSUME LinkInv, [ListNext]_linkVars PROVE LinkInv'
  OBVIOUS
<1>2. CASE \E l \in Lists, n \in Nodes : ListPushBack(l, n)
  BY <1>1, <1>2, PushBackKeeps
<1>3. CASE \E l \in Lists, n \in Nodes : ListRemove(l, n)
  BY <1>1, <1>3, RemoveKeeps
<1>4. CASE \E l \in Lists, position, n \in Nodes : ListInsertBefore(l, position, n)
  BY <1>1, <1>4, InsertBeforeKeeps
<1>5. CASE \E l \in Lists : ListPopFront(l)
  BY <1>1, <1>5, PopFrontKeeps
<1>6. CASE UNCHANGED linkVars
  BY <1>1, <1>6 DEF linkVars, LinkInv, LinkTypes, FlagsAgree, NeighboursAgree, EndsAgree, Counted, Held
<1>7. QED
  BY <1>1, <1>2, <1>3, <1>4, <1>5, <1>6 DEF ListNext

\* For any nodes and lists, no operation meets an assertion of os_list.c that fails:
\* the list a linked node's caller names is not empty and ends where the node says.
THEOREM NoAssertFails == ListSpec => []AssertsHold
<1>1. LinkInv => AssertsHold
  BY HeldIsCounted DEF LinkInv, LinkTypes, FlagsAgree, EndsAgree, AssertsHold
<1>2. QED
  BY <1>1, LinkInvInit, LinkInvStep, PTL DEF ListSpec

-------------------------------------------------------------------------------
(* The sequence that a list is *)

\* What an operation does to a sequence, place by place.
Inserted(s, i, n, t) ==
    /\ t \in Seq(Nodes) /\ Len(t) = Len(s) + 1
    /\ \A j \in 1 .. Len(s) : IF j < i THEN t[j] = s[j] ELSE t[j + 1] = s[j]
    /\ t[i] = n
Removed(s, i, t) ==
    /\ t \in Seq(Nodes) /\ Len(t) = Len(s) - 1
    /\ \A j \in 1 .. Len(t) : t[j] = IF j < i THEN s[j] ELSE s[j + 1]

\* Two sequences, one behind the other.
LEMMA Concatenated ==
    ASSUME NEW p \in Seq(Nodes), NEW q \in Seq(Nodes)
    PROVE  /\ p \o q \in Seq(Nodes) /\ Len(p \o q) = Len(p) + Len(q)
           /\ \A j \in 1 .. Len(p) : (p \o q)[j] = p[j]
           /\ \A j \in Len(p) + 1 .. Len(p) + Len(q) : (p \o q)[j] = q[j - Len(p)]
<1>1. Len(p) \in Nat /\ Len(q) \in Nat
  OBVIOUS
<1>2. /\ p \o q \in Seq(Nodes) /\ Len(p \o q) = Len(p) + Len(q)
      /\ \A j \in 1 .. Len(p) + Len(q) :
            (p \o q)[j] = IF j <= Len(p) THEN p[j] ELSE q[j - Len(p)]
  BY ConcatProperties
<1>3. \A j \in 1 .. Len(p) : j \in 1 .. Len(p) + Len(q) /\ j <= Len(p)
  BY <1>1
<1>4. \A j \in Len(p) + 1 .. Len(p) + Len(q) : j \in 1 .. Len(p) + Len(q) /\ ~(j <= Len(p))
  BY <1>1
<1>5. QED
  BY <1>2, <1>3, <1>4

\* A node goes behind the last one.
LEMMA AppendInserts ==
    ASSUME NEW s \in Seq(Nodes), NEW n \in Nodes
    PROVE  Inserted(s, Len(s) + 1, n, Append(s, n))
<1>1. Len(s) \in Nat
  OBVIOUS
<1>2. \A j \in 1 .. Len(s) : j < Len(s) + 1
  BY <1>1
<1>3. QED
  BY <1>2, AppendProperties DEF Inserted

\* InsertAt moves the nodes from its place on back by one.
LEMMA InsertAtInserts ==
    ASSUME NEW s \in Seq(Nodes), NEW i \in 1 .. Len(s), NEW n \in Nodes
    PROVE  Inserted(s, i, n, Order!InsertAt(s, i, n))
<1> DEFINE a == SubSeq(s, 1, i - 1)
           b == SubSeq(s, i, Len(s))
           c == a \o <<n>>
<1>1. /\ Len(s) \in Nat /\ i \in Nat /\ 1 <= i /\ i <= Len(s)
      /\ \A j \in 1 .. Len(s) : s[j] \in Nodes
  OBVIOUS
<1>2. a \in Seq(Nodes) /\ Len(a) = i - 1 /\ \A j \in 1 .. i - 1 : a[j] = s[j]
  BY <1>1
<1>3. b \in Seq(Nodes) /\ Len(b) = Len(s) - i + 1 /\ \A j \in 1 .. Len(s) - i + 1 : b[j] = s[i + j - 1]
  BY <1>1
<1>4. <<n>> \in Seq(Nodes) /\ Len(<<n>>) = 1 /\ <<n>>[1] = n
  OBVIOUS
<1> HIDE DEF a, b
<1>5. c \in Seq(Nodes) /\ Len(c) = i /\ c[i] = n /\ \A j \in 1 .. i - 1 : c[j] = s[j]
  BY <1>1, <1>2, <1>4
<1> HIDE DEF c
<1>6. /\ c \o b \in Seq(Nodes) /\ Len(c \o b) = Len(s) + 1
      /\ \A j \in 1 .. i : (c \o b)[j] = c[j]
      /\ \A j \in i + 1 .. Len(s) + 1 : (c \o b)[j] = b[j - i]
  <2>1. /\ c \o b \in Seq(Nodes) /\ Len(c \o b) = Len(c) + Len(b)
        /\ \A j \in 1 .. Len(c) : (c \o b)[j] = c[j]
        /\ \A j \in Len(c) + 1 .. Len(c) + Len(b) : (c \o b)[j] = b[j - Len(c)]
    BY <1>3, <1>5, Concatenated
  <2>2. Len(c) = i /\ Len(c) + Len(b) = Len(s) + 1
    BY <1>1, <1>3, <1>5
  <2>3. QED
    BY <2>1, <2>2
<1>7. \A j \in 1 .. Len(s) : j >= i => (c \o b)[j + 1] = s[j]
  <2>1. SUFFICES ASSUME NEW j \in 1 .. Len(s), j >= i PROVE (c \o b)[j + 1] = s[j]
    OBVIOUS
  <2>2. j + 1 \in i + 1 .. Len(s) + 1 /\ (j + 1) - i \in 1 .. Len(s) - i + 1 /\ i + ((j + 1) - i) - 1 = j
    BY <1>1, <2>1
  <2>3. QED
    BY <1>3, <1>6, <2>2
<1>8. Inserted(s, i, n, c \o b)
  BY <1>1, <1>5, <1>6, <1>7 DEF Inserted
<1>9. QED
  BY <1>8 DEF Order!InsertAt, a, b, c

\* RemoveAt moves the nodes behind its place forward by one.
LEMMA RemoveAtRemoves ==
    ASSUME NEW s \in Seq(Nodes), NEW i \in 1 .. Len(s)
    PROVE  Removed(s, i, Order!RemoveAt(s, i))
<1> DEFINE a == SubSeq(s, 1, i - 1)
           b == SubSeq(s, i + 1, Len(s))
<1>1. /\ Len(s) \in Nat /\ i \in Nat /\ 1 <= i /\ i <= Len(s)
      /\ \A j \in 1 .. Len(s) : s[j] \in Nodes
  OBVIOUS
<1>2. a \in Seq(Nodes) /\ Len(a) = i - 1 /\ \A j \in 1 .. i - 1 : a[j] = s[j]
  BY <1>1
<1>3. b \in Seq(Nodes) /\ Len(b) = Len(s) - i /\ \A j \in 1 .. Len(s) - i : b[j] = s[i + j]
  BY <1>1
<1> HIDE DEF a, b
<1>4. /\ a \o b \in Seq(Nodes) /\ Len(a \o b) = Len(s) - 1
      /\ \A j \in 1 .. i - 1 : (a \o b)[j] = a[j]
      /\ \A j \in i .. Len(s) - 1 : (a \o b)[j] = b[j - (i - 1)]
  <2>1. /\ a \o b \in Seq(Nodes) /\ Len(a \o b) = Len(a) + Len(b)
        /\ \A j \in 1 .. Len(a) : (a \o b)[j] = a[j]
        /\ \A j \in Len(a) + 1 .. Len(a) + Len(b) : (a \o b)[j] = b[j - Len(a)]
    BY <1>2, <1>3, Concatenated
  <2>2. Len(a) = i - 1 /\ Len(a) + Len(b) = Len(s) - 1 /\ Len(a) + 1 = i
    BY <1>1, <1>2, <1>3
  <2>3. QED
    BY <2>1, <2>2
<1>5. \A j \in i .. Len(s) - 1 : (a \o b)[j] = s[j + 1]
  <2>1. SUFFICES ASSUME NEW j \in i .. Len(s) - 1 PROVE (a \o b)[j] = s[j + 1]
    OBVIOUS
  <2>2. j - (i - 1) \in 1 .. Len(s) - i /\ i + (j - (i - 1)) = j + 1
    BY <1>1
  <2>3. QED
    BY <1>3, <1>4, <2>2
<1>6. Removed(s, i, a \o b)
  BY <1>1, <1>2, <1>4, <1>5 DEF Removed
<1>7. QED
  BY <1>6 DEF Order!RemoveAt, a, b

\* What a list that represents a sequence says of its members.
LEMMA Members ==
    ASSUME LinkInv, NEW l \in Lists, NEW s \in Seq(Nodes), Represents(l, s)
    PROVE  /\ Len(s) \in Nat
           /\ \A i \in 1 .. Len(s) : s[i] \in Nodes /\ holder[s[i]] = l /\ linked[s[i]]
           /\ \A n \in Nodes : holder[n] = l => \E i \in 1 .. Len(s) : s[i] = n
           /\ \A i, j \in 1 .. Len(s) : s[i] = s[j] => i = j
           /\ s = <<>> <=> Len(s) = 0
  BY ListLinksAssumption DEF Represents, LinkInv, FlagsAgree

\* os_ListPushBack appends.
LEMMA PushBackAppends ==
    ASSUME LinkInv, NEW l \in Lists, NEW n \in Nodes, ListPushBack(l, n),
           NEW s \in Seq(Nodes), Represents(l, s)
    PROVE  Represents(l, Append(s, n))'
<1> USE ListLinksAssumption
<1> DEFINE t == Append(s, n)
           m == Len(s)
<1>1. /\ m \in Nat
      /\ \A i \in 1 .. m : s[i] \in Nodes /\ holder[s[i]] = l /\ linked[s[i]]
      /\ \A i, j \in 1 .. m : s[i] = s[j] => i = j
      /\ s = <<>> <=> m = 0
  BY Members
<1>2. /\ t \in Seq(Nodes) /\ Len(t) = m + 1 /\ t[m + 1] = n /\ t # <<>>
      /\ \A i \in 1 .. m : t[i] = s[i]
  BY AppendProperties
<1>3. ~linked[n] /\ holder[n] = Null /\ \A i \in 1 .. m : s[i] # n
  BY <1>1 DEF ListPushBack, LinkInv, FlagsAgree
<1>4. /\ size[l] = m
      /\ head[l] = IF m = 0 THEN Null ELSE s[1]
      /\ tail[l] = IF m = 0 THEN Null ELSE s[m]
      /\ \A i \in 1 .. m : /\ previous[s[i]] = IF i = 1 THEN Null ELSE s[i - 1]
                           /\ next[s[i]] = IF i = m THEN Null ELSE s[i + 1]
      /\ \A k \in Nodes : holder[k] = l <=> \E i \in 1 .. m : s[i] = k
  BY <1>1 DEF Represents
<1> HIDE DEF t, m
<1>5. size'[l] = m + 1 /\ head'[l] = t[1] /\ tail'[l] = t[m + 1]
  <2>1. CASE m = 0
    BY <1>2, <1>4, <2>1 DEF ListPushBack, LinkInv, LinkTypes
  <2>2. CASE m # 0
    <3>1. m \in 1 .. m /\ 1 \in 1 .. m
      BY <1>1, <2>2
    <3>2. tail[l] # Null /\ head[l] = t[1]
      BY <1>1, <1>2, <1>4, <2>2, <3>1
    <3>3. QED
      BY <1>2, <1>4, <3>2 DEF ListPushBack, LinkInv, LinkTypes
  <2>3. QED
    BY <2>1, <2>2
<1>6. \A i \in 1 .. m + 1 : /\ previous'[t[i]] = IF i = 1 THEN Null ELSE t[i - 1]
                            /\ next'[t[i]] = IF i = m + 1 THEN Null ELSE t[i + 1]
  <2>1. SUFFICES ASSUME NEW i \in 1 .. m + 1
                 PROVE  /\ previous'[t[i]] = IF i = 1 THEN Null ELSE t[i - 1]
                        /\ next'[t[i]] = IF i = m + 1 THEN Null ELSE t[i + 1]
    OBVIOUS
  <2>2. CASE i = m + 1
    <3>1. previous'[n] = tail[l]
      BY DEF ListPushBack, LinkInv, LinkTypes
    <3>2. next'[n] = Null
      BY <1>1, <1>3, <1>4 DEF ListPushBack, LinkInv, LinkTypes
    <3>3. m # 0 => m \in 1 .. m /\ t[m] = s[m]
      BY <1>1, <1>2
    <3>4. QED
      BY <1>1, <1>2, <1>4, <2>2, <3>1, <3>2, <3>3
  <2>3. CASE i # m + 1
    <3>1. i \in 1 .. m /\ m \in 1 .. m /\ t[i] = s[i]
      BY <1>1, <1>2, <2>1, <2>3
    <3>2. tail[l] = s[m] /\ s[m] # Null /\ s[i] # n
      BY <1>1, <1>3, <1>4, <3>1
    <3>3. previous'[s[i]] = previous[s[i]]
      BY <1>1, <3>1, <3>2 DEF ListPushBack, LinkInv, LinkTypes
    <3>4. next'[s[i]] = IF i = m THEN n ELSE next[s[i]]
      BY <1>1, <3>1, <3>2 DEF ListPushBack, LinkInv, LinkTypes
    <3>5. i # 1 => i - 1 \in 1 .. m /\ t[i - 1] = s[i - 1]
      BY <1>1, <1>2, <3>1
    <3>6. i # m => i + 1 \in 1 .. m /\ t[i + 1] = s[i + 1]
      BY <1>1, <1>2, <3>1
    <3>7. QED
      BY <1>2, <1>4, <2>3, <3>1, <3>3, <3>4, <3>5, <3>6
  <2>4. QED
    BY <2>2, <2>3
<1>7. \A k \in Nodes : holder'[k] = l <=> \E i \in 1 .. m + 1 : t[i] = k
  <2>1. \A k \in Nodes : holder'[k] = l <=> k = n \/ holder[k] = l
    BY DEF ListPushBack, LinkInv, LinkTypes
  <2>2. \A k : (\E i \in 1 .. m + 1 : t[i] = k) <=> k = n \/ \E i \in 1 .. m : s[i] = k
    BY <1>1, <1>2
  <2>3. QED
    BY <1>4, <2>1, <2>2
<1>8. \A i, j \in 1 .. m + 1 : t[i] = t[j] => i = j
  BY <1>1, <1>2, <1>3
<1>9. Represents(l, t)'
  BY <1>2, <1>5, <1>6, <1>7, <1>8 DEF Represents
<1>10. QED
  BY <1>9 DEF t


\* os_ListRemove takes the node out of its place.
LEMMA RemoveTakesOut ==
    ASSUME LinkInv, NEW l \in Lists, NEW n \in Nodes, ListRemove(l, n),
           NEW s \in Seq(Nodes), Represents(l, s), NEW i \in 1 .. Len(s), s[i] = n,
           NEW t, Removed(s, i, t)
    PROVE  Represents(l, t)'
<1> USE ListLinksAssumption
<1> DEFINE m == Len(s)
<1>1. /\ m \in Nat /\ i \in 1 .. m
      /\ \A j \in 1 .. m : s[j] \in Nodes /\ holder[s[j]] = l /\ linked[s[j]]
      /\ \A j, k \in 1 .. m : s[j] = s[k] => j = k
      /\ s = <<>> <=> m = 0
  BY Members
<1>2. /\ t \in Seq(Nodes) /\ Len(t) = m - 1 /\ (t = <<>> <=> m = 1)
      /\ \A j \in 1 .. m - 1 : t[j] = IF j < i THEN s[j] ELSE s[j + 1]
  BY <1>1 DEF Removed
<1>3. /\ size[l] = m
      /\ head[l] = s[1]
      /\ tail[l] = s[m]
      /\ \A j \in 1 .. m : /\ previous[s[j]] = IF j = 1 THEN Null ELSE s[j - 1]
                           /\ next[s[j]] = IF j = m THEN Null ELSE s[j + 1]
      /\ \A k \in Nodes : holder[k] = l <=> \E j \in 1 .. m : s[j] = k
  <2>1. m # 0 /\ s # <<>>
    BY <1>1
  <2>2. QED
    BY <2>1 DEF Represents
<1> HIDE DEF m
<1>4. previous[n] = (IF i = 1 THEN Null ELSE s[i - 1]) /\ next[n] = (IF i = m THEN Null ELSE s[i + 1])
  BY <1>1, <1>3
<1>5. /\ i # 1 => i - 1 \in 1 .. m /\ s[i - 1] \in Nodes /\ s[i - 1] # Null /\ s[i - 1] # n
      /\ i # m => i + 1 \in 1 .. m /\ s[i + 1] \in Nodes /\ s[i + 1] # Null /\ s[i + 1] # n
  BY <1>1
<1>6. size'[l] = m - 1
  BY <1>3 DEF ListRemove, Unlinked, LinkInv, LinkTypes
<1>7. /\ head'[l] = IF i = 1 THEN next[n] ELSE s[1]
      /\ tail'[l] = IF i = m THEN previous[n] ELSE s[m]
  BY ZenonT(60), <1>1, <1>3, <1>4, <1>5 DEF ListRemove, LinkInv, LinkTypes
<1>8. head'[l] = (IF t = <<>> THEN Null ELSE t[1]) /\ tail'[l] = (IF t = <<>> THEN Null ELSE t[Len(t)])
  <2>1. CASE m = 1
    BY <1>1, <1>2, <1>4, <1>7, <2>1
  <2>2. CASE m # 1
    <3>1. 1 \in 1 .. m - 1 /\ m - 1 \in 1 .. m - 1 /\ 1 + 1 = 2 /\ (m - 1) + 1 = m
      BY <1>1, <2>2
    <3>2. t[1] = (IF 1 < i THEN s[1] ELSE s[2]) /\ t[m - 1] = (IF m - 1 < i THEN s[m - 1] ELSE s[m])
      BY <1>2, <3>1
    <3>3. head'[l] = t[1]
      BY <1>1, <1>4, <1>7, <2>2, <3>1, <3>2
    <3>4. tail'[l] = t[m - 1]
      BY <1>1, <1>4, <1>7, <2>2, <3>1, <3>2
    <3>5. QED
      BY <1>2, <2>2, <3>3, <3>4
  <2>3. QED
    BY <2>1, <2>2
<1>9. \A j \in 1 .. m : j # i =>
         /\ previous'[s[j]] = IF j = i + 1 THEN previous[n] ELSE previous[s[j]]
         /\ next'[s[j]] = IF j = i - 1 THEN next[n] ELSE next[s[j]]
  <2>1. SUFFICES ASSUME NEW j \in 1 .. m, j # i
                 PROVE  /\ previous'[s[j]] = IF j = i + 1 THEN previous[n] ELSE previous[s[j]]
                        /\ next'[s[j]] = IF j = i - 1 THEN next[n] ELSE next[s[j]]
    OBVIOUS
  <2>2. s[j] \in Nodes /\ s[j] # n
    BY <1>1, <2>1
  <2>3. i # m => (s[j] = s[i + 1] <=> j = i + 1)
    BY <1>1, <1>5
  <2>4. i # 1 => (s[j] = s[i - 1] <=> j = i - 1)
    BY <1>1, <1>5
  <2>5. i = m => j # i + 1
    BY <1>1
  <2>6. i = 1 => j # i - 1
    BY <1>1
  <2>7. previous'[s[j]] = IF j = i + 1 THEN previous[n] ELSE previous[s[j]]
    BY <1>4, <1>5, <2>2, <2>3, <2>5 DEF ListRemove, LinkInv, LinkTypes
  <2>8. next'[s[j]] = IF j = i - 1 THEN next[n] ELSE next[s[j]]
    BY <1>4, <1>5, <2>2, <2>4, <2>6 DEF ListRemove, LinkInv, LinkTypes
  <2>9. QED
    BY <2>7, <2>8
<1>10. \A j \in 1 .. m - 1 : /\ previous'[t[j]] = IF j = 1 THEN Null ELSE t[j - 1]
                             /\ next'[t[j]] = IF j = m - 1 THEN Null ELSE t[j + 1]
  <2>1. SUFFICES ASSUME NEW j \in 1 .. m - 1
                 PROVE  /\ previous'[t[j]] = IF j = 1 THEN Null ELSE t[j - 1]
                        /\ next'[t[j]] = IF j = m - 1 THEN Null ELSE t[j + 1]
    OBVIOUS
  <2>2. CASE j < i
    <3>1. j \in 1 .. m /\ j # i /\ j # i + 1 /\ t[j] = s[j] /\ j # m /\ (j + 1 < i <=> j # i - 1)
      BY <1>1, <1>2, <2>2
    <3>2. j # 1 => j - 1 \in 1 .. m - 1 /\ t[j - 1] = s[j - 1]
      BY <1>1, <1>2, <2>2
    <3>3. j # m - 1 => j + 1 \in 1 .. m - 1 /\ t[j + 1] = (IF j + 1 < i THEN s[j + 1] ELSE s[(j + 1) + 1])
      BY <1>1, <1>2
    <3>4. previous'[s[j]] = (IF j = 1 THEN Null ELSE s[j - 1]) /\ next'[s[j]] = IF j = i - 1 THEN next[n] ELSE s[j + 1]
      BY <1>3, <1>9, <3>1
    <3>5. j = i - 1 => (j + 1) + 1 = i + 1 /\ (j = m - 1 <=> i = m)
      BY <1>1
    <3>6. j # i - 1 => j # m - 1
      BY <1>1, <2>2
    <3>7. QED
      BY <1>4, <3>1, <3>2, <3>3, <3>4, <3>5, <3>6
  <2>3. CASE ~(j < i)
    <3>1. /\ j + 1 \in 1 .. m /\ j + 1 # i /\ j + 1 # i - 1 /\ t[j] = s[j + 1] /\ j + 1 # 1
          /\ (j + 1 = i + 1 <=> j = i) /\ (j + 1) - 1 = j /\ (j + 1 = m <=> j = m - 1)
      BY <1>1, <1>2, <2>3
    <3>2. j # 1 => j - 1 \in 1 .. m - 1 /\ t[j - 1] = (IF j - 1 < i THEN s[j - 1] ELSE s[(j - 1) + 1])
      BY <1>1, <1>2
    <3>3. j # m - 1 => j + 1 \in 1 .. m - 1 /\ t[j + 1] = s[(j + 1) + 1]
      BY <1>1, <1>2, <2>3
    <3>4. /\ previous'[s[j + 1]] = IF j = i THEN previous[n] ELSE s[j]
          /\ next'[s[j + 1]] = IF j + 1 = m THEN Null ELSE s[(j + 1) + 1]
      BY <1>3, <1>9, <3>1
    <3>5. (j - 1 < i <=> j = i) /\ (j - 1) + 1 = j
      BY <1>1, <2>3
    <3>6. j = 1 => j = i
      BY <1>1, <2>3
    <3>7. QED
      BY <1>4, <3>1, <3>2, <3>3, <3>4, <3>5, <3>6
  <2>4. QED
    BY <2>2, <2>3
<1>11. \A k \in Nodes : holder'[k] = l <=> \E j \in 1 .. m - 1 : t[j] = k
  <2>1. \A k \in Nodes : holder'[k] = l <=> k # n /\ holder[k] = l
    BY DEF ListRemove, Unlinked, LinkInv, LinkTypes
  <2>2. ASSUME NEW j \in 1 .. m - 1
        PROVE  t[j] # n /\ holder[t[j]] = l
    <3>1. j \in 1 .. m /\ j + 1 \in 1 .. m /\ (j < i => j # i) /\ (~(j < i) => j + 1 # i)
      BY <1>1
    <3>2. CASE j < i
      <4>1. t[j] = s[j]
        BY <1>2, <3>2
      <4>2. QED
        BY <1>1, <3>1, <3>2, <4>1
    <3>3. CASE ~(j < i)
      <4>1. t[j] = s[j + 1]
        BY <1>2, <3>3
      <4>2. QED
        BY <1>1, <3>1, <3>3, <4>1
    <3>4. QED
      BY <3>2, <3>3
  <2>3. ASSUME NEW j \in 1 .. m, j # i
        PROVE  \E k \in 1 .. m - 1 : t[k] = s[j]
    <3>1. CASE j < i
      <4>1. j \in 1 .. m - 1 /\ t[j] = s[j]
        BY <1>1, <1>2, <3>1
      <4>2. QED
        BY <4>1
    <3>2. CASE ~(j < i)
      <4>1. j - 1 \in 1 .. m - 1 /\ ~(j - 1 < i) /\ (j - 1) + 1 = j
        BY <1>1, <2>3, <3>2
      <4>2. t[j - 1] = s[j]
        BY <1>2, <4>1
      <4>3. QED
        BY <4>1, <4>2
    <3>3. QED
      BY <3>1, <3>2
  <2>4. \A k \in Nodes : k # n /\ holder[k] = l => \E j \in 1 .. m - 1 : t[j] = k
    <3>1. SUFFICES ASSUME NEW k \in Nodes, k # n, holder[k] = l
                   PROVE  \E j \in 1 .. m - 1 : t[j] = k
      OBVIOUS
    <3>2. PICK j \in 1 .. m : s[j] = k
      BY <1>3, <3>1
    <3>3. j # i
      BY <3>1, <3>2
    <3>4. QED
      BY <2>3, <3>2, <3>3
  <2>5. \A k \in Nodes : (\E j \in 1 .. m - 1 : t[j] = k) => k # n /\ holder[k] = l
    <3>1. SUFFICES ASSUME NEW k \in Nodes, NEW j \in 1 .. m - 1, t[j] = k
                   PROVE  k # n /\ holder[k] = l
      OBVIOUS
    <3>2. QED
      BY <2>2, <3>1
  <2>6. QED
    BY <2>1, <2>4, <2>5
<1>12. \A j, k \in 1 .. m - 1 : t[j] = t[k] => j = k
  <2>1. SUFFICES ASSUME NEW j \in 1 .. m - 1, NEW k \in 1 .. m - 1, t[j] = t[k] PROVE j = k
    OBVIOUS
  <2>2. j \in 1 .. m /\ j + 1 \in 1 .. m /\ k \in 1 .. m /\ k + 1 \in 1 .. m
    BY <1>1
  <2>3. (IF j < i THEN s[j] ELSE s[j + 1]) = (IF k < i THEN s[k] ELSE s[k + 1])
    BY <1>2, <2>1
  <2>4. (IF j < i THEN j ELSE j + 1) = (IF k < i THEN k ELSE k + 1)
    BY <1>1, <2>2, <2>3
  <2>5. QED
    BY <1>1, <2>4
<1>13. QED
  BY <1>2, <1>6, <1>8, <1>10, <1>11, <1>12 DEF Represents

\* os_ListInsertBefore puts the node into the place of the position.
LEMMA InsertBeforePutsIn ==
    ASSUME LinkInv, NEW l \in Lists, NEW position \in Nodes, NEW n \in Nodes,
           ListInsertBefore(l, position, n),
           NEW s \in Seq(Nodes), Represents(l, s), NEW i \in 1 .. Len(s), s[i] = position,
           NEW t, Inserted(s, i, n, t)
    PROVE  Represents(l, t)'
<1> USE ListLinksAssumption
<1> DEFINE m == Len(s)
<1>1. /\ m \in Nat /\ i \in 1 .. m
      /\ \A j \in 1 .. m : s[j] \in Nodes /\ holder[s[j]] = l /\ linked[s[j]]
      /\ \A j, k \in 1 .. m : s[j] = s[k] => j = k
      /\ s = <<>> <=> m = 0
  BY Members
<1>2. /\ t \in Seq(Nodes) /\ Len(t) = m + 1 /\ t # <<>> /\ t[i] = n
      /\ \A j \in 1 .. m : IF j < i THEN t[j] = s[j] ELSE t[j + 1] = s[j]
  BY <1>1 DEF Inserted
<1>3. ~linked[n] /\ holder[n] = Null /\ \A j \in 1 .. m : s[j] # n
  BY <1>1 DEF ListInsertBefore, LinkInv, FlagsAgree
<1>4. /\ size[l] = m
      /\ head[l] = s[1]
      /\ tail[l] = s[m]
      /\ \A j \in 1 .. m : /\ previous[s[j]] = IF j = 1 THEN Null ELSE s[j - 1]
                           /\ next[s[j]] = IF j = m THEN Null ELSE s[j + 1]
      /\ \A k \in Nodes : holder[k] = l <=> \E j \in 1 .. m : s[j] = k
  <2>1. m # 0 /\ s # <<>>
    BY <1>1
  <2>2. QED
    BY <2>1 DEF Represents
<1> HIDE DEF m
<1>5. previous[position] = (IF i = 1 THEN Null ELSE s[i - 1])
  BY <1>1, <1>4
<1>6. i # 1 => i - 1 \in 1 .. m /\ s[i - 1] \in Nodes /\ s[i - 1] # Null /\ s[i - 1] # n /\ s[i - 1] # position
  BY <1>1, <1>3
<1>7. size'[l] = m + 1
  BY <1>4 DEF ListInsertBefore, LinkInv, LinkTypes
<1>8. head'[l] = t[1] /\ tail'[l] = t[m + 1]
  <2>1. tail'[l] = s[m] /\ head'[l] = IF i = 1 THEN n ELSE s[1]
    BY <1>1, <1>4, <1>5, <1>6 DEF ListInsertBefore, LinkInv, LinkTypes
  <2>2. m \in 1 .. m /\ ~(m < i) /\ 1 \in 1 .. m /\ (i # 1 => 1 < i)
    BY <1>1
  <2>3. QED
    BY <1>2, <2>1, <2>2
<1>9. /\ previous'[n] = previous[position] /\ next'[n] = position
      /\ \A j \in 1 .. m :
            /\ previous'[s[j]] = IF j = i THEN n ELSE previous[s[j]]
            /\ next'[s[j]] = IF j = i - 1 THEN n ELSE next[s[j]]
  <2>1. previous'[n] = previous[position] /\ next'[n] = position
    BY <1>1, <1>3, <1>5, <1>6 DEF ListInsertBefore, LinkInv, LinkTypes
  <2>2. ASSUME NEW j \in 1 .. m
        PROVE  /\ previous'[s[j]] = IF j = i THEN n ELSE previous[s[j]]
               /\ next'[s[j]] = IF j = i - 1 THEN n ELSE next[s[j]]
    <3>1. s[j] \in Nodes /\ s[j] # n /\ (s[j] = position <=> j = i)
      BY <1>1, <1>3
    <3>2. i # 1 => (s[j] = s[i - 1] <=> j = i - 1)
      BY <1>1, <1>6
    <3>3. i = 1 => j # i - 1
      BY <1>1
    <3>4. previous'[s[j]] = IF j = i THEN n ELSE previous[s[j]]
      BY <3>1 DEF ListInsertBefore, LinkInv, LinkTypes
    <3>5. next'[s[j]] = IF j = i - 1 THEN n ELSE next[s[j]]
      BY <1>5, <1>6, <3>1, <3>2, <3>3 DEF ListInsertBefore, LinkInv, LinkTypes
    <3>6. QED
      BY <3>4, <3>5
  <2>3. QED
    BY <2>1, <2>2
<1>10. \A j \in 1 .. m + 1 : t[j] = IF j < i THEN s[j] ELSE IF j = i THEN n ELSE s[j - 1]
  <2>1. SUFFICES ASSUME NEW j \in 1 .. m + 1
                 PROVE  t[j] = IF j < i THEN s[j] ELSE IF j = i THEN n ELSE s[j - 1]
    OBVIOUS
  <2>2. CASE j < i
    <3>1. j \in 1 .. m
      BY <1>1, <2>2
    <3>2. QED
      BY <1>2, <2>2, <3>1
  <2>3. CASE j = i
    BY <1>1, <1>2, <2>3
  <2>4. CASE ~(j < i) /\ j # i
    <3>1. j - 1 \in 1 .. m /\ ~(j - 1 < i) /\ (j - 1) + 1 = j
      BY <1>1, <2>4
    <3>2. QED
      BY <1>2, <2>4, <3>1
  <2>5. QED
    BY <2>2, <2>3, <2>4
<1>11. \A j \in 1 .. m + 1 : /\ previous'[t[j]] = IF j = 1 THEN Null ELSE t[j - 1]
                             /\ next'[t[j]] = IF j = m + 1 THEN Null ELSE t[j + 1]
  <2>1. SUFFICES ASSUME NEW j \in 1 .. m + 1
                 PROVE  /\ previous'[t[j]] = IF j = 1 THEN Null ELSE t[j - 1]
                        /\ next'[t[j]] = IF j = m + 1 THEN Null ELSE t[j + 1]
    OBVIOUS
  <2>2. j # 1 => j - 1 \in 1 .. m + 1 /\ t[j - 1] = IF j - 1 < i THEN s[j - 1] ELSE IF j - 1 = i THEN n ELSE s[(j - 1) - 1]
    BY <1>1, <1>10
  <2>3. j # m + 1 => j + 1 \in 1 .. m + 1 /\ t[j + 1] = IF j + 1 < i THEN s[j + 1] ELSE IF j + 1 = i THEN n ELSE s[(j + 1) - 1]
    BY <1>1, <1>10
  <2>4. CASE j < i
    <3>1. j \in 1 .. m /\ j # i /\ t[j] = s[j] /\ j # m /\ j # m + 1 /\ j - 1 < i /\ (j = i - 1 <=> j + 1 = i) /\ (j # i - 1 => j + 1 < i)
      BY <1>1, <1>10, <2>4
    <3>2. /\ previous'[s[j]] = IF j = 1 THEN Null ELSE s[j - 1]
          /\ next'[s[j]] = IF j = i - 1 THEN n ELSE s[j + 1]
      BY <1>4, <1>9, <3>1
    <3>3. QED
      BY <2>2, <2>3, <3>1, <3>2
  <2>5. CASE j = i
    <3>1. t[j] = n /\ j # m + 1 /\ ~(j + 1 < i) /\ j + 1 # i /\ (j + 1) - 1 = i /\ j - 1 < i
      BY <1>1, <1>10, <2>5
    <3>2. QED
      BY <1>5, <1>9, <2>2, <2>3, <2>5, <3>1
  <2>6. CASE ~(j < i) /\ j # i
    <3>1. /\ j - 1 \in 1 .. m /\ t[j] = s[j - 1] /\ j # 1 /\ j - 1 # i - 1 /\ ~(j - 1 < i)
          /\ ~(j + 1 < i) /\ j + 1 # i /\ (j + 1) - 1 = (j - 1) + 1 /\ (j - 1 = m <=> j = m + 1)
          /\ (j - 1 = i => j - 1 # 1 \/ i = 1) /\ (j - 1 # i => j - 1 # 1)
      BY <1>1, <1>10, <2>6
    <3>2. /\ previous'[s[j - 1]] = IF j - 1 = i THEN n ELSE s[(j - 1) - 1]
          /\ next'[s[j - 1]] = IF j - 1 = m THEN Null ELSE s[(j - 1) + 1]
      BY <1>4, <1>9, <3>1
    <3>3. QED
      BY <2>2, <2>3, <3>1, <3>2
  <2>7. QED
    BY <2>4, <2>5, <2>6
<1>12. \A k \in Nodes : holder'[k] = l <=> \E j \in 1 .. m + 1 : t[j] = k
  <2>1. \A k \in Nodes : holder'[k] = l <=> k = n \/ holder[k] = l
    BY DEF ListInsertBefore, LinkInv, LinkTypes
  <2>2. ASSUME NEW j \in 1 .. m + 1
        PROVE  t[j] = n \/ holder[t[j]] = l
    <3>1. (j < i => j \in 1 .. m) /\ (~(j < i) /\ j # i => j - 1 \in 1 .. m)
      BY <1>1
    <3>2. QED
      BY <1>1, <1>10, <3>1
  <2>3. ASSUME NEW j \in 1 .. m
        PROVE  \E k \in 1 .. m + 1 : t[k] = s[j]
    <3>1. j \in 1 .. m + 1 /\ j + 1 \in 1 .. m + 1
      BY <1>1
    <3>2. QED
      BY <1>2, <3>1
  <2>4. i \in 1 .. m + 1
    BY <1>1
  <2>5. \A k \in Nodes : k = n \/ holder[k] = l => \E j \in 1 .. m + 1 : t[j] = k
    BY <1>2, <1>4, <2>3, <2>4
  <2>6. \A k \in Nodes : (\E j \in 1 .. m + 1 : t[j] = k) => k = n \/ holder[k] = l
    <3>1. SUFFICES ASSUME NEW k \in Nodes, NEW j \in 1 .. m + 1, t[j] = k
                   PROVE  k = n \/ holder[k] = l
      OBVIOUS
    <3>2. QED
      BY <2>2, <3>1
  <2>7. QED
    BY <2>1, <2>5, <2>6
<1>13. \A j, k \in 1 .. m + 1 : t[j] = t[k] => j = k
  <2>1. SUFFICES ASSUME NEW j \in 1 .. m + 1, NEW k \in 1 .. m + 1, t[j] = t[k] PROVE j = k
    OBVIOUS
  <2>2. /\ (j < i => j \in 1 .. m) /\ (~(j < i) /\ j # i => j - 1 \in 1 .. m)
        /\ (k < i => k \in 1 .. m) /\ (~(k < i) /\ k # i => k - 1 \in 1 .. m)
    BY <1>1
  <2>3. /\ t[j] = IF j < i THEN s[j] ELSE IF j = i THEN n ELSE s[j - 1]
        /\ t[k] = IF k < i THEN s[k] ELSE IF k = i THEN n ELSE s[k - 1]
    BY <1>10
  <2>4. j = i <=> k = i
    <3>1. j # i => t[j] # n
      BY <1>3, <2>2, <2>3
    <3>2. k # i => t[k] # n
      BY <1>3, <2>2, <2>3
    <3>3. t[i] = n
      BY <1>2
    <3>4. QED
      BY <2>1, <3>1, <3>2, <3>3
  <2>5. CASE j = i
    BY <2>4, <2>5
  <2>6. CASE j # i
    <3>1. (IF j < i THEN s[j] ELSE s[j - 1]) = (IF k < i THEN s[k] ELSE s[k - 1])
      BY <2>1, <2>3, <2>4, <2>6
    <3>2. (IF j < i THEN j ELSE j - 1) = (IF k < i THEN k ELSE k - 1)
      BY <1>1, <2>2, <2>4, <2>6, <3>1
    <3>3. QED
      BY <1>1, <2>4, <2>6, <3>2
  <2>7. QED
    BY <2>5, <2>6
<1>14. QED
  BY <1>2, <1>7, <1>8, <1>11, <1>12, <1>13 DEF Represents

\* A list that an operation on another list does not touch.
LEMMA OthersStay ==
    ASSUME LinkInv, NEW k \in Lists, NEW s \in Seq(Nodes), Represents(k, s),
           size'[k] = size[k], head'[k] = head[k], tail'[k] = tail[k],
           \A n \in Nodes : (holder'[n] = k <=> holder[n] = k),
           \A n \in Nodes : holder[n] = k => previous'[n] = previous[n] /\ next'[n] = next[n]
    PROVE  Represents(k, s)'
<1>1. \A i \in 1 .. Len(s) : s[i] \in Nodes /\ holder[s[i]] = k
  BY Members
<1>2. /\ \A i \in 1 .. Len(s) :
            /\ previous'[s[i]] = IF i = 1 THEN Null ELSE s[i - 1]
            /\ next'[s[i]] = IF i = Len(s) THEN Null ELSE s[i + 1]
      /\ \A n \in Nodes : holder'[n] = k <=> \E i \in 1 .. Len(s) : s[i] = n
  BY SMTT(30), <1>1 DEF Represents
<1>3. QED
  BY <1>2 DEF Represents


\* Every list is a sequence, and a node that is on none points nowhere.
Sequenced == \A l \in Lists : \E s \in Seq(Nodes) : Represents(l, s)
LoosePointNowhere == \A n \in Nodes : ~linked[n] => previous[n] = Null /\ next[n] = Null
ChainInv == LinkInv /\ Sequenced /\ LoosePointNowhere

\* What becomes of the sequence of a list.
Changed(l, s, t) ==
    \/ t = s
    \/ \E n \in Nodes : holder[n] = Null /\ t = Append(s, n)
    \/ \E n \in Nodes, i \in 1 .. Len(s) : holder[n] = Null /\ t = Order!InsertAt(s, i, n)
    \/ \E i \in 1 .. Len(s) : t = Order!RemoveAt(s, i)

\* An operation changes the sequence of the list it names in one place and leaves
\* the others as they were.
StepOf(l) ==
    /\ \A s \in Seq(Nodes) : Represents(l, s) =>
          \E t \in Seq(Nodes) : Changed(l, s, t) /\ Represents(l, t)'
    /\ \A k \in Lists \ {l} : \A s \in Seq(Nodes) : Represents(k, s) => Represents(k, s)'

\* os_ListPushBack
LEMMA PushBackStep ==
    ASSUME LinkInv, NEW l \in Lists, NEW n \in Nodes, ListPushBack(l, n)
    PROVE  StepOf(l)
<1> USE ListLinksAssumption
<1>1. holder[n] = Null /\ (tail[l] # Null => tail[l] \in Nodes /\ holder[tail[l]] = l)
  BY DEF LinkInv, LinkTypes, FlagsAgree, EndsAgree, ListPushBack
<1>2. ASSUME NEW s \in Seq(Nodes), Represents(l, s)
      PROVE  \E t \in Seq(Nodes) : Changed(l, s, t) /\ Represents(l, t)'
  <2>1. Append(s, n) \in Seq(Nodes) /\ Changed(l, s, Append(s, n))
    BY <1>1 DEF Changed
  <2>2. Represents(l, Append(s, n))'
    BY <1>2, PushBackAppends
  <2>3. QED
    BY <2>1, <2>2
<1>3. ASSUME NEW k \in Lists \ {l}, NEW s \in Seq(Nodes), Represents(k, s)
      PROVE  Represents(k, s)'
  <2>1. size'[k] = size[k] /\ head'[k] = head[k] /\ tail'[k] = tail[k]
    BY DEF LinkInv, LinkTypes, ListPushBack
  <2>2. \A q \in Nodes : holder'[q] = k <=> holder[q] = k
    BY <1>1 DEF LinkInv, LinkTypes, ListPushBack
  <2>3. \A q \in Nodes : holder[q] = k => previous'[q] = previous[q] /\ next'[q] = next[q]
    BY <1>1 DEF LinkInv, LinkTypes, ListPushBack
  <2>4. QED
    BY <1>3, <2>1, <2>2, <2>3, OthersStay
<1>4. QED
  BY <1>2, <1>3 DEF StepOf

\* os_ListInsertBefore
LEMMA InsertBeforeStep ==
    ASSUME LinkInv, NEW l \in Lists, NEW position \in Nodes, NEW n \in Nodes,
           ListInsertBefore(l, position, n)
    PROVE  StepOf(l)
<1> USE ListLinksAssumption
<1>1. /\ holder[n] = Null /\ holder[position] = l
      /\ previous[position] # Null => previous[position] \in Nodes /\ holder[previous[position]] = l
  BY DEF LinkInv, LinkTypes, FlagsAgree, NeighboursAgree, ListInsertBefore
<1>2. ASSUME NEW s \in Seq(Nodes), Represents(l, s)
      PROVE  \E t \in Seq(Nodes) : Changed(l, s, t) /\ Represents(l, t)'
  <2>1. PICK i \in 1 .. Len(s) : s[i] = position
    BY <1>1, <1>2, Members
  <2> DEFINE t == Order!InsertAt(s, i, n)
  <2>2. Inserted(s, i, n, t)
    BY InsertAtInserts
  <2>3. t \in Seq(Nodes) /\ Changed(l, s, t)
    BY <1>1, <2>2 DEF Changed, Inserted
  <2> HIDE DEF t
  <2>4. Represents(l, t)'
    BY <1>2, <2>1, <2>2, InsertBeforePutsIn
  <2>5. QED
    BY <2>3, <2>4
<1>3. ASSUME NEW k \in Lists \ {l}, NEW s \in Seq(Nodes), Represents(k, s)
      PROVE  Represents(k, s)'
  <2>1. size'[k] = size[k] /\ head'[k] = head[k] /\ tail'[k] = tail[k]
    BY DEF LinkInv, LinkTypes, ListInsertBefore
  <2>2. \A q \in Nodes : holder'[q] = k <=> holder[q] = k
    BY <1>1 DEF LinkInv, LinkTypes, ListInsertBefore
  <2>3. \A q \in Nodes : holder[q] = k => previous'[q] = previous[q] /\ next'[q] = next[q]
    BY <1>1 DEF LinkInv, LinkTypes, ListInsertBefore
  <2>4. QED
    BY <1>3, <2>1, <2>2, <2>3, OthersStay
<1>4. QED
  BY <1>2, <1>3 DEF StepOf

\* os_ListRemove
LEMMA RemoveStep ==
    ASSUME LinkInv, NEW l \in Lists, NEW n \in Nodes, ListRemove(l, n)
    PROVE  StepOf(l)
<1> USE ListLinksAssumption
<1>1. /\ holder[n] = l
      /\ previous[n] # Null => previous[n] \in Nodes /\ holder[previous[n]] = l
      /\ next[n] # Null => next[n] \in Nodes /\ holder[next[n]] = l
  BY DEF LinkInv, LinkTypes, NeighboursAgree, ListRemove
<1>2. ASSUME NEW s \in Seq(Nodes), Represents(l, s)
      PROVE  \E t \in Seq(Nodes) : Changed(l, s, t) /\ Represents(l, t)'
  <2>1. PICK i \in 1 .. Len(s) : s[i] = n
    BY <1>1, <1>2, Members
  <2> DEFINE t == Order!RemoveAt(s, i)
  <2>2. Removed(s, i, t)
    BY RemoveAtRemoves
  <2>3. t \in Seq(Nodes) /\ Changed(l, s, t)
    BY <2>2 DEF Changed, Removed
  <2> HIDE DEF t
  <2>4. Represents(l, t)'
    BY <1>2, <2>1, <2>2, RemoveTakesOut
  <2>5. QED
    BY <2>3, <2>4
<1>3. ASSUME NEW k \in Lists \ {l}, NEW s \in Seq(Nodes), Represents(k, s)
      PROVE  Represents(k, s)'
  <2>1. size'[k] = size[k] /\ head'[k] = head[k] /\ tail'[k] = tail[k]
    BY DEF LinkInv, LinkTypes, ListRemove, Unlinked
  <2>2. \A q \in Nodes : holder'[q] = k <=> holder[q] = k
    BY <1>1 DEF LinkInv, LinkTypes, ListRemove, Unlinked
  <2>3. \A q \in Nodes : holder[q] = k => previous'[q] = previous[q] /\ next'[q] = next[q]
    BY <1>1 DEF LinkInv, LinkTypes, ListRemove, Unlinked
  <2>4. QED
    BY <1>3, <2>1, <2>2, <2>3, OthersStay
<1>4. QED
  BY <1>2, <1>3 DEF StepOf

\* os_ListPopFront is the removal of the head.
LEMMA PopFrontStep ==
    ASSUME LinkInv, NEW l \in Lists, ListPopFront(l)
    PROVE  StepOf(l)
<1>1. head[l] \in Nodes /\ ListRemove(l, head[l])
  BY PopFrontRemoves
<1>2. QED
  BY <1>1, RemoveStep

\* So whatever happens, it happens to one list, or to none.
LEMMA SomeStep ==
    ASSUME LinkInv, ListNext
    PROVE  \E l \in Lists : StepOf(l)
  BY PushBackStep, InsertBeforeStep, RemoveStep, PopFrontStep DEF ListNext


\* Induction, stated for a set so that the provers can instantiate it.
LEMMA NatSetInduction ==
    ASSUME NEW T, 0 \in T, \A n \in Nat : n \in T => n + 1 \in T
    PROVE  Nat \subseteq T
<1> SUFFICES ASSUME Nat \ T # {} PROVE FALSE
  OBVIOUS
<1> DEFINE R == OpToRel(<, Nat)
<1>1. PICK x \in Nat \ T : \A y \in Nat \ T : <<y, x>> \notin R
  <2>1. IsWellFoundedOn(R, Nat)
    BY NatLessThanWellFounded
  <2> QED
    BY <2>1, WFMin, Nat \ T \subseteq Nat
<1>2. x # 0
  BY <1>1
<1>3. x - 1 \in Nat /\ (x - 1) + 1 = x
  BY <1>2
<1>4. <<x - 1, x>> \in R
  BY <1>3 DEF OpToRel
<1>5. x - 1 \in T
  BY <1>1, <1>3, <1>4
<1> QED
  BY <1>1, <1>3, <1>5


\* The sequence in a list is the walk along it: a function with the members and then
\* Null solves the recursion of Node, and nothing else does.
LEMMA WalkIsSequence ==
    ASSUME LinkInv, NEW l \in Lists, NEW s \in Seq(Nodes), Represents(l, s)
    PROVE  /\ \A k \in Nat \ {0} : Node(l)[k] = IF k <= Len(s) THEN s[k] ELSE Null
           /\ Walk(l) = s
<1> USE ListLinksAssumption
<1>1. /\ Len(s) \in Nat
      /\ \A i \in 1 .. Len(s) : s[i] \in Nodes
      /\ s = <<>> <=> Len(s) = 0
      /\ head[l] = IF Len(s) = 0 THEN Null ELSE s[1]
      /\ \A i \in 1 .. Len(s) : next[s[i]] = IF i = Len(s) THEN Null ELSE s[i + 1]
      /\ size[l] = Len(s)
  BY Members DEF Represents
<1> DEFINE m == Len(s)
           Rec(f) == [k \in Nat \ {0} |->
                        IF k = 1 THEN head[l]
                        ELSE IF f[k - 1] = Null THEN Null ELSE next[f[k - 1]]]
           g == [k \in Nat \ {0} |-> IF k <= m THEN s[k] ELSE Null]
<1> HIDE DEF m
<1>2. g = Rec(g)
  <2>1. SUFFICES ASSUME NEW k \in Nat \ {0} PROVE g[k] = Rec(g)[k]
    OBVIOUS
  <2>2. CASE k = 1
    BY <1>1, <2>2 DEF m
  <2>3. CASE k # 1
    <3>1. k - 1 \in Nat \ {0} /\ (k - 1) + 1 = k /\ Rec(g)[k] = IF g[k - 1] = Null THEN Null ELSE next[g[k - 1]]
      BY <2>1, <2>3
    <3>2. g[k - 1] = IF k - 1 <= m THEN s[k - 1] ELSE Null
      BY <3>1
    <3>3. CASE k - 1 <= m
      <4>1. k - 1 \in 1 .. m /\ (k - 1 = m <=> ~(k <= m))
        BY <1>1, <3>1, <3>3 DEF m
      <4>2. s[k - 1] # Null /\ next[s[k - 1]] = IF k - 1 = m THEN Null ELSE s[k]
        BY <1>1, <3>1, <4>1 DEF m
      <4>3. QED
        BY <3>1, <3>2, <3>3, <4>1, <4>2
    <3>4. CASE ~(k - 1 <= m)
      <4>1. ~(k <= m)
        BY <1>1, <2>1, <3>4 DEF m
      <4>2. QED
        BY <3>1, <3>2, <3>4, <4>1
    <3>5. QED
      BY <3>3, <3>4
  <2>4. QED
    BY <2>2, <2>3
<1> DEFINE at == CHOOSE f : f = Rec(f)
<1>3. at = Rec(at)
  <2> HIDE DEF g, Rec
  <2>1. QED
    BY <1>2
<1>4. Node(l) = at
  BY DEF Node
<1> HIDE DEF g
<1>5. \A k \in Nat \ {0} : at[k] = g[k]
  <2> DEFINE T == {k \in Nat : k > 0 => at[k] = g[k]}
  <2>1. 0 \in T
    OBVIOUS
  <2>2. ASSUME NEW k \in Nat, k \in T PROVE k + 1 \in T
    <3>1. k + 1 \in Nat \ {0} /\ (k + 1) - 1 = k
      OBVIOUS
    <3>2. /\ at[k + 1] = Rec(at)[k + 1]
          /\ g[k + 1] = Rec(g)[k + 1]
      BY <1>2, <1>3
    <3>3. CASE k = 0
      BY <3>1, <3>2, <3>3
    <3>4. CASE k # 0
      <4>1. at[k] = g[k] /\ k + 1 # 1
        BY <2>2, <3>4
      <4>2. QED
        BY <3>1, <3>2, <4>1
    <3>5. QED
      BY <3>3, <3>4
  <2> HIDE DEF T
  <2>3. Nat \subseteq T
    BY <2>1, <2>2, NatSetInduction
  <2>4. QED
    BY <2>3 DEF T
<1>6. \A k \in Nat \ {0} : Node(l)[k] = IF k <= m THEN s[k] ELSE Null
  BY <1>4, <1>5 DEF g
<1>7. Walk(l) = s
  <2>1. Walk(l) = [k \in 1 .. m |-> Node(l)[k]]
    BY <1>1 DEF Walk, m
  <2>2. \A k \in 1 .. m : Node(l)[k] = s[k]
    BY <1>1, <1>6 DEF m
  <2>3. s = [k \in 1 .. m |-> s[k]]
    BY DEF m
  <2>4. QED
    BY <2>1, <2>2, <2>3
<1>8. QED
  BY <1>6, <1>7 DEF m


\* The same one step later.
LEMMA WalkIsSequenceNext ==
    ASSUME NEW l \in Lists, NEW s \in Seq(Nodes)
    PROVE  (LinkInv /\ Represents(l, s) => Walk(l) = s)'
<1>1. LinkInv /\ Represents(l, s) => Walk(l) = s
  BY WalkIsSequence
<1>2. QED
  BY <1>1, PTL

\* A list has as many nodes as it counts, and no more than there are.
LEMMA SequencesAreShort ==
    ASSUME LinkInv, NEW l \in Lists, NEW s \in Seq(Nodes), Represents(l, s)
    PROVE  Len(s) <= MaxTasks
<1>1. Len(s) = Cardinality(Held(l))
  BY DEF Represents, LinkInv, Counted
<1>2. Held(l) \in SUBSET Nodes
  BY DEF Held
<1>3. /\ Cardinality(Held(l)) <= Cardinality(Nodes)
      /\ Cardinality(Held(l)) \in Nat /\ Cardinality(Nodes) \in Nat
  BY <1>2, ListLinksAssumption, FS_Subset, FS_CardinalityType
<1>4. QED
  BY <1>1, <1>3, ListLinksAssumption

\* Empty lists are the empty sequence.
LEMMA ChainInvInit == ListInit => ChainInv
<1>1. SUFFICES ASSUME ListInit PROVE ChainInv
  OBVIOUS
<1>2. \A l \in Lists : Represents(l, <<>>)
  BY <1>1, ListLinksAssumption DEF ListInit, Represents
<1>3. Sequenced
  <2>1. <<>> \in Seq(Nodes)
    OBVIOUS
  <2>2. QED
    BY <1>2, <2>1 DEF Sequenced
<1>4. LoosePointNowhere
  BY <1>1 DEF ListInit, LoosePointNowhere
<1>5. QED
  BY <1>1, <1>3, <1>4, LinkInvInit DEF ChainInv

\* Whom an operation unlinks it leaves pointing nowhere.
LEMMA LooseStay == ChainInv /\ ListNext => LoosePointNowhere'
<1>1. SUFFICES ASSUME ChainInv, ListNext PROVE LoosePointNowhere'
  OBVIOUS
<1> USE ListLinksAssumption
<1>2. LinkInv /\ LinkTypes /\ NeighboursAgree /\ EndsAgree /\ FlagsAgree /\ LoosePointNowhere
  BY <1>1 DEF ChainInv, LinkInv
<1>3. CASE \E l \in Lists, n \in Nodes : ListPushBack(l, n)
  <2>1. PICK l \in Lists, n \in Nodes : ListPushBack(l, n)
    BY <1>3
  <2>2. tail[l] # Null => tail[l] \in Nodes /\ linked[tail[l]]
    BY <1>2 DEF LinkTypes, EndsAgree, FlagsAgree
  <2>3. QED
    BY <1>2, <2>1, <2>2 DEF LinkTypes, LoosePointNowhere, ListPushBack
<1>4. ASSUME NEW l \in Lists, NEW n \in Nodes, ListRemove(l, n)
      PROVE  LoosePointNowhere'
  <2>1. /\ previous[n] # Null => previous[n] \in Nodes /\ linked[previous[n]] /\ previous[n] # n
        /\ next[n] # Null => next[n] \in Nodes /\ linked[next[n]] /\ next[n] # n
    <3>1. PICK s \in Seq(Nodes) : Represents(l, s)
      BY <1>1 DEF ChainInv, Sequenced
    <3>2. PICK i \in 1 .. Len(s) : s[i] = n
      BY <1>2, <1>4, <3>1, Members DEF ListRemove
    <3>3. /\ previous[n] = IF i = 1 THEN Null ELSE s[i - 1]
          /\ next[n] = IF i = Len(s) THEN Null ELSE s[i + 1]
      BY <3>1, <3>2 DEF Represents
    <3>4. /\ i # 1 => i - 1 \in 1 .. Len(s) /\ i - 1 # i
          /\ i # Len(s) => i + 1 \in 1 .. Len(s) /\ i + 1 # i
      OBVIOUS
    <3>5. /\ \A j \in 1 .. Len(s) : s[j] \in Nodes /\ linked[s[j]]
          /\ \A j, k \in 1 .. Len(s) : s[j] = s[k] => j = k
      BY <1>2, <3>1, Members
    <3>6. QED
      BY <3>2, <3>3, <3>4, <3>5
  <2>2. QED
    BY <1>2, <1>4, <2>1 DEF LinkTypes, LoosePointNowhere, ListRemove, Unlinked
<1>5. CASE \E l \in Lists, n \in Nodes : ListRemove(l, n)
  BY <1>4, <1>5
<1>6. CASE \E l \in Lists, position, n \in Nodes : ListInsertBefore(l, position, n)
  <2>1. PICK l \in Lists, position \in Nodes, n \in Nodes : ListInsertBefore(l, position, n)
    BY <1>6
  <2>2. previous[position] # Null => previous[position] \in Nodes /\ linked[previous[position]]
    BY <1>2, <2>1 DEF LinkTypes, NeighboursAgree, FlagsAgree, ListInsertBefore
  <2>3. QED
    BY <1>2, <2>1, <2>2 DEF LinkTypes, LoosePointNowhere, ListInsertBefore
<1>7. CASE \E l \in Lists : ListPopFront(l)
  BY <1>2, <1>4, <1>7, PopFrontRemoves
<1>8. QED
  BY <1>1, <1>3, <1>5, <1>6, <1>7 DEF ListNext

\* Every step keeps the lists sequences.
LEMMA ChainInvStep == ChainInv /\ [ListNext]_linkVars => ChainInv'
<1>1. SUFFICES ASSUME ChainInv, [ListNext]_linkVars PROVE ChainInv'
  OBVIOUS
<1>2. LinkInv'
  BY <1>1, LinkInvStep DEF ChainInv
<1>3. CASE ListNext
  <2>1. PICK l \in Lists : StepOf(l)
    BY <1>1, <1>3, SomeStep DEF ChainInv
  <2>2. ASSUME NEW k \in Lists
        PROVE  \E t \in Seq(Nodes) : Represents(k, t)'
    <3>1. PICK s \in Seq(Nodes) : Represents(k, s)
      BY <1>1 DEF ChainInv, Sequenced
    <3>2. QED
      BY <2>1, <3>1 DEF StepOf
  <2>3. Sequenced'
    BY <2>2 DEF Sequenced
  <2>4. QED
    BY <1>1, <1>2, <1>3, <2>3, LooseStay DEF ChainInv
<1>4. CASE UNCHANGED linkVars
  <2>1. Sequenced'
    BY <1>1, <1>4 DEF ChainInv, Sequenced, Represents, linkVars
  <2>2. LoosePointNowhere'
    BY <1>1, <1>4 DEF ChainInv, LoosePointNowhere, linkVars
  <2>3. QED
    BY <1>2, <2>1, <2>2 DEF ChainInv
<1>5. QED
  BY <1>1, <1>3, <1>4

\* So it holds in every state.
LEMMA AlwaysChained == ListSpec => []ChainInv
  BY ChainInvInit, ChainInvStep, PTL DEF ListSpec

\* For any nodes and lists, each list read forwards, backwards and by its callers is
\* one and the same sequence (no ring beside it, no node twice), and a node on no list
\* points nowhere.
THEOREM ListsReadBothWays == ListSpec => []LinksRepresent
<1>1. ChainInv => LinksRepresent
  <2>1. SUFFICES ASSUME ChainInv PROVE LinksRepresent
    OBVIOUS
  <2>2. ASSUME NEW l \in Lists PROVE Represents(l, Walk(l))
    <3>1. PICK s \in Seq(Nodes) : Represents(l, s)
      BY <2>1 DEF ChainInv, Sequenced
    <3>2. Walk(l) = s
      BY <2>1, <3>1, WalkIsSequence DEF ChainInv
    <3>3. QED
      BY <3>1, <3>2
  <2>3. QED
    BY <2>1, <2>2 DEF LinksRepresent, ChainInv, LinkInv, FlagsAgree, LoosePointNowhere
<1>2. QED
  BY <1>1, AlwaysChained, PTL

\* os_ListContains answers for every list and node what the node's holder says: its
\* bound of OS_MAX_TASKS + 1 looks never cuts a list short.
THEOREM SearchIsExact == ListSpec => []ContainsExact
<1>1. ChainInv => ContainsExact
  <2>1. SUFFICES ASSUME ChainInv, NEW l \in Lists, NEW n \in Nodes
                 PROVE  ListContains(l, n) <=> holder[n] = l
    BY DEF ContainsExact
  <2>2. PICK s \in Seq(Nodes) : Represents(l, s)
    BY <2>1 DEF ChainInv, Sequenced
  <2>3. LinkInv
    BY <2>1 DEF ChainInv
  <2>4. \A k \in Nat \ {0} : Node(l)[k] = IF k <= Len(s) THEN s[k] ELSE Null
    BY <2>2, <2>3, WalkIsSequence
  <2>5. Len(s) \in Nat /\ Len(s) <= MaxTasks /\ MaxTasks \in Nat
    BY <2>2, <2>3, SequencesAreShort, ListLinksAssumption
  <2>6. holder[n] = l <=> \E i \in 1 .. Len(s) : s[i] = n
    BY <2>2 DEF Represents
  <2>7. ASSUME NEW k \in 1 .. MaxTasks + 1, Node(l)[k] = n
        PROVE  \E i \in 1 .. Len(s) : s[i] = n
    <3>1. k \in Nat \ {0} /\ n # Null
      BY <2>5, ListLinksAssumption
    <3>2. k <= Len(s) /\ s[k] = n
      BY <2>4, <2>7, <3>1
    <3>3. k \in 1 .. Len(s)
      BY <2>5, <3>2
    <3>4. QED
      BY <3>2, <3>3
  <2>8. ASSUME NEW i \in 1 .. Len(s), s[i] = n
        PROVE  \E k \in 1 .. MaxTasks + 1 : Node(l)[k] = n
    <3>1. i \in 1 .. MaxTasks + 1 /\ i \in Nat \ {0} /\ i <= Len(s)
      BY <2>5
    <3>2. QED
      BY <2>4, <2>8, <3>1
  <2>9. QED
    BY <2>6, <2>7, <2>8 DEF ListContains
<1>2. QED
  BY <1>1, AlwaysChained, PTL

\* One step of the links is one step of the sequences, or none.
LEMMA StepsAreSequenceSteps ==
    ASSUME ChainInv, ListNext, LinkInv'
    PROVE  \/ Order!OrderNext
           \/ [l \in Lists |-> Walk(l)]' = [l \in Lists |-> Walk(l)]
<1> DEFINE order == [k \in Lists |-> Walk(k)]
<1>1. LinkInv
  BY DEF ChainInv
<1>2. PICK l \in Lists : StepOf(l)
  BY <1>1, SomeStep
<1>3. PICK s \in Seq(Nodes) : Represents(l, s)
  BY DEF ChainInv, Sequenced
<1>4. PICK t \in Seq(Nodes) : Changed(l, s, t) /\ Represents(l, t)'
  BY <1>2, <1>3 DEF StepOf
<1>5. Walk(l) = s /\ Walk(l)' = t
  BY <1>1, <1>3, <1>4, WalkIsSequence, WalkIsSequenceNext
<1>6. ASSUME NEW k \in Lists, k # l
      PROVE  Walk(k)' = Walk(k)
  <2>1. PICK r \in Seq(Nodes) : Represents(k, r)
    BY DEF ChainInv, Sequenced
  <2>2. Represents(k, r)'
    BY <1>2, <1>6, <2>1 DEF StepOf
  <2>3. QED
    BY <1>1, <2>1, <2>2, WalkIsSequence, WalkIsSequenceNext
<1>7. order' = [order EXCEPT ![l] = t]
  BY <1>5, <1>6
<1>8. order[l] = s
  BY <1>5
<1>9. ASSUME NEW n \in Nodes, holder[n] = Null
      PROVE  n \in Order!Unlisted
  <2>1. ASSUME NEW k \in Lists
        PROVE  n \notin Order!Listed(k)
    <3>1. PICK r \in Seq(Nodes) : Represents(k, r)
      BY DEF ChainInv, Sequenced
    <3>2. order[k] = r
      BY <1>1, <3>1, WalkIsSequence
    <3>3. \A i \in 1 .. Len(r) : r[i] # n
      BY <1>1, <1>9, <3>1, Members, ListLinksAssumption
    <3>4. DOMAIN r = 1 .. Len(r)
      OBVIOUS
    <3> HIDE DEF order
    <3>5. n \notin {order[k][i] : i \in DOMAIN order[k]}
      BY <3>2, <3>3, <3>4
    <3>6. QED
      BY <3>5 DEF Order!Listed, order
  <2>2. QED
    BY <2>1 DEF Order!Unlisted
<1>10. DOMAIN s = 1 .. Len(s)
  OBVIOUS
<1> HIDE DEF order
<1>11. CASE t = s
  <2>1. order' = order
    BY <1>7, <1>8, <1>11 DEF order
  <2>2. QED
    BY <2>1 DEF order
<1>12. CASE \E n \in Nodes : holder[n] = Null /\ t = Append(s, n)
  <2>1. PICK n \in Nodes : holder[n] = Null /\ t = Append(s, n)
    BY <1>12
  <2>2. n \in Order!Unlisted /\ order' = [order EXCEPT ![l] = Append(@, n)]
    BY <1>7, <1>8, <1>9, <2>1
  <2>3. Order!PushBackNode(l, n)
    BY <2>2 DEF Order!PushBackNode, order
  <2>4. QED
    BY <2>3 DEF Order!OrderNext
<1>13. CASE \E n \in Nodes, i \in 1 .. Len(s) : holder[n] = Null /\ t = Order!InsertAt(s, i, n)
  <2>1. PICK n \in Nodes, i \in 1 .. Len(s) : holder[n] = Null /\ t = Order!InsertAt(s, i, n)
    BY <1>13
  <2>2. /\ n \in Order!Unlisted /\ i \in DOMAIN order[l] /\ i \in 1 .. Len(order[l])
        /\ order' = [order EXCEPT ![l] = Order!InsertAt(@, i, n)]
    BY <1>7, <1>8, <1>9, <1>10, <2>1
  <2>3. Order!InsertNodeAt(l, i, n) /\ i \in 1 .. Len([k \in Lists |-> Walk(k)][l])
    BY <2>2 DEF Order!InsertNodeAt, order
  <2>4. QED
    BY <2>3 DEF Order!OrderNext
<1>14. CASE \E i \in 1 .. Len(s) : t = Order!RemoveAt(s, i)
  <2>1. PICK i \in 1 .. Len(s) : t = Order!RemoveAt(s, i)
    BY <1>14
  <2>2. /\ i \in DOMAIN order[l] /\ i \in 1 .. Len(order[l])
        /\ order' = [order EXCEPT ![l] = Order!RemoveAt(@, i)]
    BY <1>7, <1>8, <1>10, <2>1
  <2>3. Order!RemoveNodeAt(l, i) /\ i \in 1 .. Len([k \in Lists |-> Walk(k)][l])
    BY <2>2 DEF Order!RemoveNodeAt, order
  <2>4. QED
    BY <2>3 DEF Order!OrderNext
<1>15. QED
  BY <1>4, <1>11, <1>12, <1>13, <1>14 DEF Changed

\* The links of os_list.c implement lists that are sequences: the kernel's modules may
\* take a list for the sequence of its nodes.
THEOREM LinksAreSequences == ListSpec => ListsAreSequences
<1>1. ListInit => Order!OrderInit
  <2>1. SUFFICES ASSUME ListInit, NEW l \in Lists PROVE Walk(l) = <<>>
    BY DEF Order!OrderInit
  <2>2. LinkInv
    BY <2>1, LinkInvInit
  <2>3. Represents(l, <<>>)
    BY <2>1, ListLinksAssumption DEF ListInit, Represents
  <2>4. <<>> \in Seq(Nodes)
    OBVIOUS
  <2>5. QED
    BY <2>2, <2>3, <2>4, WalkIsSequence
<1>2. ChainInv /\ LinkInv' /\ [ListNext]_linkVars => [Order!OrderNext]_([l \in Lists |-> Walk(l)])
  <2>1. SUFFICES ASSUME ChainInv, LinkInv', [ListNext]_linkVars
                 PROVE  [Order!OrderNext]_([l \in Lists |-> Walk(l)])
    OBVIOUS
  <2>2. CASE ListNext
    BY <2>1, <2>2, StepsAreSequenceSteps
  <2>3. CASE UNCHANGED linkVars
    <3>1. ASSUME NEW l \in Lists PROVE Walk(l)' = Walk(l)
      BY <2>3 DEF linkVars, Walk, Node
    <3>2. QED
      BY <3>1
  <2>4. QED
    BY <2>1, <2>2, <2>3
<1>3. ChainInv => LinkInv
  BY DEF ChainInv
<1>4. QED
  BY <1>1, <1>2, <1>3, AlwaysChained, PTL DEF ListSpec, ListsAreSequences, Order!OrderSpec
===============================================================================
