------------------------------- MODULE ListLinks -------------------------------
(***************************************************************************)
(* os_list.c as it is written: nodes with previous, next and linked, lists *)
(* with head, tail and size.  A node does not know its list: the caller    *)
(* has to name it, and remembers it in wait_list, in delay_list or by the  *)
(* priority; `holder' is that memory.  Every operation asserts part of     *)
(* what it needs.                                                          *)
(***************************************************************************)
EXTENDS Naturals, Sequences, FiniteSets

CONSTANTS
    Nodes,      \* the nodes embedded in the TCBs
    Lists,
    Null,       \* NULL
    MaxTasks    \* OS_MAX_TASKS, the bound of os_ListContains

VARIABLES
    previous, next, linked,     \* os_list_node_t
    head, tail, size,           \* os_list_t
    holder                      \* the list the caller will name for a node

linkVars == <<previous, next, linked, head, tail, size, holder>>

\* Every TCB has one node of each kind, and a list has nodes of one kind only.
ASSUME ListLinksAssumption ==
    /\ IsFiniteSet(Nodes) /\ Null \notin Nodes \cup Lists
    /\ MaxTasks \in Nat /\ Cardinality(Nodes) <= MaxTasks

\* os_ListInit on each list, and os_Init's nodes.
ListInit ==
    /\ previous = [n \in Nodes |-> Null] /\ next = [n \in Nodes |-> Null]
    /\ linked = [n \in Nodes |-> FALSE]
    /\ head = [l \in Lists |-> Null] /\ tail = [l \in Lists |-> Null]
    /\ size = [l \in Lists |-> 0]
    /\ holder = [n \in Nodes |-> Null]
-------------------------------------------------------------------------------
\* os_ListPushBack; its callers test `linked' first (os_ReadyEnqueue) or have
\* just taken the node off (os_WaitBlockCurrent, os_TimeDelayListInsert).
ListPushBack(l, n) ==
    /\ ~linked[n]
    /\ previous' = [previous EXCEPT ![n] = tail[l]]
    /\ next' = IF tail[l] # Null THEN [next EXCEPT ![n] = Null, ![tail[l]] = n]
               ELSE [next EXCEPT ![n] = Null]
    /\ head' = IF tail[l] # Null THEN head ELSE [head EXCEPT ![l] = n]
    /\ tail' = [tail EXCEPT ![l] = n]
    /\ linked' = [linked EXCEPT ![n] = TRUE]
    /\ size' = [size EXCEPT ![l] = @ + 1]
    /\ holder' = [holder EXCEPT ![n] = l]

\* Mutant: the position keeps its old predecessor.
ListInsertBeforeOneWay(l, position, n) ==
    /\ ~linked[n] /\ linked[position] /\ holder[position] = l
    /\ previous' = [previous EXCEPT ![n] = previous[position]]
    /\ next' = IF previous[position] # Null
               THEN [next EXCEPT ![n] = position, ![previous[position]] = n]
               ELSE [next EXCEPT ![n] = position]
    /\ head' = IF previous[position] # Null THEN head ELSE [head EXCEPT ![l] = n]
    /\ linked' = [linked EXCEPT ![n] = TRUE]
    /\ size' = [size EXCEPT ![l] = @ + 1]
    /\ holder' = [holder EXCEPT ![n] = l]
    /\ UNCHANGED tail

\* os_ListInsertBefore; its callers find `position' by walking the list.
ListInsertBefore(l, position, n) ==
    /\ ~linked[n] /\ linked[position] /\ holder[position] = l
    /\ previous' = [previous EXCEPT ![n] = previous[position], ![position] = n]
    /\ next' = IF previous[position] # Null
               THEN [next EXCEPT ![n] = position, ![previous[position]] = n]
               ELSE [next EXCEPT ![n] = position]
    /\ head' = IF previous[position] # Null THEN head ELSE [head EXCEPT ![l] = n]
    /\ linked' = [linked EXCEPT ![n] = TRUE]
    /\ size' = [size EXCEPT ![l] = @ + 1]
    /\ holder' = [holder EXCEPT ![n] = l]
    /\ UNCHANGED tail

\* The node is on its own again, in its fields and for its caller.
Unlinked(l, n) ==
    /\ linked' = [linked EXCEPT ![n] = FALSE]
    /\ size' = [size EXCEPT ![l] = @ - 1]
    /\ holder' = [holder EXCEPT ![n] = Null]

\* Mutant: the new first node still points back.
ListPopFrontPointsBack(l) ==
    LET n == head[l] IN
    /\ n # Null
    /\ head' = [head EXCEPT ![l] = next[n]]
    /\ tail' = IF next[n] # Null THEN tail ELSE [tail EXCEPT ![l] = Null]
    /\ previous' = [previous EXCEPT ![n] = Null]
    /\ next' = [next EXCEPT ![n] = Null]
    /\ Unlinked(l, n)

\* os_ListPopFront
ListPopFront(l) ==
    LET n == head[l] IN
    /\ n # Null
    /\ head' = [head EXCEPT ![l] = next[n]]
    /\ tail' = IF next[n] # Null THEN tail ELSE [tail EXCEPT ![l] = Null]
    /\ previous' = IF next[n] # Null THEN [previous EXCEPT ![n] = Null, ![next[n]] = Null]
                   ELSE [previous EXCEPT ![n] = Null]
    /\ next' = [next EXCEPT ![n] = Null]
    /\ Unlinked(l, n)

\* Mutant: a last node that is removed stays the tail.
ListRemoveKeepsTail(l, n) ==
    /\ linked[n] /\ holder[n] = l
    /\ next' = IF previous[n] # Null THEN [next EXCEPT ![previous[n]] = next[n], ![n] = Null]
               ELSE [next EXCEPT ![n] = Null]
    /\ head' = IF previous[n] # Null THEN head ELSE [head EXCEPT ![l] = next[n]]
    /\ previous' = IF next[n] # Null THEN [previous EXCEPT ![next[n]] = previous[n], ![n] = Null]
                   ELSE [previous EXCEPT ![n] = Null]
    /\ UNCHANGED tail
    /\ Unlinked(l, n)

\* os_ListRemove, of the list the caller remembers.
ListRemove(l, n) ==
    /\ linked[n] /\ holder[n] = l
    /\ next' = IF previous[n] # Null THEN [next EXCEPT ![previous[n]] = next[n], ![n] = Null]
               ELSE [next EXCEPT ![n] = Null]
    /\ head' = IF previous[n] # Null THEN head ELSE [head EXCEPT ![l] = next[n]]
    /\ previous' = IF next[n] # Null THEN [previous EXCEPT ![next[n]] = previous[n], ![n] = Null]
                   ELSE [previous EXCEPT ![n] = Null]
    /\ tail' = IF next[n] # Null THEN tail ELSE [tail EXCEPT ![l] = previous[n]]
    /\ Unlinked(l, n)

ListNext ==
    \E l \in Lists :
        \/ \E n \in Nodes : ListPushBack(l, n) \/ ListRemove(l, n)
        \/ \E position, n \in Nodes : ListInsertBefore(l, position, n)
        \/ ListPopFront(l)

ListSpec == ListInit /\ [][ListNext]_linkVars
-------------------------------------------------------------------------------
(* Walks *)

\* The k-th node from the head along `next', or Null behind the end.
Node(l) ==
    LET at[k \in Nat \ {0}] ==
            IF k = 1 THEN head[l]
            ELSE IF at[k - 1] = Null THEN Null ELSE next[at[k - 1]]
    IN at

\* Mutant: the walk gives up one node early.
ListContainsShort(l, n) == \E k \in 1 .. MaxTasks - 1 : Node(l)[k] = n

\* os_ListContains: at most OS_MAX_TASKS + 1 nodes are looked at.
ListContains(l, n) == \E k \in 1 .. MaxTasks + 1 : Node(l)[k] = n

Walk(l) == [k \in 1 .. size[l] |-> Node(l)[k]]
-------------------------------------------------------------------------------
(* Properties *)

\* The fields of a list and of its nodes say that the list is `s'.
Represents(l, s) ==
    /\ size[l] = Len(s)
    /\ head[l] = IF s = <<>> THEN Null ELSE s[1]
    /\ tail[l] = IF s = <<>> THEN Null ELSE s[Len(s)]
    /\ \A i \in 1 .. Len(s) :
          /\ previous[s[i]] = IF i = 1 THEN Null ELSE s[i - 1]
          /\ next[s[i]] = IF i = Len(s) THEN Null ELSE s[i + 1]
    /\ \A n \in Nodes : holder[n] = l <=> \E i \in 1 .. Len(s) : s[i] = n
    /\ \A i, j \in 1 .. Len(s) : s[i] = s[j] => i = j

\* Read forwards, backwards and by the callers, a list is the same sequence; a node on
\* no list says so and points nowhere.
LinksRepresent ==
    /\ \A l \in Lists : Represents(l, Walk(l))
    /\ \A n \in Nodes :
          /\ linked[n] <=> holder[n] # Null
          /\ ~linked[n] => previous[n] = Null /\ next[n] = Null

\* No assertion of os_list.c fails, whatever call comes next: a node without a
\* predecessor is the head of the list its caller names, one without a successor its
\* tail, and that list is not empty.
AssertsHold ==
    \A n \in Nodes : linked[n] =>
        LET l == holder[n] IN
        /\ size[l] > 0
        /\ previous[n] = Null => head[l] = n
        /\ next[n] = Null => tail[l] = n

\* os_ListContains, for all its bound, finds a node exactly on the list that holds it.
ContainsExact == \A l \in Lists, n \in Nodes : ListContains(l, n) <=> holder[n] = l

\* The links implement lists that are sequences of nodes.
Order == INSTANCE NodeLists WITH order <- [l \in Lists |-> Walk(l)]
ListsAreSequences == Order!OrderSpec
===============================================================================
