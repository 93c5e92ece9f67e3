------------------------------- MODULE NodeLists -------------------------------
(***************************************************************************)
(* What os_list.c promises the kernel: lists are sequences of distinct     *)
(* nodes, no node is on two of them, and each operation changes the order  *)
(* of one list at one place.  ListLinks shows that the links keep this.    *)
(***************************************************************************)
EXTENDS Naturals, SequencesExt

CONSTANTS Nodes, Lists

VARIABLE order      \* the nodes of each list, from head to tail

Listed(l) == {order[l][i] : i \in DOMAIN order[l]}
Unlisted == {n \in Nodes : \A l \in Lists : n \notin Listed(l)}

OrderInit == order = [l \in Lists |-> <<>>]

PushBackNode(l, n) == n \in Unlisted /\ order' = [order EXCEPT ![l] = Append(@, n)]

InsertNodeAt(l, i, n) ==
    n \in Unlisted /\ i \in DOMAIN order[l] /\ order' = [order EXCEPT ![l] = InsertAt(@, i, n)]

RemoveNodeAt(l, i) ==
    i \in DOMAIN order[l] /\ order' = [order EXCEPT ![l] = RemoveAt(@, i)]

\* os_ListPopFront is the removal of the first node.
OrderNext ==
    \E l \in Lists :
        \/ \E n \in Nodes : PushBackNode(l, n)
        \/ \E n \in Nodes, i \in 1 .. Len(order[l]) : InsertNodeAt(l, i, n)
        \/ \E i \in 1 .. Len(order[l]) : RemoveNodeAt(l, i)

OrderSpec == OrderInit /\ [][OrderNext]_order
===============================================================================
