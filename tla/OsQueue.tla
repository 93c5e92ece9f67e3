-------------------------------- MODULE OsQueue --------------------------------
(***************************************************************************)
(* os_queue.c: bounded message queues over a ring of slots.  A send hands  *)
(* its message to a waiting receiver; a receive refills the slot it frees  *)
(* with the message of a waiting sender.  A blocked task's buffer stays in *)
(* the task's memory and is read or written by whoever wakes it.           *)
(***************************************************************************)
EXTENDS OsTime

CONSTANTS Capacity,       \* capacity of each queue
          Messages        \* the message values tasks send

VARIABLES ring,           \* head, tail, count and slots of each queue
          buffer          \* the memory each task's last item pointer refers to

ASSUME OsQueueAssumption == Capacity \in [Queues -> Nat \ {0}]

NoMessage == "none"       \* what a slot or a buffer holds before its first copy
Slots(q) == 0 .. Capacity[q] - 1
Ring(q) == [head : Slots(q), tail : Slots(q), count : 0 .. Capacity[q],
            slots : [Slots(q) -> Messages \cup {NoMessage}]]
EmptyRing(q) == [head |-> 0, tail |-> 0, count |-> 0, slots |-> [i \in Slots(q) |-> NoMessage]]

\* Mutant: the tail runs off the end of the storage.
PutNoWrap(r, q, message) ==
    [r EXCEPT !.slots[r.tail] = message, !.tail = @ + 1, !.count = @ + 1]

\* Mutant: the message goes where the next one will be read.
PutAtHead(r, q, message) ==
    [r EXCEPT !.slots[r.head] = message, !.tail = (@ + 1) % Capacity[q], !.count = @ + 1]

Put(r, q, message) ==
    [r EXCEPT !.slots[r.tail] = message,
              !.tail = (@ + 1) % Capacity[q],
              !.count = @ + 1]

TakeHead(r, q) == [r EXCEPT !.head = (@ + 1) % Capacity[q], !.count = @ - 1]

\* os_QueueSendCurrent, of a message in the caller's buffer.
QueueSend(q, message, timeout) ==
    LET t == kernel.current
        receiver == WaitHead(kernel, ReceiveWaiters(q))
        k == SetResult(WaitPop(kernel, ReceiveWaiters(q)), t, "OK")
        own == [buffer EXCEPT ![t] = message]
    IN /\ CurrentRuns(kernel)
       /\ \/ /\ receiver # NoTask
             /\ buffer' = [own EXCEPT ![receiver] = message]
             /\ kernel' = WaitMaybePreempt(WaitMakeReady(k, receiver, "OK"), receiver)
             /\ UNCHANGED ring
          \/ /\ receiver = NoTask
             /\ ring[q].count < Capacity[q]
             /\ ring' = [ring EXCEPT ![q] = Put(@, q, message)]
             /\ buffer' = own
             /\ kernel' = k
          \/ /\ receiver = NoTask
             /\ ring[q].count >= Capacity[q]
             /\ timeout = 0
             /\ buffer' = own
             /\ kernel' = SetResult(kernel, t, "TIMEOUT")
             /\ UNCHANGED ring
          \/ /\ receiver = NoTask
             /\ ring[q].count >= Capacity[q]
             /\ timeout # 0
             /\ buffer' = own
             /\ kernel' = WaitBlockCurrent(kernel, SendWaiters(q), timeout)
             /\ UNCHANGED ring

\* Mutant: the freed slot is not offered to a waiting sender.
QueueReceiveNoRefill(q, timeout) ==
    LET t == kernel.current IN
    /\ CurrentRuns(kernel)
    /\ \/ /\ ring[q].count > 0
          /\ buffer' = [buffer EXCEPT ![t] = ring[q].slots[ring[q].head]]
          /\ ring' = [ring EXCEPT ![q] = TakeHead(@, q)]
          /\ kernel' = SetResult(kernel, t, "OK")
       \/ /\ ring[q].count = 0 /\ timeout # 0
          /\ kernel' = WaitBlockCurrent(kernel, ReceiveWaiters(q), timeout)
          /\ UNCHANGED <<ring, buffer>>

\* os_QueueReceiveCurrent, into the caller's buffer.
QueueReceive(q, timeout) ==
    LET t == kernel.current
        sender == WaitHead(kernel, SendWaiters(q))
        taken == TakeHead(ring[q], q)
        k == SetResult(WaitPop(kernel, SendWaiters(q)), t, "OK")
    IN /\ CurrentRuns(kernel)
       /\ \/ /\ ring[q].count > 0
             /\ buffer' = [buffer EXCEPT ![t] = ring[q].slots[ring[q].head]]
             /\ \/ /\ sender # NoTask
                   /\ ring' = [ring EXCEPT ![q] = Put(taken, q, buffer[sender])]
                   /\ kernel' = WaitMaybePreempt(WaitMakeReady(k, sender, "OK"), sender)
                \/ /\ sender = NoTask
                   /\ ring' = [ring EXCEPT ![q] = taken]
                   /\ kernel' = k
          \/ /\ ring[q].count = 0
             /\ timeout = 0
             /\ kernel' = SetResult(kernel, t, "TIMEOUT")
             /\ UNCHANGED <<ring, buffer>>
          \/ /\ ring[q].count = 0
             /\ timeout # 0
             /\ kernel' = WaitBlockCurrent(kernel, ReceiveWaiters(q), timeout)
             /\ UNCHANGED <<ring, buffer>>
===============================================================================
