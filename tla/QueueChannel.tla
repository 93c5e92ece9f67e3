----------------------------- MODULE QueueChannel -----------------------------
(***************************************************************************)
(* The kernel's queue 0 implements a Channel: the ring of slots is the     *)
(* FIFO, and the wait lists and the callers' results are its waiting       *)
(* clients and answers.  Tasks have one buffer and one result, so another  *)
(* object's calls use them too.                                            *)
(***************************************************************************)
EXTENDS MiniRtos

\* os_QueueSnapshot: the messages in the order they will be received.
QueueSnapshot(q) ==
    [i \in 1 .. ring[q].count |-> ring[q].slots[(ring[q].head + i - 1) % Capacity[q]]]

WaitersOn(l) == {t \in Tasks : kernel.waitOn[t] = l}

Abstract(q) == INSTANCE Channel WITH
    Clients   <- Tasks,
    Bound     <- Capacity[q],
    Values    <- Messages,
    Shared    <- SemCount + MutexCount + QueueCount > 1,
    inTransit <- QueueSnapshot(q),
    holding   <- buffer,
    offering  <- WaitersOn(SendWaiters(q)),
    wanting   <- WaitersOn(ReceiveWaiters(q)),
    answer    <- kernel.result

\* Messages are neither lost, duplicated nor reordered, whatever blocks, times
\* out or is preempted; each caller's status tells what became of its message.
QueueIsChannel == Abstract(0)!Init /\ [][Abstract(0)!Next]_(Abstract(0)!channelVars)
===============================================================================
