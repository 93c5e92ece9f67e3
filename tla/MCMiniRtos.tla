------------------------------ MODULE MCMiniRtos ------------------------------
(* Small instances of MiniRtos for TLC; task ids are creation order, Idle last. *)
EXTENDS MiniRtos

\* Base priorities of the tasks of each instance.
AsTasks(seq) == [t \in Tasks |-> seq[t + 1]]
EqualsHighIdle == AsTasks(<<1, 1, 2, 0>>)
LowMidHighIdle == AsTasks(<<1, 2, 3, 0>>)
TwoEqualsIdle == AsTasks(<<1, 1, 0>>)
LowEqualsIdle == AsTasks(<<1, 2, 2, 0>>)

SemMaximum == [s \in Semaphores |-> 1]
SemInitial == [s \in Semaphores |-> 0]
QueueCapacity == [q \in Queues |-> 2]
===============================================================================
